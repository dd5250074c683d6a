---------------------------- MODULE MCTeamAccess ----------------------------
EXTENDS TeamAccess, TLC

\* The projects belong to the team's owner.
OwnedByOwner == [p \in Project |-> Owner]

Symmetry ==
    Permutations(User \ {Owner}) \cup Permutations(Project)
        \cup Permutations(Replacers \ (Setters \cup Removers))
        \cup Permutations(Setters \ (Replacers \cup Removers))
        \cup Permutations(Removers \ (Replacers \cup Setters))
=============================================================================
