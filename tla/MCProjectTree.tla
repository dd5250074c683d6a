---------------------------- MODULE MCProjectTree ----------------------------
(* Instances of ProjectTree for TLC. *)
EXTENDS ProjectTree, TLC

\* Folders, requests, projects and handlers are interchangeable.
Symmetry ==
    Permutations(Folder) \cup Permutations(Request)
        \cup Permutations(Project) \cup Permutations(Handler)
=============================================================================
