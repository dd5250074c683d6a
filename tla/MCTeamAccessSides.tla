-------------------------- MODULE MCTeamAccessSides --------------------------
(***************************************************************************)
(* The two ways to write access, one at a time: a behaviour has the        *)
(* handlers of one of them only, beside those that remove members.         *)
(***************************************************************************)
EXTENDS MCTeamAccess

VARIABLE acting

OneSideInit == Init /\ acting \in {Setters \cup Removers, Replacers \cup Removers}

OneSideNext ==
    /\ Next /\ UNCHANGED acting
    /\ \A h \in Handler \ acting : pc'[h] = "idle"

OneSideSpec == OneSideInit /\ [][OneSideNext]_<<vars, acting>>

\* As long as access is written from the member's side only, the lock on the
\* membership row makes a removal take all grants of the member with it: a grant
\* always has a member.
MemberSideGrants == acting \cap Replacers = {} => GrantsOnlyForMembers
=============================================================================
