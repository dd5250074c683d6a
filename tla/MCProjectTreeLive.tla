-------------------------- MODULE MCProjectTreeLive --------------------------
(***************************************************************************)
(* Instances of ProjectTree for liveness, where symmetry is not sound.     *)
(* Three rows and three kinds of client are enough for each way in which   *)
(* calls can wait for one another; `clients' says which kind a behaviour   *)
(* has.  The row that it does not use has been deleted before.             *)
(***************************************************************************)
EXTENDS ProjectTree

CONSTANTS
    SpareFolder,    \* the folder the clients of lists do not use
    SpareRequest    \* the request the clients of a tree do not use

VARIABLE clients

\* What the clients call.  A subtree of two folders and a request: a move inside
\* it meets a DELETE of it.  A folder of two requests: a DELETE of the folder, or
\* of a request, meets a reorder; and moves meet reorders.
Ops == [tree |-> {"create", "move", "delete", "deleteProject"},
        list |-> {"create", "reorder", "delete", "deleteProject"},
        order |-> {"create", "move", "reorder"}]

Spare == IF clients = "tree" THEN SpareRequest ELSE SpareFolder

LiveInit ==
    /\ clients \in DOMAIN Ops
    /\ projects = Project
    /\ row = [n \in Node |-> IF n = Spare THEN "deleted" ELSE "new"]
    /\ project = [n \in Node |-> Null]
    /\ parent = [n \in Node |-> Null]
    /\ order = [n \in Node |-> 0]
    /\ lock = [p \in Project |-> Null]
    /\ pc = [h \in Handler |-> "idle"]
    /\ call = [h \in Handler |-> NoCall]

LiveNext ==
    /\ Next
    /\ \A h \in Handler : call'[h].op \in Ops[clients] \cup {"none"}
    /\ UNCHANGED clients

\* The fairness of FairSpec.
LiveSpec ==
    /\ LiveInit
    /\ [][LiveNext]_<<vars, clients>>
    /\ WF_vars(DeadlockVictim)
    /\ \A h \in Handler : SF_vars(Advance(h))
=============================================================================
