--------------------------- MODULE AtomicEndpoints ---------------------------
(***************************************************************************)
(* What creating a webhook endpoint promises: at one instant a project     *)
(* that exists and is below its quota gets a slug that nobody has.         *)
(* WebhookEndpoints, where the lock, the count, the insert and the commit  *)
(* are statements among those of other calls, implements this.             *)
(***************************************************************************)
EXTENDS Integers, FiniteSets

CONSTANTS Project, Slug, MaxWebhooks, None

VARIABLES projects, owner

tables == <<projects, owner>>

Init == projects = Project /\ owner = [s \in Slug |-> None]

Create(p, s) ==
    /\ p \in projects
    /\ owner[s] = None
    /\ Cardinality({t \in Slug : owner[t] = p}) < MaxWebhooks
    /\ owner' = [owner EXCEPT ![s] = p]
    /\ UNCHANGED projects

Delete(s) ==
    /\ owner[s] # None
    /\ owner' = [owner EXCEPT ![s] = None]
    /\ UNCHANGED projects

DeleteProject(p) ==
    /\ p \in projects
    /\ projects' = projects \ {p}
    /\ owner' = [s \in Slug |-> IF owner[s] = p THEN None ELSE owner[s]]

Next ==
    \/ \E p \in Project, s \in Slug : Create(p, s)
    \/ \E s \in Slug : Delete(s)
    \/ \E p \in Project : DeleteProject(p)

Spec == Init /\ [][Next]_tables
=============================================================================
