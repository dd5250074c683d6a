-------------------------- MODULE WebhookCaptures ---------------------------
(***************************************************************************)
(* Captured webhook requests: CaptureWebhook inserts and prunes in one     *)
(* transaction at READ COMMITTED, a client reads them with a cursor, and   *)
(* they are cleared by hand or with their endpoint.                        *)
(*                                                                         *)
(* Ids come from a sequence, which hands them out when the INSERT runs and *)
(* never takes one back; rows appear when their transaction commits.  A    *)
(* DELETE takes its snapshot first and its row locks next, as in           *)
(* TeamAccess.                                                             *)
(***************************************************************************)
EXTENDS Integers, FiniteSets

CONSTANTS
    Endpoint,
    Serial,     \* endpoints whose one caller waits for each answer
    Sender,     \* captures that may be under way at once
    Clearer,    \* handlers of DELETE /webhooks/{id}/captures
    Keep,       \* maxCapturesPerEndpoint
    MaxPage,    \* maxCapturePage
    MaxId,      \* bound on the sequence in an instance
    NoEndpoint

ASSUME CapturesAssumption ==
    /\ Keep \in Nat \ {0} /\ MaxPage \in Nat \ {0} /\ MaxId \in Nat
    /\ NoEndpoint \notin Endpoint /\ Serial \subseteq Endpoint
    /\ Sender \cap Clearer = {} /\ IsFiniteSet(Sender)

Handler == Sender \cup Clearer
Id == 1 .. MaxId

VARIABLES
    endpoints,  \* endpoints that exist
    captures,   \* committed captures of each endpoint, by id
    nextId,     \* the sequence
    pc, call,   \* handlers: next statement; endpoint, id and rows to delete
    cursor,     \* the last id a polling client has, per endpoint
    got,        \* what that client has been sent
    stored      \* history: every capture that has been committed

tables == <<endpoints, captures, nextId>>
client == <<cursor, got>>
vars == <<tables, pc, call, client, stored>>

NoCall == [endpoint |-> NoEndpoint, id |-> 0, seen |-> {}, del |-> {}]

TypeOK ==
    /\ endpoints \subseteq Endpoint
    /\ captures \in [Endpoint -> SUBSET Id]
    /\ \A e \in Endpoint \ endpoints : captures[e] = {}
    /\ nextId \in 1 .. MaxId + 1
    /\ pc \in [Handler -> {"idle", "insert", "prune", "clear", "wait", "commit"}]
    /\ call \in [Handler -> [endpoint : Endpoint \cup {NoEndpoint},
                             id : Id \cup {0},
                             seen : SUBSET Id, del : SUBSET Id]]
    /\ cursor \in [Endpoint -> Id \cup {0}]
    /\ got \in [Endpoint -> SUBSET Id]
    /\ stored \in [Endpoint -> SUBSET Id]

Init ==
    /\ endpoints = Endpoint
    /\ captures = [e \in Endpoint |-> {}]
    /\ nextId = 1
    /\ pc = [h \in Handler |-> "idle"]
    /\ call = [h \in Handler |-> NoCall]
    /\ cursor = [e \in Endpoint |-> 0]
    /\ got = [e \in Endpoint |-> {}]
    /\ stored = [e \in Endpoint |-> {}]

-----------------------------------------------------------------------------

Begin(h, e, label) ==
    /\ pc[h] = "idle"
    /\ e \in endpoints
    /\ call' = [call EXCEPT ![h].endpoint = e]
    /\ pc' = [pc EXCEPT ![h] = label]
    /\ UNCHANGED <<tables, client, stored>>

Goto(h, label) == pc' = [pc EXCEPT ![h] = label] /\ UNCHANGED <<client, stored>>

Fail(h) ==
    /\ Goto(h, "idle")
    /\ call' = [call EXCEPT ![h] = NoCall]
    /\ UNCHANGED <<endpoints, captures>>

\* A rollback does not give the id back.
Abort(h) == pc[h] # "idle" /\ Fail(h) /\ UNCHANGED nextId

\* The slug is known and the limiter and the body read let the request through.
handleCapture(h) ==
    \E e \in Endpoint :
        /\ e \in Serial => \A g \in Sender : call[g].endpoint # e
        /\ Begin(h, e, "insert")

handleClearCaptures(h) == \E e \in Endpoint : Begin(h, e, "clear")

\* An endpoint deleted since the lookup fails the foreign key.
InsertWebhookCapture(h) ==
    /\ pc[h] = "insert"
    /\ nextId <= MaxId
    /\ nextId' = nextId + 1
    /\ \/ /\ call[h].endpoint \in endpoints
          /\ call' = [call EXCEPT ![h].id = nextId]
          /\ Goto(h, "prune")
          /\ UNCHANGED <<endpoints, captures>>
       \/ call[h].endpoint \notin endpoints /\ Fail(h)

\* Mutants: the offset of the oldest capture kept is one too large, or too small.
OlderThanNewestPlus1(n, S) == {i \in S : Cardinality({j \in S : j > i}) >= n + 1}
OlderThanNewestMinus1(n, S) == {i \in S : Cardinality({j \in S : j > i}) >= n - 1}

\* The captures of S older than its newest n.
OlderThanNewest(n, S) == {i \in S : Cardinality({j \in S : j > i}) >= n}

\* The transaction sees its own row and the committed ones.
PruneWebhookCaptures(h) ==
    LET visible == captures[call[h].endpoint] \cup {call[h].id}
    IN  /\ pc[h] = "prune"
        /\ call' = [call EXCEPT ![h].seen = OlderThanNewest(Keep, visible)]
        /\ Goto(h, "wait")
        /\ UNCHANGED tables

DeleteWebhookCaptures(h) ==
    /\ pc[h] = "clear"
    /\ call' = [call EXCEPT ![h].seen = captures[call[h].endpoint]]
    /\ Goto(h, "wait")
    /\ UNCHANGED tables

LockDeleted(h) ==
    /\ pc[h] = "wait"
    /\ \A g \in Handler \ {h} : call[h].seen \cap call[g].del = {}
    /\ call' = [call EXCEPT ![h].del = call[h].seen, ![h].seen = {}]
    /\ Goto(h, "commit")
    /\ UNCHANGED tables

\* A DELETE waiting for these rows skips them once they are gone.
Forget(c, S) == [c EXCEPT !.seen = @ \ S]

Commit(h) ==
    LET c == call[h]
        new == IF h \in Sender THEN {c.id} ELSE {}
    IN  /\ pc[h] = "commit"
        /\ captures' = [captures EXCEPT ![c.endpoint] = (@ \cup new) \ c.del]
        /\ call' = [g \in Handler |->
                        IF g = h THEN NoCall ELSE Forget(call[g], c.del)]
        /\ stored' = [stored EXCEPT ![c.endpoint] = @ \cup new]
        /\ pc' = [pc EXCEPT ![h] = "idle"]
        /\ UNCHANGED <<endpoints, nextId, client>>

\* Waits for the foreign keys of uncommitted captures and for deleted rows.
DeleteWebhookEndpoint ==
    \E e \in endpoints :
        /\ \A h \in Handler : call[h].endpoint = e =>
                call[h].id = 0 /\ call[h].del = {}
        /\ endpoints' = endpoints \ {e}
        /\ captures' = [captures EXCEPT ![e] = {}]
        /\ call' = [h \in Handler |-> Forget(call[h], captures[e])]
        /\ UNCHANGED <<nextId, pc, client, stored>>

\* Mutant: the newest captures first.
handleListCapturesNewestFirst ==
    \E e \in endpoints, limit \in 1 .. MaxPage :
        LET newer == {i \in captures[e] : i > cursor[e]}
            page == {i \in newer : Cardinality({j \in newer : j > i}) < limit}
        IN  \E last \in page :
                /\ \A i \in page : i <= last
                /\ cursor' = [cursor EXCEPT ![e] = last]
                /\ got' = [got EXCEPT ![e] = @ \cup page]
                /\ UNCHANGED <<tables, pc, call, stored>>

\* The oldest `limit' captures after the cursor; the client appends them and
\* polls again from the last id it has.
handleListCaptures ==
    \E e \in endpoints, limit \in 1 .. MaxPage :
        LET newer == {i \in captures[e] : i > cursor[e]}
            page == {i \in newer : Cardinality({j \in newer : j < i}) < limit}
        IN  \E last \in page :
                /\ \A i \in page : i <= last
                /\ cursor' = [cursor EXCEPT ![e] = last]
                /\ got' = [got EXCEPT ![e] = @ \cup page]
                /\ UNCHANGED <<tables, pc, call, stored>>

Next ==
    \/ \E h \in Sender : handleCapture(h) \/ InsertWebhookCapture(h)
                         \/ PruneWebhookCaptures(h)
    \/ \E h \in Clearer : handleClearCaptures(h) \/ DeleteWebhookCaptures(h)
    \/ \E h \in Handler : LockDeleted(h) \/ Commit(h) \/ Abort(h)
    \/ DeleteWebhookEndpoint
    \/ handleListCaptures

Spec == Init /\ [][Next]_vars

-----------------------------------------------------------------------------

\* "Each endpoint keeps its newest 500 captures": exactly so where one caller
\* waits for each answer.  Concurrent captures, each blind to the others' rows,
\* leave at most one extra row for every other capture that may be under way.
OverflowIsBounded ==
    \A e \in Endpoint :
        Cardinality(captures[e]) <=
            Keep + (IF e \in Serial THEN 0 ELSE Cardinality(Sender) - 1)

\* Pruning never costs one of the newest: a capture that disappears was cleared,
\* went with its endpoint, or is not among the newest Keep ever stored.  (Some of
\* those may have been cleared: a clear can overtake a prune.)
NewestStay ==
    [][\A e \in Endpoint : \A i \in captures[e] \ captures'[e] :
          \/ e \notin endpoints'
          \/ \E h \in Clearer : pc[h] = "commit" /\ pc'[h] = "idle"
          \/ Cardinality({j \in stored'[e] : j > i}) >= Keep]_vars

Skipped(e) == {i \in captures[e] : i <= cursor[e]} \ got[e]

\* With one caller that waits for each answer, a client that polls from the last
\* id it has misses nothing of what is still there, although other endpoints draw
\* from the same sequence and rows are cleared, pruned and rolled back.
SerialNothingSkipped == \A e \in Serial : Skipped(e) = {}

\* "Monotonic, so it doubles as the polling cursor": the same for any callers.
NothingSkipped == \A e \in Endpoint : Skipped(e) = {}

-----------------------------------------------------------------------------
(* The invariant behind NewestStay, which the proofs show to be inductive. *)

\* What a call has read and written by the time it stands at statement l.
Shape(h, l, c) ==
    /\ IF l = "idle" THEN c = NoCall ELSE c.endpoint \in Endpoint
    /\ l \in {"insert", "prune"} => h \in Sender
    /\ l \in {"insert", "clear"} => c.id = 0
    /\ l = "clear" => h \in Clearer
    /\ l \in {"prune", "wait", "commit"} /\ h \in Sender => c.id \in Id
    /\ l # "wait" => c.seen = {}
    /\ l # "commit" => c.del = {}

CallShape == \A h \in Handler : Shape(h, pc[h], call[h])

\* The foreign key of what has been inserted still holds.
EndpointHeld == \A h \in Handler : call[h].id # 0 => call[h].endpoint \in endpoints

CapturesWereStored == \A e \in Endpoint : captures[e] \subseteq stored[e]

Newer(S, i) == {j \in S : j > i}

\* What a prune is about to delete has Keep newer captures, its own among them.
PrunesOldOnly ==
    \A h \in Sender : \A i \in call[h].seen \cup call[h].del :
        Cardinality(Newer(stored[call[h].endpoint] \cup {call[h].id}, i)) >= Keep

IInv == TypeOK /\ CallShape /\ EndpointHeld /\ CapturesWereStored /\ PrunesOldOnly

-----------------------------------------------------------------------------
(* What OverflowIsBounded and SerialNothingSkipped need besides.           *)

\* An id belongs to one capture of one endpoint, and a DELETE reaches captures of
\* its endpoint only.
IdsDrawnOnce ==
    /\ \A e \in Endpoint : /\ \A i \in stored[e] : i < nextId
                           /\ cursor[e] < nextId
                           /\ \A f \in Endpoint \ {e} : stored[e] \cap stored[f] = {}
    /\ \A h \in Handler :
          /\ call[h].id < nextId
          /\ \A g \in Handler \ {h} : call[g].id = call[h].id => call[h].id = 0
          /\ \A e \in Endpoint :
                /\ call[h].id \notin stored[e]
                /\ call[h].endpoint = e =>
                      call[h].seen \cup call[h].del \subseteq stored[e] \cup {call[h].id}

SerialAlone ==
    \A e \in Serial : \A g, h \in Sender :
        call[g].endpoint = e /\ call[h].endpoint = e => g = h

\* The captures of e whose prune has seen what it will delete.
Pruning(e) == {h \in Sender : call[h].endpoint = e /\ pc[h] \in {"wait", "commit"}}

\* What is left of e's captures once those of G have committed.
Left(e, G) ==
    (captures[e] \cup {call[h].id : h \in G})
        \ UNION {call[h].seen \cup call[h].del : h \in G}

Limit(e) == Keep + (IF e \in Serial THEN 0 ELSE Cardinality(Sender) - 1)

\* Whichever of the captures under way commit, in whatever order.
PrunesLeaveFew ==
    \A e \in Endpoint : \A G \in SUBSET Pruning(e) : Cardinality(Left(e, G)) <= Limit(e)

\* The one capture under way comes after all that the client may have.
SerialCursor ==
    \A e \in Serial :
        /\ Skipped(e) = {}
        /\ \A h \in Sender : call[h].endpoint = e /\ call[h].id # 0 =>
              /\ cursor[e] < call[h].id
              /\ \A i \in stored[e] : i < call[h].id

CountInv == IdsDrawnOnce /\ SerialAlone /\ PrunesLeaveFew /\ SerialCursor
=============================================================================
