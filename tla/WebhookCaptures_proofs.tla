---------------------- MODULE WebhookCaptures_proofs -----------------------
(***************************************************************************)
(* Pruning never costs an endpoint one of its newest captures, for any     *)
(* limit and any number of concurrent captures and clears.                 *)
(***************************************************************************)
EXTENDS WebhookCaptures, FiniteSetTheorems, WellFoundedInduction, TLAPS

USE CapturesAssumption

Labels == {"idle", "insert", "prune", "clear", "wait", "commit"}

Calls == [endpoint : Endpoint \cup {NoEndpoint}, id : Id \cup {0},
          seen : SUBSET Id, del : SUBSET Id]

LEMMA NoCallType == NoCall \in Calls /\ \A h : Shape(h, "idle", NoCall)
  BY DEF NoCall, Calls, Shape

\* Sets of ids are finite, and a larger one has no fewer newer ids.
LEMMA NewerGrows ==
    ASSUME NEW S \in SUBSET Id, NEW T \in SUBSET S, NEW i \in Id
    PROVE  /\ Cardinality(Newer(S, i)) \in Nat /\ Cardinality(Newer(T, i)) \in Nat
           /\ Cardinality(Newer(T, i)) <= Cardinality(Newer(S, i))
<1>1. IsFiniteSet(Id)
  BY FS_Interval DEF Id
<1>2. Newer(S, i) \subseteq Id /\ Newer(T, i) \subseteq Newer(S, i)
  BY DEF Newer
<1>3. IsFiniteSet(Newer(S, i))
  BY <1>1, <1>2, FS_Subset
<1>4. IsFiniteSet(Newer(T, i)) /\ Cardinality(Newer(T, i)) <= Cardinality(Newer(S, i))
  BY <1>2, <1>3, FS_Subset
<1> QED
  BY <1>3, <1>4, FS_CardinalityType

-----------------------------------------------------------------------------

LEMMA InitOK == Init => IInv
<1> SUFFICES ASSUME Init PROVE IInv
  OBVIOUS
<1>1. \A h \in Handler : pc[h] = "idle" /\ call[h] = NoCall
  BY DEF Init
<1>2. TypeOK
  BY NoCallType DEF Init, TypeOK, Calls, Id
<1>3. CallShape
  BY <1>1, NoCallType DEF CallShape
<1>4. EndpointHeld /\ CapturesWereStored /\ PrunesOldOnly
  BY <1>1 DEF Init, EndpointHeld, CapturesWereStored, PrunesOldOnly, NoCall, Handler
<1> QED
  BY <1>2, <1>3, <1>4 DEF IInv

\* A statement that leaves the captures alone moves one call to a place where its
\* record fits.
LEMMA LocalStep ==
    ASSUME IInv, NEW h \in Handler, NEW l \in Labels, NEW c \in Calls,
           UNCHANGED <<endpoints, captures, stored>>,
           nextId' \in 1 .. MaxId + 1,
           cursor' \in [Endpoint -> Id \cup {0}], got' \in [Endpoint -> SUBSET Id],
           pc' = [pc EXCEPT ![h] = l], call' = [call EXCEPT ![h] = c],
           Shape(h, l, c), c.id # 0 => c.endpoint \in endpoints,
           h \in Sender => \A i \in c.seen \cup c.del :
               Cardinality(Newer(stored[c.endpoint] \cup {c.id}, i)) >= Keep
    PROVE  IInv'
<1>1. /\ pc'[h] = l /\ call'[h] = c
      /\ \A g \in Handler \ {h} : pc'[g] = pc[g] /\ call'[g] = call[g]
  BY DEF IInv, TypeOK
<1>2. TypeOK'
  BY DEF IInv, TypeOK, Labels, Calls, Id
<1>3. CallShape'
  <2> SUFFICES ASSUME NEW g \in Handler PROVE Shape(g, pc'[g], call'[g])
    BY DEF CallShape, Shape
  <2> QED
    BY <1>1 DEF IInv, CallShape
<1>4. EndpointHeld' /\ CapturesWereStored'
  BY <1>1 DEF IInv, EndpointHeld, CapturesWereStored
<1>5. PrunesOldOnly'
  <2> SUFFICES ASSUME NEW g \in Sender, NEW i \in call'[g].seen \cup call'[g].del
               PROVE  Cardinality(Newer(stored[call'[g].endpoint] \cup {call'[g].id}, i))
                        >= Keep
    BY DEF PrunesOldOnly, Newer
  <2>1. g \in Handler
    BY DEF Handler
  <2>2. CASE g = h
    BY <1>1, <2>2
  <2>3. CASE g # h
    BY <1>1, <2>1, <2>3 DEF IInv, PrunesOldOnly
  <2> QED
    BY <2>2, <2>3
<1> QED
  BY <1>2, <1>3, <1>4, <1>5 DEF IInv

LEMMA FailOK ==
    ASSUME IInv, NEW h \in Handler, Fail(h), nextId' \in 1 .. MaxId + 1
    PROVE  IInv'
<1>1. /\ NoCall \in Calls /\ Shape(h, "idle", NoCall) /\ "idle" \in Labels
      /\ NoCall.id = 0 /\ NoCall.seen \cup NoCall.del = {}
  BY NoCallType DEF Labels, NoCall
<1>2. /\ UNCHANGED <<endpoints, captures, stored, cursor, got>>
      /\ pc' = [pc EXCEPT ![h] = "idle"] /\ call' = [call EXCEPT ![h] = NoCall]
      /\ cursor' \in [Endpoint -> Id \cup {0}] /\ got' \in [Endpoint -> SUBSET Id]
  BY DEF Fail, Goto, client, IInv, TypeOK
<1> QED
  BY <1>1, <1>2, LocalStep

LEMMA BeginOK ==
    ASSUME IInv, NEW h \in Handler, NEW e \in Endpoint, NEW l \in {"insert", "clear"},
           Begin(h, e, l), IF l = "insert" THEN h \in Sender ELSE h \in Clearer
    PROVE  IInv'
<1> DEFINE c == [call[h] EXCEPT !.endpoint = e]
<1>1. call[h] = NoCall
  BY DEF Begin, IInv, CallShape, Shape
<1>2. /\ c \in Calls /\ c.endpoint = e /\ c.id = 0 /\ c.seen = {} /\ c.del = {}
  BY <1>1 DEF NoCall, Calls
<1>3. call' = [call EXCEPT ![h] = c]
  BY DEF Begin, IInv, TypeOK
<1> HIDE DEF c
<1>4. Shape(h, l, c)
  BY <1>2 DEF Shape
<1>5. /\ UNCHANGED <<endpoints, captures, nextId, stored, cursor, got>>
      /\ pc' = [pc EXCEPT ![h] = l] /\ l \in Labels
      /\ nextId' \in 1 .. MaxId + 1
      /\ cursor' \in [Endpoint -> Id \cup {0}] /\ got' \in [Endpoint -> SUBSET Id]
  BY DEF Begin, tables, client, Labels, IInv, TypeOK
<1> QED
  BY <1>2, <1>3, <1>4, <1>5, LocalStep

LEMMA InsertOK ==
    ASSUME IInv, NEW h \in Sender, InsertWebhookCapture(h)
    PROVE  IInv'
<1>1. h \in Handler /\ nextId' = nextId + 1 /\ nextId \in Id /\ nextId' \in 1 .. MaxId + 1
  BY DEF InsertWebhookCapture, Handler, IInv, TypeOK, Id
<1>2. CASE Fail(h)
  BY <1>1, <1>2, FailOK
<1>3. CASE /\ call[h].endpoint \in endpoints
           /\ call' = [call EXCEPT ![h].id = nextId]
           /\ Goto(h, "prune")
           /\ UNCHANGED <<endpoints, captures>>
  <2> DEFINE c == [call[h] EXCEPT !.id = nextId]
  <2>1. call[h] \in Calls /\ Shape(h, "insert", call[h])
    BY <1>1 DEF InsertWebhookCapture, IInv, TypeOK, Calls, CallShape
  <2>2. /\ c \in Calls /\ c.endpoint = call[h].endpoint /\ c.id = nextId
        /\ c.seen = call[h].seen /\ c.del = call[h].del
    BY <1>1, <2>1 DEF Calls
  <2>3. call' = [call EXCEPT ![h] = c]
    BY <1>1, <1>3 DEF IInv, TypeOK
  <2> HIDE DEF c
  <2>4. Shape(h, "prune", c) /\ c.seen \cup c.del = {}
    BY <1>1, <2>1, <2>2 DEF Shape
  <2>5. /\ UNCHANGED <<endpoints, captures, stored, cursor, got>> /\ "prune" \in Labels
        /\ pc' = [pc EXCEPT ![h] = "prune"]
        /\ cursor' \in [Endpoint -> Id \cup {0}] /\ got' \in [Endpoint -> SUBSET Id]
    BY <1>3 DEF Goto, client, Labels, IInv, TypeOK
  <2> QED
    BY <1>1, <1>3, <2>2, <2>3, <2>4, <2>5, LocalStep
<1> QED
  BY <1>2, <1>3 DEF InsertWebhookCapture

\* The snapshot of a DELETE; for a prune it holds old captures only.
LEMMA SnapshotOK ==
    ASSUME IInv, NEW h \in Handler, NEW S \in SUBSET Id,
           pc[h] \in {"prune", "clear"},
           call' = [call EXCEPT ![h].seen = S], Goto(h, "wait"), UNCHANGED tables,
           h \in Sender => \A i \in S :
              Cardinality(Newer(stored[call[h].endpoint] \cup {call[h].id}, i)) >= Keep
    PROVE  IInv'
<1> DEFINE c == [call[h] EXCEPT !.seen = S]
<1>1. call[h] \in Calls /\ Shape(h, pc[h], call[h])
      /\ (call[h].id # 0 => call[h].endpoint \in endpoints)
  BY DEF IInv, TypeOK, Calls, CallShape, EndpointHeld
<1>2. /\ c \in Calls /\ c.endpoint = call[h].endpoint /\ c.id = call[h].id
      /\ c.seen = S /\ c.del = call[h].del
  BY <1>1 DEF Calls
<1>3. call' = [call EXCEPT ![h] = c]
  BY DEF IInv, TypeOK
<1> HIDE DEF c
<1>4. Shape(h, "wait", c) /\ c.del = {}
  BY <1>1, <1>2 DEF Shape, Handler
<1>5. /\ UNCHANGED <<endpoints, captures, stored, cursor, got>> /\ "wait" \in Labels
      /\ pc' = [pc EXCEPT ![h] = "wait"] /\ nextId' \in 1 .. MaxId + 1
      /\ cursor' \in [Endpoint -> Id \cup {0}] /\ got' \in [Endpoint -> SUBSET Id]
  BY DEF Goto, tables, client, Labels, IInv, TypeOK
<1> QED
  BY <1>1, <1>2, <1>3, <1>4, <1>5, LocalStep

LEMMA PruneOK ==
    ASSUME IInv, NEW h \in Sender, PruneWebhookCaptures(h)
    PROVE  IInv'
<1> DEFINE e == call[h].endpoint
           visible == captures[e] \cup {call[h].id}
<1>1. h \in Handler /\ pc[h] = "prune" /\ Shape(h, "prune", call[h])
  BY DEF PruneWebhookCaptures, Handler, IInv, CallShape
<1>2. /\ e \in Endpoint /\ call[h].id \in Id
      /\ visible \subseteq stored[e] \cup {call[h].id}
      /\ stored[e] \cup {call[h].id} \subseteq Id
  BY <1>1 DEF Shape, IInv, CapturesWereStored, TypeOK
<1>3. ASSUME NEW i \in OlderThanNewest(Keep, visible)
      PROVE  /\ i \in Id
             /\ Cardinality(Newer(stored[e] \cup {call[h].id}, i)) >= Keep
  <2>1. i \in visible /\ i \in Id /\ Cardinality(Newer(visible, i)) >= Keep
    BY <1>2, <1>3 DEF OlderThanNewest, Newer
  <2> HIDE DEF visible
  <2> QED
    BY <1>2, <2>1, NewerGrows
<1>4. /\ call' = [call EXCEPT ![h].seen = OlderThanNewest(Keep, visible)]
      /\ Goto(h, "wait") /\ UNCHANGED tables
  BY DEF PruneWebhookCaptures
<1> HIDE DEF visible
<1> QED
  BY <1>1, <1>3, <1>4, SnapshotOK

LEMMA ClearOK ==
    ASSUME IInv, NEW h \in Clearer, DeleteWebhookCaptures(h)
    PROVE  IInv'
<1>1. h \in Handler /\ h \notin Sender /\ Shape(h, "clear", call[h]) /\ pc[h] = "clear"
  BY DEF Handler, DeleteWebhookCaptures, IInv, CallShape
<1>2. captures[call[h].endpoint] \in SUBSET Id
  BY <1>1 DEF Shape, IInv, TypeOK
<1> QED
  BY <1>1, <1>2, SnapshotOK DEF DeleteWebhookCaptures

LEMMA LockDeletedOK ==
    ASSUME IInv, NEW h \in Handler, LockDeleted(h)
    PROVE  IInv'
<1> DEFINE c == [call[h] EXCEPT !.del = call[h].seen, !.seen = {}]
<1>1. /\ call[h] \in Calls /\ Shape(h, "wait", call[h])
      /\ (call[h].id # 0 => call[h].endpoint \in endpoints)
  BY DEF LockDeleted, IInv, TypeOK, Calls, CallShape, EndpointHeld
<1>2. /\ c \in Calls /\ c.endpoint = call[h].endpoint /\ c.id = call[h].id
      /\ c.seen = {} /\ c.del = call[h].seen
  BY <1>1 DEF Calls
<1>3. call' = [call EXCEPT ![h] = c]
  BY DEF LockDeleted, IInv, TypeOK
<1> HIDE DEF c
<1>4. Shape(h, "commit", c)
  BY <1>1, <1>2 DEF Shape
<1>5. h \in Sender => \A i \in c.seen \cup c.del :
         Cardinality(Newer(stored[c.endpoint] \cup {c.id}, i)) >= Keep
  BY <1>2 DEF IInv, PrunesOldOnly
<1>6. /\ UNCHANGED <<endpoints, captures, stored, cursor, got>> /\ "commit" \in Labels
      /\ pc' = [pc EXCEPT ![h] = "commit"] /\ nextId' \in 1 .. MaxId + 1
      /\ cursor' \in [Endpoint -> Id \cup {0}] /\ got' \in [Endpoint -> SUBSET Id]
  BY DEF LockDeleted, Goto, tables, client, Labels, IInv, TypeOK
<1> QED
  BY <1>1, <1>2, <1>3, <1>4, <1>5, <1>6, LocalStep

-----------------------------------------------------------------------------
(* Steps that change the captures.                                         *)

\* A DELETE that skips rows somebody else has deleted keeps everything else.
LEMMA ForgetKeeps ==
    ASSUME NEW c \in Calls, NEW S
    PROVE  /\ Forget(c, S) \in Calls
           /\ Forget(c, S).endpoint = c.endpoint /\ Forget(c, S).id = c.id
           /\ Forget(c, S).del = c.del /\ Forget(c, S).seen = c.seen \ S
           /\ \A h, l : Shape(h, l, c) => Shape(h, l, Forget(c, S))
<1> DEFINE d == Forget(c, S)
<1>1. /\ d \in Calls /\ d.endpoint = c.endpoint /\ d.id = c.id
      /\ d.del = c.del /\ d.seen = c.seen \ S
  BY DEF Forget, Calls
<1>2. c = NoCall => d = NoCall
  <2>1. NoCall.seen = {} /\ NoCall.seen \ S = {}
    BY DEF NoCall
  <2>2. [c EXCEPT !.seen = c.seen] = c
    BY DEF Calls
  <2> QED
    BY <2>1, <2>2 DEF Forget
<1> HIDE DEF d
<1>3. ASSUME NEW h, NEW l, Shape(h, l, c) PROVE Shape(h, l, d)
  <2>1. c.seen = {} => d.seen = {}
    BY <1>1
  <2>2. IF l = "idle" THEN d = NoCall ELSE d.endpoint \in Endpoint
    BY <1>1, <1>2, <1>3 DEF Shape
  <2>3. /\ l \in {"insert", "prune"} => h \in Sender
        /\ l \in {"insert", "clear"} => d.id = 0
        /\ l = "clear" => h \in Clearer
        /\ l \in {"prune", "wait", "commit"} /\ h \in Sender => d.id \in Id
        /\ l # "wait" => d.seen = {}
        /\ l # "commit" => d.del = {}
    BY <1>1, <1>3, <2>1 DEF Shape
  <2> QED
    BY <2>2, <2>3 DEF Shape
<1>4. \A h, l : Shape(h, l, c) => Shape(h, l, d)
  BY <1>3, Zenon
<1>5. /\ d \in Calls /\ d.endpoint = c.endpoint /\ d.id = c.id
      /\ d.del = c.del /\ d.seen = c.seen \ S
      /\ \A h, l : Shape(h, l, c) => Shape(h, l, d)
  BY <1>1, <1>4, Zenon
<1> QED
  BY <1>5, Zenon DEF d

\* Other calls when some captures go: they forget them, and what their prunes are
\* about to delete only gets older.
LEMMA OthersKeep ==
    ASSUME IInv, NEW g \in Handler, NEW S,
           call'[g] = Forget(call[g], S), pc'[g] = pc[g],
           stored' \in [Endpoint -> SUBSET Id],
           \A e \in Endpoint : stored[e] \subseteq stored'[e]
    PROVE  /\ call'[g] \in Calls /\ Shape(g, pc'[g], call'[g])
           /\ call'[g].endpoint = call[g].endpoint /\ call'[g].id = call[g].id
           /\ g \in Sender => \A i \in call'[g].seen \cup call'[g].del :
                 Cardinality(Newer(stored'[call'[g].endpoint] \cup {call'[g].id}, i))
                    >= Keep
<1>1. call[g] \in Calls /\ Shape(g, pc[g], call[g])
  BY DEF IInv, TypeOK, Calls, CallShape
<1>2. /\ call'[g] \in Calls /\ Shape(g, pc'[g], call'[g])
      /\ call'[g].endpoint = call[g].endpoint /\ call'[g].id = call[g].id
      /\ call'[g].seen \subseteq call[g].seen /\ call'[g].del = call[g].del
  BY <1>1, ForgetKeeps
<1>3. ASSUME g \in Sender, NEW i \in call'[g].seen \cup call'[g].del
      PROVE  Cardinality(Newer(stored'[call'[g].endpoint] \cup {call'[g].id}, i)) >= Keep
  <2> DEFINE e == call[g].endpoint
             T == stored[e] \cup {call[g].id}
  <2>1. i \in call[g].seen \cup call[g].del /\ i \in Id
    BY <1>1, <1>2, <1>3 DEF Calls
  <2>2. Cardinality(Newer(T, i)) >= Keep
    BY <1>3, <2>1 DEF IInv, PrunesOldOnly
  <2>3. pc[g] \in {"wait", "commit"}
    BY <1>1, <2>1 DEF Shape, IInv, TypeOK
  <2>4. e \in Endpoint /\ call[g].id \in Id
    BY <1>1, <1>3, <2>3 DEF Shape
  <2>5. stored'[e] \cup {call[g].id} \in SUBSET Id /\ T \in SUBSET (stored'[e] \cup {call[g].id})
    BY <2>4
  <2>6. /\ Cardinality(Newer(stored'[e] \cup {call[g].id}, i)) \in Nat
        /\ Cardinality(Newer(T, i)) \in Nat
        /\ Cardinality(Newer(T, i)) <= Cardinality(Newer(stored'[e] \cup {call[g].id}, i))
    BY <2>1, <2>5, NewerGrows
  <2> HIDE DEF T
  <2>7. Cardinality(Newer(stored'[e] \cup {call[g].id}, i)) >= Keep
    BY <2>2, <2>6
  <2> QED
    BY <1>2, <2>7
<1> QED
  BY <1>2, <1>3

LEMMA CommitOK ==
    ASSUME IInv, NEW h \in Handler, Commit(h)
    PROVE  /\ IInv'
           /\ Shape(h, "commit", call[h]) /\ pc[h] = "commit" /\ pc'[h] = "idle"
           /\ captures' = [captures EXCEPT ![call[h].endpoint] =
                (@ \cup (IF h \in Sender THEN {call[h].id} ELSE {})) \ call[h].del]
           /\ stored' = [stored EXCEPT ![call[h].endpoint] =
                @ \cup (IF h \in Sender THEN {call[h].id} ELSE {})]
<1> DEFINE e == call[h].endpoint
           new == IF h \in Sender THEN {call[h].id} ELSE {}
<1>1. /\ pc[h] = "commit" /\ pc' = [pc EXCEPT ![h] = "idle"]
      /\ captures' = [captures EXCEPT ![e] = (@ \cup new) \ call[h].del]
      /\ stored' = [stored EXCEPT ![e] = @ \cup new]
      /\ call' = [g \in Handler |->
                    IF g = h THEN NoCall ELSE Forget(call[g], call[h].del)]
      /\ UNCHANGED <<endpoints, nextId, cursor, got>>
  BY DEF Commit, client
<1>2. /\ Shape(h, "commit", call[h]) /\ call[h] \in Calls
      /\ (call[h].id # 0 => e \in endpoints)
  BY <1>1 DEF IInv, CallShape, TypeOK, Calls, EndpointHeld
<1>3. e \in Endpoint /\ new \subseteq Id /\ (new # {} => e \in endpoints)
  BY <1>2 DEF Shape, Id
<1> HIDE DEF e, new
<1>4. stored' \in [Endpoint -> SUBSET Id] /\ \A f \in Endpoint : stored[f] \subseteq stored'[f]
  BY <1>1, <1>3 DEF IInv, TypeOK
<1>5. ASSUME NEW g \in Handler \ {h}
      PROVE  /\ call'[g] \in Calls /\ Shape(g, pc'[g], call'[g])
             /\ call'[g].endpoint = call[g].endpoint /\ call'[g].id = call[g].id
             /\ g \in Sender => \A i \in call'[g].seen \cup call'[g].del :
                 Cardinality(Newer(stored'[call'[g].endpoint] \cup {call'[g].id}, i))
                    >= Keep
  <2>1. call'[g] = Forget(call[g], call[h].del) /\ pc'[g] = pc[g]
    BY <1>1 DEF IInv, TypeOK
  <2> QED
    BY <1>4, <2>1, OthersKeep
<1>6. call'[h] = NoCall /\ pc'[h] = "idle"
  BY <1>1 DEF IInv, TypeOK
<1>7. TypeOK'
  <2>1. call' \in [Handler -> Calls]
    BY <1>1, <1>5, <1>6, NoCallType
  <2>2. captures' \in [Endpoint -> SUBSET Id] /\ \A f \in Endpoint \ endpoints' : captures'[f] = {}
    BY <1>1, <1>3 DEF IInv, TypeOK
  <2> QED
    BY <1>1, <1>4, <2>1, <2>2 DEF IInv, TypeOK, Calls, Id
<1>8. CallShape'
  <2> SUFFICES ASSUME NEW g \in Handler PROVE Shape(g, pc'[g], call'[g])
    BY DEF CallShape, Shape
  <2> QED
    BY <1>5, <1>6, NoCallType
<1>9. EndpointHeld'
  BY <1>1, <1>5, <1>6 DEF IInv, EndpointHeld, NoCall
<1>10. CapturesWereStored'
  BY <1>1, <1>3 DEF IInv, CapturesWereStored, TypeOK
<1>11. PrunesOldOnly'
  <2> SUFFICES ASSUME NEW g \in Sender, NEW i \in call'[g].seen \cup call'[g].del
               PROVE  Cardinality(Newer(stored'[call'[g].endpoint] \cup {call'[g].id}, i))
                        >= Keep
    BY DEF PrunesOldOnly, Newer
  <2>1. g # h
    BY <1>6 DEF NoCall
  <2> QED
    BY <1>5, <2>1 DEF Handler
<1> QED
  BY <1>1, <1>2, <1>6, <1>7, <1>8, <1>9, <1>10, <1>11 DEF IInv, e, new

LEMMA DeleteEndpointOK ==
    ASSUME IInv, DeleteWebhookEndpoint
    PROVE  IInv'
<1>1. PICK e \in endpoints :
         /\ \A h \in Handler : call[h].endpoint = e => call[h].id = 0
         /\ endpoints' = endpoints \ {e} /\ captures' = [captures EXCEPT ![e] = {}]
         /\ call' = [h \in Handler |-> Forget(call[h], captures[e])]
         /\ UNCHANGED <<nextId, pc, client, stored>>
  BY DEF DeleteWebhookEndpoint
<1>2. stored' \in [Endpoint -> SUBSET Id] /\ \A f \in Endpoint : stored[f] \subseteq stored'[f]
  BY <1>1 DEF IInv, TypeOK
<1>3. ASSUME NEW g \in Handler
      PROVE  /\ call'[g] \in Calls /\ Shape(g, pc'[g], call'[g])
             /\ call'[g].endpoint = call[g].endpoint /\ call'[g].id = call[g].id
             /\ g \in Sender => \A i \in call'[g].seen \cup call'[g].del :
                 Cardinality(Newer(stored'[call'[g].endpoint] \cup {call'[g].id}, i))
                    >= Keep
  <2>1. call'[g] = Forget(call[g], captures[e]) /\ pc'[g] = pc[g]
    BY <1>1
  <2> QED
    BY <1>2, <2>1, OthersKeep
<1>4. TypeOK'
  <2>1. call' \in [Handler -> Calls]
    BY <1>1, <1>3
  <2>2. captures' \in [Endpoint -> SUBSET Id] /\ \A f \in Endpoint \ endpoints' : captures'[f] = {}
    BY <1>1 DEF IInv, TypeOK
  <2> QED
    BY <1>1, <2>1, <2>2 DEF IInv, TypeOK, Calls, Id, client
<1>5. CallShape'
  <2> SUFFICES ASSUME NEW g \in Handler PROVE Shape(g, pc'[g], call'[g])
    BY DEF CallShape, Shape
  <2> QED
    BY <1>3
<1>6. EndpointHeld'
  BY <1>1, <1>3 DEF IInv, EndpointHeld
<1>7. CapturesWereStored'
  BY <1>1 DEF IInv, CapturesWereStored, TypeOK
<1>8. PrunesOldOnly'
  <2> SUFFICES ASSUME NEW g \in Sender, NEW i \in call'[g].seen \cup call'[g].del
               PROVE  Cardinality(Newer(stored'[call'[g].endpoint] \cup {call'[g].id}, i))
                        >= Keep
    BY DEF PrunesOldOnly, Newer
  <2> QED
    BY <1>3 DEF Handler
<1> QED
  BY <1>4, <1>5, <1>6, <1>7, <1>8 DEF IInv

\* The client gets captures, in pages, and changes nothing.
LEMMA ListOK ==
    ASSUME IInv, handleListCaptures
    PROVE  IInv'
<1>1. PICK e \in endpoints : \E page \in SUBSET captures[e] : \E last \in page :
         /\ cursor' = [cursor EXCEPT ![e] = last]
         /\ got' = [got EXCEPT ![e] = @ \cup page]
         /\ UNCHANGED <<tables, pc, call, stored>>
  BY DEF handleListCaptures
<1>2. PICK page \in SUBSET captures[e] : \E last \in page :
         /\ cursor' = [cursor EXCEPT ![e] = last]
         /\ got' = [got EXCEPT ![e] = @ \cup page]
         /\ UNCHANGED <<tables, pc, call, stored>>
  BY <1>1
<1>3. PICK last \in page :
         /\ cursor' = [cursor EXCEPT ![e] = last]
         /\ got' = [got EXCEPT ![e] = @ \cup page]
         /\ UNCHANGED <<tables, pc, call, stored>>
  BY <1>2
<1>4. page \subseteq Id /\ e \in Endpoint
  BY <1>2, <1>3 DEF IInv, TypeOK
<1>5. cursor' \in [Endpoint -> Id \cup {0}] /\ got' \in [Endpoint -> SUBSET Id]
  BY <1>3, <1>4 DEF IInv, TypeOK
<1>6. TypeOK'
  BY <1>3, <1>5 DEF IInv, TypeOK, tables, Id
<1> QED
  BY <1>3, <1>6 DEF IInv, tables, CallShape, Shape, EndpointHeld, CapturesWereStored,
                    PrunesOldOnly, Newer

-----------------------------------------------------------------------------

LEMMA StutterOK == IInv /\ UNCHANGED vars => IInv'
  BY DEF vars, tables, client, IInv, TypeOK, CallShape, Shape, EndpointHeld,
         CapturesWereStored, PrunesOldOnly, Newer

\* The invariant is inductive.
LEMMA Inductive == IInv /\ [Next]_vars => IInv'
<1> SUFFICES ASSUME IInv, [Next]_vars PROVE IInv'
  OBVIOUS
<1>1. CASE \E h \in Sender : handleCapture(h)
  BY <1>1, BeginOK DEF handleCapture, Handler
<1>2. CASE \E h \in Clearer : handleClearCaptures(h)
  BY <1>2, BeginOK DEF handleClearCaptures, Handler
<1>3. CASE \E h \in Handler : Abort(h)
  BY <1>3, FailOK DEF Abort, IInv, TypeOK
<1> QED
  BY <1>1, <1>2, <1>3, InsertOK, PruneOK, ClearOK, LockDeletedOK, CommitOK,
     DeleteEndpointOK, ListOK, StutterOK
     DEF Next

LEMMA Invariance == Spec => []IInv
  BY InitOK, Inductive, PTL DEF Spec

\* Captures and calls keep their types; captures go with their endpoint.
THEOREM CaptureTypes == Spec => []TypeOK
<1>1. IInv => TypeOK
  BY DEF IInv
<1> QED
  BY <1>1, Invariance, PTL

\* However captures and clears interleave, and whatever each of them can see, a prune
\* only ever deletes captures that have Keep newer ones.
THEOREM NewestAlwaysStay == Spec => NewestStay
<1> DEFINE Justified(e, i) ==
             \/ e \notin endpoints'
             \/ \E h \in Clearer : pc[h] = "commit" /\ pc'[h] = "idle"
             \/ Cardinality({j \in stored'[e] : j > i}) >= Keep
<1>1. IInv /\ [Next]_vars
        => [\A e \in Endpoint : \A i \in captures[e] \ captures'[e] : Justified(e, i)]_vars
  <2> SUFFICES ASSUME IInv, [Next]_vars,
                      NEW e \in Endpoint, NEW i \in captures[e], i \notin captures'[e]
               PROVE  Justified(e, i)
    OBVIOUS
  <2>1. CASE \E h \in Handler : Commit(h)
    <3>1. PICK h \in Handler : Commit(h)
      BY <2>1
    <3>2. CASE h \in Clearer
      BY <3>1, <3>2, CommitOK
    <3>3. CASE h \in Sender
      <4>1. /\ call[h].endpoint = e /\ i \in call[h].del
            /\ stored'[e] = stored[e] \cup {call[h].id}
        BY <3>1, <3>3, CommitOK DEF IInv, TypeOK
      <4>2. Cardinality(Newer(stored[e] \cup {call[h].id}, i)) >= Keep
        BY <3>3, <4>1 DEF IInv, PrunesOldOnly
      <4> QED
        BY <4>1, <4>2 DEF Newer
    <3> QED
      BY <3>2, <3>3 DEF Handler
  <2>2. CASE DeleteWebhookEndpoint
    BY <2>2 DEF DeleteWebhookEndpoint, IInv, TypeOK
  <2>3. CASE UNCHANGED captures
    BY <2>3
  <2> QED
    BY <2>1, <2>2, <2>3
       DEF Next, vars, tables, handleCapture, handleClearCaptures, Begin,
           InsertWebhookCapture, Fail, PruneWebhookCaptures, DeleteWebhookCaptures,
           LockDeleted, Abort, handleListCaptures
<1> QED
  BY <1>1, Invariance, PTL DEF Spec, NewestStay

-----------------------------------------------------------------------------
(* How many captures stay, and what a polling client gets.                 *)

\* A set of natural numbers that is not empty has a least element.
LEMMA LeastElement ==
    ASSUME NEW S \in SUBSET Nat, S # {}
    PROVE  \E m \in S : \A i \in S : m <= i
<1> DEFINE R == OpToRel(<, Nat)
<1>1. \A i, j \in Nat : i < j => <<i, j>> \in R
  BY DEF OpToRel
<1>2. IsWellFoundedOn(R, Nat)
  BY NatLessThanWellFounded
<1> HIDE DEF R
<1>3. PICK m \in S : \A i \in S : ~ (<<i, m>> \in R)
  BY <1>2, WFMin
<1>4. ASSUME NEW i \in S PROVE m <= i
  <2>1. i \in Nat /\ m \in Nat /\ ~ (i < m)
    BY <1>1, <1>3
  <2> QED
    BY <2>1
<1> QED
  BY <1>4

\* No more than n captures of a set have fewer than n newer ones.
LEMMA NewestAreFew ==
    ASSUME NEW S \in SUBSET Id, NEW n \in Nat \ {0}
    PROVE  /\ S \ OlderThanNewest(n, S) \subseteq S
           /\ Cardinality(S \ OlderThanNewest(n, S)) <= n
<1> DEFINE K == S \ OlderThanNewest(n, S)
<1>1. IsFiniteSet(Id) /\ Id \subseteq Nat
  BY FS_Interval DEF Id
<1>2. \A i \in K : Cardinality({j \in S : j > i}) < n
  <2> SUFFICES ASSUME NEW i \in K PROVE Cardinality({j \in S : j > i}) < n
    OBVIOUS
  <2>1. Cardinality({j \in S : j > i}) \in Nat
    BY <1>1, FS_Subset, FS_CardinalityType
  <2> QED
    BY <2>1 DEF OlderThanNewest
<1>3. CASE K = {}
  BY <1>3, FS_EmptySet
<1>4. CASE K # {}
  <2>1. PICK m \in K : \A i \in K : m <= i
    BY <1>1, <1>4, LeastElement
  <2> DEFINE U == {j \in S : j > m}
  <2>2. Cardinality(U) < n
    BY <1>2
  <2>3. U \in SUBSET Id
    OBVIOUS
  <2>4. IsFiniteSet(U)
    BY <1>1, <2>3, FS_Subset
  <2>5. Cardinality(U) \in Nat
    BY <2>4, FS_CardinalityType
  <2>6. K \in SUBSET (U \cup {m})
    <3> SUFFICES ASSUME NEW i \in K, i # m PROVE i \in U
      OBVIOUS
    <3>1. i \in Nat /\ m \in Nat /\ m <= i /\ i \in S
      BY <1>1, <2>1
    <3> QED
      BY <3>1
  <2> HIDE DEF U, K
  <2>7. /\ IsFiniteSet(U \cup {m})
        /\ Cardinality(U \cup {m}) = IF m \in U THEN Cardinality(U) ELSE Cardinality(U) + 1
    BY <2>4, FS_AddElement
  <2>8. Cardinality(K) <= Cardinality(U \cup {m}) /\ IsFiniteSet(K)
    BY <2>6, <2>7, FS_Subset
  <2>9. Cardinality(K) \in Nat
    BY <2>8, FS_CardinalityType
  <2> QED
    BY <2>2, <2>5, <2>7, <2>8, <2>9 DEF K
<1> QED
  BY <1>3, <1>4

LEMMA LeftMembers ==
    ASSUME NEW e, NEW G, NEW x
    PROVE  /\ x \in Left(e, G) <=>
                 /\ x \in captures[e] \/ \E h \in G : x = call[h].id
                 /\ \A h \in G : x \notin call[h].seen /\ x \notin call[h].del
           /\ x \in Left(e, G)' <=>
                 /\ x \in captures'[e] \/ \E h \in G : x = call'[h].id
                 /\ \A h \in G : x \notin call'[h].seen /\ x \notin call'[h].del
  BY DEF Left

\* A call at its DELETE has its capture's id and its endpoint.
LEMMA PruningShape ==
    ASSUME IInv, NEW e \in Endpoint, NEW h \in Pruning(e)
    PROVE  /\ h \in Sender /\ h \in Handler /\ call[h].endpoint = e
           /\ call[h].id \in Id /\ call[h].id # 0
  BY DEF Pruning, Handler, IInv, CallShape, Shape, Id

LEMMA LimitType ==
    ASSUME NEW e \in Endpoint
    PROVE  /\ Cardinality(Sender) \in Nat
           /\ Limit(e) \in Nat
           /\ Limit(e) = Keep + (IF e \in Serial THEN 0 ELSE Cardinality(Sender) - 1)
<1>1. Cardinality(Sender) \in Nat
  BY FS_CardinalityType
<1> QED
  BY <1>1 DEF Limit

\* What PrunesLeaveFew says of Left it says of any set in it.
LEMMA FewIn ==
    ASSUME IInv, PrunesLeaveFew, NEW e \in Endpoint, NEW G \in SUBSET Pruning(e),
           NEW T \in SUBSET Left(e, G)
    PROVE  Cardinality(T) <= Limit(e)
<1>1. IsFiniteSet(Id)
  BY FS_Interval DEF Id
<1>2. Left(e, G) \subseteq Id
  BY LeftMembers, PruningShape DEF IInv, TypeOK
<1>3. IsFiniteSet(Left(e, G))
  BY <1>1, <1>2, FS_Subset
<1>4. IsFiniteSet(T) /\ Cardinality(T) <= Cardinality(Left(e, G))
  BY <1>3, FS_Subset
<1>5. /\ Cardinality(T) \in Nat /\ Cardinality(Left(e, G)) \in Nat
      /\ Limit(e) \in Nat /\ Cardinality(Left(e, G)) <= Limit(e)
  BY <1>3, <1>4, FS_CardinalityType, LimitType DEF PrunesLeaveFew
<1> QED
  BY <1>4, <1>5

LEMMA CountInit == Init => CountInv
<1> SUFFICES ASSUME Init PROVE CountInv
  OBVIOUS
<1>1. \A h \in Handler : pc[h] = "idle" /\ call[h] = NoCall
  BY DEF Init
<1>2. /\ NoCall.id = 0 /\ NoCall.seen \cup NoCall.del = {}
      /\ NoCall.endpoint \notin Endpoint
  BY DEF NoCall
<1>3. IdsDrawnOnce
  BY <1>1, <1>2 DEF Init, IdsDrawnOnce
<1>4. SerialAlone /\ SerialCursor
  BY <1>1, <1>2 DEF Init, SerialAlone, SerialCursor, Skipped, Handler
<1>5. PrunesLeaveFew
  <2> SUFFICES ASSUME NEW e \in Endpoint, NEW G \in SUBSET Pruning(e)
               PROVE  Cardinality(Left(e, G)) <= Limit(e)
    BY DEF PrunesLeaveFew
  <2>1. G = {}
    BY <1>1 DEF Pruning, Handler
  <2>2. Left(e, G) = {}
    BY <2>1, LeftMembers DEF Init
  <2> QED
    BY <2>2, LimitType, FS_EmptySet
<1> QED
  BY <1>3, <1>4, <1>5 DEF CountInv

\* A statement of h that writes no capture: it may draw an id, or take up an
\* endpoint that, if it is Serial, no other capture is for.
Local(h) ==
    /\ UNCHANGED <<captures, stored, cursor, got>>
    /\ \A g \in Handler \ {h} : call'[g] = call[g]
    /\ call'[h] \in Calls /\ nextId' \in Nat /\ nextId <= nextId'
    /\ \/ call'[h].id = call[h].id /\ call'[h].endpoint = call[h].endpoint
       \/ call'[h].id = 0
       \/ call'[h].id = nextId /\ nextId' = nextId + 1
    /\ \/ call'[h].endpoint \in {call[h].endpoint, NoEndpoint}
       \/ h \notin Sender
       \/ call'[h].endpoint \in Serial =>
             \A g \in Sender : call[g].endpoint # call'[h].endpoint
    /\ \A e \in Endpoint : call'[h].endpoint = e =>
           call'[h].seen \cup call'[h].del \subseteq stored[e] \cup {call'[h].id}

\* A statement of h that leaves the captures and the client alone.
LEMMA LocalCount ==
    ASSUME IInv, CountInv, NEW h \in Handler,
           Local(h)
    PROVE  IdsDrawnOnce' /\ SerialAlone' /\ SerialCursor'
<1> USE DEF Local
<1>1. /\ nextId \in Nat \ {0} /\ \A g \in Handler : call[g].id \in Nat
      /\ \A e \in Endpoint : 0 \notin stored[e] /\ cursor[e] \in Nat /\ stored[e] \subseteq Nat
  BY DEF IInv, TypeOK, Calls, Id
<1>2. \A e \in Endpoint : nextId \notin stored[e] /\ cursor[e] < nextId
  BY <1>1 DEF CountInv, IdsDrawnOnce
<1>3. \A g \in Handler : call[g].id # nextId /\ call[g].id < nextId
  BY <1>1 DEF CountInv, IdsDrawnOnce
<1>4. IdsDrawnOnce'
  <2>1. \A e \in Endpoint : /\ \A i \in stored'[e] : i < nextId'
                            /\ cursor'[e] < nextId'
                            /\ \A f \in Endpoint \ {e} : stored'[e] \cap stored'[f] = {}
    BY <1>1 DEF CountInv, IdsDrawnOnce
  <2>2. ASSUME NEW g \in Handler
        PROVE  /\ call'[g].id < nextId'
               /\ \A e \in Endpoint : call'[g].id \notin stored'[e]
    BY <1>1, <1>2, <1>3 DEF CountInv, IdsDrawnOnce
  <2>3. ASSUME NEW g \in Handler, NEW k \in Handler \ {g}, call'[k].id = call'[g].id
        PROVE  call'[g].id = 0
    <3>1. CASE g # h /\ k # h
      BY <2>3, <3>1 DEF CountInv, IdsDrawnOnce
    <3>2. CASE g = h \/ k = h
      BY <1>3, <2>3, <3>2 DEF CountInv, IdsDrawnOnce
    <3> QED
      BY <3>1, <3>2
  <2>4. ASSUME NEW g \in Handler, NEW e \in Endpoint, call'[g].endpoint = e
        PROVE  call'[g].seen \cup call'[g].del \subseteq stored'[e] \cup {call'[g].id}
    BY <2>4 DEF CountInv, IdsDrawnOnce
  <2> QED
    BY <2>1, <2>2, <2>3, <2>4 DEF IdsDrawnOnce
<1>5. SerialAlone'
  <2> SUFFICES ASSUME NEW e \in Serial, NEW g \in Sender, NEW k \in Sender,
                      call'[g].endpoint = e, call'[k].endpoint = e
               PROVE  g = k
    BY DEF SerialAlone
  <2> QED
    BY DEF CountInv, SerialAlone, Handler
<1>6. SerialCursor'
  <2> SUFFICES ASSUME NEW e \in Serial
               PROVE  /\ Skipped(e)' = {}
                      /\ \A g \in Sender : call'[g].endpoint = e /\ call'[g].id # 0 =>
                            /\ cursor'[e] < call'[g].id
                            /\ \A i \in stored'[e] : i < call'[g].id
    BY DEF SerialCursor
  <2>1. Skipped(e)' = {}
    BY DEF CountInv, SerialCursor, Skipped
  <2>2. ASSUME NEW g \in Sender, call'[g].endpoint = e, call'[g].id # 0
        PROVE  cursor'[e] < call'[g].id /\ \A i \in stored'[e] : i < call'[g].id
    <3>1. CASE call'[g].id = call[g].id /\ call'[g].endpoint = call[g].endpoint
      BY <2>2, <3>1 DEF CountInv, SerialCursor
    <3>2. CASE call'[g].id = nextId
      BY <3>2, <1>2 DEF CountInv, IdsDrawnOnce
    <3> QED
      BY <2>2, <3>1, <3>2 DEF Handler
  <2> QED
    BY <2>1, <2>2
<1> QED
  BY <1>4, <1>5, <1>6

\* Nor does such a statement change what is left, unless it is a prune's.
LEMMA LocalLeaves ==
    ASSUME IInv, CountInv, NEW h \in Handler, captures' = captures,
           \A g \in Handler \ {h} : call'[g] = call[g] /\ pc'[g] = pc[g],
           \A e \in Endpoint : h \in Pruning(e)' =>
               /\ h \in Pruning(e) /\ call'[h].id = call[h].id
               /\ call'[h].seen \cup call'[h].del = call[h].seen \cup call[h].del
    PROVE  PrunesLeaveFew'
<1> SUFFICES ASSUME NEW e \in Endpoint, NEW G \in SUBSET (Pruning(e)')
             PROVE  Cardinality(Left(e, G)') <= Limit(e)
  BY DEF PrunesLeaveFew, Limit
<1>1. G \subseteq Handler
  BY DEF Pruning, Handler
<1>2. G \subseteq Pruning(e)
  BY <1>1 DEF Pruning
<1>3. \A g \in G : /\ call'[g].id = call[g].id
                   /\ call'[g].seen \cup call'[g].del = call[g].seen \cup call[g].del
  BY <1>1
<1>4. Left(e, G)' \subseteq Left(e, G)
  BY <1>3, LeftMembers
<1> QED
  BY <1>2, <1>4, FewIn DEF CountInv

LEMMA PruneCount ==
    ASSUME IInv, CountInv, NEW h \in Sender, PruneWebhookCaptures(h)
    PROVE  PrunesLeaveFew'
<1> DEFINE e == call[h].endpoint
           visible == captures[e] \cup {call[h].id}
<1>1. h \in Handler /\ pc[h] = "prune" /\ Shape(h, "prune", call[h])
  BY DEF PruneWebhookCaptures, Handler, IInv, CallShape
<1>2. e \in Endpoint /\ call[h].id \in Id /\ call[h].del = {} /\ captures[e] \subseteq Id
  BY <1>1 DEF Shape, IInv, TypeOK
<1>3. /\ captures' = captures
      /\ \A g \in Handler \ {h} : call'[g] = call[g] /\ pc'[g] = pc[g]
      /\ call'[h] = [call[h] EXCEPT !.seen = OlderThanNewest(Keep, visible)]
  BY <1>1 DEF PruneWebhookCaptures, Goto, tables, IInv, TypeOK
<1>4. /\ call'[h].endpoint = e /\ call'[h].id = call[h].id
      /\ call'[h].seen = OlderThanNewest(Keep, visible)
  BY <1>1, <1>3 DEF IInv, TypeOK
<1> SUFFICES ASSUME NEW f \in Endpoint, NEW G \in SUBSET (Pruning(f)')
             PROVE  Cardinality(Left(f, G)') <= Limit(f)
  BY DEF PrunesLeaveFew, Limit
<1>5. G \subseteq Sender /\ G \subseteq Handler
  BY DEF Pruning, Handler
<1>6. CASE h \notin G
  <2>1. G \subseteq Pruning(f) /\ \A g \in G : call'[g] = call[g]
    BY <1>3, <1>5, <1>6 DEF Pruning
  <2>2. Left(f, G)' \subseteq Left(f, G)
    BY <1>3, <2>1, LeftMembers
  <2> QED
    BY <2>1, <2>2, FewIn DEF CountInv
<1>7. CASE h \in G
  <2> DEFINE others == G \ {h}
             ids == {call[g].id : g \in others}
             kept == visible \ OlderThanNewest(Keep, visible)
  <2>1. f = e
    BY <1>4, <1>7 DEF Pruning
  <2>2. \A g \in others : call'[g] = call[g]
    BY <1>3, <1>5
  <2>3. Left(f, G)' \subseteq kept \cup ids
    <3> SUFFICES ASSUME NEW x \in Left(f, G)' PROVE x \in kept \cup ids
      OBVIOUS
    <3>1. x \in captures[e] \/ \E g \in G : x = call'[g].id
      BY <1>3, <2>1, LeftMembers
    <3>2. x \notin OlderThanNewest(Keep, visible)
      BY <1>4, <1>7, LeftMembers
    <3>3. CASE x \in captures[e] \/ x = call'[h].id
      BY <1>4, <3>2, <3>3
    <3>4. CASE \E g \in others : x = call'[g].id
      BY <2>2, <3>4
    <3> QED
      BY <3>1, <3>3, <3>4
  <2>4. others \subseteq Sender \ {h}
    BY <1>5
  <2>5. /\ IsFiniteSet(Sender \ {h})
        /\ Cardinality(Sender \ {h}) = Cardinality(Sender) - 1
    BY FS_RemoveElement
  <2>6. IsFiniteSet(others) /\ Cardinality(others) <= Cardinality(Sender) - 1
    BY <2>4, <2>5, FS_Subset
  <2>7. e \in Serial => others = {}
    <3> SUFFICES ASSUME e \in Serial, NEW g \in others PROVE FALSE
      OBVIOUS
    <3>1. call[g].endpoint = e
      BY <2>1, <2>2 DEF Pruning
    <3> QED
      BY <1>5, <3>1 DEF CountInv, SerialAlone
  <2> HIDE DEF visible, others
  <2>8. IsFiniteSet(ids) /\ Cardinality(ids) <= Cardinality(others)
    <3> DEFINE idOf == [g \in others |-> call[g].id]
    <3>1. idOf \in Surjection(others, ids)
      BY DEF Surjection
    <3> QED
      BY <2>6, <3>1, FS_Surjection
  <2>9. visible \in SUBSET Id
    BY <1>2 DEF visible
  <2>10. kept \subseteq visible /\ Cardinality(kept) <= Keep
    BY <2>9, NewestAreFew
  <2>11. IsFiniteSet(kept)
    <3>1. IsFiniteSet(Id)
      BY FS_Interval DEF Id
    <3>2. kept \in SUBSET Id
      BY <2>9
    <3> QED
      BY <3>1, <3>2, FS_Subset
  <2> HIDE DEF ids, kept
  <2>12. /\ IsFiniteSet(kept \cup ids)
         /\ Cardinality(kept \cup ids)
              = Cardinality(kept) + Cardinality(ids) - Cardinality(kept \cap ids)
    BY <2>8, <2>11, FS_Union
  <2>13. Cardinality(Left(f, G)') <= Cardinality(kept \cup ids) /\ IsFiniteSet(Left(f, G)')
    BY <2>3, <2>12, FS_Subset
  <2>14. /\ Cardinality(kept) \in Nat /\ Cardinality(ids) \in Nat
         /\ Cardinality(kept \cap ids) \in Nat /\ Cardinality(others) \in Nat
         /\ Cardinality(Left(f, G)') \in Nat
    BY <2>6, <2>8, <2>11, <2>13, FS_Intersection, FS_CardinalityType
  <2>15. Cardinality(others) <= IF e \in Serial THEN 0 ELSE Cardinality(Sender) - 1
    BY <2>6, <2>7, FS_EmptySet
  <2>16. Limit(f) = Keep + (IF e \in Serial THEN 0 ELSE Cardinality(Sender) - 1)
         /\ Cardinality(Sender) \in Nat
    BY <2>1, LimitType
  <2> QED
    BY <2>8, <2>10, <2>12, <2>13, <2>14, <2>15, <2>16
<1> QED
  BY <1>6, <1>7

\* Captures that a clear or a prune has deleted leave the snapshots of other calls,
\* but they were not there any more.
LEMMA ForgottenLeaves ==
    ASSUME IInv, CountInv, NEW e \in Endpoint, NEW G \in SUBSET Pruning(e), NEW S,
           \A g \in G : call'[g] = Forget(call[g], S),
           captures'[e] \subseteq captures[e], Left(e, G)' \cap S = {}
    PROVE  Cardinality(Left(e, G)') <= Limit(e)
<1>1. ASSUME NEW g \in G
      PROVE  /\ call'[g].id = call[g].id /\ call'[g].del = call[g].del
             /\ call'[g].seen = call[g].seen \ S
  <2>1. call[g] \in Calls
    BY DEF Pruning, Handler, IInv, TypeOK, Calls
  <2> QED
    BY <2>1, ForgetKeeps
<1>2. Left(e, G)' \subseteq Left(e, G)
  <2> SUFFICES ASSUME NEW x \in Left(e, G)' PROVE x \in Left(e, G)
    OBVIOUS
  <2>1. /\ x \in captures'[e] \/ \E h \in G : x = call'[h].id
        /\ \A h \in G : x \notin call'[h].seen /\ x \notin call'[h].del
    BY LeftMembers
  <2>2. x \notin S
    OBVIOUS
  <2> QED
    BY <1>1, <2>1, <2>2, LeftMembers
<1> QED
  BY <1>2, FewIn DEF CountInv

LEMMA CommitCount ==
    ASSUME IInv, IInv', CountInv, NEW h \in Handler, Commit(h)
    PROVE  CountInv'
<1> DEFINE e == call[h].endpoint
           del == call[h].del
           new == IF h \in Sender THEN {call[h].id} ELSE {}
<1>1. /\ pc[h] = "commit" /\ pc'[h] = "idle" /\ Shape(h, "commit", call[h])
      /\ captures' = [captures EXCEPT ![e] = (@ \cup new) \ del]
      /\ stored' = [stored EXCEPT ![e] = @ \cup new]
      /\ call' = [g \in Handler |-> IF g = h THEN NoCall ELSE Forget(call[g], del)]
      /\ UNCHANGED <<nextId, cursor, got>>
      /\ \A g \in Handler \ {h} : pc'[g] = pc[g]
  BY CommitOK DEF Commit, client, IInv, TypeOK
<1>2. /\ e \in Endpoint /\ (h \in Sender => call[h].id \in Id /\ call[h].id # 0)
      /\ del \subseteq stored[e] \cup {call[h].id}
      /\ \A f \in Endpoint : captures[f] \subseteq stored[f] /\ stored[f] \subseteq Id
  BY <1>1 DEF Shape, Id, CountInv, IdsDrawnOnce, IInv, CapturesWereStored, TypeOK
<1>3. ASSUME NEW g \in Handler \ {h}
      PROVE  /\ call'[g] = Forget(call[g], del)
             /\ call'[g].endpoint = call[g].endpoint /\ call'[g].id = call[g].id
             /\ call'[g].del = call[g].del /\ call'[g].seen = call[g].seen \ del
             /\ call[g].id \in Nat
  <2>1. call[g] \in Calls
    BY DEF IInv, TypeOK, Calls
  <2>2. call[g].id \in Nat
    BY <2>1 DEF Calls, Id
  <2> QED
    BY <1>1, <2>1, <2>2, ForgetKeeps
<1>4. /\ call'[h] = NoCall /\ NoCall.id = 0 /\ NoCall.endpoint \notin Endpoint
      /\ NoCall.seen \cup NoCall.del = {}
  BY <1>1 DEF NoCall
<1>5. /\ captures'[e] = (captures[e] \cup new) \ del /\ stored'[e] = stored[e] \cup new
      /\ \A f \in Endpoint \ {e} : captures'[f] = captures[f] /\ stored'[f] = stored[f]
  BY <1>1, <1>2 DEF IInv, TypeOK
<1>6. /\ nextId \in Nat \ {0} /\ call[h].id \in Nat /\ call[h].id < nextId
      /\ \A f \in Endpoint : call[h].id \notin stored[f] /\ cursor[f] \in Nat
      /\ \A g \in Handler \ {h} : call[g].id = call[h].id => call[h].id = 0
  BY DEF IInv, TypeOK, Calls, Id, CountInv, IdsDrawnOnce
<1>7. new \subseteq {call[h].id} /\ (h \notin Sender => new = {}) /\ (h \in Sender => new = {call[h].id})
  OBVIOUS
<1> HIDE DEF e, del, new
<1>8. IdsDrawnOnce'
  <2>1. ASSUME NEW f \in Endpoint
        PROVE  /\ \A i \in stored'[f] : i < nextId'
               /\ cursor'[f] < nextId'
    BY <1>1, <1>5, <1>6, <1>7 DEF CountInv, IdsDrawnOnce
  <2>2. ASSUME NEW f \in Endpoint, NEW k \in Endpoint \ {f}
        PROVE  stored'[f] \cap stored'[k] = {}
    <3>1. stored[f] \cap stored[k] = {}
      BY DEF CountInv, IdsDrawnOnce
    <3> QED
      BY <1>5, <1>6, <1>7, <3>1
  <2>3. ASSUME NEW g \in Handler
        PROVE  /\ call'[g].id < nextId'
               /\ \A k \in Handler \ {g} : call'[k].id = call'[g].id => call'[g].id = 0
    <3>1. CASE g = h
      BY <1>1, <1>4, <1>6, <3>1
    <3>2. CASE g # h
      BY <1>1, <1>3, <1>4, <3>2 DEF CountInv, IdsDrawnOnce
    <3> QED
      BY <3>1, <3>2
  <2>4. ASSUME NEW g \in Handler, NEW f \in Endpoint
        PROVE  /\ call'[g].id \notin stored'[f]
               /\ call'[g].endpoint = f =>
                     call'[g].seen \cup call'[g].del \subseteq stored'[f] \cup {call'[g].id}
    <3>1. CASE g = h
      BY <1>2, <1>4, <3>1, IInv' DEF IInv, TypeOK, Id
    <3>2. CASE g # h
      <4>1. call[g].id \notin stored[f]
        BY DEF CountInv, IdsDrawnOnce
      <4>2. call'[g].id \notin stored'[f]
        BY <1>2, <1>3, <1>5, <1>6, <1>7, <3>2, <4>1
      <4>3. call[g].endpoint = f =>
                call[g].seen \cup call[g].del \subseteq stored[f] \cup {call[g].id}
        BY DEF CountInv, IdsDrawnOnce
      <4> QED
        BY <1>3, <1>5, <3>2, <4>2, <4>3
    <3> QED
      BY <3>1, <3>2
  <2> QED
    BY <2>1, <2>2, <2>3, <2>4 DEF IdsDrawnOnce
<1>9. SerialAlone'
  <2> SUFFICES ASSUME NEW f \in Serial, NEW g \in Sender, NEW k \in Sender,
                      call'[g].endpoint = f, call'[k].endpoint = f
               PROVE  g = k
    BY DEF SerialAlone
  <2>1. g # h /\ k # h
    BY <1>4
  <2> QED
    BY <1>3, <2>1 DEF CountInv, SerialAlone, Handler
<1>10. SerialCursor'
  <2> SUFFICES ASSUME NEW f \in Serial
               PROVE  /\ Skipped(f)' = {}
                      /\ \A g \in Sender : call'[g].endpoint = f /\ call'[g].id # 0 =>
                            /\ cursor'[f] < call'[g].id
                            /\ \A i \in stored'[f] : i < call'[g].id
    BY DEF SerialCursor
  <2>1. Skipped(f)' = {}
    <3>1. Skipped(f) = {}
      BY DEF CountInv, SerialCursor
    <3>2. CASE f # e \/ h \notin Sender
      BY <1>1, <1>5, <1>7, <3>1, <3>2 DEF Skipped
    <3>3. CASE f = e /\ h \in Sender
      <4>1. cursor[f] < call[h].id
        BY <1>2, <3>3 DEF CountInv, SerialCursor, e
      <4> QED
        BY <1>1, <1>5, <1>6, <1>7, <3>1, <3>3, <4>1 DEF Skipped
    <3> QED
      BY <3>2, <3>3
  <2>2. ASSUME NEW g \in Sender, call'[g].endpoint = f, call'[g].id # 0
        PROVE  cursor'[f] < call'[g].id /\ \A i \in stored'[f] : i < call'[g].id
    <3>1. g # h /\ g \in Handler
      BY <1>4, <2>2 DEF Handler
    <3>2. call[g].endpoint = f /\ call[g].id # 0 /\ call'[g].id = call[g].id
      BY <1>3, <2>2, <3>1
    <3>3. f = e => h \notin Sender
      BY <3>1, <3>2 DEF CountInv, SerialAlone, e
    <3> QED
      BY <1>1, <1>5, <1>7, <3>2, <3>3 DEF CountInv, SerialCursor
  <2> QED
    BY <2>1, <2>2
<1>11. PrunesLeaveFew'
  <2> SUFFICES ASSUME NEW f \in Endpoint, NEW G \in SUBSET (Pruning(f)')
               PROVE  Cardinality(Left(f, G)') <= Limit(f)
    BY DEF PrunesLeaveFew, Limit
  <2>1. G \subseteq Handler \ {h} /\ G \subseteq Sender
    BY <1>1 DEF Pruning, Handler
  <2>2. G \subseteq Pruning(f)
    BY <1>1, <1>3, <2>1 DEF Pruning
  <2>3. \A g \in G : call[g].id \in Id /\ call[g].id # 0 /\ call[g].endpoint = f
    BY <2>2, PruningShape
  <2>4. ASSUME NEW x \in Left(f, G)', x \in del
        PROVE  FALSE
    <3>1. x \in captures'[f] \/ \E g \in G : x = call[g].id
      BY <1>3, <2>1, LeftMembers
    <3>2. CASE x \in captures'[f]
      <4>1. f # e /\ x \in stored[f]
        BY <1>2, <1>5, <2>4, <3>2
      <4>2. stored[f] \cap stored[e] = {}
        BY <1>2, <4>1 DEF CountInv, IdsDrawnOnce
      <4> QED
        BY <1>2, <1>6, <2>4, <4>1, <4>2
    <3>3. CASE \E g \in G : x = call[g].id
      <4>1. PICK g \in G : x = call[g].id
        BY <3>3
      <4>2. x \notin stored[e] /\ x # call[h].id
        BY <1>2, <1>6, <2>1, <2>3, <4>1 DEF CountInv, IdsDrawnOnce
      <4> QED
        BY <1>2, <2>4, <4>2
    <3> QED
      BY <3>1, <3>2, <3>3
  <2>5. CASE f = e /\ h \in Sender
    <3> DEFINE H == G \cup {h}
    <3>1. H \in SUBSET Pruning(f)
      BY <1>1, <2>2, <2>5 DEF Pruning, e
    <3>2. call[h].seen = {}
      BY <1>1 DEF Shape
    <3>3. Left(f, G)' \subseteq Left(f, H)
      <4> SUFFICES ASSUME NEW x \in Left(f, G)' PROVE x \in Left(f, H)
        OBVIOUS
      <4>1. x \notin del
        BY <2>4
      <4>2. /\ x \in captures'[f] \/ \E g \in G : x = call[g].id
            /\ \A g \in G : x \notin call[g].seen \ del /\ x \notin call[g].del
        BY <1>3, <2>1, LeftMembers
      <4>3. x \in captures[f] \/ \E g \in H : x = call[g].id
        BY <1>5, <1>7, <2>5, <4>2
      <4>4. \A g \in H : x \notin call[g].seen /\ x \notin call[g].del
        BY <3>2, <4>1, <4>2 DEF del
      <4> QED
        BY <4>3, <4>4, LeftMembers
    <3> QED
      BY <3>1, <3>3, FewIn DEF CountInv
  <2>6. CASE f # e \/ h \notin Sender
    <3>1. captures'[f] \subseteq captures[f]
      BY <1>5, <1>7, <2>6
    <3>2. \A g \in G : call'[g] = Forget(call[g], del)
      BY <1>3, <2>1
    <3>3. Left(f, G)' \cap del = {}
      BY <2>4
    <3> QED
      BY <2>2, <3>1, <3>2, <3>3, ForgottenLeaves
  <2> QED
    BY <2>5, <2>6
<1> QED
  BY <1>8, <1>9, <1>10, <1>11 DEF CountInv

\* A step that touches no call and no capture.
LEMMA SameCount ==
    ASSUME IInv, CountInv, UNCHANGED <<captures, pc, call>>
    PROVE  SerialAlone' /\ PrunesLeaveFew'
<1>1. SerialAlone'
  BY DEF CountInv, SerialAlone
<1> SUFFICES ASSUME NEW e \in Endpoint, NEW G \in SUBSET (Pruning(e)')
             PROVE  Cardinality(Left(e, G)') <= Limit(e)
  BY <1>1 DEF PrunesLeaveFew, Limit
<1>2. G \in SUBSET Pruning(e)
  BY DEF Pruning
<1>3. Left(e, G)' \subseteq Left(e, G)
  BY LeftMembers
<1> QED
  BY <1>2, <1>3, FewIn DEF CountInv

LEMMA DeleteEndpointCount ==
    ASSUME IInv, IInv', CountInv, DeleteWebhookEndpoint
    PROVE  CountInv'
<1>1. PICK e \in endpoints :
         /\ \A h \in Handler : call[h].endpoint = e => call[h].id = 0
         /\ endpoints' = endpoints \ {e} /\ captures' = [captures EXCEPT ![e] = {}]
         /\ call' = [h \in Handler |-> Forget(call[h], captures[e])]
         /\ UNCHANGED <<nextId, pc, cursor, got, stored>>
  BY DEF DeleteWebhookEndpoint, client
<1>2. /\ e \in Endpoint
      /\ \A f \in Endpoint : captures[f] \subseteq stored[f] /\ stored[f] \subseteq Id
      /\ captures'[e] = {} /\ \A f \in Endpoint \ {e} : captures'[f] = captures[f]
  BY <1>1 DEF IInv, TypeOK, CapturesWereStored
<1>3. ASSUME NEW g \in Handler
      PROVE  /\ call'[g] = Forget(call[g], captures[e])
             /\ call'[g].endpoint = call[g].endpoint /\ call'[g].id = call[g].id
             /\ call'[g].del = call[g].del /\ call'[g].seen \subseteq call[g].seen
  <2>1. call[g] \in Calls
    BY DEF IInv, TypeOK, Calls
  <2> QED
    BY <1>1, <2>1, ForgetKeeps
<1>4. IdsDrawnOnce'
  BY <1>1, <1>3 DEF CountInv, IdsDrawnOnce
<1>5. SerialAlone' /\ SerialCursor'
  <2>1. SerialAlone'
    BY <1>3 DEF CountInv, SerialAlone, Handler
  <2>2. ASSUME NEW f \in Serial PROVE Skipped(f)' = {}
    BY <1>1, <1>2 DEF CountInv, SerialCursor, Skipped
  <2>3. \A f \in Serial : \A h \in Sender : call'[h].endpoint = f /\ call'[h].id # 0 =>
            cursor'[f] < call'[h].id /\ \A i \in stored'[f] : i < call'[h].id
    BY <1>1, <1>3 DEF CountInv, SerialCursor, Handler
  <2> QED
    BY <2>1, <2>2, <2>3 DEF SerialCursor
<1>6. PrunesLeaveFew'
  <2> SUFFICES ASSUME NEW f \in Endpoint, NEW G \in SUBSET (Pruning(f)')
               PROVE  Cardinality(Left(f, G)') <= Limit(f)
    BY DEF PrunesLeaveFew, Limit
  <2>1. G \in SUBSET Pruning(f) /\ G \subseteq Handler
    BY <1>1, <1>3 DEF Pruning, Handler
  <2>2. \A g \in G : call[g].id \in Id /\ call[g].id # 0 /\ call[g].endpoint = f
    BY <2>1, PruningShape
  <2>3. Left(f, G)' \cap captures[e] = {}
    <3> SUFFICES ASSUME NEW x \in Left(f, G)', x \in captures[e] PROVE FALSE
      OBVIOUS
    <3>1. x \in captures'[f] \/ \E g \in G : x = call[g].id
      BY <1>3, <2>1, LeftMembers
    <3>2. ~ \E g \in G : x = call[g].id
      BY <1>2, <2>1 DEF CountInv, IdsDrawnOnce
    <3>3. f # e /\ x \in stored[f] /\ x \in stored[e]
      BY <1>2, <3>1, <3>2
    <3> QED
      BY <1>2, <3>3 DEF CountInv, IdsDrawnOnce
  <2>4. captures'[f] \subseteq captures[f] /\ \A g \in G : call'[g] = Forget(call[g], captures[e])
    BY <1>2, <1>3, <2>1
  <2> QED
    BY <2>1, <2>3, <2>4, ForgottenLeaves
<1> QED
  BY <1>4, <1>5, <1>6 DEF CountInv

\* A page has every capture between the cursor and its last.
LEMMA ListCount ==
    ASSUME IInv, CountInv, handleListCaptures
    PROVE  CountInv'
<1>1. PICK e \in endpoints, limit \in 1 .. MaxPage :
         LET newer == {i \in captures[e] : i > cursor[e]}
             page == {i \in newer : Cardinality({j \in newer : j < i}) < limit}
         IN  \E last \in page :
                 /\ cursor' = [cursor EXCEPT ![e] = last]
                 /\ got' = [got EXCEPT ![e] = @ \cup page]
                 /\ UNCHANGED <<tables, pc, call, stored>>
  BY DEF handleListCaptures
<1> DEFINE newer == {i \in captures[e] : i > cursor[e]}
           page == {i \in newer : Cardinality({j \in newer : j < i}) < limit}
<1>2. PICK last \in page : /\ cursor' = [cursor EXCEPT ![e] = last]
                           /\ got' = [got EXCEPT ![e] = @ \cup page]
                           /\ UNCHANGED <<tables, pc, call, stored>>
  BY <1>1
<1>3. /\ e \in Endpoint /\ last \in captures[e] /\ last > cursor[e]
      /\ Cardinality({j \in newer : j < last}) < limit
      /\ captures[e] \subseteq stored[e]
      /\ \A f \in Endpoint : /\ stored[f] \subseteq Id /\ cursor[f] \in Nat
                             /\ captures[f] \subseteq Id
  BY DEF IInv, TypeOK, CapturesWereStored, Id
<1>4. /\ cursor'[e] = last /\ \A f \in Endpoint \ {e} : cursor'[f] = cursor[f]
      /\ got'[e] = got[e] \cup page /\ \A f \in Endpoint \ {e} : got'[f] = got[f]
  BY <1>2, <1>3 DEF IInv, TypeOK
<1>5. UNCHANGED <<captures, nextId, pc, call, stored>>
  BY <1>2 DEF tables
<1>6. IdsDrawnOnce'
  BY <1>3, <1>4, <1>5 DEF CountInv, IdsDrawnOnce
<1>7. SerialAlone' /\ PrunesLeaveFew'
  BY <1>5, SameCount
<1>8. ASSUME NEW i \in captures[e], i <= last, i > cursor[e] PROVE i \in page
  <2> DEFINE before == {j \in newer : j < i}
             beforeLast == {j \in newer : j < last}
  <2>1. Id \subseteq Nat /\ IsFiniteSet(Id)
    BY FS_Interval DEF Id
  <2>2. newer \subseteq Id
    BY <1>3
  <2>3. before \subseteq beforeLast
    <3> SUFFICES ASSUME NEW j \in newer, j < i PROVE j < last
      OBVIOUS
    <3>1. j \in Nat /\ i \in Nat /\ last \in Nat
      BY <1>3, <2>1, <2>2
    <3> QED
      BY <1>8, <3>1
  <2>4. IsFiniteSet(beforeLast)
    BY <2>1, <2>2, FS_Subset
  <2>5. Cardinality(before) <= Cardinality(beforeLast) /\ IsFiniteSet(before)
    BY <2>3, <2>4, FS_Subset
  <2>6. Cardinality(before) \in Nat /\ Cardinality(beforeLast) \in Nat
    BY <2>4, <2>5, FS_CardinalityType
  <2>7. Cardinality(before) < limit
    BY <1>3, <2>5, <2>6
  <2> QED
    BY <1>8, <2>7
<1> HIDE DEF page
<1>9. SerialCursor'
  <2> SUFFICES ASSUME NEW f \in Serial
               PROVE  /\ Skipped(f)' = {}
                      /\ \A g \in Sender : call'[g].endpoint = f /\ call'[g].id # 0 =>
                            /\ cursor'[f] < call'[g].id
                            /\ \A i \in stored'[f] : i < call'[g].id
    BY DEF SerialCursor
  <2>1. CASE f # e
    BY <1>4, <1>5, <2>1 DEF CountInv, SerialCursor, Skipped
  <2>2. CASE f = e
    <3>1. Skipped(e)' = {}
      <4> SUFFICES ASSUME NEW i \in captures[e], i <= last PROVE i \in got[e] \cup page
        BY <1>4, <1>5 DEF Skipped
      <4>1. i \in Nat
        BY <1>3 DEF Id
      <4>2. CASE i > cursor[e]
        BY <1>8, <4>2
      <4>3. CASE i <= cursor[e]
        BY <2>2, <4>3 DEF CountInv, SerialCursor, Skipped
      <4> QED
        BY <1>3, <4>1, <4>2, <4>3
    <3>2. \A g \in Sender : call'[g].endpoint = e /\ call'[g].id # 0 =>
              cursor'[e] < call'[g].id /\ \A i \in stored'[e] : i < call'[g].id
      BY <1>3, <1>4, <1>5, <2>2 DEF CountInv, SerialCursor
    <3> QED
      BY <2>2, <3>1, <3>2
  <2> QED
    BY <2>1, <2>2
<1> QED
  BY <1>6, <1>7, <1>9 DEF CountInv

LEMMA CountInductive == IInv /\ IInv' /\ CountInv /\ [Next]_vars => CountInv'
<1> SUFFICES ASSUME IInv, IInv', CountInv, [Next]_vars PROVE CountInv'
  OBVIOUS
<1>0. /\ call' \in [Handler -> Calls] /\ nextId \in Nat /\ nextId' \in Nat
      /\ NoCall.id = 0 /\ NoCall.endpoint = NoEndpoint /\ NoCall.seen \cup NoCall.del = {}
  BY DEF IInv, TypeOK, Calls, NoCall
<1>1. ASSUME NEW h \in Handler, Fail(h), nextId <= nextId'
      PROVE  CountInv'
  <2>1. /\ UNCHANGED <<captures, stored, cursor, got>>
        /\ \A g \in Handler \ {h} : call'[g] = call[g] /\ pc'[g] = pc[g]
        /\ call'[h] = NoCall /\ pc'[h] = "idle"
    BY <1>1 DEF Fail, Goto, client, IInv, TypeOK
  <2>2. \A e \in Endpoint : h \notin Pruning(e)'
    BY <2>1 DEF Pruning
  <2>3. \A e \in Endpoint : call'[h].endpoint # e
    BY <1>0, <2>1
  <2>5. Local(h)
    BY <1>0, <1>1, <2>1, <2>2, <2>3 DEF Local
  <2>6. IdsDrawnOnce' /\ SerialAlone' /\ SerialCursor'
    BY <2>5, LocalCount
  <2>7. PrunesLeaveFew'
    BY <1>0, <1>1, <2>1, <2>2, <2>3, LocalLeaves
  <2> QED
    BY <2>6, <2>7 DEF CountInv
<1>2. ASSUME NEW h \in Handler, NEW e \in Endpoint, NEW l \in {"insert", "clear"},
             Begin(h, e, l),
             h \in Sender => (e \in Serial => \A g \in Sender : call[g].endpoint # e)
      PROVE  CountInv'
  <2>1. call[h] = NoCall
    BY <1>2 DEF Begin, IInv, CallShape, Shape
  <2>2. /\ UNCHANGED <<captures, stored, cursor, got, nextId>>
        /\ \A g \in Handler \ {h} : call'[g] = call[g] /\ pc'[g] = pc[g]
        /\ call'[h] = [NoCall EXCEPT !.endpoint = e] /\ pc'[h] = l
    BY <1>2, <2>1 DEF Begin, client, tables, IInv, TypeOK
  <2>3. /\ call'[h].id = 0 /\ call'[h].endpoint = e
        /\ call'[h].seen \cup call'[h].del = {}
    BY <2>2 DEF NoCall
  <2>4. \A f \in Endpoint : h \notin Pruning(f)'
    BY <2>2 DEF Pruning
  <2>5. Local(h)
    BY <1>0, <1>2, <2>2, <2>3, <2>4 DEF Local
  <2>6. IdsDrawnOnce' /\ SerialAlone' /\ SerialCursor'
    BY <2>5, LocalCount
  <2>7. PrunesLeaveFew'
    BY <1>0, <1>2, <2>2, <2>3, <2>4, LocalLeaves
  <2> QED
    BY <2>6, <2>7 DEF CountInv
<1>3. CASE \E h \in Sender : handleCapture(h)
  BY <1>2, <1>3 DEF handleCapture, Handler
<1>4. CASE \E h \in Clearer : handleClearCaptures(h)
  BY <1>2, <1>4 DEF handleClearCaptures, Handler
<1>5. ASSUME NEW h \in Sender, InsertWebhookCapture(h) PROVE CountInv'
  <2>1. h \in Handler /\ nextId' = nextId + 1 /\ pc[h] = "insert"
    BY <1>5 DEF InsertWebhookCapture, Handler
  <2>2. CASE Fail(h)
    BY <1>0, <1>1, <2>1, <2>2
  <2>3. CASE call' = [call EXCEPT ![h].id = nextId] /\ Goto(h, "prune") /\ UNCHANGED captures
    <3>1. /\ UNCHANGED <<captures, stored, cursor, got>>
          /\ \A g \in Handler \ {h} : call'[g] = call[g] /\ pc'[g] = pc[g]
          /\ call'[h] = [call[h] EXCEPT !.id = nextId] /\ pc'[h] = "prune"
      BY <2>1, <2>3 DEF Goto, client, IInv, TypeOK
    <3>2. call[h] \in Calls /\ Shape(h, "insert", call[h])
      BY <2>1 DEF IInv, TypeOK, Calls, CallShape
    <3>3. /\ call'[h].id = nextId /\ call'[h].endpoint = call[h].endpoint
          /\ call'[h].seen \cup call'[h].del = {}
      BY <3>1, <3>2 DEF Calls, Shape
    <3>4. \A f \in Endpoint : h \notin Pruning(f)'
      BY <3>1 DEF Pruning
    <3>5. Local(h)
      BY <1>0, <2>1, <3>1, <3>3, <3>4 DEF Local
    <3>6. IdsDrawnOnce' /\ SerialAlone' /\ SerialCursor'
      BY <2>1, <3>5, LocalCount
    <3>7. PrunesLeaveFew'
      BY <1>0, <2>1, <3>1, <3>3, <3>4, LocalLeaves
    <3> QED
      BY <3>6, <3>7 DEF CountInv
  <2> QED
    BY <1>5, <2>2, <2>3 DEF InsertWebhookCapture
<1>6. ASSUME NEW h \in Handler, UNCHANGED <<captures, stored, cursor, got, nextId>>,
             \A g \in Handler \ {h} : call'[g] = call[g] /\ pc'[g] = pc[g],
             /\ call'[h].id = call[h].id /\ call'[h].endpoint = call[h].endpoint
             /\ call'[h].del = {},
             call'[h].seen \subseteq captures[call[h].endpoint] \cup {call[h].id}
      PROVE  /\ IdsDrawnOnce' /\ SerialAlone' /\ SerialCursor'
             /\ h \notin Sender => PrunesLeaveFew'
  <2>1. \A e \in Endpoint : captures[e] \subseteq stored[e]
    BY DEF IInv, CapturesWereStored
  <2>2. \A e \in Endpoint : call'[h].endpoint = e =>
            call'[h].seen \cup call'[h].del \subseteq stored[e] \cup {call'[h].id}
    BY <1>6, <2>1
  <2>3. h \notin Sender => \A e \in Endpoint : h \notin Pruning(e)'
    BY DEF Pruning
  <2>4. Local(h)
    BY <1>0, <1>6, <2>2 DEF Local
  <2>5. h \notin Sender => PrunesLeaveFew'
    BY <1>6, <2>3, LocalLeaves
  <2> QED
    BY <2>4, <2>5, LocalCount
<1>7. ASSUME NEW h \in Sender, PruneWebhookCaptures(h) PROVE CountInv'
  <2>1. h \in Handler /\ pc[h] = "prune"
    BY <1>7 DEF PruneWebhookCaptures, Handler
  <2>2. call[h] \in Calls /\ Shape(h, "prune", call[h])
    BY <2>1 DEF IInv, TypeOK, Calls, CallShape
  <2>3. /\ UNCHANGED <<captures, stored, cursor, got, nextId>>
        /\ \A g \in Handler \ {h} : call'[g] = call[g] /\ pc'[g] = pc[g]
        /\ call'[h] = [call[h] EXCEPT !.seen = OlderThanNewest(Keep,
                                      captures[call[h].endpoint] \cup {call[h].id})]
    BY <1>7, <2>1 DEF PruneWebhookCaptures, Goto, client, tables, IInv, TypeOK
  <2>4. /\ call'[h].id = call[h].id /\ call'[h].endpoint = call[h].endpoint
        /\ call'[h].del = {}
        /\ call'[h].seen \subseteq captures[call[h].endpoint] \cup {call[h].id}
    BY <2>2, <2>3 DEF Calls, Shape, OlderThanNewest
  <2>5. IdsDrawnOnce' /\ SerialAlone' /\ SerialCursor'
    BY <1>6, <2>1, <2>3, <2>4
  <2> QED
    BY <1>7, <2>5, PruneCount DEF CountInv
<1>8. ASSUME NEW h \in Clearer, DeleteWebhookCaptures(h) PROVE CountInv'
  <2>1. h \in Handler /\ h \notin Sender /\ pc[h] = "clear"
    BY <1>8 DEF DeleteWebhookCaptures, Handler
  <2>2. call[h] \in Calls /\ Shape(h, "clear", call[h])
    BY <2>1 DEF IInv, TypeOK, Calls, CallShape
  <2>3. /\ UNCHANGED <<captures, stored, cursor, got, nextId>>
        /\ \A g \in Handler \ {h} : call'[g] = call[g] /\ pc'[g] = pc[g]
        /\ call'[h] = [call[h] EXCEPT !.seen = captures[call[h].endpoint]]
    BY <1>8, <2>1 DEF DeleteWebhookCaptures, Goto, client, tables, IInv, TypeOK
  <2>4. /\ call'[h].id = call[h].id /\ call'[h].endpoint = call[h].endpoint
        /\ call'[h].del = {}
        /\ call'[h].seen \subseteq captures[call[h].endpoint] \cup {call[h].id}
    BY <2>2, <2>3 DEF Calls, Shape
  <2>5. IdsDrawnOnce' /\ SerialAlone' /\ SerialCursor' /\ PrunesLeaveFew'
    BY <1>6, <2>1, <2>3, <2>4
  <2> QED
    BY <2>5 DEF CountInv
<1>9. ASSUME NEW h \in Handler, LockDeleted(h) PROVE CountInv'
  <2>1. /\ UNCHANGED <<captures, stored, cursor, got, nextId>> /\ pc[h] = "wait"
        /\ \A g \in Handler \ {h} : call'[g] = call[g] /\ pc'[g] = pc[g]
        /\ call'[h] = [call[h] EXCEPT !.del = call[h].seen, !.seen = {}]
    BY <1>9 DEF LockDeleted, Goto, client, tables, IInv, TypeOK
  <2>2. call[h] \in Calls /\ Shape(h, "wait", call[h])
    BY <2>1 DEF IInv, TypeOK, Calls, CallShape
  <2>3. /\ call'[h].id = call[h].id /\ call'[h].endpoint = call[h].endpoint
        /\ call'[h].seen \cup call'[h].del = call[h].seen \cup call[h].del
    BY <2>1, <2>2 DEF Calls, Shape
  <2>4. \A e \in Endpoint : call'[h].endpoint = e =>
            call'[h].seen \cup call'[h].del \subseteq stored[e] \cup {call'[h].id}
    BY <2>3 DEF CountInv, IdsDrawnOnce
  <2>5. \A e \in Endpoint : h \in Pruning(e)' => h \in Pruning(e)
    BY <2>1, <2>3 DEF Pruning
  <2>8. Local(h)
    BY <1>0, <2>1, <2>3, <2>4, <2>5 DEF Local
  <2>6. IdsDrawnOnce' /\ SerialAlone' /\ SerialCursor'
    BY <2>8, LocalCount
  <2>7. PrunesLeaveFew'
    BY <1>0, <2>1, <2>3, <2>4, <2>5, LocalLeaves
  <2> QED
    BY <2>6, <2>7 DEF CountInv
<1>10. CASE UNCHANGED vars
  <2>1. SerialAlone' /\ PrunesLeaveFew'
    BY <1>10, SameCount DEF vars, tables
  <2>2. IdsDrawnOnce' /\ SerialCursor'
    BY <1>10 DEF vars, tables, client, CountInv, IdsDrawnOnce, SerialCursor, Skipped
  <2> QED
    BY <2>1, <2>2 DEF CountInv
<1>11. ASSUME NEW h \in Handler, Abort(h) PROVE CountInv'
  BY <1>0, <1>1, <1>11 DEF Abort
<1> QED
  BY <1>3, <1>4, <1>5, <1>7, <1>8, <1>9, <1>10, <1>11, CommitCount, DeleteEndpointCount,
     ListCount
     DEF Next

LEMMA CountInvariance == Spec => []CountInv
  BY CountInit, CountInductive, Invariance, PTL DEF Spec

\* However captures of an endpoint overlap, there are never more stored than the
\* limit and one for each other that may be under way; where one caller waits for
\* each answer, never more than the limit.
THEOREM OverflowStaysBounded == Spec => []OverflowIsBounded
<1>1. IInv /\ CountInv => OverflowIsBounded
  <2> SUFFICES ASSUME IInv, CountInv, NEW e \in Endpoint
               PROVE  Cardinality(captures[e]) <= Limit(e)
    BY DEF OverflowIsBounded, Limit
  <2>1. captures[e] \subseteq Left(e, {})
    BY LeftMembers
  <2> QED
    BY <2>1, FewIn DEF CountInv
<1> QED
  BY <1>1, Invariance, CountInvariance, PTL

\* A client that polls with the last id it has gets every capture of an endpoint
\* whose caller waits for each answer, whatever happens to other endpoints, to rows
\* and to transactions.
THEOREM PollingMissesNothing == Spec => []SerialNothingSkipped
<1>1. CountInv => SerialNothingSkipped
  BY DEF CountInv, SerialCursor, SerialNothingSkipped
<1> QED
  BY <1>1, CountInvariance, PTL
=============================================================================
