---------------------- MODULE WebhookEndpoints_proofs ----------------------
(***************************************************************************)
(* The quota and the ownership of slugs hold for any sets of projects,     *)
(* slugs and handlers.                                                     *)
(***************************************************************************)
EXTENDS WebhookEndpoints, FiniteSetTheorems, TLAPS

USE EndpointsAssumption

\* The endpoints of a project are finitely many, and fewer when some go.
LEMMA EndpointsCount ==
    ASSUME NEW S \in SUBSET Slug, NEW T \in SUBSET S
    PROVE  /\ IsFiniteSet(S) /\ Cardinality(S) \in Nat
           /\ Cardinality(T) \in Nat /\ Cardinality(T) <= Cardinality(S)
<1>1. IsFiniteSet(S)
  BY FS_Subset
<1>2. IsFiniteSet(T) /\ Cardinality(T) <= Cardinality(S)
  BY <1>1, FS_Subset
<1> QED
  BY <1>1, <1>2, FS_CardinalityType

\* A step that keeps the tables, or takes rows away, keeps every count that was
\* made.
LEMMA FewerStayBelow ==
    ASSUME BelowQuota, QuotaHolds,
           \A s \in Slug : owner'[s] \in {owner[s], None},
           NEW p \in Project
    PROVE  /\ Cardinality(Endpoints(p)') \in Nat
           /\ Cardinality(Endpoints(p)') <= Cardinality(Endpoints(p))
           /\ Cardinality(Endpoints(p)) \in Nat
<1>1. Endpoints(p)' \subseteq Endpoints(p) /\ Endpoints(p) \subseteq Slug
  BY DEF Endpoints
<1> QED
  BY <1>1, EndpointsCount

-----------------------------------------------------------------------------

LEMMA InitOK == Init => IInv
<1> SUFFICES ASSUME Init PROVE IInv
  OBVIOUS
<1> USE DEF Init
<1>1. TypeOK
  BY DEF TypeOK, NoCall
<1>2. QuotaHolds
  <2>1. ASSUME NEW p \in Project PROVE Endpoints(p) = {}
    BY <2>1 DEF Endpoints
  <2> QED
    BY <2>1, FS_EmptySet DEF QuotaHolds
<1> QED
  BY <1>1, <1>2 DEF IInv, CallShape, HoldsLock, BelowQuota, SlugReserved

\* A call that ends without a row changes only its own entries and gives its lock
\* back.
LEMMA FailOK ==
    ASSUME IInv, NEW h \in Handler, Fail(h)
    PROVE  IInv'
<1> USE DEF IInv, Fail, Goto, tables, Unlocked
<1>1. TypeOK'
  BY DEF TypeOK, NoCall
<1>2. ASSUME NEW g \in Handler, g # h
      PROVE  pc'[g] = pc[g] /\ call'[g] = call[g]
  BY <1>2 DEF TypeOK
<1>3. pc'[h] = "idle"
  BY DEF TypeOK
<1>4. CallShape'
  BY <1>2, <1>3 DEF CallShape
<1>5. HoldsLock'
  BY <1>2, <1>3 DEF HoldsLock, TypeOK
<1>6. BelowQuota' /\ QuotaHolds'
  BY <1>2, <1>3 DEF BelowQuota, QuotaHolds, Endpoints
<1>7. SlugReserved'
  BY <1>2, <1>3 DEF SlugReserved, SlugSettled
<1> QED
  BY <1>1, <1>4, <1>5, <1>6, <1>7

LEMMA BeginOK ==
    ASSUME IInv, NEW h \in Handler, handleCreateWebhook(h)
    PROVE  IInv'
<1> USE DEF IInv, Goto, tables
<1>1. PICK p \in projects, s \in Slug :
         call' = [call EXCEPT ![h] = [project |-> p, slug |-> s, attempt |-> 1]]
  BY DEF handleCreateWebhook
<1>2. /\ pc' = [pc EXCEPT ![h] = "lock"] /\ pc[h] = "idle"
      /\ UNCHANGED <<projects, owner, lock>>
  BY DEF handleCreateWebhook
<1>3. TypeOK'
  BY <1>1, <1>2 DEF TypeOK
<1>4. CallShape' /\ HoldsLock'
  BY <1>1, <1>2 DEF CallShape, HoldsLock, TypeOK
<1>5. BelowQuota' /\ QuotaHolds' /\ SlugReserved'
  BY <1>1, <1>2 DEF BelowQuota, QuotaHolds, SlugReserved, SlugSettled, Endpoints,
                    TypeOK
<1> QED
  BY <1>3, <1>4, <1>5

LEMMA LockOK ==
    ASSUME IInv, NEW h \in Handler, LockProject(h)
    PROVE  IInv'
<1> USE DEF IInv, Goto, tables, LockProject
<1>1. TypeOK'
  BY DEF TypeOK
<1>2. CallShape' /\ HoldsLock'
  BY DEF CallShape, HoldsLock, TypeOK
<1>3. BelowQuota' /\ QuotaHolds' /\ SlugReserved'
  BY DEF BelowQuota, QuotaHolds, SlugReserved, SlugSettled, Endpoints, TypeOK
<1> QED
  BY <1>1, <1>2, <1>3

LEMMA CountOK ==
    ASSUME IInv, NEW h \in Handler, CountWebhookEndpointsInProject(h)
    PROVE  IInv'
<1>1. CASE Fail(h)
  BY <1>1, FailOK
<1>2. CASE /\ pc[h] = "count"
           /\ Cardinality(Endpoints(call[h].project)) < MaxWebhooks
           /\ Goto(h, "insert")
           /\ UNCHANGED <<lock, call>>
  <2> USE <1>2 DEF IInv, Goto, tables
  <2>1. TypeOK' /\ CallShape' /\ HoldsLock'
    BY DEF TypeOK, CallShape, HoldsLock
  <2>2. \A g \in Handler \ {h} : pc'[g] = pc[g]
    BY DEF TypeOK
  <2>3. pc'[h] = "insert" /\ UNCHANGED <<owner, projects>>
    BY DEF TypeOK
  <2>4. BelowQuota' /\ QuotaHolds'
    BY <2>2, <2>3 DEF BelowQuota, QuotaHolds, Endpoints
  <2>5. SlugReserved'
    BY <2>2, <2>3 DEF SlugReserved, SlugSettled
  <2> QED
    BY <2>1, <2>4, <2>5
<1> QED
  BY <1>1, <1>2 DEF CountWebhookEndpointsInProject

LEMMA InsertOK ==
    ASSUME IInv, NEW h \in Handler, CreateWebhookEndpoint(h)
    PROVE  IInv'
<1>1. CASE Fail(h)
  BY <1>1, FailOK
<1>2. CASE /\ pc[h] = "insert" /\ SlugSettled(h)
           /\ owner[call[h].slug] = None /\ call[h].project \in projects
           /\ Goto(h, "commit") /\ UNCHANGED <<lock, call>>
  <2> USE <1>2 DEF IInv, Goto, tables
  <2>1. TypeOK' /\ CallShape' /\ HoldsLock'
    BY DEF TypeOK, CallShape, HoldsLock
  <2>2. BelowQuota' /\ QuotaHolds'
    BY DEF BelowQuota, QuotaHolds, Endpoints, TypeOK
  <2>3. SlugReserved'
    BY DEF SlugReserved, SlugSettled, TypeOK
  <2> QED
    BY <2>1, <2>2, <2>3
<1>3. CASE pc[h] = "insert" /\ Retry(h)
  <2> USE <1>3 DEF IInv, Goto, tables, Unlocked
  <2>1. PICK s \in Slug :
           call' = [call EXCEPT ![h].slug = s, ![h].attempt = @ + 1]
    BY DEF Retry
  <2>2. /\ pc' = [pc EXCEPT ![h] = "lock"] /\ UNCHANGED <<projects, owner>>
        /\ lock' = [p \in Project |-> IF lock[p] = h THEN None ELSE lock[p]]
        /\ call[h].attempt < SlugAttempts
    BY DEF Retry
  <2>3. /\ call'[h].project = call[h].project /\ call'[h].slug = s
        /\ call'[h].attempt = call[h].attempt + 1
        /\ \A g \in Handler \ {h} : call'[g] = call[g] /\ pc'[g] = pc[g]
        /\ pc'[h] = "lock"
    BY <2>1, <2>2 DEF TypeOK
  <2>4. TypeOK'
    <3>1. call'[h] \in [project : Project \cup {None}, slug : Slug \cup {None},
                        attempt : 0 .. SlugAttempts]
      BY <2>1, <2>2 DEF TypeOK
    <3>2. call' \in [Handler -> [project : Project \cup {None}, slug : Slug \cup {None},
                                 attempt : 0 .. SlugAttempts]]
      BY <2>1, <3>1 DEF TypeOK
    <3> QED
      BY <2>2, <3>2 DEF TypeOK
  <2>5. CallShape'
    BY <2>2, <2>3 DEF CallShape, TypeOK
  <2>6. HoldsLock'
    BY <2>2, <2>3 DEF HoldsLock, TypeOK
  <2>7. BelowQuota' /\ QuotaHolds' /\ SlugReserved'
    BY <2>2, <2>3 DEF BelowQuota, QuotaHolds, SlugReserved, SlugSettled, Endpoints
  <2> QED
    BY <2>4, <2>5, <2>6, <2>7
<1> QED
  BY <1>1, <1>2, <1>3 DEF CreateWebhookEndpoint

\* The only step that adds a row.  Nobody else can have counted the endpoints of
\* the project, since nobody else holds its lock.
LEMMA CommitOK ==
    ASSUME IInv, NEW h \in Handler, CommitCreate(h)
    PROVE  IInv'
<1> USE DEF IInv
<1>0. PICK p \in Project, s \in Slug : p = call[h].project /\ s = call[h].slug
  BY DEF CommitCreate, CallShape
<1>1. /\ pc[h] = "commit" /\ p \in projects
      /\ owner[s] = None /\ p # None /\ lock[p] = h
  BY <1>0 DEF CommitCreate, SlugReserved, HoldsLock
<1>2. /\ owner' = [owner EXCEPT ![s] = p] /\ projects' = projects
      /\ lock' = [q \in Project |-> IF lock[q] = h THEN None ELSE lock[q]]
      /\ pc'[h] = "idle"
      /\ \A g \in Handler \ {h} : pc'[g] = pc[g] /\ call'[g] = call[g]
  BY <1>0 DEF CommitCreate, TypeOK, Unlocked
<1>3. TypeOK'
  BY <1>0, <1>1 DEF CommitCreate, TypeOK, NoCall, Unlocked
<1>4. CallShape'
  BY <1>2 DEF CallShape
<1>5. HoldsLock'
  BY <1>2 DEF HoldsLock, TypeOK
<1>6. Endpoints(p)' = Endpoints(p) \cup {s}
  <2>1. \A t \in Slug : owner'[t] = IF t = s THEN p ELSE owner[t]
    BY <1>1, <1>2 DEF TypeOK
  <2> QED
    BY <1>1, <2>1 DEF Endpoints
<1>7. \A q \in Project \ {p} : Endpoints(q)' = Endpoints(q)
  BY <1>1, <1>2 DEF Endpoints, TypeOK
<1>8. Cardinality(Endpoints(p)') <= MaxWebhooks
  <2>1. Endpoints(p) \in SUBSET Slug
    BY DEF Endpoints
  <2>2. IsFiniteSet(Endpoints(p)) /\ Cardinality(Endpoints(p)) \in Nat
    BY <2>1, EndpointsCount
  <2>3. Cardinality(Endpoints(p) \cup {s})
           = IF s \in Endpoints(p) THEN Cardinality(Endpoints(p))
             ELSE Cardinality(Endpoints(p)) + 1
    BY <2>2, FS_AddElement
  <2>4. Cardinality(Endpoints(p)) < MaxWebhooks
    BY <1>0, <1>1 DEF BelowQuota
  <2> QED
    BY <1>6, <2>2, <2>3, <2>4
<1>9. QuotaHolds'
  BY <1>7, <1>8 DEF QuotaHolds
<1>10. BelowQuota'
  <2> SUFFICES ASSUME NEW g \in Handler, pc'[g] \in {"insert", "commit"}
               PROVE  Cardinality(Endpoints(call[g].project))' < MaxWebhooks
    BY DEF BelowQuota
  <2>1. g # h /\ pc[g] \in {"insert", "commit"} /\ call'[g] = call[g]
    BY <1>2
  <2>2. PICK q \in Project : q = call[g].project
    BY <2>1 DEF CallShape
  <2>3. q \in projects => lock[q] = g
    BY <2>1, <2>2 DEF HoldsLock
  <2>4. Cardinality(Endpoints(q)) < MaxWebhooks
    BY <2>1, <2>2 DEF BelowQuota
  <2>5. Endpoints(q)' = Endpoints(q)
    BY <1>1, <1>7, <2>1, <2>3
  <2> QED
    BY <2>1, <2>2, <2>4, <2>5
<1>11. SlugReserved'
  BY <1>0, <1>1, <1>2 DEF SlugReserved, SlugSettled, CallShape, TypeOK
<1> QED
  BY <1>3, <1>4, <1>5, <1>9, <1>10, <1>11

\* Deleting an endpoint, or a project that nobody holds.
LEMMA DeleteOK ==
    ASSUME IInv, DeleteWebhookEndpoint \/ DeleteProject
    PROVE  IInv'
<1> USE DEF IInv
<1>1. /\ UNCHANGED <<lock, pc, call>> /\ projects' \subseteq projects
      /\ \A s \in Slug : owner'[s] \in {owner[s], None}
  BY DEF DeleteWebhookEndpoint, DeleteProject, TypeOK
<1>2. \A h \in Handler : pc[h] = "commit" => call[h].project \in projects'
  <2>1. CASE DeleteWebhookEndpoint
    BY <2>1 DEF DeleteWebhookEndpoint, SlugReserved
  <2>2. CASE DeleteProject
    BY <2>2 DEF DeleteProject, SlugReserved, HoldsLock
  <2> QED
    BY <2>1, <2>2
<1>3. TypeOK'
  BY DEF DeleteWebhookEndpoint, DeleteProject, TypeOK
<1>4. CallShape' /\ HoldsLock'
  BY <1>1 DEF CallShape, HoldsLock
<1>5. BelowQuota' /\ QuotaHolds'
  BY <1>1, FewerStayBelow DEF BelowQuota, QuotaHolds, CallShape
<1>6. SlugReserved'
  BY <1>1, <1>2 DEF SlugReserved, SlugSettled, CallShape
<1> QED
  BY <1>3, <1>4, <1>5, <1>6

LEMMA StutterOK == IInv /\ UNCHANGED vars => IInv'
  BY DEF vars, tables, IInv, TypeOK, CallShape, HoldsLock, BelowQuota, SlugReserved,
         SlugSettled, QuotaHolds, Endpoints

\* The invariant is inductive.
LEMMA Inductive == IInv /\ [Next]_vars => IInv'
  BY FailOK, BeginOK, LockOK, CountOK, InsertOK, CommitOK, DeleteOK, StutterOK
     DEF Next, Advance, Abort

LEMMA Invariance == Spec => []IInv
  BY InitOK, Inductive, PTL DEF Spec

\* Endpoints belong to projects that exist, and calls keep their types.
THEOREM EndpointTypes == Spec => []TypeOK
<1>1. IInv => TypeOK
  BY DEF IInv
<1> QED
  BY <1>1, Invariance, PTL

\* However many creates run at once, no project ever holds more than its quota: the
\* count is still true when the row is committed, because the lock is still held.
THEOREM QuotaAlwaysHolds == Spec => []QuotaHolds
<1>1. IInv => QuotaHolds
  BY DEF IInv
<1> QED
  BY <1>1, Invariance, PTL

\* No create ever takes over a slug: the unique index lets at most one uncommitted
\* row have it, and none while a committed one does.
THEOREM SlugsAlwaysStayPut == Spec => SlugsStayPut
<1>1. IInv /\ [Next]_vars
        => [\A s \in Slug : owner[s] # None => owner'[s] \in {owner[s], None}]_vars
  <2> SUFFICES ASSUME IInv, [Next]_vars,
                      NEW s \in Slug, owner[s] # None
               PROVE  owner'[s] \in {owner[s], None}
    OBVIOUS
  <2>1. CASE \E h \in Handler : CommitCreate(h)
    BY <2>1 DEF CommitCreate, IInv, SlugReserved, CallShape, TypeOK
  <2>2. CASE DeleteWebhookEndpoint \/ DeleteProject
    BY <2>2 DEF DeleteWebhookEndpoint, DeleteProject, IInv, TypeOK
  <2>3. CASE UNCHANGED owner
    BY <2>3
  <2> QED
    BY <2>1, <2>2, <2>3
       DEF Next, Advance, Abort, Fail, Goto, tables, vars, handleCreateWebhook,
           LockProject, CountWebhookEndpointsInProject, CreateWebhookEndpoint, Retry
<1> QED
  BY <1>1, Invariance, PTL DEF Spec, SlugsStayPut

LEMMA SameCardinality == \A S : Atomic!Cardinality(S) = Cardinality(S)
  BY Zenon DEF Cardinality, Atomic!Cardinality

\* Whatever runs at once, the endpoints change as if each accepted create were one
\* step that counts, looks for the slug and inserts.
THEOREM EndpointsImplementAtomic == Spec => ImplementsAtomicEndpoints
<1>1. Init => Atomic!Init
  BY DEF Init, Atomic!Init
<1>2. IInv /\ [Next]_vars => [Atomic!Next]_(Atomic!tables)
  <2> SUFFICES ASSUME IInv, [Next]_vars PROVE [Atomic!Next]_(Atomic!tables)
    OBVIOUS
  <2>1. CASE \E h \in Handler : CommitCreate(h)
    <3>1. PICK h \in Handler : CommitCreate(h)
      BY <2>1
    <3> DEFINE p == call[h].project
               s == call[h].slug
    <3>2. p \in Project /\ s \in Slug /\ p \in projects /\ owner[s] = None
      BY <3>1 DEF CommitCreate, IInv, CallShape, SlugReserved
    <3>3. Cardinality({t \in Slug : owner[t] = p}) < MaxWebhooks
      BY <3>1 DEF CommitCreate, IInv, BelowQuota, Endpoints
    <3>4. owner' = [owner EXCEPT ![s] = p] /\ UNCHANGED projects
      BY <3>1 DEF CommitCreate
    <3> HIDE DEF p, s
    <3>5. Atomic!Create(p, s)
      BY <3>2, <3>3, <3>4, SameCardinality DEF Atomic!Create
    <3> QED
      BY <3>2, <3>5 DEF Atomic!Next
  <2>2. CASE DeleteWebhookEndpoint
    <3>1. PICK s \in Slug : Atomic!Delete(s)
      BY <2>2 DEF DeleteWebhookEndpoint, Atomic!Delete
    <3> QED
      BY <3>1 DEF Atomic!Next
  <2>3. CASE DeleteProject
    <3>1. PICK p \in projects : Atomic!DeleteProject(p)
      BY <2>3 DEF DeleteProject, Atomic!DeleteProject
    <3>2. p \in Project
      BY DEF IInv, TypeOK
    <3> QED
      BY <3>1, <3>2 DEF Atomic!Next
  <2>4. CASE UNCHANGED tables
    BY <2>4 DEF tables, Atomic!tables
  <2> QED
    BY <2>1, <2>2, <2>3, <2>4
       DEF Next, Advance, Abort, Fail, Goto, vars, handleCreateWebhook,
           LockProject, CountWebhookEndpointsInProject, CreateWebhookEndpoint, Retry
<1> QED
  BY <1>1, <1>2, Invariance, PTL DEF Spec, ImplementsAtomicEndpoints, Atomic!Spec
=============================================================================
