-------------------------- MODULE WebhookEndpoints --------------------------
(***************************************************************************)
(* Creating webhook endpoints: the quota is counted and the row inserted   *)
(* under the project lock; a random slug that collides rolls the           *)
(* transaction back and is drawn again, a bounded number of times.         *)
(***************************************************************************)
EXTENDS Integers, FiniteSets

CONSTANTS
    Project, Slug, Handler,
    MaxWebhooks,    \* maxWebhooksPerProject
    SlugAttempts,   \* slugAttempts
    None

ASSUME EndpointsAssumption ==
    /\ MaxWebhooks \in Nat /\ SlugAttempts \in Nat \ {0}
    /\ None \notin Project \cup Slug \cup Handler
    /\ IsFiniteSet(Slug)

VARIABLES
    projects,   \* projects that exist
    owner,      \* owner[s]: project of the endpoint with slug s
    lock,       \* holder of each project's row lock
    pc, call

tables == <<projects, owner>>
vars == <<tables, lock, pc, call>>

NoCall == [project |-> None, slug |-> None, attempt |-> 0]

TypeOK ==
    /\ projects \subseteq Project
    /\ owner \in [Slug -> projects \cup {None}]
    /\ lock \in [Project -> Handler \cup {None}]
    /\ pc \in [Handler -> {"idle", "lock", "count", "insert", "commit"}]
    /\ call \in [Handler -> [project : Project \cup {None},
                             slug : Slug \cup {None},
                             attempt : 0 .. SlugAttempts]]

Init ==
    /\ projects = Project
    /\ owner = [s \in Slug |-> None]
    /\ lock = [p \in Project |-> None]
    /\ pc = [h \in Handler |-> "idle"]
    /\ call = [h \in Handler |-> NoCall]

-----------------------------------------------------------------------------

Goto(h, label) == pc' = [pc EXCEPT ![h] = label] /\ UNCHANGED tables

Unlocked(h) == [p \in Project |-> IF lock[p] = h THEN None ELSE lock[p]]

Fail(h) ==
    /\ Goto(h, "idle")
    /\ call' = [call EXCEPT ![h] = NoCall]
    /\ lock' = Unlocked(h)

Abort(h) == pc[h] # "idle" /\ Fail(h)

handleCreateWebhook(h) ==
    \E p \in projects, s \in Slug :
        /\ pc[h] = "idle"
        /\ call' = [call EXCEPT ![h] = [project |-> p, slug |-> s, attempt |-> 1]]
        /\ Goto(h, "lock")
        /\ UNCHANGED lock

\* Mutant: the row is read without locking it.
LockProjectDropped(h) ==
    /\ pc[h] = "lock"
    /\ Goto(h, "count")
    /\ UNCHANGED <<lock, call>>

\* Nothing to lock when the project is gone.
LockProject(h) ==
    LET p == call[h].project
    IN  /\ pc[h] = "lock"
        /\ p \in projects => lock[p] = None
        /\ lock' = IF p \in projects THEN [lock EXCEPT ![p] = h] ELSE lock
        /\ Goto(h, "count")
        /\ UNCHANGED call

Endpoints(p) == {s \in Slug : owner[s] = p}

CountWebhookEndpointsInProject(h) ==
    /\ pc[h] = "count"
    /\ \/ /\ Cardinality(Endpoints(call[h].project)) < MaxWebhooks
          /\ Goto(h, "insert")
          /\ UNCHANGED <<lock, call>>
       \/ /\ Cardinality(Endpoints(call[h].project)) >= MaxWebhooks
          /\ Fail(h)

\* Mutant: the attempt is not counted.
RetryForever(h) ==
    /\ call[h].attempt < SlugAttempts
    /\ \E s \in Slug : call' = [call EXCEPT ![h].slug = s]
    /\ lock' = Unlocked(h)
    /\ Goto(h, "lock")

\* The next attempt of the loop, with a new slug and a new transaction.
Retry(h) ==
    /\ call[h].attempt < SlugAttempts
    /\ \E s \in Slug :
          call' = [call EXCEPT ![h].slug = s, ![h].attempt = @ + 1]
    /\ lock' = Unlocked(h)
    /\ Goto(h, "lock")

\* Mutant: no unique index, so nothing to wait for.
SlugNotIndexed(h) == TRUE

\* The unique index waits for an uncommitted row with the slug.
SlugSettled(h) ==
    \A g \in Handler \ {h} : pc[g] = "commit" => call[g].slug # call[h].slug

CreateWebhookEndpoint(h) ==
    LET s == call[h].slug
    IN  /\ pc[h] = "insert"
        /\ SlugSettled(h)
        /\ \/ /\ owner[s] = None
              /\ call[h].project \in projects
              /\ Goto(h, "commit")
              /\ UNCHANGED <<lock, call>>
           \/ owner[s] = None /\ call[h].project \notin projects /\ Fail(h)
           \/ owner[s] # None /\ Retry(h)
           \/ owner[s] # None /\ call[h].attempt >= SlugAttempts /\ Fail(h)

CommitCreate(h) ==
    /\ pc[h] = "commit"
    /\ owner' = [owner EXCEPT ![call[h].slug] = call[h].project]
    /\ pc' = [pc EXCEPT ![h] = "idle"]
    /\ call' = [call EXCEPT ![h] = NoCall]
    /\ lock' = Unlocked(h)
    /\ UNCHANGED projects

DeleteWebhookEndpoint ==
    \E s \in Slug :
        /\ owner[s] # None
        /\ owner' = [owner EXCEPT ![s] = None]
        /\ UNCHANGED <<projects, lock, pc, call>>

\* Waits for the lock, which every insert of the project holds.
DeleteProject ==
    \E p \in projects :
        /\ lock[p] = None
        /\ projects' = projects \ {p}
        /\ owner' = [s \in Slug |-> IF owner[s] = p THEN None ELSE owner[s]]
        /\ UNCHANGED <<lock, pc, call>>

Advance(h) ==
    \/ LockProject(h) \/ CountWebhookEndpointsInProject(h)
    \/ CreateWebhookEndpoint(h) \/ CommitCreate(h)

Next ==
    \/ \E h \in Handler : handleCreateWebhook(h) \/ Advance(h) \/ Abort(h)
    \/ DeleteWebhookEndpoint
    \/ DeleteProject

Spec == Init /\ [][Next]_vars

\* PostgreSQL serves lock waiters in turn, so a statement that is enabled again
\* and again is run.
FairSpec == Spec /\ \A h \in Handler : SF_vars(Advance(h))

-----------------------------------------------------------------------------

\* Two concurrent creates cannot both squeeze under the limit.
QuotaHolds == \A p \in Project : Cardinality(Endpoints(p)) <= MaxWebhooks

\* A slug that has been handed out keeps capturing for its project until its
\* endpoint is deleted, whatever slugs other creates draw meanwhile.
SlugsStayPut ==
    [][\A s \in Slug : owner[s] # None => owner'[s] \in {owner[s], None}]_vars

\* A create takes effect at one instant, its commit, where what it counted and found
\* free statements earlier is still so; nothing else changes the tables but deletes.
Atomic == INSTANCE AtomicEndpoints
ImplementsAtomicEndpoints == Atomic!Spec

\* The inductive invariant behind these: what each handler may rely on.
CallShape ==
    \A h \in Handler : pc[h] # "idle" =>
        call[h].project \in Project /\ call[h].slug \in Slug /\ call[h].attempt > 0

HoldsLock ==
    \A h \in Handler :
        pc[h] \in {"count", "insert", "commit"} /\ call[h].project \in projects
            => lock[call[h].project] = h

BelowQuota ==
    \A h \in Handler : pc[h] \in {"insert", "commit"} =>
        Cardinality(Endpoints(call[h].project)) < MaxWebhooks

SlugReserved ==
    \A h \in Handler : pc[h] = "commit" =>
        /\ call[h].project \in projects
        /\ owner[call[h].slug] = None
        /\ SlugSettled(h)

IInv ==
    /\ TypeOK /\ CallShape /\ HoldsLock /\ BelowQuota /\ SlugReserved
    /\ QuotaHolds

\* Colliding slugs and a contended project lock never keep a create for ever.
EveryCreateEnds == \A h \in Handler : pc[h] # "idle" ~> pc[h] = "idle"
=============================================================================
