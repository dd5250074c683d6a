----------------------------- MODULE OrderedList -----------------------------
(***************************************************************************)
(* The sort_order of the rows of one parent: a team's projects, a          *)
(* project's environments or proxies, an environment's variables or a      *)
(* request's examples.  `kind' says which table a behaviour is about.      *)
(*                                                                         *)
(* A create reads the maximum and inserts in one statement, but what it    *)
(* reads is the snapshot of its start.  A reorder locks the rows it reads, *)
(* one by one in the order of its snapshot, and skips those that have gone *)
(* by then; the reorder of projects locks nothing before its UPDATE, which *)
(* takes the rows one by one as well, as the deletion of the parent does.  *)
(***************************************************************************)
EXTENDS Naturals, Sequences, FiniteSets

CONSTANTS Row, Handler

VARIABLES
    kind,
    parent,     \* the parent exists
    status,     \* status[r]: a row's id is never used again
    order,      \* sort_order of the live rows, 0 for the others
    tied,       \* history: a write that overlapped another has committed since
                \* the last reorder that did not
    pc, call

tables == <<kind, parent, status, order>>
vars == <<tables, tied, pc, call>>

Kinds == {"project", "environment", "variable", "proxy", "example"}

\* `todo' are the rows still to lock, `held' those locked (or, by the reorder of
\* projects at "lock", only read), `stale' that another write has committed since
\* the call looked.
NoCall == [list |-> <<>>, next |-> 0, todo |-> <<>>, held |-> {},
           stale |-> FALSE]

Lists(S) == UNION {{s \in [1 .. n -> S] : \A i, j \in 1 .. n : s[i] = s[j] => i = j} :
                      n \in 0 .. Cardinality(S)}

Live == {r \in Row : status[r] = "live"}

MaxOrder == Cardinality(Row)

TypeOK ==
    /\ kind \in Kinds
    /\ parent \in BOOLEAN
    /\ status \in [Row -> {"unused", "live", "gone"}]
    /\ order \in [Row -> 0 .. MaxOrder]
    /\ tied \in BOOLEAN
    /\ pc \in [Handler -> {"idle", "max", "insert", "read", "lock", "write",
                          "delete", "cascade"}]
    /\ call \in [Handler -> [list : Lists(Row), next : 0 .. MaxOrder + 1,
                             todo : Lists(Row), held : SUBSET Row,
                             stale : BOOLEAN]]

Init ==
    /\ kind \in Kinds
    /\ parent = TRUE
    /\ status = [r \in Row |-> "unused"]
    /\ order = [r \in Row |-> 0]
    /\ tied = FALSE
    /\ pc = [h \in Handler |-> "idle"]
    /\ call = [h \in Handler |-> NoCall]

-----------------------------------------------------------------------------

Goto(h, label) == pc' = [pc EXCEPT ![h] = label]

Fail(h) ==
    /\ Goto(h, "idle")
    /\ call' = [call EXCEPT ![h] = NoCall]
    /\ UNCHANGED <<tables, tied>>

Abort(h) == pc[h] # "idle" /\ Fail(h)

\* The access check: the parent is there.
Begin(h, k, label) ==
    /\ pc[h] = "idle" /\ kind = k /\ parent
    /\ Goto(h, label)
    /\ UNCHANGED <<tables, tied, call>>

\* Ends h, and makes the calls stale that have looked at the rows.
Commit(h) ==
    /\ Goto(h, "idle")
    /\ call' = [g \in Handler |->
            IF g = h THEN NoCall
            ELSE [call[g] EXCEPT !.stale = @ \/ pc[g] \in {"insert", "lock", "write"}]]

Locks(h) == IF kind = "project" /\ pc[h] = "lock" THEN {} ELSE call[h].held

\* A transaction other than h's has locked r.
Locked(h, r) == \E g \in Handler \ {h} : r \in Locks(g)

\* A statement locks rows in whatever order it meets them.
LockOneOf(h, rows) ==
    /\ \E r \in rows \ call[h].held :
          /\ ~Locked(h, r)
          /\ call' = [call EXCEPT ![h].held = @ \cup {r}]
    /\ UNCHANGED <<tables, tied, pc>>

\* The row of the parent is locked by the transaction that deletes it.
ParentFree(h) == \A g \in Handler \ {h} : pc[g] # "cascade"

-----------------------------------------------------------------------------
(* Creating.                                                               *)

handleCreateProject(h) == Begin(h, "project", "max")
handleCreateEnvironment(h) == Begin(h, "environment", "max")
handleCreateVariable(h) == Begin(h, "variable", "max")
handleCreateProxy(h) == Begin(h, "proxy", "max")
handleCreateExample(h) == Begin(h, "example", "max")

\* Mutant: the position is the number of rows.
AppendCount == Cardinality(Live)

\* COALESCE(MAX(sort_order) + 1, 0)
Append1 == IF Live = {} THEN 0
           ELSE 1 + (CHOOSE m \in {order[r] : r \in Live} :
                        \A r \in Live : order[r] <= m)

ReadMax(h) ==
    /\ pc[h] = "max"
    /\ call' = [call EXCEPT ![h].next = Append1]
    /\ Goto(h, "insert")
    /\ UNCHANGED <<tables, tied>>

\* The foreign key waits for a deletion of the parent and refuses a row whose parent
\* has gone; `unused' ids bound how many rows are ever created.
Insert(h, k) ==
    /\ pc[h] = "insert" /\ kind = k /\ ParentFree(h)
    /\ LET unused == {r \in Row : status[r] = "unused"}
       IN  \/ /\ parent /\ unused # {}
              /\ LET r == CHOOSE u \in unused : TRUE
                 IN  /\ status' = [status EXCEPT ![r] = "live"]
                     /\ order' = [order EXCEPT ![r] = call[h].next]
              /\ tied' = (tied \/ call[h].stale)
              /\ Commit(h)
              /\ UNCHANGED <<kind, parent>>
           \/ (~parent \/ unused = {}) /\ Fail(h)

CreateProject(h) == Insert(h, "project")
CreateEnvironment(h) == Insert(h, "environment")
CreateVariable(h) == Insert(h, "variable")
CreateProxy(h) == Insert(h, "proxy")
CreateRequestExample(h) == Insert(h, "example")

-----------------------------------------------------------------------------
(* Reordering.                                                             *)

handleReorderProjects(h) == Begin(h, "project", "read")
handleReorderEnvironments(h) == Begin(h, "environment", "read")
handleReorderVariables(h) == Begin(h, "variable", "read")
handleReorderProxies(h) == Begin(h, "proxy", "read")
handleReorderExamples(h) == Begin(h, "example", "read")

\* ORDER BY sort_order, created_at: rows with one sort_order in either order.
Sorted(s) == \A i, j \in 1 .. Len(s) : i < j => order[s[i]] <= order[s[j]]

\* The snapshot of SELECT ... FOR UPDATE.
ListForUpdate(h, k) ==
    /\ pc[h] = "read" /\ kind = k
    /\ \E s \in Lists(Live) :
          /\ Len(s) = Cardinality(Live) /\ Sorted(s)
          /\ call' = [call EXCEPT ![h].todo = s]
    /\ Goto(h, "lock")
    /\ UNCHANGED <<tables, tied>>

ListEnvironmentIDsForUpdate(h) == ListForUpdate(h, "environment")
ListVariableIDsForUpdate(h) == ListForUpdate(h, "variable")
ListProxyIDsForUpdate(h) == ListForUpdate(h, "proxy")
ListRequestExampleIDsForUpdate(h) == ListForUpdate(h, "example")

\* A row that was deleted while its lock was awaited is skipped.
LockNext(h) ==
    /\ pc[h] = "lock" /\ call[h].todo # <<>>
    /\ LET r == Head(call[h].todo)
       IN  /\ ~Locked(h, r)
           /\ call' = [call EXCEPT ![h].todo = Tail(@),
                            ![h].held = IF r \in Live THEN @ \cup {r} ELSE @]
    /\ UNCHANGED <<tables, tied, pc>>

\* What the caller sent is drawn only here, where it is first looked at.
checkSameIDSet(h) ==
    /\ pc[h] = "lock" /\ call[h].todo = <<>>
    /\ \E list \in Lists(Row) :
          LET asked == {list[i] : i \in DOMAIN list}
          IN  \/ /\ asked = call[h].held
                 /\ call' = [call EXCEPT ![h].list = list, ![h].held = Locks(h)]
                 /\ Goto(h, "write")
                 /\ UNCHANGED <<tables, tied>>
              \/ asked # call[h].held /\ Fail(h)

\* Read and checked, but neither locked nor in a transaction.
ListTeamProjectIDs(h) ==
    /\ pc[h] = "read" /\ kind = "project"
    /\ call' = [call EXCEPT ![h].held = Live]
    /\ Goto(h, "lock")
    /\ UNCHANGED <<tables, tied>>

\* Mutant: an ordinality taken for one that counts from zero.
PositionAfter(list, r) == 1 + CHOOSE i \in DOMAIN list : list[i] = r

Position(list, r) == CHOOSE i \in DOMAIN list : list[i] = r

\* The rows an UPDATE is to change: those that have gone match nothing.
Matched(h) == {call[h].list[i] : i \in DOMAIN call[h].list} \cap Live

LockProjectRow(h) == pc[h] = "write" /\ kind = "project" /\ LockOneOf(h, Matched(h))

\* The last row is locked, and the transaction commits.
BulkUpdate(h, k, first) ==
    LET list == call[h].list
        mine == Matched(h)
    IN  /\ pc[h] = "write" /\ kind = k /\ mine \subseteq call[h].held
        /\ order' = [r \in Row |-> IF r \in mine THEN Position(list, r) - 1 + first
                                                 ELSE order[r]]
        /\ tied' = call[h].stale
        /\ Commit(h)
        /\ UNCHANGED <<kind, parent, status>>

\* Positions of projects count from 1, the others from 0.
BulkUpdateProjectOrder(h) == BulkUpdate(h, "project", 1)
BulkUpdateEnvironmentOrder(h) == BulkUpdate(h, "environment", 0)
BulkUpdateVariableOrder(h) == BulkUpdate(h, "variable", 0)
BulkUpdateProxyOrder(h) == BulkUpdate(h, "proxy", 0)
BulkUpdateRequestExampleOrder(h) == BulkUpdate(h, "example", 0)

-----------------------------------------------------------------------------
(* Deleting, which waits for the locks of a reorder or of another deletion. *)

\* Mutant: the rows are selected without FOR UPDATE.
NeverLocked(r) == TRUE

Unlocked(r) == \A h \in Handler : r \notin Locks(h)

Delete(k) ==
    /\ kind = k
    /\ \E r \in Live :
          /\ Unlocked(r)
          /\ status' = [status EXCEPT ![r] = "gone"]
          /\ order' = [order EXCEPT ![r] = 0]
    /\ UNCHANGED <<kind, parent, tied, pc, call>>

DeleteProject == Delete("project")
DeleteEnvironment == Delete("environment")
DeleteVariable == Delete("variable")
DeleteProxy == Delete("proxy")
DeleteRequestExample == Delete("example")

\* The team, project, environment or request.
handleDeleteParent(h) == Begin(h, kind, "delete")

LockParent(h) ==
    /\ pc[h] = "delete" /\ ParentFree(h)
    /\ \/ parent /\ Goto(h, "cascade") /\ UNCHANGED <<tables, tied, call>>
       \/ ~parent /\ Fail(h)

\* ON DELETE CASCADE.
LockCascade(h) == pc[h] = "cascade" /\ LockOneOf(h, Live)

DeleteParent(h) ==
    /\ pc[h] = "cascade" /\ Live \subseteq call[h].held
    /\ parent' = FALSE
    /\ status' = [r \in Row |-> IF r \in Live THEN "gone" ELSE status[r]]
    /\ order' = [r \in Row |-> 0]
    /\ Goto(h, "idle")
    /\ call' = [call EXCEPT ![h] = NoCall]
    /\ UNCHANGED <<kind, tied>>

-----------------------------------------------------------------------------

Create(h) ==
    \/ CreateProject(h) \/ CreateEnvironment(h) \/ CreateVariable(h)
    \/ CreateProxy(h) \/ CreateRequestExample(h)

Write(h) ==
    \/ BulkUpdateProjectOrder(h) \/ BulkUpdateEnvironmentOrder(h)
    \/ BulkUpdateVariableOrder(h) \/ BulkUpdateProxyOrder(h)
    \/ BulkUpdateRequestExampleOrder(h)

Advance(h) ==
    \/ ReadMax(h) \/ Create(h)
    \/ ListTeamProjectIDs(h) \/ ListEnvironmentIDsForUpdate(h)
    \/ ListVariableIDsForUpdate(h) \/ ListProxyIDsForUpdate(h)
    \/ ListRequestExampleIDsForUpdate(h)
    \/ LockNext(h) \/ checkSameIDSet(h) \/ LockProjectRow(h) \/ Write(h)
    \/ LockParent(h) \/ LockCascade(h) \/ DeleteParent(h)

\* The rows h may ask for next.
Wanted(h) ==
    CASE pc[h] = "lock" /\ call[h].todo # <<>> -> {Head(call[h].todo)}
      [] pc[h] = "write" -> Matched(h) \ call[h].held
      [] pc[h] = "cascade" -> Live \ call[h].held
      [] OTHER -> {}

\* h waits, through others, for itself.
Deadlocked(h) ==
    LET waits == {w \in Handler \X Handler :
                     w[1] # w[2] /\ Wanted(w[1]) \cap Locks(w[2]) # {}}
    IN  \A S \in SUBSET Handler :
            (\A w \in waits : w[1] \in S \cup {h} => w[2] \in S) => h \in S

\* PostgreSQL's deadlock detector rolls one of them back.
DeadlockVictim == \E h \in Handler : Deadlocked(h) /\ Abort(h)

Next ==
    \/ \E h \in Handler :
          \/ handleCreateProject(h) \/ handleCreateEnvironment(h)
          \/ handleCreateVariable(h) \/ handleCreateProxy(h)
          \/ handleCreateExample(h)
          \/ handleReorderProjects(h) \/ handleReorderEnvironments(h)
          \/ handleReorderVariables(h) \/ handleReorderProxies(h)
          \/ handleReorderExamples(h) \/ handleDeleteParent(h)
          \/ Advance(h) \/ Abort(h)
    \/ DeadlockVictim
    \/ DeleteProject \/ DeleteEnvironment \/ DeleteVariable
    \/ DeleteProxy \/ DeleteRequestExample

Spec == Init /\ [][Next]_vars

\* Lock waiters are served in turn, and a deadlock is detected.
Fairness == WF_vars(DeadlockVictim) /\ \A h \in Handler : SF_vars(Advance(h))

FairSpec == Spec /\ Fairness

-----------------------------------------------------------------------------

\* After a reorder its rows are read in the order that was sent, without a gap:
\* none of the rows it checked has been deleted before it wrote them.  The reorder
\* of projects, which locks nothing, may meet a gap but not another order.
ReorderIsExact ==
    [][\A h \in Handler : Write(h) =>
          LET list == call[h].list
              there == {i \in DOMAIN list : status'[list[i]] = "live"}
          IN  /\ \A i, j \in there : i < j => order'[list[i]] < order'[list[j]]
              /\ kind # "project" => there = DOMAIN list]_vars

\* Rows share a position only while a create or a reorder that overlapped another
\* write is the last word: creates one after the other never tie, whatever has been
\* deleted, and a reorder that meets no other write separates all rows again.
TiesComeFromOverlap ==
    tied \/ \A r, s \in Live : order[r] = order[s] => r = s

\* No call waits for ever for rows, although reorders and the deletion of the parent
\* may take their locks in different orders.
EveryCallEnds == \A h \in Handler : pc[h] # "idle" ~> pc[h] = "idle"

-----------------------------------------------------------------------------
(* The invariant behind the first two, which the proofs show to be         *)
(* inductive.                                                              *)

Used == {r \in Row : status[r] # "unused"}

Rows(s) == {s[i] : i \in DOMAIN s}

CallShape ==
    \A h \in Handler : pc[h] \in {"idle", "max", "read", "delete"} => call[h] = NoCall

\* Positions grow with the rows ever created, the deleted ones included.
PositionsBounded ==
    /\ \A r \in Row : order[r] <= Cardinality(Used)
    /\ \A h \in Handler : call[h].next <= Cardinality(Used) + 1

\* What is locked stays, and a reorder writes what it has locked.
HeldAreThere ==
    \A h \in Handler :
        /\ call[h].held \subseteq Used /\ Locks(h) \subseteq Live
        /\ pc[h] = "write" => IF kind = "project" THEN Rows(call[h].list) \subseteq Used
                              ELSE Rows(call[h].list) = call[h].held

LocksExclude ==
    \A g, h \in Handler : g # h => Locks(g) \cap Locks(h) = {}

\* A call that no other write has overtaken knows of every row.
FreshCallsKnowAll ==
    \A h \in Handler : ~call[h].stale =>
        /\ pc[h] = "insert" => \A r \in Live : order[r] < call[h].next
        /\ pc[h] = "lock" => Live \subseteq call[h].held \cup Rows(call[h].todo)
        /\ pc[h] = "write" => Live \subseteq Rows(call[h].list)

IInv ==
    /\ TypeOK /\ CallShape /\ PositionsBounded /\ HeldAreThere /\ LocksExclude
    /\ FreshCallsKnowAll /\ TiesComeFromOverlap
=============================================================================
