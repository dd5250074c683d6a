----------------------------- MODULE ProjectTree -----------------------------
(***************************************************************************)
(* The folder and request endpoints that change the shape or the order of  *)
(* a project's tree, as concurrent HTTP handlers over PostgreSQL at READ   *)
(* COMMITTED.  One action is one SQL statement (or the start of a handler):*)
(* each reads the tables as committed when it starts.  What a transaction  *)
(* writes is kept in `call' until it commits.                              *)
(*                                                                         *)
(* Locks.  A project's row is locked by LockProject, or by its DELETE,     *)
(* until the transaction ends.  The row locks on nodes are read off pc and *)
(* call: see ForUpdate, NoKeyUpdate and KeyShare.  A statement that locks  *)
(* several rows locks them one after the other, so transactions may come   *)
(* to wait for each other: PostgreSQL then ends one of them.               *)
(*                                                                         *)
(* A failing check, a constraint violation, a deadlock, a cancelled        *)
(* request or a lost connection rolls back: inTx, or the one statement of  *)
(* a call without it, writes nothing and releases every lock.              *)
(***************************************************************************)
EXTENDS TreeTables, Sequences, FiniteSets

CONSTANTS
    Handler,    \* handlers that may run at once
    ClientOrder,\* the sort_order values a client sends with a move
    MaxList     \* longest list of ids a client sends

ASSUME MaxListAssumption == MaxList \in 0 .. MaxOrder
ASSUME ClientOrderAssumption == ClientOrder \subseteq Orders
ASSUME HandlerAssumption == Null \notin Handler

VARIABLES
    lock,       \* holder of each project's row lock
    pc,         \* next statement of each handler
    call        \* arguments and results so far of each handler's call

vars == <<tables, lock, pc, call>>

Lists == UNION {[1 .. k -> Node] : k \in 0 .. MaxList}

PCs == {"idle", "lock", "parent", "cycle", "siblings", "rows", "reorder",
        "update", "insert", "projectKey", "parentKey", "commit",
        "delete", "cascade"}

Calls == [op : {"none", "create", "move", "reorder", "delete", "deleteProject"},
          kind : {"folder", "request"},
          node : Node \cup {Null},
          project : Project \cup {Null},
          parent : Folder \cup {Null},
          order : Orders \cup {Null},
          ids : Lists,
          todo : SUBSET Node,   \* siblings read and not locked yet
          held : SUBSET Node]   \* rows locked FOR UPDATE

NoCall == [op |-> "none", kind |-> "folder", node |-> Null, project |-> Null,
           parent |-> Null, order |-> Null, ids |-> <<>>, todo |-> {},
           held |-> {}]

TypeOK ==
    /\ TablesTypeOK
    /\ lock \in [Project -> Handler \cup {Null}]
    /\ pc \in [Handler -> PCs]
    /\ call \in [Handler -> Calls]

Init ==
    /\ TablesInit
    /\ lock = [p \in Project |-> Null]
    /\ pc = [h \in Handler |-> "idle"]
    /\ call = [h \in Handler |-> NoCall]

-----------------------------------------------------------------------------
(* Row locks held by transactions that have not ended, and who waits for    *)
(* whom.                                                                   *)

\* Mutant: the siblings are read without FOR UPDATE.
ForUpdateDropped(h) == IF pc[h] = "cascade" THEN call[h].held ELSE {}

\* The rows a reorder has listed, or a DELETE has reached.
ForUpdate(h) == call[h].held

NoKeyUpdate(h) ==
    IF pc[h] \in {"parentKey", "commit"} /\ call[h].op = "move"
    THEN {call[h].node} ELSE {}

\* The foreign key to the parent is checked when the column gets another value.
Refers(c) == c.parent # Null /\ (c.op = "create" \/ parent[c.node] # c.parent)

\* It pins the parent's row.
KeyShare(h) ==
    IF pc[h] = "commit" /\ Refers(call[h]) THEN {call[h].parent} ELSE {}

Locked(h) == ForUpdate(h) \cup NoKeyUpdate(h) \cup KeyShare(h)

\* The row of a project that an uncommitted insert refers to.
PinsProject(h) ==
    IF pc[h] \in {"parentKey", "commit"} /\ call[h].op = "create"
    THEN {call[h].project} ELSE {}

\* The siblings are locked ORDER BY sort_order; rows that tie come in any order.
NextSiblings(h) == {n \in call[h].todo : \A m \in call[h].todo : order[n] <= order[m]}

\* The rows that refer to one the DELETE has reached.  (A DELETE of a folder or a
\* request has no project, and every row has one.)
Below(h) ==
    {n \in Live : project[n] = call[h].project \/ parent[n] \in call[h].held}

\* The rows among which h locks the next one, and how it locks it.
Wanted(h) ==
    CASE pc[h] = "parentKey" -> {call[h].parent}
      [] pc[h] \in {"update", "delete"} -> {call[h].node}
      [] pc[h] = "rows" -> NextSiblings(h)
      [] pc[h] = "cascade" -> Below(h) \ call[h].held
      [] OTHER -> {}

\* What FOR KEY SHARE, FOR NO KEY UPDATE and FOR UPDATE wait for.
Against(h, g) ==
    CASE pc[h] = "parentKey" -> ForUpdate(g)
      [] pc[h] = "update" -> ForUpdate(g) \cup NoKeyUpdate(g)
      [] OTHER -> Locked(g)

RowFree(h, n) == \A g \in Handler \ {h} : n \notin Against(h, g)

\* h asks for the project's row and g has it.
WaitsForProject(h, g) ==
    LET c == call[h]
    IN  \/ /\ \/ pc[h] = "lock"
              \/ pc[h] = "delete" /\ c.op = "deleteProject"
              \/ pc[h] = "projectKey" /\ call[g].op = "deleteProject"
           /\ lock[c.project] = g
        \/ /\ pc[h] = "delete" /\ c.op = "deleteProject"
           /\ c.project \in PinsProject(g)

ProjectFree(h) == \A g \in Handler \ {h} : ~WaitsForProject(h, g)

WaitsFor(h, g) ==
    /\ g # h
    /\ WaitsForProject(h, g) \/ Wanted(h) \cap Against(h, g) # {}

\* h waits, through others, for itself.
Deadlocked(h) ==
    LET waits == {w \in Handler \X Handler : WaitsFor(w[1], w[2])}
    IN  \A S \in SUBSET Handler :
            (\A w \in waits : w[1] \in S \cup {h} => w[2] \in S) => h \in S

-----------------------------------------------------------------------------
(* Endings.                                                                *)

\* The handler answers and its locks are gone.
Finish(h) ==
    /\ pc' = [pc EXCEPT ![h] = "idle"]
    /\ call' = [call EXCEPT ![h] = NoCall]
    /\ lock' = [p \in Project |-> IF lock[p] = h THEN Null ELSE lock[p]]

\* Mutant: an early return that leaves the transaction open.
FailKeepingLock(h) ==
    /\ pc' = [pc EXCEPT ![h] = "idle"]
    /\ call' = [call EXCEPT ![h] = NoCall]
    /\ UNCHANGED <<tables, lock>>

\* Rollback: the answer is an error and no table changes.
Fail(h) == Finish(h) /\ UNCHANGED tables

Abort(h) == pc[h] # "idle" /\ Fail(h)

Goto(h, label) == pc' = [pc EXCEPT ![h] = label] /\ UNCHANGED <<tables, lock>>

\* The statement after the optional check of the parent.
AfterParent(c) ==
    IF c.op = "create" THEN "insert"
    ELSE IF c.op = "reorder" THEN "siblings"
    ELSE IF c.kind = "folder" /\ c.parent # Null THEN "cycle"
    ELSE "update"

\* The check itself is skipped for a parent that is NULL.
ParentOrNext(c) == IF c.parent # Null THEN "parent" ELSE AfterParent(c)

-----------------------------------------------------------------------------
(* The handlers: access check, arguments, first read.  The DELETEs have no *)
(* statement but one.                                                      *)

Begin(h, c, label) ==
    /\ pc[h] = "idle"
    /\ call' = [call EXCEPT ![h] = c]
    /\ Goto(h, label)

\* The supply of fresh ids is finite in an instance; a create starts only if
\* one is left for it.
IdLeft(kind) ==
    Cardinality({g \in Handler : call[g].op = "create" /\ call[g].kind = kind})
        < Cardinality({n \in OfKind(kind) : row[n] = "new"})

handleCreateFolder(h) ==
    /\ IdLeft("folder")
    /\ \E p \in projects, f \in Folder \cup {Null} :
        LET c == [NoCall EXCEPT !.op = "create", !.project = p, !.parent = f]
        IN  Begin(h, c, ParentOrNext(c))

handleCreateRequest(h) ==
    /\ IdLeft("request")
    /\ \E p \in projects, f \in Folder \cup {Null} :
        LET c == [NoCall EXCEPT !.op = "create", !.kind = "request",
                                !.project = p, !.parent = f]
        IN  Begin(h, c, ParentOrNext(c))

\* A move that gives no sort_order appends.
handleMoveFolder(h) ==
    \E n \in Live \cap Folder, f \in Folder \cup {Null}, o \in ClientOrder \cup {Null} :
        Begin(h, [NoCall EXCEPT !.op = "move", !.node = n, !.parent = f,
                                !.project = project[n], !.order = o], "lock")

handleMoveRequest(h) ==
    \E n \in Live \cap Request, f \in Folder \cup {Null}, o \in ClientOrder \cup {Null} :
        Begin(h, [NoCall EXCEPT !.op = "move", !.kind = "request", !.node = n,
                                !.parent = f, !.project = project[n],
                                !.order = o], "lock")

handleReorderFolders(h) ==
    \E p \in projects, f \in Folder \cup {Null} :
        Begin(h, [NoCall EXCEPT !.op = "reorder", !.project = p, !.parent = f],
              "lock")

handleReorderRequests(h) ==
    \E p \in projects, f \in Folder \cup {Null} :
        Begin(h, [NoCall EXCEPT !.op = "reorder", !.kind = "request",
                                !.project = p, !.parent = f], "lock")

handleDeleteFolder(h) ==
    \E n \in Live \cap Folder :
        Begin(h, [NoCall EXCEPT !.op = "delete", !.node = n], "delete")

handleDeleteRequest(h) ==
    \E n \in Live \cap Request :
        Begin(h, [NoCall EXCEPT !.op = "delete", !.kind = "request", !.node = n],
              "delete")

handleDeleteProject(h) ==
    \E p \in projects :
        Begin(h, [NoCall EXCEPT !.op = "deleteProject", !.project = p], "delete")

-----------------------------------------------------------------------------
(* Statements shared by several transactions.                              *)

\* Mutant: the row is read without locking it.
LockProjectDropped(h) ==
    /\ pc[h] = "lock"
    /\ pc' = [pc EXCEPT ![h] = ParentOrNext(call[h])]
    /\ UNCHANGED <<tables, lock, call>>

\* A project that has been deleted yields no row, no lock and no error.
LockProject(h) ==
    LET p == call[h].project
    IN  /\ pc[h] = "lock"
        /\ ProjectFree(h)
        /\ lock' = IF p \in projects THEN [lock EXCEPT ![p] = h] ELSE lock
        /\ pc' = [pc EXCEPT ![h] = ParentOrNext(call[h])]
        /\ UNCHANGED <<tables, call>>

\* Mutant: any existing folder will do.
FolderExists(f, p) == f \in Live \cap Folder

FolderInProject(f, p) == f \in Live \cap Folder /\ project[f] = p

requireFolderInProject(h) ==
    /\ pc[h] = "parent"
    /\ IF FolderInProject(call[h].parent, call[h].project)
       THEN Goto(h, AfterParent(call[h])) /\ UNCHANGED call
       ELSE Fail(h)

\* MAX(sort_order) + 1 over the siblings, or 0 for the first of them.  There is
\* no such order when the column is at its maximum: the statement then fails.
IsNextOrder(o, S) ==
    \/ S = {} /\ o = 0
    \/ \E m \in S : o = order[m] + 1 /\ \A n \in S : order[n] <= order[m]

Appended(o, c) == IsNextOrder(o, Siblings(c.kind, c.project, c.parent) \ {c.node})

\* Waits while a reorder or a DELETE holds the parent; a parent that is gone then
\* violates the key.
ParentForeignKey(h) ==
    /\ pc[h] = "parentKey"
    /\ RowFree(h, call[h].parent)
    /\ IF call[h].parent \in Live
       THEN Goto(h, "commit") /\ UNCHANGED call
       ELSE Fail(h)

-----------------------------------------------------------------------------
(* Creating.                                                               *)

\* The subquery for sort_order reads the tables as they are now.  Foreign keys are
\* checked, in the order of their columns, once the row is there; others see it
\* when the statement commits.
Insert(h) ==
    /\ pc[h] = "insert"
    /\ \/ \E o \in Orders :
             /\ Appended(o, call[h])
             /\ call' = [call EXCEPT ![h].order = o]
             /\ Goto(h, "projectKey")
       \/ (\A o \in Orders : ~Appended(o, call[h])) /\ Fail(h)

CreateFolder(h) == call[h].kind = "folder" /\ Insert(h)

CreateRequest(h) == call[h].kind = "request" /\ Insert(h)

\* Waits for a DELETE of the project.
ProjectForeignKey(h) ==
    /\ pc[h] = "projectKey"
    /\ ProjectFree(h)
    /\ IF call[h].project \in projects
       THEN /\ Goto(h, IF Refers(call[h]) THEN "parentKey" ELSE "commit")
            /\ UNCHANGED call
       ELSE Fail(h)

CommitCreate(h) ==
    /\ pc[h] = "commit"
    /\ call[h].op = "create"
    /\ \E n \in OfKind(call[h].kind) :
          /\ row[n] = "new"
          /\ InsertRow(n, call[h].project, call[h].parent, call[h].order)
    /\ Finish(h)

-----------------------------------------------------------------------------
(* Moving.                                                                 *)

\* Mutant: only the folder itself is refused as its parent.
CheckSelfOnly(h) ==
    /\ pc[h] = "cycle"
    /\ IF call[h].parent = call[h].node
       THEN Fail(h)
       ELSE Goto(h, "update") /\ UNCHANGED call

CheckCycle(h) ==
    /\ pc[h] = "cycle"
    /\ IF IsDescendant(call[h].parent, call[h].node)
       THEN Fail(h)
       ELSE Goto(h, "update") /\ UNCHANGED call

\* No row: deleted since the handler looked.  The row is locked first, and keeps
\* its lock while the foreign key waits for the parent's.
UpdateParent(h) ==
    /\ pc[h] = "update"
    /\ RowFree(h, call[h].node)
    /\ \/ /\ call[h].node \in Live
          /\ \E o \in Orders :
                /\ IF call[h].order = Null THEN Appended(o, call[h])
                                           ELSE o = call[h].order
                /\ call' = [call EXCEPT ![h].order = o]
          /\ Goto(h, IF Refers(call[h]) THEN "parentKey" ELSE "commit")
       \/ /\ \/ call[h].node \notin Live
             \/ call[h].order = Null /\ \A o \in Orders : ~Appended(o, call[h])
          /\ Fail(h)

UpdateFolderParent(h) == call[h].kind = "folder" /\ UpdateParent(h)

UpdateRequestFolder(h) == call[h].kind = "request" /\ UpdateParent(h)

CommitMove(h) ==
    /\ pc[h] = "commit"
    /\ call[h].op = "move"
    /\ SetParent(call[h].node, call[h].parent, call[h].order)
    /\ Finish(h)

-----------------------------------------------------------------------------
(* Reordering.                                                             *)

\* The list names every sibling once and nothing else.
SameIDSet(got, want) ==
    /\ \A i, j \in DOMAIN got : got[i] = got[j] => i = j
    /\ \A i \in DOMAIN got : got[i] \in want
    /\ Cardinality({got[i] : i \in DOMAIN got}) = Cardinality(want)

\* The statement's snapshot of the siblings.
ListSiblings(h) ==
    LET c == call[h]
    IN  /\ pc[h] = "siblings"
        /\ call' = [call EXCEPT ![h].todo = Siblings(c.kind, c.project, c.parent)]
        /\ Goto(h, "rows")

ListSiblingFolderIDs(h) == call[h].kind = "folder" /\ ListSiblings(h)

ListSiblingRequestIDs(h) == call[h].kind = "request" /\ ListSiblings(h)

\* FOR UPDATE locks them one by one and leaves out a row that has gone meanwhile.
LockSibling(h) ==
    LET c == call[h]
    IN  /\ pc[h] = "rows"
        /\ \E n \in NextSiblings(h) :
              /\ RowFree(h, n)
              /\ call' = [call EXCEPT ![h] =
                    [c EXCEPT !.todo = @ \ {n},
                              !.held = @ \cup ({n} \cap
                                  Siblings(c.kind, c.project, c.parent))]]
        /\ UNCHANGED <<tables, lock, pc>>

\* The rows are compared with the client's list, which nothing has looked at
\* before.
checkSiblings(h) ==
    /\ pc[h] = "rows"
    /\ call[h].todo = {}
    /\ \E ids \in Lists :
          \/ /\ SameIDSet(ids, call[h].held)
             /\ call' = [call EXCEPT ![h].ids = ids]
             /\ Goto(h, "reorder")
          \/ ~SameIDSet(ids, call[h].held) /\ Fail(h)

\* One UPDATE over the rows of the list that are still in the scope, committed
\* with it: folders count from 1, requests from 0.
BulkUpdateOrder(h, base) ==
    LET c == call[h]
    IN  /\ pc[h] = "reorder"
        /\ order' = [n \in Node |->
              IF \E i \in DOMAIN c.ids :
                    c.ids[i] = n /\ n \in Siblings(c.kind, c.project, c.parent)
              THEN base - 1 + CHOOSE i \in DOMAIN c.ids : c.ids[i] = n
              ELSE order[n]]
        /\ UNCHANGED <<projects, row, project, parent>>
        /\ Finish(h)

BulkUpdateFolderOrder(h) == call[h].kind = "folder" /\ BulkUpdateOrder(h, 1)

BulkUpdateRequestOrder(h) == call[h].kind = "request" /\ BulkUpdateOrder(h, 0)

-----------------------------------------------------------------------------
(* Deleting: one statement, which takes the rows below with it.            *)

\* The row is locked first; when it has gone there is nothing to delete.
DeleteNode(h) ==
    /\ pc[h] = "delete"
    /\ call[h].op = "delete"
    /\ RowFree(h, call[h].node)
    /\ \/ /\ call[h].node \in Live
          /\ call' = [call EXCEPT ![h].held = {call[h].node}]
          /\ Goto(h, "cascade")
       \/ call[h].node \notin Live /\ Fail(h)

DeleteFolder(h) == call[h].kind = "folder" /\ DeleteNode(h)

DeleteRequest(h) == call[h].kind = "request" /\ DeleteNode(h)

\* Waits for LockProject holders and for inserts, whose foreign key pins the row.
DeleteProject(h) ==
    LET p == call[h].project
    IN  /\ pc[h] = "delete"
        /\ call[h].op = "deleteProject"
        /\ ProjectFree(h)
        /\ \/ /\ p \in projects
              /\ lock' = [lock EXCEPT ![p] = h]
              /\ pc' = [pc EXCEPT ![h] = "cascade"]
              /\ UNCHANGED <<tables, call>>
           \/ p \notin projects /\ Fail(h)

\* ON DELETE CASCADE reaches the rows below one by one.
SweepUp(h) ==
    /\ pc[h] = "cascade"
    /\ \E n \in Below(h) \ call[h].held :
          /\ RowFree(h, n)
          /\ call' = [call EXCEPT ![h].held = @ \cup {n}]
    /\ UNCHANGED <<tables, lock, pc>>

\* Mutant: no cascade to the rows below.
CommitDeleteAlone(h) ==
    /\ pc[h] = "cascade"
    /\ projects' = projects \ {call[h].project}
    /\ Erase(call[h].held \ Below(h))
    /\ Finish(h)

CommitDelete(h) ==
    /\ pc[h] = "cascade"
    /\ Below(h) \subseteq call[h].held
    /\ projects' = projects \ {call[h].project}
    /\ Erase(call[h].held)
    /\ Finish(h)

-----------------------------------------------------------------------------

\* A client calls one of the endpoints.
Start(h) ==
    \/ handleCreateFolder(h) \/ handleCreateRequest(h)
    \/ handleMoveFolder(h) \/ handleMoveRequest(h)
    \/ handleReorderFolders(h) \/ handleReorderRequests(h)
    \/ handleDeleteFolder(h) \/ handleDeleteRequest(h) \/ handleDeleteProject(h)

\* The next statement, or the next row of a statement, of a call under way.
Advance(h) ==
    \/ LockProject(h) \/ requireFolderInProject(h)
    \/ CreateFolder(h) \/ CreateRequest(h)
    \/ ProjectForeignKey(h) \/ ParentForeignKey(h) \/ CommitCreate(h)
    \/ CheckCycle(h) \/ UpdateFolderParent(h) \/ UpdateRequestFolder(h)
    \/ CommitMove(h)
    \/ ListSiblingFolderIDs(h) \/ ListSiblingRequestIDs(h)
    \/ LockSibling(h) \/ checkSiblings(h)
    \/ BulkUpdateFolderOrder(h) \/ BulkUpdateRequestOrder(h)
    \/ DeleteFolder(h) \/ DeleteRequest(h) \/ DeleteProject(h)
    \/ SweepUp(h) \/ CommitDelete(h)

\* PostgreSQL ends one of the transactions that wait for each other.
DeadlockVictim == \E h \in Handler : Abort(h) /\ Deadlocked(h)

Next ==
    \/ \E h \in Handler : Start(h) \/ Advance(h) \/ Abort(h)
    \/ DeadlockVictim

Spec == Init /\ [][Next]_vars

(***************************************************************************)
(* PostgreSQL queues the waiters of a row lock, so a statement that is     *)
(* blocked again and again is served in the end; a statement that is not   *)
(* blocked runs, and a deadlock is detected.  Calls need not be made, and  *)
(* nothing else has to fail.                                               *)
(***************************************************************************)
FairSpec ==
    Spec /\ WF_vars(DeadlockVictim) /\ \A h \in Handler : SF_vars(Advance(h))

-----------------------------------------------------------------------------
(* The inductive invariant behind the properties: what each handler    *)
(* may rely on between two of its statements.                                *)

\* The label and the arguments belong together.
CallShape(h) ==
    LET c == call[h]
    IN  /\ pc[h] = "idle" <=> c.op = "none"
        /\ pc[h] # "idle" /\ c.op # "delete" => c.project \in Project
        /\ pc[h] = "lock" => c.op \in {"move", "reorder"}
        /\ pc[h] = "parent" => c.op \in {"create", "move", "reorder"}
        /\ pc[h] \in {"insert", "projectKey"} => c.op = "create"
        /\ pc[h] \in {"cycle", "update"} => c.op = "move"
        /\ pc[h] \in {"siblings", "rows", "reorder"} => c.op = "reorder"
        /\ pc[h] \in {"parentKey", "commit"} => c.op \in {"create", "move"}
        /\ pc[h] \in {"projectKey", "parentKey", "commit"} => c.order \in Orders
        /\ pc[h] = "parentKey" => c.parent # Null
        /\ pc[h] \in {"delete", "cascade"} => c.op \in {"delete", "deleteProject"}
        /\ c.op = "delete" => c.project = Null /\ c.node \in Node
        /\ c.held # {} => pc[h] \in {"rows", "reorder", "cascade"}

\* The moved row is the one the handler found: it can only have been deleted.
NodeFound(h) ==
    LET c == call[h]
    IN  c.op = "move" =>
          /\ c.node \in OfKind(c.kind)
          /\ row[c.node] # "new"
          /\ c.node \in Live => project[c.node] = c.project

\* The parent passed the check: it can only have been deleted since.
ParentFound(h) ==
    LET c == call[h]
    IN  /\ pc[h] \in {"cycle", "update", "insert", "projectKey", "parentKey",
                      "commit"}
        /\ c.parent # Null
        => /\ row[c.parent] # "new"
           /\ c.parent \in Live => project[c.parent] = c.project

\* Rows that an uncommitted write refers to cannot be deleted under it.
CommitReady(h) ==
    LET c == call[h]
    IN  /\ pc[h] \in {"parentKey", "commit"} =>
              /\ c.project \in projects
              /\ c.op = "move" => c.node \in Live
        /\ pc[h] = "commit" /\ c.parent # Null => c.parent \in Live

\* The project lock, of a project that still exists.
HoldsLock(h) ==
    LET c == call[h]
    IN  (/\ \/ c.op \in {"move", "reorder"} /\ pc[h] \notin {"idle", "lock"}
            \/ c.op = "deleteProject" /\ pc[h] = "cascade"
         /\ c.project \in projects)
        => lock[c.project] = h

ReorderReady(h) ==
    LET c == call[h]
    IN  /\ c.op = "reorder" => c.held \subseteq Siblings(c.kind, c.project, c.parent)
        /\ pc[h] = "reorder" =>
              /\ \A i, j \in DOMAIN c.ids : c.ids[i] = c.ids[j] => i = j
              /\ \A i \in DOMAIN c.ids : c.ids[i] \in c.held

MoveReady(h) ==
    LET c == call[h]
    IN  (/\ pc[h] \in {"update", "parentKey", "commit"} /\ c.op = "move"
         /\ c.parent # Null /\ c.parent \in Live /\ c.node \in Live)
        => ~IsDescendant(c.parent, c.node)

\* A DELETE has reached its row and, from there, rows of its subtree.
DeleteReady(h) ==
    LET c == call[h]
    IN  pc[h] = "cascade" =>
          /\ c.held \subseteq Live
          /\ c.op = "deleteProject" =>
                c.project \in projects /\ \A n \in c.held : project[n] = c.project
          /\ c.op = "delete" =>
                /\ c.node \in c.held
                /\ \A n \in c.held \ {c.node} : parent[n] \in c.held

HandlerOK(h) ==
    /\ CallShape(h) /\ NodeFound(h) /\ ParentFound(h) /\ CommitReady(h)
    /\ HoldsLock(h) /\ ReorderReady(h) /\ MoveReady(h) /\ DeleteReady(h)

\* A row locked FOR UPDATE is locked by nobody else, and a project that is being
\* deleted has no uncommitted row.
LocksExclude ==
    \A g, h \in Handler : g # h =>
        /\ ForUpdate(h) \cap Locked(g) = {}
        /\ pc[h] = "cascade" => call[h].project \notin PinsProject(g)

IInv ==
    /\ TypeOK
    /\ ParentsInProject
    /\ Acyclic
    /\ \A h \in Handler : HandlerOK(h)
    /\ LocksExclude

-----------------------------------------------------------------------------
(* Properties.  Acyclic and ParentsInProject are those of TreeTables.      *)

\* A folder move that has passed the cycle check may commit at any later time:
\* nothing another handler commits meanwhile can put the new parent below the
\* moved folder.  (MoveFolder's "whole check-then-write runs under a
\* per-project lock".)
CheckedMoveStaysSafe == \A h \in Handler : MoveReady(h)

\* A reorder writes against the sibling set it validated: between the check and
\* the write none of the listed rows is deleted or moved out of the scope, no
\* other call that moves or reorders rows of the project is about to write, and the
\* project is not being deleted.
ReorderSeesItsSiblings ==
    \A h \in Handler :
        LET c == call[h]
        IN  pc[h] = "reorder" =>
              /\ \A i \in DOMAIN c.ids :
                    c.ids[i] \in Siblings(c.kind, c.project, c.parent)
              /\ \A g \in Handler \ {h} :
                    call[g].project = c.project /\ c.project \in projects =>
                      /\ call[g].op \in {"move", "reorder"} => pc[g] = "lock"
                      /\ call[g].op = "deleteProject" => pc[g] # "cascade"

\* Every accepted call takes effect at one instant, as AtomicTree says.
Atomic == INSTANCE AtomicTree
ImplementsAtomicTree == Atomic!Spec

\* Every call is answered: no handler waits for ever for the project lock or a
\* row lock, so every path out of a transaction releases what it holds.
EveryCallEnds == \A h \in Handler : pc[h] # "idle" ~> pc[h] = "idle"
=============================================================================
