------------------------- MODULE ProjectTree_proofs -------------------------
(***************************************************************************)
(* Proofs about ProjectTree, for any sets of projects, folders, requests   *)
(* and handlers: the tables stay a forest inside each project, and the     *)
(* statements of interleaved calls implement AtomicTree.                   *)
(***************************************************************************)
EXTENDS ProjectTree, TLAPS

-----------------------------------------------------------------------------
(* What each committed write does to a well-formed tree, for every tree:   *)
(* it stays well formed, and no write outside a project changes who is     *)
(* below whom inside it.                                                   *)

\* A folder that is not below n has a reason that lies in its own project: a
\* set of live folders of that project which holds it, is closed under parent
\* and does not hold n.
LEMMA ConfinedWitness ==
    ASSUME TablesTypeOK, ParentsInProject,
           NEW f \in Live \cap Folder, NEW n, ~IsDescendant(f, n), n \in Node
    PROVE  \E S \in SUBSET (Live \cap Folder) :
              /\ f \in S /\ n \notin S /\ Closed(S)
              /\ \A m \in S : project[m] = project[f]
<1>1. PICK S \in SUBSET Node : f \in S /\ Closed(S) /\ n \notin S
  BY DEF IsDescendant, Ancestors
<1> DEFINE T == {m \in S \cap Live \cap Folder : project[m] = project[f]}
<1>2. Closed(T)
  <2> SUFFICES ASSUME NEW m \in T \cap Live, parent[m] # Null
               PROVE  parent[m] \in T
    BY DEF Closed
  <2>1. parent[m] \in S
    BY <1>1 DEF Closed
  <2>2. parent[m] \in Live \cap Folder /\ project[parent[m]] = project[m]
    BY DEF ParentsInProject
  <2> QED
    BY <2>1, <2>2
<1> QED
  BY <1>1, <1>2

\* The same witness is a reason after a step, too.
LEMMA WitnessSuffices ==
    ASSUME NEW f, NEW n, NEW S \in SUBSET Node, f \in S, n \notin S, Closed(S)'
    PROVE  ~IsDescendant(f, n)'
  BY DEF IsDescendant, Ancestors, Node

\* Requests are leaves: no folder is below one.
LEMMA RequestsAreLeaves ==
    ASSUME TablesTypeOK, ParentsInProject, NEW f \in Live \cap Folder,
           NEW n \in Request
    PROVE  ~IsDescendant(f, n)
<1>1. Closed(Folder)
  BY DEF ParentsInProject, Closed
<1>2. n \notin Folder /\ Folder \in SUBSET Node
  BY IdsAssumption DEF Node
<1> QED
  BY <1>1, <1>2 DEF IsDescendant, Ancestors

-----------------------------------------------------------------------------
(* Inserting a row that did not exist.                                     *)

\* A new row under a folder of its project leaves a forest.
LEMMA InsertRowWellFormed ==
    ASSUME TablesTypeOK, WellFormed,
           NEW n \in Node, NEW p \in projects, NEW f \in Folder \cup {Null}, NEW o,
           row[n] = "new",
           f # Null => f \in Live /\ project[f] = p,
           InsertRow(n, p, f, o)
    PROVE  WellFormed'
<1>1. Live' = Live \cup {n} /\ n \notin Live
  BY DEF Live, InsertRow, TablesTypeOK
<1>2. \A m \in Live : m # n /\ parent'[m] = parent[m] /\ project'[m] = project[m]
                      /\ parent[m] # n
  BY <1>1, IdsAssumption
     DEF InsertRow, TablesTypeOK, WellFormed, ParentsInProject, Live
<1>3. parent'[n] = f /\ project'[n] = p /\ f # n /\ projects' = projects
  BY <1>1, IdsAssumption DEF InsertRow, TablesTypeOK
<1>4. ParentsInProject'
  <2> SUFFICES ASSUME NEW m \in Live'
               PROVE  /\ project'[m] \in projects'
                      /\ parent'[m] # Null =>
                            /\ parent'[m] \in Live' \cap Folder
                            /\ project'[parent'[m]] = project'[m]
    BY DEF ParentsInProject
  <2>1. CASE m = n
    BY <2>1, <1>1, <1>2, <1>3
  <2>2. CASE m \in Live
    BY <2>2, <1>1, <1>2, <1>3 DEF WellFormed, ParentsInProject
  <2> QED
    BY <2>1, <2>2, <1>1
<1>5. Acyclic'
  <2> SUFFICES ASSUME NEW S \in SUBSET Live', S # {}
               PROVE  \E m \in S : parent'[m] \notin S
    BY DEF Acyclic
  <2>1. CASE S \ {n} = {}
    BY <2>1, <1>3
  <2>2. CASE S \ {n} # {}
    <3>1. S \ {n} \in SUBSET Live
      BY <1>1
    <3>2. PICK m \in S \ {n} : parent[m] \notin S \ {n}
      BY <2>2, <3>1 DEF WellFormed, Acyclic
    <3>3. m \in Live
      BY <3>1, <3>2
    <3> QED
      BY <3>2, <3>3, <1>2
  <2> QED
    BY <2>1, <2>2
<1> QED
  BY <1>4, <1>5 DEF WellFormed

\* A new row has nothing below it, so it puts no folder below another.
LEMMA InsertRowKeepsApart ==
    ASSUME TablesTypeOK, ParentsInProject,
           NEW n \in Node, NEW p, NEW f, NEW o, row[n] = "new",
           InsertRow(n, p, f, o),
           NEW g \in Live \cap Folder, NEW m \in Node, ~IsDescendant(g, m)
    PROVE  ~IsDescendant(g, m)'
<1>1. PICK S \in SUBSET (Live \cap Folder) : g \in S /\ m \notin S /\ Closed(S)
  BY ConfinedWitness
<1>2. n \notin S
  BY <1>1 DEF Live
<1>3. Closed(S)'
  BY <1>1, <1>2 DEF Closed, InsertRow, TablesTypeOK, Live
<1>4. S \in SUBSET Node
  BY <1>1 DEF Live
<1> QED
  BY <1>1, <1>3, <1>4, WitnessSuffices

-----------------------------------------------------------------------------
(* Giving a row another parent of the same project that is not below it.   *)

\* A row moved to a folder that is not below it leaves a forest.
LEMMA SetParentWellFormed ==
    ASSUME TablesTypeOK, WellFormed,
           NEW n \in Live, NEW f \in Folder \cup {Null}, NEW o,
           f # Null => f \in Live /\ project[f] = project[n] /\ ~IsDescendant(f, n),
           SetParent(n, f, o)
    PROVE  WellFormed'
<1>1. Live' = Live /\ project' = project /\ projects' = projects
  BY DEF Live, SetParent
<1>2. /\ parent'[n] = f
      /\ \A m \in Live : m # n => parent'[m] = parent[m]
  BY DEF SetParent, TablesTypeOK, Live
<1>3. ParentsInProject'
  BY <1>1, <1>2 DEF WellFormed, ParentsInProject
<1>4. Acyclic'
  <2> SUFFICES ASSUME NEW T \in SUBSET Live, T # {}
               PROVE  \E m \in T : parent'[m] \notin T
    BY <1>1 DEF Acyclic
  <2>1. CASE n \notin T
    BY <2>1, <1>2 DEF WellFormed, Acyclic
  <2>2. CASE n \in T /\ f \notin T
    BY <2>2, <1>2
  <2>3. CASE n \in T /\ f \in T
    <3>1. f # Null /\ f \in Live \cap Folder
      BY <2>3, IdsAssumption DEF Live
    <3>2. n \in Node
      BY DEF Live
    <3>3. PICK S \in SUBSET (Live \cap Folder) : f \in S /\ n \notin S /\ Closed(S)
      BY <3>1, <3>2, ConfinedWitness DEF WellFormed
    <3>4. PICK m \in T \cap S : parent[m] \notin T \cap S
      BY <2>3, <3>3 DEF WellFormed, Acyclic
    <3>5. parent[m] \notin T
      BY <3>3, <3>4, IdsAssumption DEF Closed, Live
    <3> QED
      BY <3>3, <3>4, <3>5, <1>2
  <2> QED
    BY <2>1, <2>2, <2>3
<1> QED
  BY <1>3, <1>4 DEF WellFormed

\* Folders of another project, and every folder when the moved row is a
\* request, are below the same folders as before.
LEMMA SetParentKeepsApart ==
    ASSUME TablesTypeOK, ParentsInProject,
           NEW n \in Live, NEW f, NEW o, SetParent(n, f, o),
           NEW g \in Live \cap Folder, NEW m \in Node, ~IsDescendant(g, m),
           project[n] # project[g] \/ n \in Request
    PROVE  ~IsDescendant(g, m)'
<1>1. PICK S \in SUBSET (Live \cap Folder) :
         /\ g \in S /\ m \notin S /\ Closed(S)
         /\ \A k \in S : project[k] = project[g]
  BY ConfinedWitness
<1>2. n \notin S
  BY <1>1, IdsAssumption
<1>3. Closed(S)'
  BY <1>1, <1>2 DEF Closed, SetParent, TablesTypeOK, Live
<1>4. S \in SUBSET Node
  BY <1>1 DEF Live
<1> QED
  BY <1>1, <1>3, <1>4, WitnessSuffices

-----------------------------------------------------------------------------
(* Erasing rows together with everything below them.                       *)

\* Rows erased with all that hangs below them, and projects with all their
\* rows, leave a forest.
LEMMA EraseWellFormed ==
    ASSUME TablesTypeOK, WellFormed,
           NEW gone \in SUBSET Live, NEW lost \in SUBSET projects,
           \A n \in Live : parent[n] \in gone => n \in gone,
           \A n \in Live : project[n] \in lost => n \in gone,
           projects' = projects \ lost,
           Erase(gone)
    PROVE  WellFormed'
<1>1. Live' = Live \ gone
  BY DEF Live, Erase, TablesTypeOK
<1>2. \A n \in Live' : parent'[n] = parent[n] /\ project'[n] = project[n]
  BY <1>1 DEF Live, Erase, TablesTypeOK
<1>3. ParentsInProject'
  BY <1>1, <1>2 DEF WellFormed, ParentsInProject
<1>4. Acyclic'
  BY <1>1, <1>2 DEF WellFormed, Acyclic
<1> QED
  BY <1>3, <1>4 DEF WellFormed

\* Erasing rows puts no folder below another.
LEMMA EraseKeepsApart ==
    ASSUME TablesTypeOK, ParentsInProject,
           NEW gone \in SUBSET Live, Erase(gone),
           NEW g \in Live \cap Folder, NEW m \in Node, ~IsDescendant(g, m)
    PROVE  ~IsDescendant(g, m)'
<1>1. PICK S \in SUBSET (Live \cap Folder) : g \in S /\ m \notin S /\ Closed(S)
  BY ConfinedWitness
<1>2. Live' \subseteq Live /\ \A k \in Live' : parent'[k] = parent[k]
  BY DEF Live, Erase, TablesTypeOK
<1>3. Closed(S)'
  BY <1>1, <1>2 DEF Closed
<1>4. S \in SUBSET Node
  BY <1>1 DEF Live
<1> QED
  BY <1>1, <1>3, <1>4, WitnessSuffices

-----------------------------------------------------------------------------
(* Type correctness.                                                       *)

\* A reorder may send no id at all.
LEMMA EmptyList == <<>> \in Lists
<1>1. <<>> \in [1 .. 0 -> Node]
  OBVIOUS
<1>2. 0 \in 0 .. MaxList
  BY MaxListAssumption, MaxOrderAssumption
<1> QED
  BY <1>1, <1>2 DEF Lists

\* An idle handler has a call record like any other.
LEMMA NoCallType == NoCall \in Calls
  BY EmptyList DEF NoCall, Calls

\* What every handler-only step needs: one entry of pc and of call changes.
LEMMA FinishType ==
    ASSUME TypeOK, NEW h \in Handler, Finish(h)
    PROVE  /\ lock' \in [Project -> Handler \cup {Null}]
           /\ pc' \in [Handler -> PCs]
           /\ call' \in [Handler -> Calls]
  BY NoCallType DEF TypeOK, Finish, PCs

\* Wherever a transaction goes on is a statement of some handler.
LEMMA ParentOrNextType ==
    ASSUME NEW c
    PROVE  /\ AfterParent(c) \in PCs
           /\ ParentOrNext(c) \in PCs
  BY DEF AfterParent, ParentOrNext, PCs

\* A cascading delete keeps the types of the columns.
LEMMA EraseType ==
    ASSUME TablesTypeOK, NEW gone, Erase(gone)
    PROVE  /\ row' \in [Node -> {"new", "live", "deleted"}]
           /\ project' \in [Node -> Project \cup {Null}]
           /\ parent' \in [Node -> Folder \cup {Null}]
           /\ order' \in [Node -> Orders]
  BY MaxOrderAssumption DEF TablesTypeOK, Erase, Orders

\* Steps that only move one handler on, leaving the tables alone.
LEMMA GotoType ==
    ASSUME TypeOK, NEW h \in Handler, NEW label \in PCs, Goto(h, label),
           call' \in [Handler -> Calls]
    PROVE  TypeOK'
  BY DEF TypeOK, TablesTypeOK, Goto, tables, Node, Orders

\* Rolling back keeps the types.
LEMMA FailType ==
    ASSUME TypeOK, NEW h \in Handler, Fail(h)
    PROVE  TypeOK'
  BY FinishType DEF TypeOK, TablesTypeOK, Fail, tables, Node, Orders

\* So does starting a call with well-typed arguments.
LEMMA BeginType ==
    ASSUME TypeOK, NEW h \in Handler, NEW c \in Calls, NEW label \in PCs,
           Begin(h, c, label)
    PROVE  TypeOK'
<1>1. call' \in [Handler -> Calls] /\ Goto(h, label)
  BY DEF Begin, TypeOK
<1> QED
  BY <1>1, GotoType

\* Each handler starts its call with well-typed arguments.
LEMMA StartType ==
    ASSUME TypeOK, NEW h \in Handler, Start(h)
    PROVE  \E c \in Calls, label \in PCs : Begin(h, c, label)
<1> USE NoCallType, ParentOrNextType
<1>1. "lock" \in PCs /\ "delete" \in PCs
  BY DEF PCs
<1>2. \A n \in Live : project[n] \in Project \cup {Null} /\ n \in Node
  BY DEF TypeOK, TablesTypeOK, Live
<1>3. projects \subseteq Project /\ ClientOrder \subseteq Orders
  BY ClientOrderAssumption DEF TypeOK, TablesTypeOK
<1>4. CASE handleCreateFolder(h)
  <2>1. PICK p \in projects, f \in Folder \cup {Null} :
           LET c == [NoCall EXCEPT !.op = "create", !.project = p, !.parent = f]
           IN  Begin(h, c, ParentOrNext(c))
    BY <1>4 DEF handleCreateFolder
  <2> QED
    BY <2>1, <1>3 DEF Calls
<1>5. CASE handleCreateRequest(h)
  <2>1. PICK p \in projects, f \in Folder \cup {Null} :
           LET c == [NoCall EXCEPT !.op = "create", !.kind = "request",
                                   !.project = p, !.parent = f]
           IN  Begin(h, c, ParentOrNext(c))
    BY <1>5 DEF handleCreateRequest
  <2> QED
    BY <2>1, <1>3 DEF Calls
<1>6. CASE handleMoveFolder(h)
  BY <1>6, <1>1, <1>2, <1>3 DEF handleMoveFolder, Calls
<1>7. CASE handleMoveRequest(h)
  BY <1>7, <1>1, <1>2, <1>3 DEF handleMoveRequest, Calls
<1>8. CASE handleReorderFolders(h)
  BY <1>8, <1>1, <1>3 DEF handleReorderFolders, Calls
<1>9. CASE handleReorderRequests(h)
  BY <1>9, <1>1, <1>3 DEF handleReorderRequests, Calls
<1>10. CASE handleDeleteFolder(h)
  BY <1>10, <1>1, <1>2 DEF handleDeleteFolder, Calls
<1>11. CASE handleDeleteRequest(h)
  BY <1>11, <1>1, <1>2 DEF handleDeleteRequest, Calls
<1>12. CASE handleDeleteProject(h)
  BY <1>12, <1>1, <1>3 DEF handleDeleteProject, Calls
<1> QED
  BY <1>4, <1>5, <1>6, <1>7, <1>8, <1>9, <1>10, <1>11, <1>12 DEF Start

\* Every statement of every handler keeps the types.
LEMMA TypeStep ==
    ASSUME TypeOK, [Next]_vars, \A h \in Handler : CallShape(h)
    PROVE  TypeOK'
<1> USE DEF PCs
<1>1. ASSUME NEW h \in Handler, Start(h)
      PROVE  TypeOK'
  BY <1>1, StartType, BeginType
<1>2. ASSUME NEW h \in Handler, LockProject(h)
      PROVE  TypeOK'
  BY <1>2, ParentOrNextType
     DEF LockProject, TypeOK, TablesTypeOK, tables, Node, Orders
<1>3. ASSUME NEW h \in Handler, requireFolderInProject(h)
      PROVE  TypeOK'
  BY <1>3, FailType, GotoType, ParentOrNextType DEF requireFolderInProject, TypeOK
<1>4. ASSUME NEW h \in Handler, Insert(h)
      PROVE  TypeOK'
  <2>1. CASE Fail(h)
    BY <2>1, FailType
  <2>2. CASE /\ Goto(h, "projectKey")
             /\ \E o \in Orders : call' = [call EXCEPT ![h].order = o]
    <3>1. call' \in [Handler -> Calls]
      BY <2>2 DEF TypeOK, Calls
    <3> QED
      BY <2>2, <3>1, GotoType
  <2> QED
    BY <1>4, <2>1, <2>2 DEF Insert
<1>5. ASSUME NEW h \in Handler, ProjectForeignKey(h) \/ ParentForeignKey(h)
      PROVE  TypeOK'
  BY <1>5, FailType, GotoType DEF ProjectForeignKey, ParentForeignKey, TypeOK
<1>6. ASSUME NEW h \in Handler, CommitCreate(h)
      PROVE  TypeOK'
  <2>1. call[h] \in Calls /\ call[h].order \in Orders
    BY <1>6 DEF CommitCreate, CallShape, TypeOK
  <2>2. TablesTypeOK'
    BY <1>6, <2>1 DEF CommitCreate, InsertRow, TypeOK, TablesTypeOK, Calls, OfKind, Node
  <2> QED
    BY <1>6, <2>2, FinishType DEF CommitCreate, TypeOK
<1>7. ASSUME NEW h \in Handler, CheckCycle(h)
      PROVE  TypeOK'
  BY <1>7, FailType, GotoType DEF CheckCycle, TypeOK
<1>8. ASSUME NEW h \in Handler, UpdateParent(h)
      PROVE  TypeOK'
  <2>1. CASE Fail(h)
    BY <2>1, FailType
  <2>2. CASE /\ Goto(h, IF Refers(call[h]) THEN "parentKey" ELSE "commit")
             /\ \E o \in Orders : call' = [call EXCEPT ![h].order = o]
    <3>1. call' \in [Handler -> Calls]
      BY <2>2 DEF TypeOK, Calls
    <3> QED
      BY <2>2, <3>1, GotoType
  <2> QED
    BY <1>8, <2>1, <2>2 DEF UpdateParent
<1>9. ASSUME NEW h \in Handler, CommitMove(h)
      PROVE  TypeOK'
  <2>1. call[h] \in Calls /\ call[h].order \in Orders
    BY <1>9 DEF CommitMove, CallShape, TypeOK
  <2>2. TablesTypeOK'
    BY <1>9, <2>1 DEF CommitMove, SetParent, TypeOK, TablesTypeOK, Calls
  <2> QED
    BY <1>9, <2>2, FinishType DEF CommitMove, TypeOK
<1>10. ASSUME NEW h \in Handler, ListSiblings(h)
       PROVE  TypeOK'
  <2>1. \A k, p, f : Siblings(k, p, f) \in SUBSET Node
    BY DEF Siblings, Live
  <2>2. call' \in [Handler -> Calls] /\ Goto(h, "rows")
    BY <1>10, <2>1 DEF ListSiblings, TypeOK, Calls
  <2> QED
    BY <2>2, GotoType
<1>11. ASSUME NEW h \in Handler, LockSibling(h)
       PROVE  TypeOK'
  <2>1. NextSiblings(h) \subseteq Node
    BY DEF NextSiblings, TypeOK, Calls
  <2>2. PICK n \in Node, S \in SUBSET Node :
           call' = [call EXCEPT ![h] =
                       [call[h] EXCEPT !.todo = @ \ {n}, !.held = @ \cup ({n} \cap S)]]
    <3>1. \A k, p, f : Siblings(k, p, f) \in SUBSET Node
      BY DEF Siblings, Live
    <3> QED
      BY <1>11, <2>1, <3>1 DEF LockSibling
  <2>3. call' \in [Handler -> Calls]
    <3>1. [call[h] EXCEPT !.todo = @ \ {n}, !.held = @ \cup ({n} \cap S)] \in Calls
      BY DEF TypeOK, Calls
    <3> QED
      BY <2>2, <3>1 DEF TypeOK
  <2> QED
    BY <1>11, <2>3 DEF LockSibling, TypeOK, TablesTypeOK, tables, Node, Orders
<1>12. ASSUME NEW h \in Handler, checkSiblings(h)
       PROVE  TypeOK'
  <2>1. CASE Fail(h)
    BY <2>1, FailType
  <2>2. CASE Goto(h, "reorder") /\ \E ids \in Lists : call' = [call EXCEPT ![h].ids = ids]
    <3>1. call' \in [Handler -> Calls]
      BY <2>2 DEF TypeOK, Calls
    <3> QED
      BY <2>2, <3>1, GotoType
  <2> QED
    BY <1>12, <2>1, <2>2 DEF checkSiblings
<1>13. ASSUME NEW h \in Handler, NEW base \in {0, 1}, BulkUpdateOrder(h, base)
       PROVE  TypeOK'
  <2>1. PICK k \in 0 .. MaxList : call[h].ids \in [1 .. k -> Node]
    BY DEF TypeOK, Calls, Lists
  <2>2. \A i \in DOMAIN call[h].ids : base - 1 + i \in Orders
    BY <2>1, MaxListAssumption, MaxOrderAssumption DEF Orders
  <2>3. order' \in [Node -> Orders]
    BY <1>13, <2>2 DEF BulkUpdateOrder, TypeOK, TablesTypeOK
  <2> QED
    BY <1>13, <2>3, FinishType DEF BulkUpdateOrder, TypeOK, TablesTypeOK
<1>14. ASSUME NEW h \in Handler, DeleteNode(h)
       PROVE  TypeOK'
  <2>1. CASE Fail(h)
    BY <2>1, FailType
  <2>2. CASE /\ call[h].node \in Live /\ Goto(h, "cascade")
             /\ call' = [call EXCEPT ![h].held = {call[h].node}]
    <3>1. call' \in [Handler -> Calls]
      BY <2>2 DEF TypeOK, Calls, Live
    <3> QED
      BY <2>2, <3>1, GotoType
  <2> QED
    BY <1>14, <2>1, <2>2 DEF DeleteNode
<1>15. ASSUME NEW h \in Handler, DeleteProject(h)
       PROVE  TypeOK'
  BY <1>15, FailType
     DEF DeleteProject, TypeOK, TablesTypeOK, tables, Node, Orders
<1>16. ASSUME NEW h \in Handler, SweepUp(h)
       PROVE  TypeOK'
  <2>1. Below(h) \subseteq Node
    BY DEF Below, Live
  <2>2. call' \in [Handler -> Calls]
    BY <1>16, <2>1 DEF SweepUp, TypeOK, Calls
  <2> QED
    BY <1>16, <2>2 DEF SweepUp, TypeOK, TablesTypeOK, tables, Node, Orders
<1>17. ASSUME NEW h \in Handler, CommitDelete(h)
       PROVE  TypeOK'
  BY <1>17, EraseType, FinishType DEF CommitDelete, TypeOK, TablesTypeOK
<1>18. ASSUME NEW h \in Handler, Abort(h)
       PROVE  TypeOK'
  BY <1>18, FailType DEF Abort
<1>19. CASE UNCHANGED vars
  BY <1>19 DEF vars, tables, TypeOK, TablesTypeOK, Node, Orders
<1> QED
  BY <1>1, <1>2, <1>3, <1>4, <1>5, <1>6, <1>7, <1>8, <1>9, <1>10, <1>11, <1>12,
     <1>13, <1>14, <1>15, <1>16, <1>17, <1>18, <1>19
     DEF Next, Advance, CreateFolder, CreateRequest, UpdateFolderParent,
         UpdateRequestFolder, ListSiblingFolderIDs, ListSiblingRequestIDs,
         BulkUpdateFolderOrder, BulkUpdateRequestOrder, DeleteFolder,
         DeleteRequest, DeadlockVictim

\* The empty database is well typed.
LEMMA TypeInit == Init => TypeOK
  BY NoCallType, MaxOrderAssumption
     DEF Init, TablesInit, TypeOK, TablesTypeOK, Orders, PCs

-----------------------------------------------------------------------------
(* What a handler relies on survives the steps of the others.              *)

\* The other handlers keep their label, arguments and locks.
Untouched(g) ==
    /\ pc'[g] = pc[g]
    /\ call'[g] = call[g]
    /\ \A p \in Project : lock[p] = g => lock'[p] = g

\* A handler keeps what it relies on when neither it nor a table changes.
LEMMA SameTables ==
    ASSUME TypeOK, NEW g \in Handler, HandlerOK(g), Untouched(g), UNCHANGED tables
    PROVE  HandlerOK(g)'
<1>1. /\ projects' = projects /\ row' = row /\ project' = project
      /\ parent' = parent /\ order' = order
  BY DEF tables
<1>2. Live' = Live
  BY <1>1 DEF Live
<1>3. /\ CallShape(g)' /\ NodeFound(g)' /\ ParentFound(g)' /\ CommitReady(g)'
      /\ DeleteReady(g)'
  BY <1>1, <1>2 DEF HandlerOK, Untouched, CallShape, NodeFound, ParentFound,
                    CommitReady, DeleteReady, OfKind, Orders, Node
<1>4. HoldsLock(g)'
  BY <1>1 DEF HandlerOK, Untouched, HoldsLock, TypeOK, TablesTypeOK
<1>5. ReorderReady(g)'
  BY <1>1, <1>2 DEF HandlerOK, Untouched, ReorderReady, Siblings, OfKind
<1>6. MoveReady(g)'
  BY <1>1, <1>2 DEF HandlerOK, Untouched, MoveReady, IsDescendant, Ancestors,
                    Closed, Node
<1> QED
  BY <1>3, <1>4, <1>5, <1>6 DEF HandlerOK

\* An idle handler relies on nothing.
LEMMA IdleOK ==
    ASSUME NEW h \in Handler, pc'[h] = "idle", call'[h] = NoCall
    PROVE  HandlerOK(h)'
  BY DEF HandlerOK, CallShape, NodeFound, ParentFound, CommitReady, HoldsLock,
         ReorderReady, MoveReady, DeleteReady, NoCall

\* A handler that ends leaves the locks and calls of the others alone.
LEMMA FinishOthers ==
    ASSUME TypeOK, NEW h \in Handler, NEW g \in Handler \ {h}, Finish(h)
    PROVE  Untouched(g)
  BY DEF TypeOK, Finish, Untouched

\* A handler that has ended relies on nothing.
LEMMA FinishSelf ==
    ASSUME TypeOK, NEW h \in Handler, Finish(h)
    PROVE  HandlerOK(h)'
  BY IdleOK DEF TypeOK, Finish

\* No lock is shared that excludes sharing when every handler holds what it held
\* before, or less.
LEMMA FewerLocks ==
    ASSUME LocksExclude,
           \A g \in Handler :
              /\ ForUpdate(g)' \subseteq ForUpdate(g)
              /\ Locked(g)' \subseteq Locked(g)
              /\ PinsProject(g)' \subseteq PinsProject(g)
              /\ pc'[g] = "cascade" =>
                    pc[g] = "cascade" /\ call'[g].project = call[g].project
    PROVE  LocksExclude'
<1> SUFFICES ASSUME NEW g \in Handler, NEW h \in Handler, g # h
             PROVE  /\ ForUpdate(h)' \cap Locked(g)' = {}
                    /\ pc'[h] = "cascade" => call'[h].project \notin PinsProject(g)'
  BY DEF LocksExclude
<1>1. /\ ForUpdate(h) \cap Locked(g) = {}
      /\ pc[h] = "cascade" => call[h].project \notin PinsProject(g)
  BY DEF LocksExclude
<1>2. ForUpdate(h)' \subseteq ForUpdate(h) /\ Locked(g)' \subseteq Locked(g)
      /\ PinsProject(g)' \subseteq PinsProject(g)
  OBVIOUS
<1>3. pc'[h] = "cascade" =>
          pc[h] = "cascade" /\ call'[h].project = call[h].project
  OBVIOUS
<1> QED
  BY <1>1, <1>2, <1>3

\* A handler that ends holds nothing, and what others hold depends on the tables
\* only through the parent of a row that is being moved.
LEMMA FinishExclude ==
    ASSUME IInv, NEW h \in Handler, Finish(h),
           \A g \in Handler \ {h} :
              pc[g] = "commit" /\ call[g].op = "move"
                  => parent'[call[g].node] = parent[call[g].node]
    PROVE  LocksExclude'
<1>1. /\ pc'[h] = "idle" /\ call'[h] = NoCall
      /\ \A g \in Handler \ {h} : pc'[g] = pc[g] /\ call'[g] = call[g]
  BY DEF IInv, TypeOK, Finish
<1>2. /\ ForUpdate(h)' = {} /\ Locked(h)' = {} /\ PinsProject(h)' = {}
  BY <1>1 DEF Locked, ForUpdate, NoKeyUpdate, KeyShare, PinsProject, NoCall
<1>3. ASSUME NEW g \in Handler \ {h}
      PROVE  /\ ForUpdate(g)' = ForUpdate(g) /\ PinsProject(g)' = PinsProject(g)
             /\ Locked(g)' \subseteq Locked(g)
  <2>1. ForUpdate(g)' = ForUpdate(g) /\ PinsProject(g)' = PinsProject(g)
        /\ NoKeyUpdate(g)' = NoKeyUpdate(g)
    BY <1>1 DEF ForUpdate, NoKeyUpdate, PinsProject
  <2>2. KeyShare(g)' \subseteq KeyShare(g)
    <3> SUFFICES ASSUME pc[g] = "commit", Refers(call[g])'
                 PROVE  Refers(call[g])
      BY <1>1 DEF KeyShare
    <3>1. call[g].op \in {"create", "move"}
      BY DEF IInv, HandlerOK, CallShape
    <3> QED
      BY <1>1, <3>1 DEF Refers
  <2> QED
    BY <2>1, <2>2 DEF Locked
<1> QED
  BY <1>1, <1>2, <1>3, FewerLocks DEF IInv

\* A rollback disturbs nobody.
LEMMA FailOK ==
    ASSUME IInv, NEW h \in Handler, Fail(h)
    PROVE  LocksExclude' /\ \A g \in Handler : HandlerOK(g)'
<1>1. HandlerOK(h)'
  BY FinishSelf DEF Fail, IInv
<1>2. ASSUME NEW g \in Handler \ {h}
      PROVE  HandlerOK(g)'
  BY FinishOthers, SameTables DEF Fail, IInv
<1>3. LocksExclude'
  BY FinishExclude DEF Fail, tables
<1> QED
  BY <1>1, <1>2, <1>3

\* A committed insert takes nothing away that another handler relies on: the new
\* row has nothing below it.
LEMMA InsertRowOthers ==
    ASSUME IInv, NEW g \in Handler, Untouched(g),
           NEW n \in Node, NEW p \in projects, NEW f \in Folder \cup {Null},
           NEW o, row[n] = "new", InsertRow(n, p, f, o)
    PROVE  HandlerOK(g)'
<1> USE DEF IInv, HandlerOK
<1>1. Live' = Live \cup {n} /\ n \notin Live /\ projects' = projects
  BY DEF Live, InsertRow, TypeOK, TablesTypeOK
<1>2. \A m \in Node : m # n => /\ row'[m] = row[m] /\ parent'[m] = parent[m]
                              /\ project'[m] = project[m]
  BY DEF InsertRow, TypeOK, TablesTypeOK
<1>3. call[g] \in Calls /\ Folder \subseteq Node
  BY DEF TypeOK, Node
<1>4. CallShape(g)' /\ CommitReady(g)' /\ HoldsLock(g)'
  BY <1>1 DEF Untouched, CallShape, CommitReady, HoldsLock, TypeOK, TablesTypeOK
<1>5. NodeFound(g)'
  <2>1. call[g].op = "move" => call[g].node \in Node
    BY DEF NodeFound, OfKind, Node
  <2> QED
    BY <1>1, <1>2, <2>1 DEF Untouched, NodeFound, OfKind
<1>6. ParentFound(g)'
  BY <1>1, <1>2, <1>3 DEF Untouched, ParentFound, Calls
<1>7. ReorderReady(g)'
  <2> SUFFICES ASSUME call[g].op = "reorder", NEW m \in call[g].held
               PROVE  m \in Siblings(call[g].kind, call[g].project, call[g].parent)'
    BY DEF Untouched, ReorderReady
  <2>1. m \in Siblings(call[g].kind, call[g].project, call[g].parent)
    BY DEF ReorderReady
  <2> QED
    BY <1>1, <1>2, <2>1 DEF Siblings, OfKind, Untouched, Live
<1>8. MoveReady(g)'
  <2> SUFFICES ASSUME pc[g] \in {"update", "parentKey", "commit"}, call[g].op = "move",
                      call[g].parent # Null, call[g].parent \in Live',
                      call[g].node \in Live'
               PROVE  ~IsDescendant(call[g].parent, call[g].node)'
    BY DEF Untouched, MoveReady
  <2>0. PICK a, b : a = call[g].parent /\ b = call[g].node
    OBVIOUS
  <2>1. call[g].node \in Node /\ call[g].node # n
    BY DEF NodeFound, OfKind, Node
  <2>2. call[g].parent \in Folder /\ call[g].parent # n
    BY <1>3 DEF ParentFound, Calls
  <2>3. call[g].parent \in Live \cap Folder /\ call[g].node \in Live
    BY <1>1, <2>1, <2>2
  <2>4. ~IsDescendant(call[g].parent, call[g].node)
    BY <2>2, <2>3 DEF MoveReady
  <2>10. ~IsDescendant(a, b)'
    BY <2>1, <2>3, <2>4, <2>0, InsertRowKeepsApart DEF TypeOK
  <2> QED
    BY <2>0, <2>10 DEF Untouched
<1>9. DeleteReady(g)'
  <2> SUFFICES ASSUME pc[g] = "cascade"
               PROVE  DeleteReady(g)'
    BY DEF DeleteReady, Untouched
  <2>1. call[g].held \subseteq Live
    BY DEF DeleteReady
  <2>2. \A m \in call[g].held : m # n /\ m \in Node
    BY <1>1, <2>1 DEF Live
  <2>3. \A m \in call[g].held : project'[m] = project[m] /\ parent'[m] = parent[m]
    BY <1>2, <2>2
  <2>4. call[g].held \subseteq Live'
    BY <1>1, <2>1
  <2> QED
    BY <2>2, <2>3, <2>4 DEF DeleteReady, Untouched, InsertRow
<1> QED
  BY <1>4, <1>5, <1>6, <1>7, <1>8, <1>9

\* A move changes nothing a handler of another project relies on, and in its own
\* project its lock keeps the other movers and reorders out.
LEMMA SetParentOthers ==
    ASSUME IInv, NEW h \in Handler, NEW g \in Handler \ {h}, Untouched(g),
           CommitMove(h)
    PROVE  HandlerOK(g)'
<1> USE DEF IInv, HandlerOK
<1> DEFINE n == call[h].node
<1>1. /\ n \in Live /\ n \in Node /\ project[n] = call[h].project
      /\ call[h].project \in projects
      /\ SetParent(n, call[h].parent, call[h].order)
  BY DEF CommitMove, NodeFound, CommitReady, Live
<1>2. Live' = Live /\ project' = project /\ projects' = projects /\ row' = row
  BY <1>1 DEF Live, SetParent
<1>3. lock[project[n]] = h
  BY <1>1 DEF CommitMove, HoldsLock
<1>4. /\ call[g].op \in {"move", "reorder"} /\ pc[g] \notin {"idle", "lock"}
      /\ call[g].project \in projects
      => call[g].project # project[n]
  BY <1>3 DEF HoldsLock
<1>5. CallShape(g)' /\ NodeFound(g)' /\ ParentFound(g)' /\ CommitReady(g)'
      /\ HoldsLock(g)'
  BY <1>2 DEF Untouched, CallShape, NodeFound, ParentFound, CommitReady, HoldsLock,
              OfKind, TypeOK, TablesTypeOK
<1>6. ReorderReady(g)' /\ DeleteReady(g)'
  <2>1. n \notin call[g].held
    BY DEF CommitMove, LocksExclude, Locked, NoKeyUpdate, ForUpdate
  <2>2. \A m \in Live : m # n => parent'[m] = parent[m]
    BY <1>1 DEF SetParent, TypeOK, TablesTypeOK, Live
  <2>3. ReorderReady(g)'
    <3> SUFFICES ASSUME call[g].op = "reorder", NEW m \in call[g].held
                 PROVE  m \in Siblings(call[g].kind, call[g].project, call[g].parent)'
      BY DEF Untouched, ReorderReady
    <3>1. m \in Siblings(call[g].kind, call[g].project, call[g].parent)
      BY DEF ReorderReady
    <3> QED
      BY <1>2, <2>1, <2>2, <3>1 DEF Siblings, OfKind, Untouched
  <2>4. DeleteReady(g)'
    BY <1>2, <2>1, <2>2 DEF DeleteReady, Untouched
  <2> QED
    BY <2>3, <2>4
<1>7. MoveReady(g)'
  <2> SUFFICES ASSUME pc[g] \in {"update", "parentKey", "commit"}, call[g].op = "move",
                      call[g].parent # Null, call[g].parent \in Live,
                      call[g].node \in Live
               PROVE  ~IsDescendant(call[g].parent, call[g].node)'
    BY <1>2 DEF Untouched, MoveReady
  <2>0. PICK a, b : a = call[g].parent /\ b = call[g].node
    OBVIOUS
  <2>1. ~IsDescendant(call[g].parent, call[g].node) /\ call[g].node \in Node
    BY DEF MoveReady, Live
  <2>2. call[g].parent \in Folder /\ project[call[g].parent] = call[g].project
    BY DEF ParentFound, TypeOK, Calls
  <2>3. call[g].project # project[n]
    BY <1>4, <2>2 DEF ParentsInProject
  <2>10. ~IsDescendant(a, b)'
    BY <1>1, <2>1, <2>2, <2>3, <2>0, SetParentKeepsApart DEF TypeOK
  <2> QED
    BY <2>0, <2>10 DEF Untouched
<1> QED
  BY <1>5, <1>6, <1>7

\* Rewriting sort_order touches nothing but sort_order.
LEMMA ReorderOthers ==
    ASSUME TypeOK, NEW g \in Handler, HandlerOK(g), Untouched(g),
           UNCHANGED <<projects, row, project, parent>>
    PROVE  HandlerOK(g)'
<1>2. Live' = Live
  BY DEF Live
<1>3. /\ CallShape(g)' /\ NodeFound(g)' /\ ParentFound(g)' /\ CommitReady(g)'
      /\ DeleteReady(g)'
  BY <1>2 DEF HandlerOK, Untouched, CallShape, NodeFound, ParentFound,
              CommitReady, DeleteReady, OfKind, Orders, Node
<1>4. HoldsLock(g)'
  BY DEF HandlerOK, Untouched, HoldsLock, TypeOK, TablesTypeOK
<1>5. ReorderReady(g)'
  BY <1>2 DEF HandlerOK, Untouched, ReorderReady, Siblings, OfKind
<1>6. MoveReady(g)'
  BY <1>2 DEF HandlerOK, Untouched, MoveReady, IsDescendant, Ancestors,
              Closed, Node
<1> QED
  BY <1>3, <1>4, <1>5, <1>6 DEF HandlerOK

\* A delete waits for the rows that uncommitted writes refer to.
LEMMA EraseOthers ==
    ASSUME IInv, NEW g \in Handler, Untouched(g),
           NEW gone \in SUBSET Live, Erase(gone),
           \A n \in Live : parent[n] \in gone => n \in gone,
           gone \cap Locked(g) = {}, projects' \subseteq projects,
           \/ pc[g] \in {"parentKey", "commit"}
           \/ pc[g] = "cascade" /\ call[g].op = "deleteProject"
           => call[g].project \in projects'
    PROVE  HandlerOK(g)'
<1> USE DEF IInv, HandlerOK
<1>1. Live' = Live \ gone
  BY DEF Live, Erase, TypeOK, TablesTypeOK
<1>2. \A n \in Live' : /\ parent'[n] = parent[n] /\ project'[n] = project[n]
                       /\ n \in Node
  BY <1>1 DEF Live, Erase, TypeOK, TablesTypeOK
<1>3. \A n \in Node : row'[n] = "new" => row[n] = "new"
  BY DEF Erase
<1>4. call[g] \in Calls /\ Folder \subseteq Node
  BY DEF TypeOK, Node
<1>5. CallShape(g)' /\ HoldsLock(g)'
  BY DEF Untouched, CallShape, HoldsLock, TypeOK, TablesTypeOK
<1>6. NodeFound(g)'
  <2>1. call[g].op = "move" => call[g].node \in Node
    BY DEF NodeFound, OfKind, Node
  <2> QED
    BY <1>1, <1>2, <1>3, <2>1 DEF Untouched, NodeFound, OfKind
<1>7. ParentFound(g)'
  BY <1>1, <1>2, <1>3, <1>4 DEF Untouched, ParentFound, Calls
<1>8. CommitReady(g)'
  <2>1. ASSUME pc[g] \in {"parentKey", "commit"}, call[g].op = "move"
        PROVE  call[g].node \in Live' /\ call[g].node \in Live
    BY <1>1, <2>1 DEF CommitReady, Locked, NoKeyUpdate
  <2>2. ASSUME pc[g] = "commit", call[g].parent # Null
        PROVE  call[g].parent \in Live'
    <3>1. CASE Refers(call[g])
      BY <1>1, <2>2, <3>1 DEF CommitReady, Locked, KeyShare
    <3>2. CASE ~Refers(call[g])
      <4>1. call[g].op = "move" /\ parent[call[g].node] = call[g].parent
        BY <2>2, <3>2 DEF Refers, CallShape
      <4>2. call[g].parent \notin gone
        BY <1>1, <2>1, <2>2, <4>1
      <4> QED
        BY <1>1, <2>2, <4>2 DEF CommitReady
    <3> QED
      BY <3>1, <3>2
  <2> QED
    BY <2>1, <2>2 DEF Untouched, CommitReady, CallShape
<1>9. ReorderReady(g)' /\ DeleteReady(g)'
  <2>1. gone \cap call[g].held = {}
    BY DEF Locked, ForUpdate
  <2>2. ReorderReady(g)'
    <3> SUFFICES ASSUME call[g].op = "reorder", NEW m \in call[g].held
                 PROVE  m \in Siblings(call[g].kind, call[g].project, call[g].parent)'
      BY DEF Untouched, ReorderReady
    <3>1. m \in Siblings(call[g].kind, call[g].project, call[g].parent)
      BY DEF ReorderReady
    <3>2. m \in Live'
      BY <1>1, <2>1, <3>1 DEF Siblings
    <3> QED
      BY <1>2, <3>1, <3>2 DEF Siblings, OfKind, Untouched
  <2>3. DeleteReady(g)'
    <3> SUFFICES ASSUME pc[g] = "cascade"
                 PROVE  DeleteReady(g)'
      BY DEF DeleteReady, Untouched
    <3>1. /\ call[g].held \subseteq Live'
          /\ \A n \in call[g].held : parent'[n] = parent[n] /\ project'[n] = project[n]
      BY <1>1, <1>2, <2>1 DEF DeleteReady
    <3>2. call[g].op = "deleteProject" => call[g].project \in projects'
      OBVIOUS
    <3> QED
      BY <3>1, <3>2 DEF DeleteReady, Untouched
  <2> QED
    BY <2>2, <2>3
<1>10. MoveReady(g)'
  <2> SUFFICES ASSUME pc[g] \in {"update", "parentKey", "commit"}, call[g].op = "move",
                      call[g].parent # Null, call[g].parent \in Live',
                      call[g].node \in Live'
               PROVE  ~IsDescendant(call[g].parent, call[g].node)'
    BY DEF Untouched, MoveReady
  <2>0. PICK a, b : a = call[g].parent /\ b = call[g].node
    OBVIOUS
  <2>1. /\ ~IsDescendant(call[g].parent, call[g].node)
        /\ call[g].node \in Node /\ call[g].parent \in Live \cap Folder
    BY <1>1, <1>2, <1>4, IdsAssumption DEF MoveReady, Calls
  <2>10. ~IsDescendant(a, b)'
    BY <2>1, <2>0, EraseKeepsApart DEF TypeOK
  <2> QED
    BY <2>0, <2>10 DEF Untouched
<1> QED
  BY <1>5, <1>6, <1>7, <1>8, <1>9, <1>10

-----------------------------------------------------------------------------
(* Each step keeps every handler's assumptions, and the locks exclusive.   *)

\* A step of h that leaves the tables alone leaves the other handlers alone; what
\* is left to show is that h relies on what is so, and takes no lock another has.
LEMMA LocalStep ==
    ASSUME IInv, NEW h \in Handler, UNCHANGED tables,
           \A p \in Project : \A g \in Handler \ {h} : lock[p] = g => lock'[p] = g,
           \A g \in Handler \ {h} : pc'[g] = pc[g] /\ call'[g] = call[g],
           \A g \in Handler \ {h} :
              /\ ForUpdate(h)' \cap Locked(g) = {}
              /\ Locked(h)' \cap ForUpdate(g) = {}
              /\ pc'[h] = "cascade" => call'[h].project \notin PinsProject(g)
              /\ pc[g] = "cascade" => call[g].project \notin PinsProject(h)',
           HandlerOK(h)'
    PROVE  LocksExclude' /\ \A g \in Handler : HandlerOK(g)'
<1>1. \A g \in Handler : HandlerOK(g)'
  BY SameTables DEF IInv, Untouched
<1>2. parent' = parent
  BY DEF tables
<1>3. ASSUME NEW g \in Handler \ {h}
      PROVE  /\ ForUpdate(g)' = ForUpdate(g) /\ PinsProject(g)' = PinsProject(g)
             /\ Locked(g)' = Locked(g)
  BY <1>2 DEF ForUpdate, PinsProject, Locked, NoKeyUpdate, KeyShare, Refers
<1>4. LocksExclude'
  <2> SUFFICES ASSUME NEW g \in Handler, NEW k \in Handler, g # k
               PROVE  /\ ForUpdate(k)' \cap Locked(g)' = {}
                      /\ pc'[k] = "cascade" => call'[k].project \notin PinsProject(g)'
    BY DEF LocksExclude
  <2>1. /\ ForUpdate(k) \cap Locked(g) = {}
        /\ pc[k] = "cascade" => call[k].project \notin PinsProject(g)
    BY DEF IInv, LocksExclude
  <2>2. CASE k = h
    BY <1>3, <2>2
  <2>3. CASE g = h
    BY <1>3, <2>3
  <2>4. CASE k # h /\ g # h
    BY <1>3, <2>1, <2>4
  <2> QED
    BY <2>2, <2>3, <2>4
<1> QED
  BY <1>1, <1>4

\* A handler that holds no row before its first lock has none to exclude.
LEMMA QuietStep ==
    ASSUME IInv, NEW h \in Handler, UNCHANGED tables,
           \A p \in Project : \A g \in Handler \ {h} : lock[p] = g => lock'[p] = g,
           \A g \in Handler \ {h} : pc'[g] = pc[g] /\ call'[g] = call[g],
           pc'[h] \notin {"parentKey", "commit", "cascade"}, call'[h].held = {},
           HandlerOK(h)'
    PROVE  LocksExclude' /\ \A g \in Handler : HandlerOK(g)'
<1>1. ForUpdate(h)' = {} /\ Locked(h)' = {} /\ PinsProject(h)' = {}
  BY DEF ForUpdate, Locked, NoKeyUpdate, KeyShare, PinsProject
<1> QED
  BY <1>1, LocalStep

\* Only a reorder or a DELETE under way holds rows FOR UPDATE.
LEMMA HoldsNothing ==
    ASSUME IInv, NEW h \in Handler, pc[h] \notin {"rows", "reorder", "cascade"}
    PROVE  call[h].held = {}
  BY DEF IInv, HandlerOK, CallShape

\* What FOR UPDATE finds free is locked by nobody else.
LEMMA FreeRow ==
    ASSUME NEW h \in Handler, NEW n, RowFree(h, n), NEW g \in Handler \ {h}
    PROVE  /\ pc[h] \notin {"parentKey", "update"} => n \notin Locked(g)
           /\ n \notin ForUpdate(g)
  BY DEF RowFree, Against, Locked

\* Facts about the tables, for steps that do not change them.
LEMMA TablesFixed ==
    ASSUME UNCHANGED tables
    PROVE  /\ projects' = projects /\ row' = row /\ project' = project
           /\ parent' = parent /\ order' = order /\ Live' = Live
           /\ \A k, p, f : Siblings(k, p, f)' = Siblings(k, p, f)
           /\ \A a, b : IsDescendant(a, b)' = IsDescendant(a, b)
  BY DEF tables, Live, Siblings, OfKind, IsDescendant, Ancestors, Closed, Node

\* A create relies on nothing but its project id when it starts.
LEMMA BeginCreate ==
    ASSUME IInv, NEW h \in Handler, NEW c \in Calls, c.op = "create",
           c.project \in projects, c.held = {}, Begin(h, c, ParentOrNext(c))
    PROVE  LocksExclude' /\ \A g \in Handler : HandlerOK(g)'
<1>1. /\ call'[h] = c /\ pc'[h] \in {"parent", "insert"}
      /\ pc'[h] = "insert" => c.parent = Null
      /\ \A g \in Handler \ {h} : pc'[g] = pc[g] /\ call'[g] = call[g]
      /\ UNCHANGED <<tables, lock>>
  BY DEF IInv, TypeOK, Begin, Goto, ParentOrNext, AfterParent
<1>2. projects \subseteq Project
  BY DEF IInv, TypeOK, TablesTypeOK
<1>3. HandlerOK(h)'
  BY <1>1, <1>2 DEF HandlerOK, CallShape, NodeFound, ParentFound, CommitReady, HoldsLock,
                    ReorderReady, MoveReady, DeleteReady
<1> QED
  BY <1>1, <1>3, QuietStep

\* A move or a reorder relies on the row it found, and takes the lock next.
LEMMA BeginLocking ==
    ASSUME IInv, NEW h \in Handler, NEW c \in Calls, c.op \in {"move", "reorder"},
           c.project \in Project, c.held = {},
           c.op = "move" => /\ c.node \in OfKind(c.kind) /\ c.node \in Live
                            /\ project[c.node] = c.project,
           Begin(h, c, "lock")
    PROVE  LocksExclude' /\ \A g \in Handler : HandlerOK(g)'
<1>1. /\ call'[h] = c /\ pc'[h] = "lock"
      /\ \A g \in Handler \ {h} : pc'[g] = pc[g] /\ call'[g] = call[g]
      /\ UNCHANGED <<tables, lock>>
  BY DEF IInv, TypeOK, Begin, Goto
<1>2. row' = row /\ project' = project /\ Live' = Live
  BY <1>1, TablesFixed
<1>3. NodeFound(h)'
  BY <1>1, <1>2 DEF NodeFound, OfKind, Live
<1>4. HandlerOK(h)'
  BY <1>1, <1>3 DEF HandlerOK, CallShape, ParentFound, CommitReady, HoldsLock,
                    ReorderReady, MoveReady, DeleteReady
<1> QED
  BY <1>1, <1>4, QuietStep

\* A DELETE relies on nothing before it has reached its row.
LEMMA BeginDelete ==
    ASSUME IInv, NEW h \in Handler, NEW c \in Calls, c.op \in {"delete", "deleteProject"},
           c.op = "delete" => c.project = Null /\ c.node \in Node,
           c.op = "deleteProject" => c.project \in Project,
           c.held = {}, Begin(h, c, "delete")
    PROVE  LocksExclude' /\ \A g \in Handler : HandlerOK(g)'
<1>1. /\ call'[h] = c /\ pc'[h] = "delete"
      /\ \A g \in Handler \ {h} : pc'[g] = pc[g] /\ call'[g] = call[g]
      /\ UNCHANGED <<tables, lock>>
  BY DEF IInv, TypeOK, Begin, Goto
<1>2. HandlerOK(h)'
  BY <1>1 DEF HandlerOK, CallShape, NodeFound, ParentFound, CommitReady, HoldsLock,
              ReorderReady, MoveReady, DeleteReady, Node
<1> QED
  BY <1>1, <1>2, QuietStep

\* Starting any of the calls keeps the invariant.
LEMMA StartOK ==
    ASSUME IInv, NEW h \in Handler, Start(h)
    PROVE  LocksExclude' /\ \A g \in Handler : HandlerOK(g)'
<1> USE NoCallType
<1>1. \A n \in Live : project[n] \in Project /\ n \in Node
  BY DEF IInv, ParentsInProject, TypeOK, TablesTypeOK, Live
<1>2. projects \subseteq Project /\ ClientOrder \subseteq Orders
  BY ClientOrderAssumption DEF IInv, TypeOK, TablesTypeOK
<1>3. CASE handleCreateFolder(h)
  <2>1. PICK p \in projects, f \in Folder \cup {Null} :
           LET c == [NoCall EXCEPT !.op = "create", !.project = p, !.parent = f]
           IN  Begin(h, c, ParentOrNext(c))
    BY <1>3 DEF handleCreateFolder
  <2> DEFINE c == [NoCall EXCEPT !.op = "create", !.project = p, !.parent = f]
  <2>2. c \in Calls /\ c.op = "create" /\ c.project = p /\ c.held = {}
    BY <1>2 DEF Calls, NoCall
  <2> HIDE DEF c
  <2> QED
    BY <2>1, <2>2, BeginCreate DEF c
<1>4. CASE handleCreateRequest(h)
  <2>1. PICK p \in projects, f \in Folder \cup {Null} :
           LET c == [NoCall EXCEPT !.op = "create", !.kind = "request",
                                   !.project = p, !.parent = f]
           IN  Begin(h, c, ParentOrNext(c))
    BY <1>4 DEF handleCreateRequest
  <2> DEFINE c == [NoCall EXCEPT !.op = "create", !.kind = "request",
                                 !.project = p, !.parent = f]
  <2>2. c \in Calls /\ c.op = "create" /\ c.project = p /\ c.held = {}
    BY <1>2 DEF Calls, NoCall
  <2> HIDE DEF c
  <2> QED
    BY <2>1, <2>2, BeginCreate DEF c
<1>5. CASE handleMoveFolder(h)
  <2>1. PICK n \in Live \cap Folder, f \in Folder \cup {Null},
             o \in ClientOrder \cup {Null} :
           Begin(h, [NoCall EXCEPT !.op = "move", !.node = n, !.parent = f,
                                   !.project = project[n], !.order = o], "lock")
    BY <1>5 DEF handleMoveFolder
  <2> DEFINE c == [NoCall EXCEPT !.op = "move", !.node = n, !.parent = f,
                                 !.project = project[n], !.order = o]
  <2>2. /\ c \in Calls /\ c.op = "move" /\ c.project = project[n] /\ c.node = n
        /\ c.kind = "folder" /\ c.held = {}
    BY <1>1, <1>2 DEF Calls, NoCall
  <2> HIDE DEF c
  <2>3. Begin(h, c, "lock")
    BY <2>1 DEF c
  <2> QED
    BY <1>1, <2>2, <2>3, BeginLocking DEF OfKind
<1>6. CASE handleMoveRequest(h)
  <2>1. PICK n \in Live \cap Request, f \in Folder \cup {Null},
             o \in ClientOrder \cup {Null} :
           Begin(h, [NoCall EXCEPT !.op = "move", !.kind = "request", !.node = n,
                                   !.parent = f, !.project = project[n],
                                   !.order = o], "lock")
    BY <1>6 DEF handleMoveRequest
  <2> DEFINE c == [NoCall EXCEPT !.op = "move", !.kind = "request", !.node = n,
                                 !.parent = f, !.project = project[n],
                                 !.order = o]
  <2>2. /\ c \in Calls /\ c.op = "move" /\ c.project = project[n] /\ c.node = n
        /\ c.kind = "request" /\ c.held = {}
    BY <1>1, <1>2 DEF Calls, NoCall
  <2> HIDE DEF c
  <2>3. Begin(h, c, "lock")
    BY <2>1 DEF c
  <2> QED
    BY <1>1, <2>2, <2>3, BeginLocking DEF OfKind
<1>7. CASE handleReorderFolders(h)
  <2>1. PICK p \in projects, f \in Folder \cup {Null} :
           Begin(h, [NoCall EXCEPT !.op = "reorder", !.project = p,
                                   !.parent = f], "lock")
    BY <1>7 DEF handleReorderFolders
  <2> DEFINE c == [NoCall EXCEPT !.op = "reorder", !.project = p,
                                 !.parent = f]
  <2>2. c \in Calls /\ c.op = "reorder" /\ c.project \in Project /\ c.held = {}
    BY <1>2 DEF Calls, NoCall
  <2> HIDE DEF c
  <2> QED
    BY <2>1, <2>2, BeginLocking DEF c
<1>8. CASE handleReorderRequests(h)
  <2>1. PICK p \in projects, f \in Folder \cup {Null} :
           Begin(h, [NoCall EXCEPT !.op = "reorder", !.kind = "request", !.project = p,
                                   !.parent = f], "lock")
    BY <1>8 DEF handleReorderRequests
  <2> DEFINE c == [NoCall EXCEPT !.op = "reorder", !.kind = "request", !.project = p,
                                 !.parent = f]
  <2>2. c \in Calls /\ c.op = "reorder" /\ c.project \in Project /\ c.held = {}
    BY <1>2 DEF Calls, NoCall
  <2> HIDE DEF c
  <2> QED
    BY <2>1, <2>2, BeginLocking DEF c
<1>9. CASE handleDeleteFolder(h)
  <2>1. PICK n \in Live :
           Begin(h, [NoCall EXCEPT !.op = "delete", !.node = n], "delete")
    BY <1>9 DEF handleDeleteFolder
  <2> DEFINE c == [NoCall EXCEPT !.op = "delete", !.node = n]
  <2>2. /\ c \in Calls /\ c.op = "delete" /\ c.project = Null /\ c.node \in Node
        /\ c.held = {}
    BY <1>1 DEF Calls, NoCall
  <2> HIDE DEF c
  <2>3. Begin(h, c, "delete")
    BY <2>1 DEF c
  <2> QED
    BY <2>2, <2>3, BeginDelete
<1>10. CASE handleDeleteRequest(h)
  <2>1. PICK n \in Live :
           Begin(h, [NoCall EXCEPT !.op = "delete", !.kind = "request", !.node = n], "delete")
    BY <1>10 DEF handleDeleteRequest
  <2> DEFINE c == [NoCall EXCEPT !.op = "delete", !.kind = "request", !.node = n]
  <2>2. /\ c \in Calls /\ c.op = "delete" /\ c.project = Null /\ c.node \in Node
        /\ c.held = {}
    BY <1>1 DEF Calls, NoCall
  <2> HIDE DEF c
  <2>3. Begin(h, c, "delete")
    BY <2>1 DEF c
  <2> QED
    BY <2>2, <2>3, BeginDelete
<1>11. CASE handleDeleteProject(h)
  <2>1. PICK p \in projects :
           Begin(h, [NoCall EXCEPT !.op = "deleteProject", !.project = p], "delete")
    BY <1>11 DEF handleDeleteProject
  <2> DEFINE c == [NoCall EXCEPT !.op = "deleteProject", !.project = p]
  <2>2. c \in Calls /\ c.op = "deleteProject" /\ c.project \in Project /\ c.held = {}
    BY <1>2 DEF Calls, NoCall
  <2> HIDE DEF c
  <2>3. Begin(h, c, "delete")
    BY <2>1 DEF c
  <2> QED
    BY <2>2, <2>3, BeginDelete
<1> QED
  BY <1>3, <1>4, <1>5, <1>6, <1>7, <1>8, <1>9, <1>10, <1>11 DEF Start

\* LockProject gives the handler the lock of a project that still exists.
LEMMA LockProjectOK ==
    ASSUME IInv, NEW h \in Handler, LockProject(h)
    PROVE  LocksExclude' /\ \A g \in Handler : HandlerOK(g)'
<1> DEFINE c == call[h]
<1>1. /\ pc[h] = "lock" /\ pc'[h] = ParentOrNext(c) /\ call' = call /\ c \in Calls
      /\ c.op \in {"move", "reorder"} /\ c.project \in Project
      /\ \A g \in Handler \ {h} : pc'[g] = pc[g]
      /\ UNCHANGED tables
  BY DEF IInv, HandlerOK, CallShape, TypeOK, LockProject, Calls
<1>2. /\ c.project \in projects => lock'[c.project] = h
      /\ \A p \in Project, g \in Handler \ {h} : lock[p] = g => lock'[p] = g
  BY <1>1 DEF IInv, TypeOK, LockProject, ProjectFree, WaitsForProject
<1>3. /\ pc'[h] \in {"parent", "siblings", "update"}
      /\ pc'[h] = "siblings" => c.op = "reorder" /\ c.parent = Null
      /\ pc'[h] = "update" => c.op = "move" /\ c.parent = Null
  BY <1>1 DEF ParentOrNext, AfterParent
<1>4. projects' = projects /\ row' = row /\ project' = project /\ Live' = Live
  BY <1>1, TablesFixed
<1>5. c.held = {}
  BY <1>1, HoldsNothing
<1>6. HandlerOK(h)'
  BY <1>1, <1>2, <1>3, <1>4, <1>5
     DEF IInv, HandlerOK, CallShape, NodeFound, ParentFound, CommitReady, HoldsLock,
         ReorderReady, MoveReady, DeleteReady, OfKind
<1> QED
  BY <1>1, <1>2, <1>3, <1>5, <1>6, QuietStep

\* requireFolderInProject establishes what ParentFound says.
LEMMA ParentCheckOK ==
    ASSUME IInv, NEW h \in Handler, requireFolderInProject(h)
    PROVE  LocksExclude' /\ \A g \in Handler : HandlerOK(g)'
<1>1. CASE Fail(h)
  BY <1>1, FailOK
<1>2. CASE /\ FolderInProject(call[h].parent, call[h].project)
           /\ Goto(h, AfterParent(call[h])) /\ call' = call
  <2> DEFINE c == call[h]
  <2>1. /\ pc'[h] = AfterParent(c) /\ c \in Calls /\ UNCHANGED <<tables, lock>>
        /\ pc[h] = "parent" /\ c.op \in {"create", "move", "reorder"}
        /\ \A g \in Handler \ {h} : pc'[g] = pc[g]
    BY <1>2 DEF IInv, HandlerOK, CallShape, TypeOK, requireFolderInProject, Goto
  <2>2. /\ c.parent \in Live \cap Folder /\ project[c.parent] = c.project
        /\ row[c.parent] = "live"
    BY <1>2 DEF FolderInProject, Live
  <2>3. /\ pc'[h] \in {"insert", "siblings", "cycle", "update"}
        /\ pc'[h] = "insert" => c.op = "create"
        /\ pc'[h] = "siblings" => c.op = "reorder"
        /\ pc'[h] = "cycle" => c.op = "move"
        /\ pc'[h] = "update" => c.op = "move" /\ (c.kind = "request" \/ c.parent = Null)
    BY <2>1 DEF AfterParent, Calls
  <2>4. /\ projects' = projects /\ row' = row /\ project' = project /\ Live' = Live
        /\ \A a, b : IsDescendant(a, b)' = IsDescendant(a, b)
    BY <2>1, TablesFixed
  <2>5. c.held = {}
    BY <2>1, HoldsNothing
  <2>6. /\ CallShape(h)' /\ NodeFound(h)' /\ ParentFound(h)' /\ CommitReady(h)'
        /\ HoldsLock(h)' /\ ReorderReady(h)' /\ DeleteReady(h)'
    BY <1>2, <2>1, <2>2, <2>3, <2>4, <2>5
       DEF IInv, HandlerOK, CallShape, NodeFound, ParentFound, CommitReady, HoldsLock,
           ReorderReady, DeleteReady, OfKind
  <2>7. MoveReady(h)'
    <3> SUFFICES ASSUME pc'[h] \in {"update", "parentKey", "commit"}, c.op = "move",
                        c.parent # Null
                 PROVE  ~IsDescendant(c.parent, c.node)
      BY <1>2, <2>4 DEF MoveReady
    <3>1. c.node \in Request
      BY <2>3 DEF IInv, HandlerOK, NodeFound, OfKind
    <3> QED
      BY <3>1, <2>2, RequestsAreLeaves DEF IInv, TypeOK
  <2> QED
    BY <1>2, <2>1, <2>3, <2>5, <2>6, <2>7, QuietStep DEF HandlerOK
<1> QED
  BY <1>1, <1>2 DEF requireFolderInProject

\* The order an INSERT picks is kept; it pins nothing before its keys are checked.
LEMMA InsertOK ==
    ASSUME IInv, NEW h \in Handler, Insert(h)
    PROVE  LocksExclude' /\ \A g \in Handler : HandlerOK(g)'
<1>1. CASE Fail(h)
  BY <1>1, FailOK
<1>2. CASE /\ \E o \in Orders : call' = [call EXCEPT ![h].order = o]
           /\ Goto(h, "projectKey")
  <2> DEFINE c == call[h]
  <2>1. PICK o \in Orders : call' = [call EXCEPT ![h].order = o]
    BY <1>2
  <2>2. /\ pc'[h] = "projectKey" /\ c \in Calls /\ UNCHANGED <<tables, lock>>
        /\ pc[h] = "insert" /\ c.op = "create"
        /\ call'[h].op = c.op /\ call'[h].project = c.project
        /\ call'[h].parent = c.parent /\ call'[h].order = o /\ call'[h].held = c.held
        /\ \A g \in Handler \ {h} : call'[g] = call[g] /\ pc'[g] = pc[g]
    BY <1>2, <2>1 DEF IInv, HandlerOK, CallShape, TypeOK, Insert, Goto, Calls
  <2>3. projects' = projects /\ row' = row /\ project' = project /\ Live' = Live
    BY <2>2, TablesFixed
  <2>4. c.held = {}
    BY <2>2, HoldsNothing
  <2>5. HandlerOK(h)'
    BY <2>2, <2>3, <2>4
       DEF IInv, HandlerOK, CallShape, NodeFound, ParentFound, CommitReady, HoldsLock,
           ReorderReady, MoveReady, DeleteReady, Orders
  <2> QED
    BY <2>2, <2>4, <2>5, QuietStep
<1> QED
  BY <1>1, <1>2 DEF Insert

\* Who is deleting a project has its lock.
LEMMA DeleterHasLock ==
    ASSUME IInv, NEW g \in Handler, pc[g] = "cascade", call[g].project \in Project
    PROVE  /\ call[g].op = "deleteProject" /\ call[g].project \in projects
           /\ lock[call[g].project] = g
  BY IdsAssumption DEF IInv, HandlerOK, CallShape, DeleteReady, HoldsLock

\* An INSERT pins a project that nobody is deleting, and no parent yet.
LEMMA ProjectForeignKeyOK ==
    ASSUME IInv, NEW h \in Handler, ProjectForeignKey(h)
    PROVE  LocksExclude' /\ \A g \in Handler : HandlerOK(g)'
<1>1. CASE Fail(h)
  BY <1>1, FailOK
<1>2. CASE /\ call[h].project \in projects
           /\ Goto(h, IF Refers(call[h]) THEN "parentKey" ELSE "commit")
           /\ call' = call
  <2> DEFINE c == call[h]
  <2>1. /\ pc'[h] = IF c.parent # Null THEN "parentKey" ELSE "commit"
        /\ UNCHANGED <<tables, lock>>
        /\ pc[h] = "projectKey" /\ c.op = "create" /\ c.project \in Project
        /\ \A g \in Handler \ {h} : pc'[g] = pc[g]
    BY <1>2 DEF IInv, HandlerOK, CallShape, TypeOK, ProjectForeignKey, Goto, Refers
  <2>2. projects' = projects /\ row' = row /\ project' = project /\ Live' = Live
    BY <2>1, TablesFixed
  <2>3. c.held = {}
    BY <2>1, HoldsNothing
  <2>4. HandlerOK(h)'
    BY <1>2, <2>1, <2>2, <2>3
       DEF IInv, HandlerOK, CallShape, NodeFound, ParentFound, CommitReady, HoldsLock,
           ReorderReady, MoveReady, DeleteReady, Orders
  <2>5. ForUpdate(h)' = {} /\ Locked(h)' = {} /\ PinsProject(h)' = {c.project}
    BY <1>2, <2>1, <2>3
       DEF ForUpdate, Locked, NoKeyUpdate, KeyShare, Refers, PinsProject
  <2>6. ASSUME NEW g \in Handler \ {h}, pc[g] = "cascade", call[g].project = c.project
        PROVE  FALSE
    BY <2>1, <2>6, DeleterHasLock DEF ProjectForeignKey, ProjectFree, WaitsForProject
  <2> QED
    BY <1>2, <2>1, <2>4, <2>5, <2>6, LocalStep
<1> QED
  BY <1>1, <1>2 DEF ProjectForeignKey

\* The foreign key pins a parent that exists and that nobody is deleting.
LEMMA ParentForeignKeyOK ==
    ASSUME IInv, NEW h \in Handler, ParentForeignKey(h)
    PROVE  LocksExclude' /\ \A g \in Handler : HandlerOK(g)'
<1>1. CASE Fail(h)
  BY <1>1, FailOK
<1>2. CASE call[h].parent \in Live /\ Goto(h, "commit") /\ call' = call
  <2> DEFINE c == call[h]
  <2>1. /\ pc'[h] = "commit" /\ pc[h] = "parentKey" /\ UNCHANGED <<tables, lock>>
        /\ \A g \in Handler \ {h} : pc'[g] = pc[g]
    BY <1>2 DEF IInv, TypeOK, ParentForeignKey, Goto
  <2>2. /\ projects' = projects /\ row' = row /\ project' = project /\ Live' = Live
        /\ \A a, b : IsDescendant(a, b)' = IsDescendant(a, b)
    BY <2>1, TablesFixed
  <2>3. c.held = {}
    BY <2>1, HoldsNothing
  <2>4. HandlerOK(h)'
    BY <1>2, <2>1, <2>2, <2>3
       DEF IInv, HandlerOK, CallShape, NodeFound, ParentFound, CommitReady, HoldsLock,
           ReorderReady, MoveReady, DeleteReady, OfKind, Orders
  <2>5. /\ ForUpdate(h)' = {} /\ Locked(h)' \subseteq Locked(h) \cup {c.parent}
        /\ PinsProject(h)' = PinsProject(h)
    BY <1>2, <2>1, <2>3
       DEF ForUpdate, Locked, NoKeyUpdate, KeyShare, PinsProject
  <2>6. ASSUME NEW g \in Handler \ {h}
        PROVE  /\ Locked(h)' \cap ForUpdate(g) = {}
               /\ pc[g] = "cascade" => call[g].project \notin PinsProject(h)'
    <3>1. c.parent \notin ForUpdate(g)
      BY FreeRow DEF ParentForeignKey
    <3> QED
      BY <2>5, <3>1 DEF IInv, LocksExclude
  <2> QED
    BY <1>2, <2>1, <2>4, <2>5, <2>6, LocalStep
<1> QED
  BY <1>1, <1>2 DEF ParentForeignKey

\* The cycle check establishes what MoveReady says.
LEMMA CheckCycleOK ==
    ASSUME IInv, NEW h \in Handler, CheckCycle(h)
    PROVE  LocksExclude' /\ \A g \in Handler : HandlerOK(g)'
<1>1. CASE Fail(h)
  BY <1>1, FailOK
<1>2. CASE /\ ~IsDescendant(call[h].parent, call[h].node)
           /\ Goto(h, "update") /\ call' = call
  <2> DEFINE c == call[h]
  <2>1. /\ pc'[h] = "update" /\ UNCHANGED <<tables, lock>> /\ pc[h] = "cycle"
        /\ \A g \in Handler \ {h} : pc'[g] = pc[g]
    BY <1>2 DEF IInv, TypeOK, CheckCycle, Goto
  <2>2. /\ projects' = projects /\ row' = row /\ project' = project /\ Live' = Live
        /\ \A a, b : IsDescendant(a, b)' = IsDescendant(a, b)
    BY <2>1, TablesFixed
  <2>3. c.held = {}
    BY <2>1, HoldsNothing
  <2>4. /\ CallShape(h)' /\ NodeFound(h)' /\ ParentFound(h)' /\ CommitReady(h)'
        /\ HoldsLock(h)' /\ ReorderReady(h)' /\ MoveReady(h)' /\ DeleteReady(h)'
    BY <1>2, <2>1, <2>2, <2>3
       DEF IInv, HandlerOK, CallShape, NodeFound, ParentFound, CommitReady, HoldsLock,
           ReorderReady, MoveReady, DeleteReady, OfKind
  <2> QED
    BY <1>2, <2>1, <2>3, <2>4, QuietStep DEF HandlerOK
<1> QED
  BY <1>1, <1>2 DEF CheckCycle

\* The UPDATE locks the row until the commit, and leaves its key check to wait for
\* the parent.
LEMMA UpdateParentOK ==
    ASSUME IInv, NEW h \in Handler, UpdateParent(h)
    PROVE  LocksExclude' /\ \A g \in Handler : HandlerOK(g)'
<1>1. CASE Fail(h)
  BY <1>1, FailOK
<1>2. CASE /\ call[h].node \in Live
           /\ \E o \in Orders : call' = [call EXCEPT ![h].order = o]
           /\ Goto(h, IF Refers(call[h]) THEN "parentKey" ELSE "commit")
  <2> DEFINE c == call[h]
  <2>1. PICK o \in Orders : call' = [call EXCEPT ![h].order = o]
    BY <1>2
  <2>2. /\ pc'[h] = IF Refers(c) THEN "parentKey" ELSE "commit"
        /\ UNCHANGED <<tables, lock>>
        /\ pc[h] = "update" /\ c.op = "move"
        /\ call'[h].op = c.op /\ call'[h].project = c.project
        /\ call'[h].kind = c.kind /\ call'[h].node = c.node
        /\ call'[h].parent = c.parent /\ call'[h].order = o
        /\ call'[h].held = c.held
        /\ \A g \in Handler \ {h} : call'[g] = call[g] /\ pc'[g] = pc[g]
    BY <1>2, <2>1 DEF IInv, HandlerOK, CallShape, TypeOK, UpdateParent, Goto, Calls
  <2>3. /\ projects' = projects /\ row' = row /\ project' = project /\ Live' = Live
        /\ parent' = parent
        /\ \A a, b : IsDescendant(a, b)' = IsDescendant(a, b)
    BY <2>2, TablesFixed
  <2>4. c.project \in projects /\ c.held = {}
    BY <1>2, <2>2, HoldsNothing DEF IInv, HandlerOK, NodeFound, ParentsInProject
  <2>5. ~Refers(c) /\ c.parent # Null => c.parent \in Live
    BY <1>2, <2>2 DEF Refers, IInv, ParentsInProject
  <2>6. CallShape(h)' /\ NodeFound(h)' /\ ParentFound(h)' /\ CommitReady(h)'
    BY <1>2, <2>2, <2>3, <2>4, <2>5
       DEF IInv, HandlerOK, CallShape, NodeFound, ParentFound, CommitReady, Refers,
           OfKind, Orders
  <2>7. HoldsLock(h)' /\ ReorderReady(h)' /\ MoveReady(h)' /\ DeleteReady(h)'
    BY <1>2, <2>2, <2>3
       DEF IInv, HandlerOK, HoldsLock, ReorderReady, MoveReady, DeleteReady
  <2>8. ForUpdate(h)' = {} /\ Locked(h)' = {c.node} /\ PinsProject(h)' = {}
    BY <2>2, <2>3, <2>4
       DEF ForUpdate, Locked, NoKeyUpdate, KeyShare, Refers, PinsProject
  <2>9. \A g \in Handler \ {h} : c.node \notin ForUpdate(g)
    BY FreeRow DEF UpdateParent
  <2> QED
    BY <2>2, <2>6, <2>7, <2>8, <2>9, LocalStep DEF HandlerOK
<1> QED
  BY <1>1, <1>2 DEF UpdateParent

\* Listing the siblings locks none of them yet.
LEMMA ListSiblingsOK ==
    ASSUME IInv, NEW h \in Handler, ListSiblings(h)
    PROVE  LocksExclude' /\ \A g \in Handler : HandlerOK(g)'
<1> DEFINE c == call[h]
<1>1. /\ pc'[h] = "rows" /\ pc[h] = "siblings" /\ UNCHANGED <<tables, lock>>
      /\ call'[h].op = c.op /\ call'[h].kind = c.kind /\ call'[h].node = c.node
      /\ call'[h].project = c.project /\ call'[h].parent = c.parent
      /\ call'[h].held = c.held
      /\ \A g \in Handler \ {h} : call'[g] = call[g] /\ pc'[g] = pc[g]
  BY DEF IInv, TypeOK, ListSiblings, Goto, Calls
<1>2. projects' = projects
  BY <1>1, TablesFixed
<1>3. c.held = {} /\ c.op = "reorder"
  BY <1>1, HoldsNothing DEF IInv, HandlerOK, CallShape
<1>4. HandlerOK(h)'
  BY <1>1, <1>2, <1>3
     DEF IInv, HandlerOK, CallShape, NodeFound, ParentFound, CommitReady, HoldsLock,
         ReorderReady, MoveReady, DeleteReady
<1> QED
  BY <1>1, <1>3, <1>4, QuietStep

\* The rows a reorder holds are siblings, and each was free when it was locked.
LEMMA LockSiblingOK ==
    ASSUME IInv, NEW h \in Handler, LockSibling(h)
    PROVE  LocksExclude' /\ \A g \in Handler : HandlerOK(g)'
<1> DEFINE c == call[h]
           siblings == Siblings(c.kind, c.project, c.parent)
<1>1. PICK n \in NextSiblings(h) :
         /\ RowFree(h, n)
         /\ call' = [call EXCEPT ![h] = [c EXCEPT !.todo = @ \ {n},
                                                  !.held = @ \cup ({n} \cap siblings)]]
  BY DEF LockSibling
<1>2. /\ pc' = pc /\ pc[h] = "rows" /\ UNCHANGED <<tables, lock>>
      /\ call'[h].op = c.op /\ call'[h].kind = c.kind /\ call'[h].node = c.node
      /\ call'[h].project = c.project /\ call'[h].parent = c.parent
      /\ call'[h].held = c.held \cup ({n} \cap siblings)
      /\ \A g \in Handler \ {h} : call'[g] = call[g] /\ pc'[g] = pc[g]
  <2>1. /\ call'[h] = [c EXCEPT !.todo = @ \ {n}, !.held = @ \cup ({n} \cap siblings)]
        /\ c \in Calls /\ pc' = pc /\ pc[h] = "rows" /\ UNCHANGED <<tables, lock>>
        /\ \A g \in Handler \ {h} : call'[g] = call[g] /\ pc'[g] = pc[g]
    BY <1>1 DEF IInv, TypeOK, LockSibling
  <2> HIDE DEF c, siblings
  <2> QED
    BY <2>1 DEF Calls
<1>3. /\ projects' = projects
      /\ \A k, p, f : Siblings(k, p, f)' = Siblings(k, p, f)
  BY <1>2, TablesFixed
<1>4. c.op = "reorder" /\ c.held \subseteq siblings
  BY <1>2 DEF IInv, HandlerOK, CallShape, ReorderReady
<1>5. ReorderReady(h)'
  BY <1>2, <1>3, <1>4 DEF ReorderReady
<1>6. /\ CallShape(h)' /\ NodeFound(h)' /\ ParentFound(h)' /\ CommitReady(h)'
      /\ HoldsLock(h)' /\ MoveReady(h)' /\ DeleteReady(h)'
  BY <1>2, <1>3, <1>4
     DEF IInv, HandlerOK, CallShape, NodeFound, ParentFound, CommitReady, HoldsLock,
         MoveReady, DeleteReady
<1>7. /\ ForUpdate(h)' \subseteq ForUpdate(h) \cup {n} /\ Locked(h)' = ForUpdate(h)'
      /\ PinsProject(h)' = {}
  BY <1>2 DEF ForUpdate, Locked, NoKeyUpdate, KeyShare, PinsProject
<1>8. ASSUME NEW g \in Handler \ {h}
      PROVE  /\ ForUpdate(h)' \cap Locked(g) = {} /\ Locked(h)' \cap ForUpdate(g) = {}
  <2>1. n \notin Locked(g) /\ ForUpdate(h) \cap Locked(g) = {}
    BY <1>1, <1>2, FreeRow DEF IInv, LocksExclude
  <2> QED
    BY <1>7, <2>1 DEF Locked
<1> QED
  BY <1>2, <1>5, <1>6, <1>7, <1>8, LocalStep DEF HandlerOK

\* The comparison with the client's list establishes what ReorderReady says.
LEMMA CheckSiblingsOK ==
    ASSUME IInv, NEW h \in Handler, checkSiblings(h)
    PROVE  LocksExclude' /\ \A g \in Handler : HandlerOK(g)'
<1> DEFINE c == call[h]
<1>1. CASE Fail(h)
  BY <1>1, FailOK
<1>2. CASE \E ids \in Lists : /\ SameIDSet(ids, c.held)
                              /\ call' = [call EXCEPT ![h].ids = ids]
                              /\ Goto(h, "reorder")
  <2>1. PICK ids \in Lists : /\ SameIDSet(ids, c.held)
                             /\ call' = [call EXCEPT ![h].ids = ids]
                             /\ Goto(h, "reorder")
    BY <1>2
  <2>2. /\ pc'[h] = "reorder" /\ UNCHANGED <<tables, lock>>
        /\ pc[h] = "rows" /\ c.op = "reorder"
        /\ call'[h].op = c.op /\ call'[h].project = c.project
        /\ call'[h].kind = c.kind /\ call'[h].ids = ids
        /\ call'[h].parent = c.parent /\ call'[h].held = c.held
        /\ \A g \in Handler \ {h} : call'[g] = call[g] /\ pc'[g] = pc[g]
    BY <2>1 DEF IInv, HandlerOK, CallShape, TypeOK, checkSiblings, Goto, Calls
  <2>3. projects' = projects /\ \A k, p, f : Siblings(k, p, f)' = Siblings(k, p, f)
    BY <2>2, TablesFixed
  <2>4. ReorderReady(h)'
    BY <2>1, <2>2, <2>3 DEF ReorderReady, SameIDSet, IInv, HandlerOK
  <2>5. /\ CallShape(h)' /\ NodeFound(h)' /\ ParentFound(h)' /\ CommitReady(h)'
        /\ HoldsLock(h)' /\ MoveReady(h)' /\ DeleteReady(h)'
    BY <2>2, <2>3
       DEF IInv, HandlerOK, CallShape, NodeFound, ParentFound, CommitReady, HoldsLock,
           MoveReady, DeleteReady
  <2>6. ForUpdate(h)' = ForUpdate(h) /\ Locked(h)' = ForUpdate(h) /\ PinsProject(h)' = {}
    BY <2>2 DEF ForUpdate, Locked, NoKeyUpdate, KeyShare, PinsProject
  <2>7. \A g \in Handler \ {h} : ForUpdate(h) \cap Locked(g) = {}
    BY DEF IInv, LocksExclude
  <2>8. \A g \in Handler \ {h} : ForUpdate(h) \cap ForUpdate(g) = {}
    BY <2>7 DEF Locked
  <2> QED
    BY <2>2, <2>4, <2>5, <2>6, <2>7, <2>8, LocalStep DEF HandlerOK
<1> QED
  BY <1>1, <1>2 DEF checkSiblings

\* A DELETE starts from a row that was free when it locked it.
LEMMA DeleteNodeOK ==
    ASSUME IInv, NEW h \in Handler, DeleteNode(h)
    PROVE  LocksExclude' /\ \A g \in Handler : HandlerOK(g)'
<1>1. CASE Fail(h)
  BY <1>1, FailOK
<1>2. CASE /\ call[h].node \in Live /\ Goto(h, "cascade")
           /\ call' = [call EXCEPT ![h].held = {call[h].node}]
  <2> DEFINE c == call[h]
  <2>1. /\ pc'[h] = "cascade" /\ UNCHANGED <<tables, lock>>
        /\ pc[h] = "delete" /\ c.op = "delete" /\ c.project = Null
        /\ call'[h].op = c.op /\ call'[h].project = c.project
        /\ call'[h].node = c.node /\ call'[h].held = {c.node}
        /\ \A g \in Handler \ {h} : call'[g] = call[g] /\ pc'[g] = pc[g]
    BY <1>2 DEF IInv, HandlerOK, CallShape, TypeOK, DeleteNode, Goto, Calls
  <2>2. Live' = Live /\ parent' = parent
    BY <2>1, TablesFixed
  <2>3. HandlerOK(h)'
    BY <1>2, <2>1, <2>2
       DEF IInv, HandlerOK, CallShape, NodeFound, ParentFound, CommitReady, HoldsLock,
           ReorderReady, MoveReady, DeleteReady
  <2>4. ForUpdate(h)' = {c.node} /\ Locked(h)' = {c.node} /\ PinsProject(h)' = {}
    BY <2>1 DEF ForUpdate, Locked, NoKeyUpdate, KeyShare, PinsProject
  <2>5. ASSUME NEW g \in Handler \ {h}
        PROVE  c.node \notin Locked(g) /\ c.node \notin ForUpdate(g)
    BY <2>1, FreeRow DEF DeleteNode
  <2>6. \A g \in Handler : Null \notin PinsProject(g)
    BY IdsAssumption DEF PinsProject, IInv, HandlerOK, CallShape
  <2> QED
    BY <2>1, <2>3, <2>4, <2>5, <2>6, LocalStep
<1> QED
  BY <1>1, <1>2 DEF DeleteNode

\* A DELETE of a project waits for the calls that have locked it or pin it.
LEMMA DeleteProjectOK ==
    ASSUME IInv, NEW h \in Handler, DeleteProject(h)
    PROVE  LocksExclude' /\ \A g \in Handler : HandlerOK(g)'
<1> DEFINE c == call[h]
<1>1. CASE Fail(h)
  BY <1>1, FailOK
<1>2. CASE /\ c.project \in projects
           /\ lock' = [lock EXCEPT ![c.project] = h]
           /\ pc' = [pc EXCEPT ![h] = "cascade"]
           /\ UNCHANGED <<tables, call>>
  <2>1. /\ pc'[h] = "cascade" /\ pc[h] = "delete" /\ c.op = "deleteProject"
        /\ c.project \in Project
        /\ \A g \in Handler \ {h} : pc'[g] = pc[g]
    BY <1>2 DEF IInv, HandlerOK, CallShape, TypeOK, DeleteProject
  <2>2. /\ lock'[c.project] = h
        /\ \A p \in Project, g \in Handler \ {h} : lock[p] = g => lock'[p] = g
    BY <1>2, <2>1 DEF IInv, TypeOK, DeleteProject, ProjectFree, WaitsForProject
  <2>3. projects' = projects /\ Live' = Live /\ project' = project
    BY <1>2, TablesFixed
  <2>4. c.held = {}
    BY <2>1, HoldsNothing
  <2>5. HandlerOK(h)'
    BY <1>2, <2>1, <2>2, <2>3, <2>4
       DEF IInv, HandlerOK, CallShape, NodeFound, ParentFound, CommitReady, HoldsLock,
           ReorderReady, MoveReady, DeleteReady
  <2>6. ForUpdate(h)' = {} /\ Locked(h)' = {} /\ PinsProject(h)' = {}
    BY <1>2, <2>1, <2>4 DEF ForUpdate, Locked, NoKeyUpdate, KeyShare, PinsProject
  <2>7. \A g \in Handler \ {h} : c.project \notin PinsProject(g)
    BY <2>1 DEF DeleteProject, ProjectFree, WaitsForProject
  <2> QED
    BY <1>2, <2>1, <2>2, <2>5, <2>6, <2>7, LocalStep
<1> QED
  BY <1>1, <1>2 DEF DeleteProject

\* The cascade reaches rows of the project that goes, or children of rows that go.
LEMMA SweepUpOK ==
    ASSUME IInv, NEW h \in Handler, SweepUp(h)
    PROVE  LocksExclude' /\ \A g \in Handler : HandlerOK(g)'
<1> DEFINE c == call[h]
<1>1. PICK n \in Below(h) \ c.held :
         RowFree(h, n) /\ call' = [call EXCEPT ![h].held = @ \cup {n}]
  BY DEF SweepUp
<1>2. /\ pc' = pc /\ pc[h] = "cascade" /\ UNCHANGED <<tables, lock>>
      /\ call'[h].op = c.op /\ call'[h].project = c.project
      /\ call'[h].node = c.node /\ call'[h].held = c.held \cup {n}
      /\ \A g \in Handler \ {h} : call'[g] = call[g] /\ pc'[g] = pc[g]
  BY <1>1 DEF IInv, TypeOK, SweepUp, Calls
<1>3. /\ projects' = projects /\ Live' = Live /\ project' = project
      /\ parent' = parent
  BY <1>2, TablesFixed
<1>4. /\ n \in Live /\ project[n] \in projects /\ project[n] \in Project
      /\ project[n] = c.project \/ parent[n] \in c.held
  BY <1>1 DEF Below, IInv, ParentsInProject, TypeOK, TablesTypeOK
<1>5. /\ c.op \in {"delete", "deleteProject"} /\ c.held \subseteq Live
      /\ c.op = "delete" => c.project = Null
  BY <1>2 DEF IInv, HandlerOK, CallShape, DeleteReady
<1>6. DeleteReady(h)'
  <2>1. c.op = "deleteProject" => project[n] = c.project
    BY <1>2, <1>4, <1>5, IdsAssumption
       DEF IInv, HandlerOK, DeleteReady, ParentsInProject, Live
  <2>2. c.op = "delete" => parent[n] \in c.held
    BY <1>4, <1>5, IdsAssumption
  <2> QED
    BY <1>2, <1>3, <1>4, <2>1, <2>2 DEF IInv, HandlerOK, DeleteReady
<1>7. /\ CallShape(h)' /\ NodeFound(h)' /\ ParentFound(h)' /\ CommitReady(h)'
      /\ HoldsLock(h)' /\ ReorderReady(h)' /\ MoveReady(h)'
  BY <1>2, <1>3, <1>5
     DEF IInv, HandlerOK, CallShape, NodeFound, ParentFound, CommitReady, HoldsLock,
         ReorderReady, MoveReady
<1>8. /\ ForUpdate(h)' = ForUpdate(h) \cup {n} /\ Locked(h)' = ForUpdate(h) \cup {n}
      /\ PinsProject(h)' = {}
  BY <1>2 DEF ForUpdate, Locked, NoKeyUpdate, KeyShare, PinsProject
<1>9. ASSUME NEW g \in Handler \ {h}
      PROVE  /\ ForUpdate(h)' \cap Locked(g) = {} /\ Locked(h)' \cap ForUpdate(g) = {}
             /\ call'[h].project \notin PinsProject(g)
  <2>1. n \notin Locked(g) /\ ForUpdate(h) \cap Locked(g) = {}
        /\ c.project \notin PinsProject(g)
    BY <1>1, <1>2, FreeRow DEF IInv, LocksExclude
  <2> QED
    BY <1>2, <1>8, <2>1 DEF Locked
<1> QED
  BY <1>2, <1>6, <1>7, <1>8, <1>9, LocalStep DEF HandlerOK

-----------------------------------------------------------------------------
(* The steps that change the tables.                                       *)

\* Two calls that are past a project's lock cannot both be of that project.
LEMMA OneHolder ==
    ASSUME IInv, NEW h \in Handler, NEW g \in Handler \ {h},
           call[h].project = call[g].project, call[h].project \in projects,
           \/ call[h].op \in {"move", "reorder"} /\ pc[h] \notin {"idle", "lock"}
           \/ call[h].op = "deleteProject" /\ pc[h] = "cascade",
           \/ call[g].op \in {"move", "reorder"} /\ pc[g] \notin {"idle", "lock"}
           \/ call[g].op = "deleteProject" /\ pc[g] = "cascade"
    PROVE  FALSE
  BY DEF IInv, HandlerOK, HoldsLock

\* Committing a create keeps the forest and what others rely on.
LEMMA CommitCreateOK ==
    ASSUME IInv, NEW h \in Handler, CommitCreate(h)
    PROVE  WellFormed' /\ LocksExclude' /\ \A g \in Handler : HandlerOK(g)'
<1> DEFINE c == call[h]
<1>1. PICK n \in OfKind(c.kind) :
         row[n] = "new" /\ InsertRow(n, c.project, c.parent, c.order)
  BY DEF CommitCreate
<1>2. /\ n \in Node /\ c.project \in projects /\ c.parent \in Folder \cup {Null}
      /\ c.parent # Null => c.parent \in Live /\ project[c.parent] = c.project
  BY DEF IInv, HandlerOK, CommitReady, ParentFound, CommitCreate, OfKind, Node,
         TypeOK, Calls
<1>3. WellFormed'
  BY <1>1, <1>2, InsertRowWellFormed DEF IInv, WellFormed, TypeOK
<1>4. HandlerOK(h)'
  BY FinishSelf DEF CommitCreate, IInv
<1>5. ASSUME NEW g \in Handler \ {h}
      PROVE  HandlerOK(g)'
  BY <1>1, <1>2, FinishOthers, InsertRowOthers DEF CommitCreate, IInv
<1>6. LocksExclude'
  <2>1. ASSUME NEW g \in Handler \ {h}, pc[g] = "commit", call[g].op = "move"
        PROVE  parent'[call[g].node] = parent[call[g].node]
    BY <1>1, <2>1
       DEF IInv, HandlerOK, CommitReady, InsertRow, TypeOK, TablesTypeOK, Live
  <2> QED
    BY <2>1, FinishExclude DEF CommitCreate
<1> QED
  BY <1>3, <1>4, <1>5, <1>6

\* Committing a move does too: nobody else who relies on the shape of the tree
\* can be past the lock.
LEMMA CommitMoveOK ==
    ASSUME IInv, NEW h \in Handler, CommitMove(h)
    PROVE  WellFormed' /\ LocksExclude' /\ \A g \in Handler : HandlerOK(g)'
<1> DEFINE c == call[h]
<1>1. /\ c.node \in Live /\ c.parent \in Folder \cup {Null}
      /\ c.project \in projects /\ project[c.node] = c.project
      /\ c.parent # Null => /\ c.parent \in Live
                            /\ project[c.parent] = project[c.node]
                            /\ ~IsDescendant(c.parent, c.node)
      /\ SetParent(c.node, c.parent, c.order)
  BY DEF IInv, HandlerOK, CommitReady, ParentFound, NodeFound, MoveReady, CommitMove,
         TypeOK, Calls
<1>2. WellFormed'
  BY <1>1, SetParentWellFormed DEF IInv, WellFormed, TypeOK
<1>3. HandlerOK(h)'
  BY FinishSelf DEF CommitMove, IInv
<1>4. ASSUME NEW g \in Handler \ {h}
      PROVE  HandlerOK(g)'
  BY FinishOthers, SetParentOthers DEF CommitMove, IInv
<1>5. LocksExclude'
  <2>1. ASSUME NEW g \in Handler \ {h}, pc[g] = "commit", call[g].op = "move"
        PROVE  parent'[call[g].node] = parent[call[g].node]
    <3>1. call[g].node \in Live /\ project[call[g].node] = call[g].project
      BY <2>1 DEF IInv, HandlerOK, CommitReady, NodeFound
    <3>2. call[g].node # c.node
      BY <1>1, <2>1, <3>1, OneHolder DEF CommitMove
    <3> QED
      BY <1>1, <3>1, <3>2 DEF SetParent, IInv, TypeOK, TablesTypeOK, Live
  <2> QED
    BY <2>1, FinishExclude DEF CommitMove
<1> QED
  BY <1>2, <1>3, <1>4, <1>5

\* Writing the new order changes nothing but sort_order.
LEMMA BulkUpdateOrderOK ==
    ASSUME IInv, NEW h \in Handler, NEW base, BulkUpdateOrder(h, base)
    PROVE  WellFormed' /\ LocksExclude' /\ \A g \in Handler : HandlerOK(g)'
<1>1. UNCHANGED <<projects, row, project, parent>> /\ Finish(h)
  BY DEF BulkUpdateOrder
<1>2. WellFormed'
  BY <1>1 DEF IInv, WellFormed, ParentsInProject, Acyclic, Live, Node
<1>3. HandlerOK(h)'
  BY <1>1, FinishSelf DEF IInv
<1>4. ASSUME NEW g \in Handler \ {h}
      PROVE  HandlerOK(g)'
  BY <1>1, FinishOthers, ReorderOthers DEF IInv
<1>5. LocksExclude'
  BY <1>1, FinishExclude
<1> QED
  BY <1>2, <1>3, <1>4, <1>5

\* A DELETE that has reached all there is below its row commits to a forest, and
\* takes no row or project away that another handler relies on.
LEMMA CommitDeleteOK ==
    ASSUME IInv, NEW h \in Handler, CommitDelete(h)
    PROVE  WellFormed' /\ LocksExclude' /\ \A g \in Handler : HandlerOK(g)'
<1> DEFINE c == call[h]
           gone == c.held
           lost == projects \cap {c.project}
<1>1. /\ pc[h] = "cascade" /\ c.op \in {"delete", "deleteProject"}
      /\ c.op = "delete" => c.project = Null
      /\ c.op = "deleteProject" => c.project \in projects
      /\ gone \in SUBSET Live /\ Erase(gone) /\ Finish(h)
      /\ projects' = projects \ {c.project}
  BY DEF CommitDelete, IInv, HandlerOK, CallShape, DeleteReady
<1>2. /\ \A n \in Live : parent[n] \in gone => n \in gone
      /\ \A n \in Live : project[n] \in lost => n \in gone
  BY DEF CommitDelete, Below
<1>3. WellFormed'
  <2>1. projects' = projects \ lost /\ lost \in SUBSET projects
    BY <1>1
  <2> HIDE DEF gone, lost
  <2> QED
    BY <1>1, <1>2, <2>1, EraseWellFormed DEF IInv, WellFormed, TypeOK
<1>4. HandlerOK(h)'
  BY <1>1, FinishSelf DEF IInv
<1>5. ASSUME NEW g \in Handler \ {h}
      PROVE  HandlerOK(g)'
  <2>1. Untouched(g)
    BY <1>1, FinishOthers DEF IInv
  <2>2. gone \cap Locked(g) = {}
    BY DEF IInv, LocksExclude, ForUpdate
  <2>3. ASSUME \/ pc[g] \in {"parentKey", "commit"}
               \/ pc[g] = "cascade" /\ call[g].op = "deleteProject"
        PROVE  call[g].project \in projects'
    <3>1. call[g].project \in projects /\ call[g].project \in Project
      BY <2>3 DEF IInv, HandlerOK, CallShape, CommitReady, DeleteReady, TypeOK,
                  TablesTypeOK
    <3>2. c.op = "delete" => call[g].project # c.project
      BY <1>1, <3>1, IdsAssumption
    <3>3. ASSUME c.op = "deleteProject", call[g].project = c.project
          PROVE  FALSE
      <4>1. CASE pc[g] \in {"parentKey", "commit"} /\ call[g].op = "create"
        BY <1>1, <3>3, <4>1 DEF IInv, LocksExclude, PinsProject
      <4>2. CASE \/ pc[g] \in {"parentKey", "commit"} /\ call[g].op = "move"
                 \/ pc[g] = "cascade" /\ call[g].op = "deleteProject"
        BY <1>1, <3>1, <3>3, <4>2, OneHolder
      <4> QED
        BY <2>3, <4>1, <4>2 DEF IInv, HandlerOK, CallShape
    <3> QED
      BY <1>1, <3>1, <3>2, <3>3
  <2>4. projects' \subseteq projects
    BY <1>1
  <2> HIDE DEF gone, lost
  <2> QED
    BY <1>1, <1>2, <2>1, <2>2, <2>3, <2>4, EraseOthers
<1>6. LocksExclude'
  <2>1. ASSUME NEW g \in Handler \ {h}, pc[g] = "commit", call[g].op = "move"
        PROVE  parent'[call[g].node] = parent[call[g].node]
    <3>1. call[g].node \in Node /\ call[g].node \notin gone
      BY <2>1 DEF IInv, HandlerOK, CommitReady, Live, LocksExclude, ForUpdate,
                  Locked, NoKeyUpdate
    <3> QED
      BY <1>1, <3>1 DEF Erase
  <2> QED
    BY <1>1, <2>1, FinishExclude
<1> QED
  BY <1>3, <1>4, <1>5, <1>6

-----------------------------------------------------------------------------
(* The theorems.                                                           *)

\* The empty database satisfies the invariant.
LEMMA InitOK == Init => IInv
<1> SUFFICES ASSUME Init
             PROVE  IInv
  OBVIOUS
<1>1. TypeOK
  BY TypeInit
<1>2. Live = {}
  BY DEF Init, TablesInit, Live
<1>3. ParentsInProject /\ Acyclic
  BY <1>2 DEF ParentsInProject, Acyclic
<1>4. ASSUME NEW h \in Handler
      PROVE  HandlerOK(h)
  BY DEF Init, HandlerOK, CallShape, NodeFound, ParentFound, CommitReady, HoldsLock,
         ReorderReady, MoveReady, DeleteReady, NoCall
<1>5. LocksExclude
  BY DEF Init, LocksExclude, ForUpdate, NoCall
<1> QED
  BY <1>1, <1>3, <1>4, <1>5 DEF IInv

\* The statements that change no table.
Reads(h) ==
    \/ Start(h) \/ LockProject(h) \/ requireFolderInProject(h) \/ Insert(h)
    \/ ProjectForeignKey(h) \/ ParentForeignKey(h) \/ CheckCycle(h)
    \/ UpdateParent(h) \/ ListSiblings(h) \/ LockSibling(h) \/ checkSiblings(h)
    \/ DeleteNode(h) \/ DeleteProject(h) \/ SweepUp(h) \/ Abort(h)

\* Their effect waits for the commit.
LEMMA ReadsOnly ==
    ASSUME NEW h \in Handler, Reads(h)
    PROVE  UNCHANGED tables
<1>1. CASE Start(h)
  BY <1>1 DEF Start, handleCreateFolder, handleCreateRequest, handleMoveFolder,
              handleMoveRequest, handleReorderFolders, handleReorderRequests,
              handleDeleteFolder, handleDeleteRequest, handleDeleteProject,
              Begin, Goto
<1>2. CASE ~Start(h)
  BY <1>2 DEF Reads, LockProject, requireFolderInProject, Insert, ProjectForeignKey,
              ParentForeignKey, CheckCycle, UpdateParent, ListSiblings, LockSibling,
              checkSiblings, DeleteNode, DeleteProject, SweepUp, Abort, Goto, Fail
<1> QED
  BY <1>1, <1>2

\* Every step is such a statement, a commit or a stutter.
LEMMA StepKinds ==
    ASSUME [Next]_vars
    PROVE  \/ \E h \in Handler : Reads(h)
           \/ \E h \in Handler : \/ CommitCreate(h) \/ CommitMove(h)
                                 \/ BulkUpdateOrder(h, 0) \/ BulkUpdateOrder(h, 1)
                                 \/ CommitDelete(h)
           \/ UNCHANGED vars
  BY DEF Next, Advance, CreateFolder, CreateRequest, UpdateFolderParent,
         UpdateRequestFolder, ListSiblingFolderIDs, ListSiblingRequestIDs,
         BulkUpdateFolderOrder, BulkUpdateRequestOrder, DeleteFolder, DeleteRequest,
         DeadlockVictim, Reads

\* Every step keeps the invariant.
LEMMA StepOK == IInv /\ [Next]_vars => IInv'
<1> SUFFICES ASSUME IInv, [Next]_vars
             PROVE  IInv'
  OBVIOUS
<1>1. TypeOK'
  BY TypeStep DEF IInv, HandlerOK
<1>2. ASSUME UNCHANGED tables
      PROVE  WellFormed'
  BY <1>2, TablesFixed DEF IInv, WellFormed, ParentsInProject, Acyclic
<1>3. WellFormed' /\ LocksExclude' /\ \A g \in Handler : HandlerOK(g)'
  <2>1. ASSUME NEW h \in Handler, Reads(h)
        PROVE  WellFormed' /\ LocksExclude' /\ \A g \in Handler : HandlerOK(g)'
    <3>1. WellFormed'
      BY <1>2, <2>1, ReadsOnly
    <3> QED
      BY <2>1, <3>1, StartOK, LockProjectOK, ParentCheckOK, InsertOK,
         ProjectForeignKeyOK, ParentForeignKeyOK, CheckCycleOK, UpdateParentOK,
         ListSiblingsOK, LockSiblingOK, CheckSiblingsOK, DeleteNodeOK,
         DeleteProjectOK, SweepUpOK, FailOK
         DEF Reads, Abort
  <2>2. ASSUME NEW h \in Handler,
               \/ CommitCreate(h) \/ CommitMove(h)
               \/ BulkUpdateOrder(h, 0) \/ BulkUpdateOrder(h, 1) \/ CommitDelete(h)
        PROVE  WellFormed' /\ LocksExclude' /\ \A g \in Handler : HandlerOK(g)'
    BY <2>2, CommitCreateOK, CommitMoveOK, BulkUpdateOrderOK, CommitDeleteOK
  <2>3. CASE UNCHANGED vars
    <3>1. UNCHANGED tables /\ \A g \in Handler : Untouched(g)
      BY <2>3 DEF vars, Untouched
    <3>2. LocksExclude'
      <4>1. parent' = parent /\ pc' = pc /\ call' = call
        BY <2>3 DEF vars, tables
      <4> QED
        BY <4>1 DEF IInv, LocksExclude, ForUpdate, Locked, NoKeyUpdate, KeyShare,
                    Refers, PinsProject
    <3> QED
      BY <1>2, <3>1, <3>2, SameTables DEF IInv
  <2> QED
    BY <2>1, <2>2, <2>3, StepKinds
<1> QED
  BY <1>1, <1>3 DEF IInv, WellFormed

\* The invariant holds in every state of every behaviour.
LEMMA Inductive == Spec => []IInv
  BY InitOK, StepOK, PTL DEF Spec

\* Every reachable state has the types of the tables and of the handlers'
\* locals; in particular no statement writes a sort_order outside the range of
\* the column.
THEOREM TypeCorrect == Spec => []TypeOK
<1>1. IInv => TypeOK
  BY DEF IInv
<1> QED
  BY <1>1, Inductive, PTL

\* However many folder moves, creates, reorders and deletes run at once, no
\* folder ever ends up inside itself: MoveFolder's project lock makes its cycle
\* check decisive.
THEOREM TreeAcyclic == Spec => []Acyclic
<1>1. IInv => Acyclic
  BY DEF IInv
<1> QED
  BY <1>1, Inductive, PTL

\* A row's project exists, and its parent is an existing folder of the same
\* project, although the checks run before the writes and deletes take no
\* folder takes no project lock.
THEOREM ParentsStayInProject == Spec => []ParentsInProject
<1>1. IInv => ParentsInProject
  BY DEF IInv
<1> QED
  BY <1>1, Inductive, PTL

\* Between the cycle check of MoveFolder and its commit, no other handler can
\* put the new parent below the moved folder.
THEOREM MovesStaySafe == Spec => []CheckedMoveStaysSafe
<1>1. IInv => CheckedMoveStaysSafe
  BY DEF IInv, HandlerOK, CheckedMoveStaysSafe
<1> QED
  BY <1>1, Inductive, PTL

\* Between the check of ReorderFolders or ReorderRequests and its write, the
\* listed rows stay siblings, no other move or reorder of the project is past
\* its lock, and no DELETE of the project has begun.
THEOREM ReordersStaySafe == Spec => []ReorderSeesItsSiblings
<1>1. IInv => ReorderSeesItsSiblings
  <2> SUFFICES ASSUME IInv, NEW h \in Handler, pc[h] = "reorder"
               PROVE  /\ \A i \in DOMAIN call[h].ids : call[h].ids[i] \in
                            Siblings(call[h].kind, call[h].project, call[h].parent)
                      /\ \A g \in Handler \ {h} :
                            /\ call[g].project = call[h].project
                            /\ call[h].project \in projects
                            => /\ call[g].op \in {"move", "reorder"} => pc[g] = "lock"
                               /\ call[g].op = "deleteProject" => pc[g] # "cascade"
    BY DEF ReorderSeesItsSiblings
  <2>1. call[h].op = "reorder"
    BY DEF IInv, HandlerOK, CallShape
  <2>2. \A g \in Handler : pc[g] = "idle" => call[g].op = "none"
    BY DEF IInv, HandlerOK, CallShape
  <2> QED
    BY <2>1, <2>2, OneHolder DEF IInv, HandlerOK, ReorderReady
<1> QED
  BY <1>1, Inductive, PTL

-----------------------------------------------------------------------------
(* Refinement.  Each commit is one step of AtomicTree, taken on the tables *)
(* as they are at that instant; every other statement is a stutter.        *)

\* AtomicTree and ProjectTree read the same tables with the same operators.
LEMMA SameOperators ==
    /\ Atomic!Live = Live
    /\ \A k, p, f : Atomic!Siblings(k, p, f) = Siblings(k, p, f)
    /\ \A a, b : Atomic!IsDescendant(a, b) = IsDescendant(a, b)
    /\ \A n : Atomic!Subtree(n) = Subtree(n)
    /\ Atomic!Node = Node /\ Atomic!Orders = Orders
    /\ Atomic!tables = tables
  BY DEF Atomic!Live, Live, Atomic!Siblings, Siblings, Atomic!OfKind, OfKind,
         Atomic!IsDescendant, IsDescendant, Atomic!Ancestors, Ancestors,
         Atomic!Closed, Closed, Atomic!Subtree, Subtree, Atomic!Node, Node,
         Atomic!Orders, Orders, Atomic!tables, tables

\* Committing a create is the Create step of AtomicTree.
LEMMA CommitCreateAtomic ==
    ASSUME IInv, NEW h \in Handler, CommitCreate(h)
    PROVE  Atomic!Next
<1> DEFINE c == call[h]
<1>1. PICK n \in OfKind(c.kind) :
         row[n] = "new" /\ InsertRow(n, c.project, c.parent, c.order)
  BY DEF CommitCreate
<1>2. /\ n \in Node /\ c.project \in projects /\ c.parent \in Folder \cup {Null}
      /\ c.parent # Null => c.parent \in Live /\ project[c.parent] = c.project
      /\ c.order \in Orders /\ c.project \in Project
  BY DEF IInv, HandlerOK, CallShape, CommitReady, ParentFound, CommitCreate, OfKind,
         Node, TypeOK, Calls
<1>3. Atomic!Create(n, c.project, c.parent, c.order)
  BY <1>1, <1>2, SameOperators
     DEF Atomic!Create, Atomic!ValidParent, Atomic!InsertRow, InsertRow
<1> QED
  BY <1>2, <1>3, SameOperators DEF Atomic!Next

\* Committing a move is its Move step: the checks made statements ago still hold.
LEMMA CommitMoveAtomic ==
    ASSUME IInv, NEW h \in Handler, CommitMove(h)
    PROVE  Atomic!Next
<1> DEFINE c == call[h]
<1>1. /\ c.node \in Live /\ c.parent \in Folder \cup {Null} /\ c.order \in Orders
      /\ c.parent # Null => /\ c.parent \in Live
                            /\ project[c.parent] = project[c.node]
                            /\ ~IsDescendant(c.parent, c.node)
      /\ SetParent(c.node, c.parent, c.order)
  BY DEF IInv, HandlerOK, CallShape, CommitReady, ParentFound, NodeFound, MoveReady,
         CommitMove, TypeOK, Calls
<1>2. c.node \in Node
  BY <1>1 DEF Live
<1>3. Atomic!Move(c.node, c.parent, c.order)
  BY <1>1, SameOperators
     DEF Atomic!Move, Atomic!ValidParent, Atomic!SetParent, SetParent
<1> QED
  BY <1>1, <1>2, <1>3, SameOperators DEF Atomic!Next

\* The bulk update is its Reorder step on the rows of the list.
LEMMA BulkUpdateOrderAtomic ==
    ASSUME IInv, TypeOK', NEW h \in Handler, NEW base \in {0, 1},
           BulkUpdateOrder(h, base)
    PROVE  Atomic!Next
<1> DEFINE c == call[h]
           siblings == Siblings(c.kind, c.project, c.parent)
           moved == {c.ids[i] : i \in DOMAIN c.ids}
<1>0. c.ids \in Lists
  BY DEF IInv, TypeOK, Calls
<1>1. PICK count \in 0 .. MaxList : c.ids \in [1 .. count -> Node]
  BY <1>0 DEF Lists
<1>2. /\ c.kind \in {"folder", "request"} /\ c.project \in Project
      /\ c.parent \in Folder \cup {Null}
      /\ \A i, j \in 1 .. count : c.ids[i] = c.ids[j] => i = j
      /\ \A i \in 1 .. count : c.ids[i] \in siblings
  BY <1>1 DEF IInv, TypeOK, Calls, HandlerOK, ReorderReady, CallShape,
         BulkUpdateOrder
<1>3. \A i \in 1 .. count : order'[c.ids[i]] = base - 1 + i
  <2> SUFFICES ASSUME NEW i \in 1 .. count
               PROVE  order'[c.ids[i]] = base - 1 + i
    OBVIOUS
  <2>1. (CHOOSE j \in 1 .. count : c.ids[j] = c.ids[i]) = i
    BY <1>2
  <2> QED
    BY <1>1, <1>2, <2>1 DEF BulkUpdateOrder
<1>4. \A n \in Node \ moved : order'[n] = order[n]
  BY DEF BulkUpdateOrder
<1>5. {order'[n] : n \in moved} = base .. (base + count - 1)
  <2>1. ASSUME NEW n \in moved
        PROVE  order'[n] \in base .. (base + count - 1)
    BY <1>1, <1>3
  <2>2. ASSUME NEW k \in base .. (base + count - 1)
        PROVE  \E n \in moved : order'[n] = k
    <3>1. k - base + 1 \in 1 .. count
      OBVIOUS
    <3> QED
      BY <1>1, <1>3, <3>1
  <2> QED
    BY <2>1, <2>2
<1>6. \A m, n \in moved : order'[m] = order'[n] => m = n
  BY <1>1, <1>3
<1>7. moved \subseteq siblings /\ moved \in SUBSET Live
  BY <1>1, <1>2 DEF Siblings
<1>8. Atomic!Reorder(moved, base, count)
  <2>1. \E kind \in {"folder", "request"}, p \in Project, f \in Folder \cup {Null} :
           moved \subseteq Siblings(kind, p, f)
    BY <1>2, <1>7
  <2>2. order' \in [Node -> Orders]
    BY DEF TypeOK, TablesTypeOK, Node, Orders
  <2>3. UNCHANGED <<projects, row, project, parent>>
    BY DEF BulkUpdateOrder
  <2> QED
    BY <1>4, <1>5, <1>6, <2>1, <2>2, <2>3, SameOperators DEF Atomic!Reorder
<1>9. count \in 0 .. MaxOrder + 1
  BY MaxListAssumption, MaxOrderAssumption
<1> QED
  BY <1>7, <1>8, <1>9, SameOperators DEF Atomic!Next

\* When there is nothing more to reach, what a cascade has locked is the subtree
\* of its row.
LEMMA HeldIsSubtree ==
    ASSUME TablesTypeOK, Acyclic, NEW held \in SUBSET Live, NEW f \in held,
           \A n \in held \ {f} : parent[n] \in held,
           \A n \in Live : parent[n] \in held => n \in held
    PROVE  held = Subtree(f)
<1>1. \A n \in Live : n \in Node /\ parent[n] \in Node \cup {Null} /\ n # Null
  BY IdsAssumption DEF TablesTypeOK, Live, Node
<1>2. ASSUME NEW n \in Subtree(f), n \notin held
      PROVE  FALSE
  <2>1. Node \ held \in SUBSET Node /\ Closed(Node \ held)
    BY <1>1 DEF Closed
  <2>2. n \in Node \ held /\ f \notin Node \ held
    BY <1>2 DEF Subtree, Live
  <2> QED
    BY <1>2, <2>1, <2>2 DEF Subtree, IsDescendant, Ancestors
<1>3. ASSUME NEW n \in held, NEW S \in SUBSET Node, n \in S, Closed(S), f \notin S
      PROVE  FALSE
  <2>1. PICK m \in S \cap held : parent[m] \notin S \cap held
    BY <1>3 DEF Acyclic
  <2>2. m \in Live /\ m # f /\ parent[m] \in held /\ parent[m] # Null
    BY <1>1, <1>3, <2>1
  <2> QED
    BY <1>3, <2>1, <2>2 DEF Closed
<1>4. ASSUME NEW n \in held
      PROVE  n \in Subtree(f)
  BY <1>1, <1>3 DEF Subtree, IsDescendant, Ancestors
<1>5. Subtree(f) \subseteq Live
  BY DEF Subtree
<1> QED
  BY <1>2, <1>4

\* Deletes are its Delete and DeleteProject steps.
LEMMA CommitDeleteAtomic ==
    ASSUME IInv, NEW h \in Handler, CommitDelete(h)
    PROVE  Atomic!Next
<1> DEFINE c == call[h]
           held == c.held
<1>1. /\ held \in SUBSET Live /\ Live \subseteq Node
      /\ projects' = projects \ {c.project} /\ Erase(held)
      /\ \A n \in Live : project[n] = c.project \/ parent[n] \in held => n \in held
  BY DEF CommitDelete, Below, IInv, HandlerOK, DeleteReady, Live
<1>2. CASE c.op = "delete"
  <2>1. /\ c.project = Null /\ c.node \in held
        /\ \A n \in held \ {c.node} : parent[n] \in held
    BY <1>2 DEF CommitDelete, IInv, HandlerOK, CallShape, DeleteReady
  <2>2. held = Subtree(c.node)
    <3> HIDE DEF held
    <3> QED
      BY <1>1, <2>1, HeldIsSubtree DEF IInv, TypeOK
  <2>3. projects' = projects
    BY <1>1, <2>1, IdsAssumption DEF IInv, TypeOK, TablesTypeOK
  <2>4. Atomic!Delete(c.node)
    BY <1>1, <2>1, <2>2, <2>3, SameOperators DEF Atomic!Delete, Atomic!Erase, Erase
  <2> QED
    BY <1>1, <2>1, <2>4, SameOperators DEF Atomic!Next
<1>3. CASE c.op = "deleteProject"
  <2>1. /\ c.project \in projects /\ c.project \in Project
        /\ \A n \in held : project[n] = c.project
    BY <1>3 DEF CommitDelete, IInv, HandlerOK, CallShape, DeleteReady, TypeOK,
                TablesTypeOK
  <2>2. held = {n \in Live : project[n] = c.project}
    BY <1>1, <2>1
  <2>3. Atomic!DeleteProject(c.project)
    BY <1>1, <2>1, <2>2, SameOperators
       DEF Atomic!DeleteProject, Atomic!Erase, Erase
  <2> QED
    BY <2>1, <2>3 DEF Atomic!Next
<1> QED
  BY <1>2, <1>3 DEF CommitDelete, IInv, HandlerOK, CallShape

\* Every other statement leaves the tables as they are, so each step is a step of
\* AtomicTree or a stutter.
LEMMA StepAtomic == IInv /\ IInv' /\ [Next]_vars => [Atomic!Next]_(Atomic!tables)
<1> SUFFICES ASSUME IInv, IInv', [Next]_vars
             PROVE  [Atomic!Next]_(Atomic!tables)
  OBVIOUS
<1>1. ASSUME UNCHANGED tables
      PROVE  UNCHANGED Atomic!tables
  BY <1>1 DEF tables, Atomic!tables
<1>2. ASSUME NEW h \in Handler, Reads(h)
      PROVE  UNCHANGED Atomic!tables
  BY <1>1, <1>2, ReadsOnly
<1>3. ASSUME NEW h \in Handler,
             \/ CommitCreate(h) \/ CommitMove(h)
             \/ BulkUpdateOrder(h, 0) \/ BulkUpdateOrder(h, 1) \/ CommitDelete(h)
      PROVE  Atomic!Next
  BY <1>3, CommitCreateAtomic, CommitMoveAtomic, BulkUpdateOrderAtomic,
     CommitDeleteAtomic DEF IInv
<1>4. CASE UNCHANGED vars
  BY <1>1, <1>4 DEF vars
<1> QED
  BY <1>2, <1>3, <1>4, StepKinds

\* Every accepted create, move, reorder and delete takes effect at one instant,
\* its commit, and is then exactly the operation AtomicTree allows: the checks
\* its transaction made earlier still hold.
THEOREM TreeImplementsAtomic == Spec => ImplementsAtomicTree
<1>1. Init => Atomic!Init
  BY DEF Init, TablesInit, Atomic!Init, Atomic!TablesInit, Atomic!Node, Node
<1>2. Spec => [][Atomic!Next]_(Atomic!tables)
  BY Inductive, StepAtomic, PTL DEF Spec
<1> QED
  BY <1>1, <1>2, PTL DEF Spec, ImplementsAtomicTree, Atomic!Spec
=============================================================================
