----------------------------- MODULE TreeTables -----------------------------
(***************************************************************************)
(* The tables behind a project's tree: the projects, and the folders and   *)
(* requests that live in them, as PostgreSQL holds them once transactions  *)
(* have committed.  A folder's parent_id and a request's folder_id are one *)
(* column here, `parent'; Null is SQL NULL, the project root.              *)
(*                                                                         *)
(* Ids are uuids: a row is "new" until it is inserted, and an id that was  *)
(* deleted is never used again.                                            *)
(***************************************************************************)
EXTENDS Integers

CONSTANTS
    Project,    \* ids of projects
    Folder,     \* ids of folders
    Request,    \* ids of saved HTTP requests, the leaves of the tree
    Null,       \* SQL NULL
    MaxOrder    \* largest value the sort_order column can hold (int32)

Node == Folder \cup Request

ASSUME IdsAssumption ==
    /\ Folder \cap Request = {}
    /\ Null \notin Node \cup Project

ASSUME MaxOrderAssumption == MaxOrder \in Nat

VARIABLES
    projects,   \* the projects that exist
    row,        \* "new", "live" or "deleted", for each node
    project,    \* column project_id of each node
    parent,     \* column parent_id / folder_id of each node
    order       \* column sort_order of each node

tables == <<projects, row, project, parent, order>>

Orders == 0 .. MaxOrder

TablesTypeOK ==
    /\ projects \in SUBSET Project
    /\ row \in [Node -> {"new", "live", "deleted"}]
    /\ project \in [Node -> Project \cup {Null}]
    /\ parent \in [Node -> Folder \cup {Null}]
    /\ order \in [Node -> Orders]

\* An empty database, with the projects created.
TablesInit ==
    /\ projects = Project
    /\ row = [n \in Node |-> "new"]
    /\ project = [n \in Node |-> Null]
    /\ parent = [n \in Node |-> Null]
    /\ order = [n \in Node |-> 0]

Live == {n \in Node : row[n] = "live"}

OfKind(kind) == IF kind = "folder" THEN Folder ELSE Request

\* Rows of one kind that share a project and a parent: the scope of sort_order.
Siblings(kind, p, f) ==
    {n \in Live \cap OfKind(kind) : project[n] = p /\ parent[n] = f}

-----------------------------------------------------------------------------
(* The recursive query.  Its result is the least set that holds the folder
   and, with every row, the row's parent.                                  *)

Closed(S) == \A n \in S \cap Live : parent[n] # Null => parent[n] \in S

Ancestors(n) ==
    {a \in Node : \A S \in SUBSET Node : n \in S /\ Closed(S) => a \in S}

IsDescendant(n, root) == n \in Live /\ root \in Ancestors(n)

\* What ON DELETE CASCADE removes together with a folder.
Subtree(f) == {n \in Live : IsDescendant(n, f)}

-----------------------------------------------------------------------------
(* What committed statements do to the tables.                             *)

InsertRow(n, p, f, o) ==
    /\ row' = [row EXCEPT ![n] = "live"]
    /\ project' = [project EXCEPT ![n] = p]
    /\ parent' = [parent EXCEPT ![n] = f]
    /\ order' = [order EXCEPT ![n] = o]
    /\ UNCHANGED projects

SetParent(n, f, o) ==
    /\ parent' = [parent EXCEPT ![n] = f]
    /\ order' = [order EXCEPT ![n] = o]
    /\ UNCHANGED <<projects, row, project>>

\* The rows of `gone' disappear.
Erase(gone) ==
    /\ row' = [n \in Node |-> IF n \in gone THEN "deleted" ELSE row[n]]
    /\ project' = [n \in Node |-> IF n \in gone THEN Null ELSE project[n]]
    /\ parent' = [n \in Node |-> IF n \in gone THEN Null ELSE parent[n]]
    /\ order' = [n \in Node |-> IF n \in gone THEN 0 ELSE order[n]]

-----------------------------------------------------------------------------
(* What makes the tables a forest the client can assemble.                 *)

\* Walking up from any folder or request ends at the root of its project.
Acyclic ==
    \A S \in SUBSET Live : S # {} => \E n \in S : parent[n] \notin S

\* Every row's project exists, and its parent is an existing folder of the
\* same project.
ParentsInProject ==
    \A n \in Live :
        /\ project[n] \in projects
        /\ parent[n] # Null =>
              /\ parent[n] \in Live \cap Folder
              /\ project[parent[n]] = project[n]

WellFormed == ParentsInProject /\ Acyclic
=============================================================================
