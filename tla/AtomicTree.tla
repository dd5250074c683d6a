----------------------------- MODULE AtomicTree -----------------------------
(***************************************************************************)
(* What the folder and request endpoints promise of a project's tree: each *)
(* accepted call takes effect at one instant, on the tree as it is at that *)
(* instant.  ProjectTree, where a call is a sequence of SQL statements     *)
(* interleaved with those of other calls, implements this specification.   *)
(*                                                                         *)
(* sort_order values picked by an append are left open: concurrent creates *)
(* may pick equal ones, and ties fall back to created_at.                  *)
(***************************************************************************)
EXTENDS TreeTables

Init == TablesInit

\* A parent that may be given to a row of project p.
ValidParent(p, f) == f = Null \/ (f \in Live \cap Folder /\ project[f] = p)

Create(n, p, f, o) ==
    /\ row[n] = "new"
    /\ p \in projects
    /\ ValidParent(p, f)
    /\ InsertRow(n, p, f, o)

\* Nothing is ever moved below itself, nor out of its project.
Move(n, f, o) ==
    /\ n \in Live
    /\ ValidParent(project[n], f)
    /\ SetParent(n, f, o)
    /\ f # Null => ~IsDescendant(f, n)

\* Some siblings get the places base, base + 1, ... in some order; no other row
\* changes.  A sibling that joins while a reorder is decided keeps its place.
Reorder(moved, base, count) ==
    /\ UNCHANGED <<projects, row, project, parent>>
    /\ \E kind \in {"folder", "request"}, p \in Project, f \in Folder \cup {Null} :
          moved \subseteq Siblings(kind, p, f)
    /\ order' \in [Node -> Orders]
    /\ {order'[n] : n \in moved} = base .. (base + count - 1)
    /\ \A m, n \in moved : order'[m] = order'[n] => m = n
    /\ \A n \in Node \ moved : order'[n] = order[n]

Delete(n) ==
    /\ n \in Live
    /\ Erase(Subtree(n))
    /\ UNCHANGED projects

DeleteProject(p) ==
    /\ p \in projects
    /\ projects' = projects \ {p}
    /\ Erase({n \in Live : project[n] = p})

Next ==
    \/ \E n \in Node, p \in Project, f \in Folder \cup {Null}, o \in Orders :
          Create(n, p, f, o)
    \/ \E n \in Node, f \in Folder \cup {Null}, o \in Orders : Move(n, f, o)
    \/ \E moved \in SUBSET Live, base \in {0, 1}, count \in 0 .. MaxOrder + 1 :
          Reorder(moved, base, count)
    \/ \E n \in Node : Delete(n)
    \/ \E p \in Project : DeleteProject(p)

Spec == Init /\ [][Next]_tables
=============================================================================
