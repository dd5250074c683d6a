--------------------------- MODULE MCProjectContents ---------------------------
(***************************************************************************)
(* Webhook endpoints, the ordered lists and the settings of single rows    *)
(* have no state in common, so a behaviour runs the handlers of one of     *)
(* these parts while the other two stay as they started.                   *)
(***************************************************************************)
EXTENDS WebhookEndpoints

CONSTANTS Row, Proxy, OwnProxy, MaxBody

ASSUME ContentsAssumption == IsFiniteSet(Row) /\ MaxBody \in Nat

VARIABLES
    part,       \* whose handlers run
    listKind, parent, listStatus, order, tied, listPc, listCall,
    rowKind, rowStatus, row, proxies, rowPc, rowCall

listVars == <<listKind, parent, listStatus, order, tied, listPc, listCall>>
rowVars == <<rowKind, rowStatus, row, proxies, rowPc, rowCall>>
allVars == <<part, vars, listVars, rowVars>>

List == INSTANCE OrderedList
            WITH kind <- listKind, status <- listStatus, pc <- listPc, call <- listCall

Setting == INSTANCE Settings
            WITH kind <- rowKind, status <- rowStatus, pc <- rowPc, call <- rowCall

\* A part that does not run starts in one state.
ContentsInit ==
    /\ part \in {"endpoints", "list", "settings"}
    /\ Init /\ List!Init /\ Setting!Init
    /\ part # "list" => listKind = "project"
    /\ part # "settings" => rowKind = "team" /\ row.name = "a"

ContentsNext ==
    \/ part = "endpoints" /\ Next /\ UNCHANGED <<part, listVars, rowVars>>
    \/ part = "list" /\ List!Next /\ UNCHANGED <<part, vars, rowVars>>
    \/ part = "settings" /\ Setting!Next /\ UNCHANGED <<part, vars, listVars>>

Step(h) ==
    \/ Advance(h) /\ UNCHANGED <<part, listVars, rowVars>>
    \/ List!Advance(h) /\ UNCHANGED <<part, vars, rowVars>>

\* The fairness of the endpoints and of the lists, which asks nothing for a handler
\* that has not begun.  Only one of them runs, so their conditions on a handler are
\* one.
ContentsSpec ==
    /\ ContentsInit
    /\ [][ContentsNext]_allVars
    /\ \A h \in Handler : SF_allVars(Step(h))
    /\ WF_listVars(List!DeadlockVictim)

-----------------------------------------------------------------------------

\* The parts' properties, stated and explained in their modules.

\* The types of the three parts: endpoints go with their project, and the positions
\* of a list stay below the number of its rows.
TypesOK == TypeOK /\ List!TypeOK /\ Setting!TypeOK

\* Only calls that overlap leave rows with one position.
TiesComeFromOverlap == List!TiesComeFromOverlap

\* A reorder writes the order it was sent, of rows that are still there.
ReorderIsExact == List!ReorderIsExact

\* EveryCreateEnds and the lists' EveryCallEnds: neither colliding slugs nor a
\* contended project lock, nor reorders that lock each other's rows, keep a handler
\* for ever.
EveryCallEnds ==
    \A h \in Handler :
        pc[h] # "idle" \/ listPc[h] # "idle" ~> pc[h] = "idle" /\ listPc[h] = "idle"

\* What a handler lets through never breaks a CHECK constraint.
ChecksSuffice == Setting!ChecksSuffice

\* A node's proxy is there, of its project, and named only in mode "proxy".
ProxySettingConsistent == Setting!ProxySettingConsistent

\* No update loses what another has written to other columns.
UpdatesMerge == Setting!UpdatesMerge
=============================================================================
