-------------------------------- MODULE MCServer --------------------------------
(***************************************************************************)
(* The server process and the tool that replaces its binary.  They share   *)
(* no state but the binary a process was started from, so a behaviour runs *)
(* one of them while the other stays as it started.                        *)
(***************************************************************************)
EXTENDS Server

CONSTANTS Uploader, File, NoFile, Lost, MaxUploads

ASSUME ToolAssumption == NoFile \notin File /\ MaxUploads \in Nat

VARIABLES
    uploading,  \* the upload tool runs, not the server
    content, live, temp, running, checked, overlap, uploads, uploadPc, fd

toolVars == <<content, live, temp, running, checked, overlap, uploads, uploadPc, fd>>

Tool == INSTANCE Upload WITH pc <- uploadPc

BothInit ==
    /\ uploading \in BOOLEAN
    /\ Init /\ Tool!Init
    /\ ~uploading => checked

BothNext ==
    \/ ~uploading /\ Next /\ UNCHANGED <<uploading, toolVars>>
    \/ uploading /\ Tool!Next /\ UNCHANGED <<uploading, vars>>

\* No step of a server that is off is enabled but its start, so the fairness asks
\* nothing while the tool runs.
BothSpec ==
    /\ BothInit
    /\ [][BothNext]_<<uploading, vars, toolVars>>
    /\ Fairness

-----------------------------------------------------------------------------

\* The tool's properties, stated and explained in Upload.

\* The types of sessions and phases, and of files and uploads: the live name is never
\* the temporary file's too.
TypesOK == TypeOK /\ Tool!TypeOK

\* A damaged or partial binary is never put in place.
LiveIsWhole == Tool!LiveIsWhole
=============================================================================
