------------------------------- MODULE Upload -------------------------------
(***************************************************************************)
(* The upload tool: it sends the binary to a temporary name in the folder  *)
(* of the server, compares hashes there and renames it into place.  Every  *)
(* upload uses the same temporary name.  The connection may break at any   *)
(* step, and the service may be restarted at any time.                     *)
(*                                                                         *)
(* Names refer to files (inodes): scp and a running process keep the file  *)
(* they opened, whatever becomes of its name.  A file is two blocks, each  *)
(* from one uploader's binary.                                             *)
(***************************************************************************)
EXTENDS Naturals, FiniteSets

CONSTANTS
    Uploader,   \* each uploads a binary of its own
    File,       \* bound: files at one time
    NoFile, Lost,
    MaxUploads  \* bound: uploads started

VARIABLES
    content,    \* content[f]: the two blocks
    live, temp, \* the files named ghostman-server and .ghostman-server.upload
    running,    \* the file the service was started from
    checked,    \* sha256sum is installed on the server
    overlap,    \* history: two uploads were under way at one time
    uploads,    \* bound: uploads still to come
    pc, fd      \* fd[u]: the file u's scp writes

files == <<content, live, temp>>
vars == <<files, running, checked, overlap, uploads, pc, fd>>

NoBlocks == <<Lost, Lost>>
Whole(f) == \E u \in Uploader : content[f] = <<u, u>>

Free == {f \in File : f \notin {live, temp, running} /\ \A u \in Uploader : fd[u] # f}

TypeOK ==
    /\ content \in [File -> (Uploader \cup {Lost}) \X (Uploader \cup {Lost})]
    /\ live \in File \cup {NoFile} /\ temp \in File \cup {NoFile}
    /\ running \in File \cup {NoFile}
    /\ live # NoFile => live # temp
    /\ checked \in BOOLEAN /\ overlap \in BOOLEAN
    /\ uploads \in 0 .. MaxUploads
    /\ pc \in [Uploader -> {"idle", "open", "block1", "block2", "verify", "rm",
                            "install"}]
    /\ fd \in [Uploader -> File \cup {NoFile}]

Init ==
    /\ content = [f \in File |-> NoBlocks]
    /\ live = NoFile /\ temp = NoFile /\ running = NoFile
    /\ checked \in BOOLEAN
    /\ overlap = FALSE /\ uploads = MaxUploads
    /\ pc = [u \in Uploader |-> "idle"]
    /\ fd = [u \in Uploader |-> NoFile]

Goto(u, label) == pc' = [pc EXCEPT ![u] = label]

\* The binary is hashed and the connection made.
run(u) ==
    /\ pc[u] = "idle" /\ uploads > 0
    /\ uploads' = uploads - 1
    /\ overlap' = (overlap \/ \E v \in Uploader : pc[v] # "idle")
    /\ Goto(u, "open")
    /\ UNCHANGED <<files, running, checked, fd>>

\* Ends u: with success, or because an answer was an error or did not come.
Close(u) == Goto(u, "idle") /\ fd' = [fd EXCEPT ![u] = NoFile]

ConnectionLost(u) ==
    /\ pc[u] # "idle" /\ Close(u)
    /\ UNCHANGED <<files, running, checked, overlap, uploads>>

\* `scp -t' opens the temporary name, and makes the file if there is none.
scpOpen(u) ==
    /\ pc[u] = "open" /\ (temp # NoFile \/ Free # {})
    /\ LET f == IF temp # NoFile THEN temp ELSE CHOOSE g \in Free : TRUE
       IN  /\ temp' = f
           /\ fd' = [fd EXCEPT ![u] = f]
           /\ content' = IF temp # NoFile THEN content
                         ELSE [content EXCEPT ![f] = NoBlocks]
    /\ Goto(u, "block1")
    /\ UNCHANGED <<live, running, checked, overlap, uploads>>

\* A block arrives, or is damaged on its way to the disk.
scpSend(u) ==
    /\ pc[u] \in {"block1", "block2"}
    /\ LET i == IF pc[u] = "block1" THEN 1 ELSE 2
       IN  \E b \in {u, Lost} : content' = [content EXCEPT ![fd[u]][i] = b]
    /\ IF pc[u] = "block1" THEN Goto(u, "block2") /\ UNCHANGED fd
       ELSE Goto(u, "verify") /\ fd' = [fd EXCEPT ![u] = NoFile]
    /\ UNCHANGED <<live, temp, running, checked, overlap, uploads>>

\* Mutant: a hash that does not match is reported, and the upload goes on.
VerifyAnyway(u) ==
    /\ pc[u] = "verify" /\ temp # NoFile
    /\ Goto(u, "install")
    /\ UNCHANGED <<files, running, checked, overlap, uploads, fd>>

\* Without sha256sum the check is skipped; a file that has gone is an error.
verifyRemote(u) ==
    /\ pc[u] = "verify"
    /\ \/ /\ checked => temp # NoFile /\ content[temp] = <<u, u>>
          /\ Goto(u, "install") /\ UNCHANGED fd
       \/ /\ checked /\ temp # NoFile /\ content[temp] # <<u, u>>
          /\ Goto(u, "rm") /\ UNCHANGED fd
       \/ checked /\ temp = NoFile /\ Close(u)
    /\ UNCHANGED <<files, running, checked, overlap, uploads>>

removeDamaged(u) ==
    /\ pc[u] = "rm" /\ temp' = NoFile /\ Close(u)
    /\ UNCHANGED <<content, live, running, checked, overlap, uploads>>

\* `mv -f', which fails when the temporary name has gone.
install(u) ==
    /\ pc[u] = "install"
    /\ \/ temp # NoFile /\ live' = temp /\ temp' = NoFile
       \/ temp = NoFile /\ UNCHANGED <<live, temp>>
    /\ Close(u)
    /\ UNCHANGED <<content, running, checked, overlap, uploads>>

StartService ==
    /\ running = NoFile /\ live # NoFile /\ running' = live
    /\ UNCHANGED <<files, checked, overlap, uploads, pc, fd>>

StopService ==
    /\ running # NoFile /\ running' = NoFile
    /\ UNCHANGED <<files, checked, overlap, uploads, pc, fd>>

Next ==
    \/ StartService \/ StopService
    \/ \E u \in Uploader :
          \/ run(u) \/ scpOpen(u) \/ scpSend(u) \/ verifyRemote(u)
          \/ removeDamaged(u) \/ install(u) \/ ConnectionLost(u)

Spec == Init /\ [][Next]_vars

-----------------------------------------------------------------------------

\* Uploads that do not overlap, to a server that has sha256sum, never put a damaged
\* or a partial binary in place, wherever an upload breaks off and whatever an
\* earlier one has left under the temporary name.
LiveIsWhole == ~overlap /\ checked /\ live # NoFile => Whole(live)

-----------------------------------------------------------------------------
(* The invariant behind it, which the proofs show to be inductive.         *)

OneAtATime ==
    ~overlap => \A u, v \in Uploader : pc[u] # "idle" /\ pc[v] # "idle" => u = v

\* An upload that is alone writes the temporary file, which nobody else renames or
\* changes before it is in place.
TempIsOwn ==
    \A u \in Uploader :
        /\ fd[u] # NoFile <=> pc[u] \in {"block1", "block2"}
        /\ ~overlap /\ fd[u] # NoFile => fd[u] = temp
        /\ ~overlap /\ checked /\ pc[u] = "install" =>
              temp # NoFile /\ content[temp] = <<u, u>>

IInv == TypeOK /\ OneAtATime /\ TempIsOwn /\ LiveIsWhole
=============================================================================
