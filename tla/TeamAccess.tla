----------------------------- MODULE TeamAccess -----------------------------
(***************************************************************************)
(* Who may open which project of one team: membership rows with their      *)
(* all_projects flag, and explicit project_access rows (grants), written   *)
(* from both sides by concurrent handlers at READ COMMITTED.               *)
(*                                                                         *)
(* A DELETE is two steps: its snapshot, then the row locks.  A row deleted *)
(* by another transaction makes it wait; if that transaction commits the   *)
(* row is skipped, even if the same key has been inserted again.  INSERT   *)
(* ... ON CONFLICT DO NOTHING waits for an uncommitted change of the same  *)
(* key.  Uncommitted deletes and inserts are kept in `call'.               *)
(*                                                                         *)
(* The handlers' reads before the transaction (who calls, are the ids of   *)
(* the list known) are the first step.                                     *)
(***************************************************************************)
CONSTANTS
    User, Owner,            \* Owner is the team's owner_id
    Project, ProjectOwner,  \* ProjectOwner[p] is the project's owner_id
    Replacers,              \* handlers of PUT /projects/{id}/access
    Setters,                \* handlers of PUT /teams/{id}/members/{id}/access
    Removers,               \* handlers of DELETE /teams/{id}/members/{id}
    NoUser, NoProject

ASSUME TeamAssumption ==
    /\ Owner \in User /\ NoUser \notin User /\ NoProject \notin Project
    /\ ProjectOwner \in [Project -> User]

Handler == Replacers \cup Setters \cup Removers

VARIABLES
    members,     \* users with a team_members row
    allProjects, \* those whose row has all_projects
    projects,    \* projects of the team that still exist
    grants,      \* committed project_access rows, as <<project, user>>
    pc,          \* next statement of each handler
    call         \* arguments and uncommitted rows of each handler

team == <<members, allProjects, projects, grants>>
vars == <<team, pc, call>>

Row == Project \X User

\* `ask' are the rows to grant; `seen' the snapshot of a DELETE that has not
\* locked its rows yet; `del' and `ins' what the transaction has written.
Calls == [op : {"none", "replace", "set", "remove"},
          project : Project \cup {NoProject}, user : User \cup {NoUser},
          all : BOOLEAN, ask : SUBSET Row,
          seen : SUBSET Row, del : SUBSET Row, ins : SUBSET Row]

NoCall == [op |-> "none", project |-> NoProject, user |-> NoUser, all |-> FALSE,
           ask |-> {}, seen |-> {}, del |-> {}, ins |-> {}]

TypeOK ==
    /\ members \subseteq User
    /\ allProjects \subseteq members
    /\ projects \subseteq Project
    /\ grants \subseteq projects \X User
    /\ pc \in [Handler -> {"idle", "member", "clear", "wait", "grant", "commit"}]
    /\ call \in [Handler -> Calls]

\* The owner's membership is created with the team; project owners joined before
\* they created their project.
Init ==
    /\ members = {Owner} \cup {ProjectOwner[p] : p \in Project}
    /\ allProjects = members
    /\ projects = Project
    /\ grants = {}
    /\ pc = [h \in Handler |-> "idle"]
    /\ call = [h \in Handler |-> NoCall]

-----------------------------------------------------------------------------
(* The access rule.                                                        *)

RequireProjectAccess(u, p) ==
    /\ p \in projects
    /\ u \in members
    /\ \/ u \in allProjects
       \/ u \in {Owner, ProjectOwner[p]}
       \/ <<p, u>> \in grants

RequireProjectManage(u, p) ==
    RequireProjectAccess(u, p) /\ u \in {Owner, ProjectOwner[p]}

RequireTeamOwner(u) == u \in members /\ u = Owner

-----------------------------------------------------------------------------
(* Handlers.                                                               *)

Begin(h, c, label) ==
    /\ pc[h] = "idle"
    /\ pc' = [pc EXCEPT ![h] = label]
    /\ call' = [call EXCEPT ![h] = c]
    /\ UNCHANGED team

Goto(h, label) == pc' = [pc EXCEPT ![h] = label] /\ UNCHANGED team

Finish(h) == pc' = [pc EXCEPT ![h] = "idle"]

\* Rollback.
Fail(h) ==
    /\ Finish(h)
    /\ call' = [call EXCEPT ![h] = NoCall]
    /\ UNCHANGED team

Abort(h) == pc[h] # "idle" /\ Fail(h)

requireAllTeamMembers(S) == S \subseteq members

requireAllTeamProjects(P) == P \subseteq projects

handleSetProjectAccess(h) ==
    \E caller \in User, p \in Project, S \in SUBSET User :
        /\ RequireProjectManage(caller, p)
        /\ requireAllTeamMembers(S)
        /\ Begin(h, [NoCall EXCEPT !.op = "replace", !.project = p,
                                   !.ask = {p} \X S], "clear")

\* With all_projects on the list is neither checked nor used.
handleSetMemberAccess(h) ==
    \E caller \in User, u \in User, all \in BOOLEAN, P \in SUBSET Project :
        /\ RequireTeamOwner(caller)
        /\ u # Owner
        /\ IF all THEN P = {} ELSE requireAllTeamProjects(P)
        /\ Begin(h, [NoCall EXCEPT !.op = "set", !.user = u, !.all = all,
                                   !.ask = P \X {u}], "member")

\* The owner removes anyone else, a member leaves.
handleDeleteTeamMember(h) ==
    \E caller \in members, u \in User :
        /\ u # Owner
        /\ caller = Owner \/ caller = u
        /\ Begin(h, [NoCall EXCEPT !.op = "remove", !.user = u], "member")

-----------------------------------------------------------------------------
(* Statements.                                                             *)

\* Mutant: the membership row is read without its lock.
MemberNeverLocked(h, u) == FALSE

\* Another transaction has written u's membership row and has not ended.
MemberLocked(h, u) ==
    \E g \in Handler \ {h} :
        /\ call[g].op \in {"set", "remove"}
        /\ call[g].user = u
        /\ pc[g] # "member"

UpdateMemberAllProjects(h) ==
    /\ pc[h] = "member" /\ call[h].op = "set"
    /\ ~MemberLocked(h, call[h].user)
    /\ \/ call[h].user \in members /\ Goto(h, "clear") /\ UNCHANGED call
       \/ call[h].user \notin members /\ Fail(h)

DeleteTeamMember(h) ==
    /\ pc[h] = "member" /\ call[h].op = "remove"
    /\ ~MemberLocked(h, call[h].user)
    /\ \/ call[h].user \in members /\ Goto(h, "clear") /\ UNCHANGED call
       \/ call[h].user \notin members /\ Fail(h)

\* The rows the DELETE statement selects.
Scope(c) == IF c.op = "replace" THEN {c.project} \X User ELSE Project \X {c.user}

DeleteAllProjectAccess(h) ==
    /\ pc[h] = "clear" /\ call[h].op = "replace"
    /\ call' = [call EXCEPT ![h].seen = grants \cap Scope(call[h])]
    /\ Goto(h, "wait")

\* Mutant: leaving keeps the grants.
DeleteUserAccessUnlessLeaving(h) ==
    /\ pc[h] = "clear" /\ call[h].op \in {"set", "remove"}
    /\ call' = [call EXCEPT ![h].seen =
                    IF call[h].op = "set" THEN grants \cap Scope(call[h]) ELSE {}]
    /\ Goto(h, "wait")

DeleteAllUserAccessInTeam(h) ==
    /\ pc[h] = "clear" /\ call[h].op \in {"set", "remove"}
    /\ call' = [call EXCEPT ![h].seen = grants \cap Scope(call[h])]
    /\ Goto(h, "wait")

\* Mutant: the DELETE runs outside the transaction.
LockDeletedAutocommit(h) ==
    /\ pc[h] = "wait"
    /\ grants' = grants \ call[h].seen
    /\ call' = [call EXCEPT ![h].seen = {}]
    /\ pc' = [pc EXCEPT ![h] = IF call[h].ask = {} THEN "commit" ELSE "grant"]
    /\ UNCHANGED <<members, allProjects, projects>>

LockDeleted(h) ==
    /\ pc[h] = "wait"
    /\ \A g \in Handler \ {h} : call[h].seen \cap call[g].del = {}
    /\ call' = [call EXCEPT ![h].del = call[h].seen, ![h].seen = {}]
    /\ Goto(h, IF call[h].ask = {} THEN "commit" ELSE "grant")

\* Mutant: rows the transaction has just deleted count as already there.
NewRowsBeforeDelete(c) == c.ask \ grants

\* The rows of ask that are not there yet, for the transaction itself.
NewRows(c) == c.ask \ (grants \ c.del)

Grant(h) ==
    LET ask == call[h].ask
    IN  /\ pc[h] = "grant"
        /\ \A g \in Handler \ {h} : ask \cap (call[g].del \cup call[g].ins) = {}
        /\ \/ /\ ask \subseteq projects \X User
              /\ call' = [call EXCEPT ![h].ins = NewRows(call[h])]
              /\ Goto(h, "commit")
           \/ ~(ask \subseteq projects \X User) /\ Fail(h)

GrantProjectAccess(h) == call[h].op = "replace" /\ Grant(h)

GrantUserProjectAccess(h) == call[h].op = "set" /\ Grant(h)

\* A DELETE that waited for these rows skips them once they are gone.
Forget(c, S) == [c EXCEPT !.seen = @ \ S]

Commit(h) ==
    LET c == call[h]
    IN  /\ pc[h] = "commit"
        /\ grants' = (grants \ c.del) \cup c.ins
        /\ call' = [g \in Handler |->
                        IF g = h THEN NoCall ELSE Forget(call[g], c.del)]
        /\ Finish(h)
        /\ UNCHANGED projects

ReplaceProjectAccess(h) ==
    /\ call[h].op = "replace"
    /\ Commit(h)
    /\ UNCHANGED <<members, allProjects>>

SetMemberProjectAccess(h) ==
    /\ call[h].op = "set"
    /\ Commit(h)
    /\ allProjects' = IF call[h].all THEN allProjects \cup {call[h].user}
                                     ELSE allProjects \ {call[h].user}
    /\ UNCHANGED members

RemoveTeamMember(h) ==
    /\ call[h].op = "remove"
    /\ Commit(h)
    /\ members' = members \ {call[h].user}
    /\ allProjects' = allProjects \ {call[h].user}

\* An accepted invitation: an existing row is left alone, so only a user without
\* one changes anything.
AcceptInvitation ==
    \E u \in User \ members :
        /\ members' = members \cup {u}
        /\ allProjects' = allProjects \cup {u}
        /\ UNCHANGED <<projects, grants, pc, call>>

\* The cascade waits for uncommitted deletes of the project's rows, and the
\* DELETE itself for the foreign keys of uncommitted inserts.
DeleteProject ==
    \E caller \in User, p \in Project :
        LET rows == {p} \X User
        IN  /\ RequireProjectManage(caller, p)
            /\ \A h \in Handler : rows \cap (call[h].del \cup call[h].ins) = {}
            /\ projects' = projects \ {p}
            /\ grants' = grants \ rows
            /\ call' = [h \in Handler |-> Forget(call[h], rows)]
            /\ UNCHANGED <<members, allProjects, pc>>

Next ==
    \/ \E h \in Replacers : handleSetProjectAccess(h)
    \/ \E h \in Setters : handleSetMemberAccess(h)
    \/ \E h \in Removers : handleDeleteTeamMember(h)
    \/ \E h \in Handler :
          \/ UpdateMemberAllProjects(h) \/ DeleteTeamMember(h)
          \/ DeleteAllProjectAccess(h) \/ DeleteAllUserAccessInTeam(h)
          \/ LockDeleted(h)
          \/ GrantProjectAccess(h) \/ GrantUserProjectAccess(h)
          \/ ReplaceProjectAccess(h) \/ SetMemberProjectAccess(h)
          \/ RemoveTeamMember(h) \/ Abort(h)
    \/ AcceptInvitation
    \/ DeleteProject

Spec == Init /\ [][Next]_vars

-----------------------------------------------------------------------------

\* RemoveTeamMember deletes the grants with the membership, so that they cannot
\* come back to life when the user rejoins: a grant always has a member.
GrantsOnlyForMembers == \A r \in grants : r[2] \in members

\* What handleSetMemberAccess answers is what is stored when its transaction
\* commits: the flag, and exactly the projects of the list.
SetMemberIsExact ==
    [][\A h \in Setters :
          SetMemberProjectAccess(h) =>
             /\ grants' \cap Scope(call[h]) = call[h].ask
             /\ call[h].user \in members'
             /\ (call[h].user \in allProjects') = call[h].all]_vars

\* ReplaceProjectAccess makes the explicit grant list of the project exactly the
\* one that was sent, as soon as it commits.
ReplaceIsExact ==
    [][\A h \in Replacers :
          ReplaceProjectAccess(h) =>
             grants' \cap Scope(call[h]) = call[h].ask]_vars

\* No reader sees a list half replaced: a committed grant disappears only with
\* its project, or in the very step that commits a call whose list or removal
\* leaves that grant out.
GrantsLeaveOnRequest ==
    [][\A r \in grants \ grants' :
          \/ r[1] \notin projects'
          \/ \E h \in Handler :
                /\ pc[h] = "commit" /\ pc'[h] = "idle"
                /\ r \in Scope(call[h]) \ call[h].ask]_vars

\* "They are stored regardless, so turning the flag off restores a previously
\* configured list": turning all_projects on for a member keeps their grants.
GrantsKeptUnderFlag ==
    [][\A u \in allProjects' \ allProjects :
          u \in members => grants \cap (Project \X {u}) \subseteq grants']_vars

-----------------------------------------------------------------------------
(* The invariant behind these, which the proofs show to be inductive.      *)

\* What a call has read and written by the time it stands at statement l.
Shape(h, l, c) ==
    /\ IF l = "idle" THEN c = NoCall ELSE c.op \in {"replace", "set", "remove"}
    /\ c.op = "replace" => h \in Replacers /\ c.project \in Project /\ l # "member"
    /\ c.op \in {"set", "remove"} => c.user \in User
    /\ c.op = "remove" => c.ask = {}
    /\ c.ask \cup c.seen \cup c.del \subseteq Scope(c) /\ c.ins \subseteq c.ask
    /\ l \in {"member", "clear"} => c.seen = {}
    /\ l \in {"member", "clear", "wait"} => c.del = {}
    /\ l # "commit" => c.ins = {}
    /\ l = "grant" => c.op # "remove"
    /\ l = "commit" => c.ask \cap c.del \subseteq c.ins

CallShape == \A h \in Handler : Shape(h, pc[h], call[h])

\* The foreign key of what has been inserted still holds.
InsertsHold == \A h \in Handler : call[h].ins \subseteq projects \X User

\* h has updated or deleted u's membership row, and holds its lock.
Writes(h, u) ==
    call[h].op \in {"set", "remove"} /\ call[h].user = u /\ pc[h] # "member"

OneWriter ==
    \A h \in Handler, u \in User : Writes(h, u) =>
        u \in members /\ \A g \in Handler : Writes(g, u) => g = h

\* The rows a list or a removal has to reach are those it reaches.
Reached(l, c) ==
    /\ l = "wait" => grants \cap Scope(c) \subseteq c.seen
    /\ l \in {"grant", "commit"} => grants \cap Scope(c) \subseteq c.del
    /\ l = "commit" => c.ins = c.ask

Cleared(ops) ==
    \A h \in Handler : call[h].op \in ops => Reached(pc[h], call[h])

\* d asks for rows that c replaces or removes, and no membership row keeps the two
\* apart, for one of them is a project's list.
Crosses(d, c) == "replace" \in {c.op, d.op} /\ d.ask \cap Scope(c) # {}

Uncrossed(ops) ==
    \A g \in Handler : call[g].op \in ops =>
        \A h \in Handler \ {g} : ~Crosses(call[h], call[g])

\* Whoever a project's list names was a member when the handler looked, and is.
AskedAreMembers ==
    \A h \in Handler : call[h].op = "replace" => \A r \in call[h].ask : r[2] \in members

IInv == TypeOK /\ CallShape /\ InsertsHold /\ OneWriter

\* As long as no project's list names somebody who is being removed.
RemovalInv == IInv /\ Cleared({"remove"}) /\ AskedAreMembers /\ GrantsOnlyForMembers
=============================================================================
