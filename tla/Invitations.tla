----------------------------- MODULE Invitations -----------------------------
(***************************************************************************)
(* Teams, their members and the invitations that make members.  A user is  *)
(* identified with the email, which is unique.  Ids are never used twice.  *)
(*                                                                         *)
(* A handler reads, decides and then writes, one statement per step.  Only *)
(* accepting an invitation and the cascade of deleting a team hold locks   *)
(* over several statements: the row of the invitation, and that of the     *)
(* team.  A transaction that has not committed is seen by nobody, so its   *)
(* rows are written when it commits.                                       *)
(***************************************************************************)
CONSTANTS Team, Email, Invite, Handler, None

ASSUME InvitationsAssumption == None \notin Team \cup Email \cup Invite

VARIABLES
    users,      \* emails with an account
    teams,      \* teams that exist
    owner,      \* owner_id of every team ever created
    members,    \* team_members rows, as <<team, email>>
    invite,     \* team_invitations rows
    pc, call

tables == <<users, teams, owner, members, invite>>
vars == <<tables, pc, call>>

Unused == [team |-> None, email |-> None, status |-> "unused"]

\* `fresh' says that the transaction has inserted the membership row; `held' are
\* the invitations a cascade has locked.
NoCall == [op |-> "none", user |-> None, team |-> None, invite |-> None,
           fresh |-> FALSE, held |-> {}]

Calls ==
    [op : {"none", "invite", "accept", "reject", "revoke", "deleteTeam"},
     user : Email \cup {None}, team : Team \cup {None}, invite : Invite \cup {None},
     fresh : BOOLEAN, held : SUBSET Invite]

TypeOK ==
    /\ users \subseteq Email /\ teams \subseteq Team
    /\ owner \in [Team -> users \cup {None}]
    /\ members \subseteq Team \X users
    /\ invite \in [Invite ->
            [team : Team, email : Email,
             status : {"pending", "accepted", "rejected", "deleted"}] \cup {Unused}]
    /\ pc \in [Handler -> {"idle", "check", "insert", "refer", "update", "join",
                           "commit", "revoke", "delete", "cascade"}]
    /\ call \in [Handler -> Calls]

Init ==
    /\ users = {} /\ teams = {} /\ members = {}
    /\ owner = [t \in Team |-> None]
    /\ invite = [i \in Invite |-> Unused]
    /\ pc = [h \in Handler |-> "idle"]
    /\ call = [h \in Handler |-> NoCall]

-----------------------------------------------------------------------------

Goto(h, label) == pc' = [pc EXCEPT ![h] = label]

End(h) == Goto(h, "idle") /\ call' = [call EXCEPT ![h] = NoCall]

\* Rollback, or an answer without a write.
Fail(h) == End(h) /\ UNCHANGED tables

Abort(h) == pc[h] # "idle" /\ Fail(h)

Begin(h, label, c) ==
    /\ pc[h] = "idle"
    /\ Goto(h, label)
    /\ call' = [call EXCEPT ![h] = c]
    /\ UNCHANGED tables

RequireTeamOwner(u, t) == <<t, u>> \in members /\ owner[t] = u

\* The team's row is being deleted by another transaction.
TeamLocked(h, t) ==
    \E g \in Handler \ {h} : pc[g] = "cascade" /\ call[g].team = t

\* A membership row that has not committed refers to the team.
TeamReferenced(h, t) ==
    \E g \in Handler \ {h} :
        pc[g] = "commit" /\ call[g].fresh /\ call[g].team = t

\* Mutant: the rows are read without their locks.
InviteNeverLocked(h, i) == FALSE

\* Another transaction has accepted or swept up i and has not ended.
InviteLocked(h, i) ==
    \E g \in Handler \ {h} :
        \/ pc[g] \in {"join", "commit"} /\ call[g].invite = i
        \/ i \in call[g].held

-----------------------------------------------------------------------------
(* Accounts and teams.                                                     *)

CreateUser ==
    \E u \in Email \ users :
        /\ users' = users \cup {u}
        /\ UNCHANGED <<teams, owner, members, invite, pc, call>>

\* One transaction; nobody can meet its rows before it commits.
CreateTeamWithOwner ==
    \E t \in Team, u \in users :
        /\ owner[t] = None
        /\ teams' = teams \cup {t}
        /\ owner' = [owner EXCEPT ![t] = u]
        /\ members' = members \cup {<<t, u>>}
        /\ UNCHANGED <<users, invite, pc, call>>

\* The owner removes anyone else, a member leaves; the owner cannot.
RemoveTeamMember ==
    \E m \in members :
        /\ m[2] # owner[m[1]]
        /\ members' = members \ {m}
        /\ UNCHANGED <<users, teams, owner, invite, pc, call>>

handleDeleteTeam(h) ==
    \E t \in Team, u \in users :
        /\ RequireTeamOwner(u, t)
        /\ Begin(h, "delete", [NoCall EXCEPT !.op = "deleteTeam", !.user = u,
                                             !.team = t])

\* The row is locked first; when another call has deleted it there is nothing
\* left to do.
DeleteTeam(h) ==
    LET t == call[h].team
    IN  /\ pc[h] = "delete"
        /\ ~TeamLocked(h, t) /\ ~TeamReferenced(h, t)
        /\ \/ t \in teams /\ Goto(h, "cascade") /\ UNCHANGED <<tables, call>>
           \/ t \notin teams /\ Fail(h)

\* The rows ON DELETE CASCADE has to reach.
InvitesOf(t) == {i \in Invite : invite[i].team = t /\ invite[i].status # "deleted"}

\* They are locked one by one.
SweepUp(h) ==
    /\ pc[h] = "cascade"
    /\ \E i \in InvitesOf(call[h].team) \ call[h].held :
          /\ ~InviteLocked(h, i)
          /\ call' = [call EXCEPT ![h].held = @ \cup {i}]
    /\ UNCHANGED <<tables, pc>>

\* Mutant: members without ON DELETE CASCADE.
CascadeInvitesOnly(h) ==
    LET t == call[h].team
    IN  /\ pc[h] = "cascade"
        /\ InvitesOf(t) \subseteq call[h].held
        /\ teams' = teams \ {t}
        /\ invite' = [i \in Invite |->
                IF i \in InvitesOf(t) THEN [invite[i] EXCEPT !.status = "deleted"]
                                      ELSE invite[i]]
        /\ End(h)
        /\ UNCHANGED <<users, owner, members>>

Cascade(h) ==
    LET t == call[h].team
    IN  /\ pc[h] = "cascade"
        /\ InvitesOf(t) \subseteq call[h].held
        /\ teams' = teams \ {t}
        /\ members' = {m \in members : m[1] # t}
        /\ invite' = [i \in Invite |->
                IF i \in InvitesOf(t) THEN [invite[i] EXCEPT !.status = "deleted"]
                                      ELSE invite[i]]
        /\ End(h)
        /\ UNCHANGED <<users, owner>>

-----------------------------------------------------------------------------
(* Inviting.                                                               *)

handleCreateInvitation(h) ==
    \E t \in Team, u \in users, e \in Email :
        /\ RequireTeamOwner(u, t)
        /\ e # u
        /\ Begin(h, "check", [NoCall EXCEPT !.op = "invite", !.user = e,
                                            !.team = t])

IsEmailTeamMember(h) ==
    LET m == <<call[h].team, call[h].user>>
    IN  /\ pc[h] = "check"
        /\ \/ m \in members /\ Fail(h)
           \/ m \notin members /\ Goto(h, "insert") /\ UNCHANGED <<tables, call>>

Pending(t, e) ==
    {i \in Invite : invite[i] = [team |-> t, email |-> e, status |-> "pending"]}

\* Mutant: no unique index.
NeverPending(t, e) == FALSE

HasPending(t, e) == Pending(t, e) # {}

\* The bound on how many invitations are ever sent.
IdsUsedUp == \A i \in Invite : invite[i] # Unused

\* Waits for a pending row that is being answered or deleted, and for another
\* insert of the same address.
CreateInvitation(h) ==
    LET t == call[h].team
        e == call[h].user
    IN  /\ pc[h] = "insert"
        /\ \A i \in Pending(t, e) : ~InviteLocked(h, i)
        /\ \A g \in Handler \ {h} :
              pc[g] = "refer" => call[g].team # t \/ call[g].user # e
        /\ \/ /\ ~HasPending(t, e) /\ ~IdsUsedUp
              /\ Goto(h, "refer")
              /\ UNCHANGED <<tables, call>>
           \/ (HasPending(t, e) \/ IdsUsedUp) /\ Fail(h)

\* The foreign key waits for a team that is being deleted; then the statement
\* commits.
TeamForeignKey(h) ==
    LET t == call[h].team
    IN  /\ pc[h] = "refer"
        /\ ~TeamLocked(h, t)
        /\ \/ /\ t \in teams /\ ~IdsUsedUp
              /\ \E i \in Invite :
                    /\ invite[i] = Unused
                    /\ invite' = [invite EXCEPT ![i] =
                            [team |-> t, email |-> call[h].user,
                             status |-> "pending"]]
              /\ End(h)
              /\ UNCHANGED <<users, teams, owner, members>>
           \/ (t \notin teams \/ IdsUsedUp) /\ Fail(h)

-----------------------------------------------------------------------------
(* Answering.                                                              *)

pendingInvitationForCaller(u, i) ==
    invite[i].email = u /\ invite[i].status = "pending"

handleAcceptInvitation(h) ==
    \E u \in users, i \in Invite :
        /\ pendingInvitationForCaller(u, i)
        /\ Begin(h, "update", [NoCall EXCEPT !.op = "accept", !.user = u,
                                   !.team = invite[i].team, !.invite = i])

handleRejectInvitation(h) ==
    \E u \in users, i \in Invite :
        /\ pendingInvitationForCaller(u, i)
        /\ Begin(h, "update", [NoCall EXCEPT !.op = "reject", !.user = u,
                                   !.team = invite[i].team, !.invite = i])

\* Mutant: the update is not guarded on the status.
ThereToUpdate(i) == invite[i].status # "deleted"

StillPending(i) == invite[i].status = "pending"

\* Mutant: an answer that lost the race is tried again instead of refused.
UpdateUntilPending(h) ==
    LET i == call[h].invite
    IN  /\ pc[h] = "update"
        /\ ~InviteLocked(h, i) /\ StillPending(i)
        /\ \/ /\ call[h].op = "accept"
              /\ Goto(h, "join")
              /\ UNCHANGED <<tables, call>>
           \/ /\ call[h].op = "reject"
              /\ invite' = [invite EXCEPT ![i].status = "rejected"]
              /\ End(h)
              /\ UNCHANGED <<users, teams, owner, members>>

UpdateInvitationStatus(h) ==
    LET i == call[h].invite
    IN  /\ pc[h] = "update"
        /\ ~InviteLocked(h, i)
        /\ \/ /\ call[h].op = "accept" /\ StillPending(i)
              /\ Goto(h, "join")
              /\ UNCHANGED <<tables, call>>
           \/ /\ call[h].op = "reject" /\ StillPending(i)
              /\ invite' = [invite EXCEPT ![i].status = "rejected"]
              /\ End(h)
              /\ UNCHANGED <<users, teams, owner, members>>
           \/ ~StillPending(i) /\ Fail(h)

\* An existing row is left alone; a new one waits for a team that is being
\* deleted.
CreateTeamMemberIfAbsent(h) ==
    LET m == <<call[h].team, call[h].user>>
    IN  /\ pc[h] = "join"
        /\ \/ m \in members /\ UNCHANGED call
           \/ /\ m \notin members
              /\ ~TeamLocked(h, m[1])
              /\ call' = [call EXCEPT ![h].fresh = TRUE]
        /\ Goto(h, "commit")
        /\ UNCHANGED tables

\* Mutant: the status is committed, the membership row is not.
AcceptWithoutJoining(h) ==
    /\ pc[h] = "commit"
    /\ invite' = [invite EXCEPT ![call[h].invite].status = "accepted"]
    /\ End(h)
    /\ UNCHANGED <<users, teams, owner, members>>

AcceptInvitation(h) ==
    LET m == <<call[h].team, call[h].user>>
    IN  /\ pc[h] = "commit"
        /\ invite' = [invite EXCEPT ![call[h].invite].status = "accepted"]
        /\ members' = IF call[h].fresh THEN members \cup {m} ELSE members
        /\ End(h)
        /\ UNCHANGED <<users, teams, owner>>

handleDeleteInvitation(h) ==
    \E i \in Invite, u \in users :
        /\ invite[i].status = "pending"
        /\ RequireTeamOwner(u, invite[i].team)
        /\ Begin(h, "revoke", [NoCall EXCEPT !.op = "revoke", !.user = u,
                                   !.team = invite[i].team, !.invite = i])

\* By id alone: the status is not looked at again.
DeleteInvitation(h) ==
    LET i == call[h].invite
    IN  /\ pc[h] = "revoke"
        /\ ~InviteLocked(h, i)
        /\ invite' = [invite EXCEPT ![i].status = "deleted"]
        /\ End(h)
        /\ UNCHANGED <<users, teams, owner, members>>

-----------------------------------------------------------------------------

Advance(h) ==
    \/ DeleteTeam(h) \/ SweepUp(h) \/ Cascade(h)
    \/ IsEmailTeamMember(h) \/ CreateInvitation(h) \/ TeamForeignKey(h)
    \/ UpdateInvitationStatus(h) \/ CreateTeamMemberIfAbsent(h)
    \/ AcceptInvitation(h)
    \/ DeleteInvitation(h)

\* h holds the invitation and waits for the team, g the other way round.
Deadlocked(h, g) ==
    /\ pc[h] = "join" /\ pc[g] = "cascade"
    /\ call[h].team = call[g].team
    /\ <<call[h].team, call[h].user>> \notin members

\* The victim of PostgreSQL's deadlock detector.
DeadlockVictim ==
    \E h, g \in Handler : Deadlocked(h, g) /\ (Abort(h) \/ Abort(g))

Next ==
    \/ CreateUser \/ CreateTeamWithOwner \/ RemoveTeamMember
    \/ \E h \in Handler :
          \/ handleDeleteTeam(h) \/ handleCreateInvitation(h)
          \/ handleAcceptInvitation(h) \/ handleRejectInvitation(h)
          \/ handleDeleteInvitation(h)
          \/ Advance(h) \/ Abort(h)
    \/ DeadlockVictim

Spec == Init /\ [][Next]_vars

\* A statement that can run again and again is run, since lock waiters are served
\* in turn; a deadlock is detected.
FairSpec ==
    Spec /\ WF_vars(DeadlockVictim) /\ \A h \in Handler : SF_vars(Advance(h))

-----------------------------------------------------------------------------

\* Exactly one live invitation per address per team, also while one of them is
\* being answered and another sent.
OneLiveInvitation ==
    \A i, j \in Invite :
        /\ invite[i].status = "pending" /\ invite[j].status = "pending"
        /\ invite[i].team = invite[j].team /\ invite[i].email = invite[j].email
        => i = j

\* A team goes with everything that refers to it and not before: while it exists its
\* owner is a member, since without that row no query would show the team, and a join
\* or an invitation that races with its deletion is swept up by the cascade or
\* refused.
TeamsAreWhole ==
    /\ \A t \in teams : <<t, owner[t]>> \in members
    /\ \A m \in members : m[1] \in teams
    /\ \A i \in Invite :
          invite[i].status \in {"pending", "accepted", "rejected"}
              => invite[i].team \in teams

\* One answer wins: accept, reject and a second accept of one invitation may all
\* have read it as pending, but an answer is never changed into another.
FirstAnswerWins ==
    [][\A i \in Invite :
          invite[i].status \in {"accepted", "rejected"}
              => invite'[i].status \in {invite[i].status, "deleted"}]_vars

\* "An accepted invitation that did not produce a membership would leave the
\* invitee with no way back in": the step that accepts makes the invitee a member,
\* unless the membership row was there already when the transaction looked.
AcceptedMeansJoined ==
    [][\A i \in Invite :
          invite[i].status = "pending" /\ invite'[i].status = "accepted"
              => \/ <<invite[i].team, invite[i].email>> \in members'
                 \/ \E h \in Handler : /\ pc[h] = "commit" /\ call[h].invite = i
                                       /\ ~call[h].fresh]_vars

\* Nobody becomes a member of an existing team but by an invitation addressed to
\* them, pending until that very step.
JoinsOnlyInvited ==
    [][\A m \in members' \ members :
          \/ m[1] \notin teams
          \/ \E i \in Pending(m[1], m[2]) : invite'[i].status = "accepted"]_vars

\* No call waits for ever for an invitation or a team, although accepting and
\* deleting take the two locks in opposite order.
EveryCallEnds == \A h \in Handler : pc[h] # "idle" ~> pc[h] = "idle"

-----------------------------------------------------------------------------
(* The invariant behind these, which the proofs show to be inductive.      *)

\* What a call at statement l knows: the row it answers is the row it has read,
\* and one whose acceptance has not committed is still pending.
Shape(l, c) ==
    /\ l = "idle" => c = NoCall
    /\ l \in {"check", "insert", "refer"} => c.user \in Email
    /\ l \in {"check", "insert", "refer", "delete", "cascade"} => c.team \in Team
    /\ l \in {"update", "join", "commit", "revoke"} =>
          /\ c.invite \in Invite
          /\ invite[c.invite] # Unused
          /\ invite[c.invite].team = c.team
    /\ l \in {"update", "join", "commit"} =>
          invite[c.invite].email = c.user /\ c.user \in users
    /\ l \in {"join", "commit"} => invite[c.invite].status = "pending"
    /\ l # "cascade" => c.held = {}

CallShape == \A h \in Handler : Shape(pc[h], call[h])

\* h holds the lock on the row of i.
Holds(h, i) ==
    \/ pc[h] \in {"join", "commit"} /\ call[h].invite = i
    \/ i \in call[h].held

OneHolder ==
    \A h, g \in Handler, i \in Invite : Holds(h, i) /\ Holds(g, i) => g = h

\* A row that has passed the unique index stays alone until it commits.
InsertsAlone ==
    \A h \in Handler : pc[h] = "refer" =>
        /\ Pending(call[h].team, call[h].user) = {}
        /\ \A g \in Handler :
              /\ pc[g] = "refer"
              /\ call[g].team = call[h].team /\ call[g].user = call[h].user
              => g = h

IInv ==
    /\ TypeOK /\ CallShape /\ OneHolder /\ InsertsAlone
    /\ OneLiveInvitation /\ TeamsAreWhole
=============================================================================
