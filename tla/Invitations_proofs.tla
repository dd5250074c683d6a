------------------------- MODULE Invitations_proofs -------------------------
(***************************************************************************)
(* Invitations, for any sets of teams, addresses and handlers: one of them *)
(* is live per address and team, the first answer stands, acceptance and   *)
(* membership go together, and nothing refers to a team that is gone.      *)
(***************************************************************************)
EXTENDS Invitations, TLAPS

USE InvitationsAssumption

Labels == {"idle", "check", "insert", "refer", "update", "join", "commit",
           "revoke", "delete", "cascade"}

LEMMA NoCallType == NoCall \in Calls
  BY DEF NoCall, Calls

LEMMA NoCallShape == Shape("idle", NoCall)
  BY DEF Shape, NoCall

-----------------------------------------------------------------------------

LEMMA InitOK == Init => IInv
<1> SUFFICES ASSUME Init PROVE IInv
  OBVIOUS
<1>1. TypeOK
  BY NoCallType DEF Init, TypeOK
<1>2. CallShape
  BY NoCallShape DEF Init, CallShape
<1>3. \A h \in Handler : pc[h] = "idle" /\ call[h].held = {}
  BY DEF Init, NoCall
<1>4. OneHolder /\ InsertsAlone
  BY <1>3 DEF OneHolder, Holds, InsertsAlone
<1>5. OneLiveInvitation /\ TeamsAreWhole
  BY DEF Init, OneLiveInvitation, TeamsAreWhole, Unused
<1> QED
  BY <1>1, <1>2, <1>4, <1>5 DEF IInv

\* A statement that leaves the tables alone moves one call to a place where its
\* record fits; the rows it locks nobody else holds, and a row it is about to
\* insert is the only one.
LEMMA LocalStep ==
    ASSUME IInv, NEW h \in Handler, NEW l \in Labels, NEW c \in Calls,
           UNCHANGED tables,
           pc' = [pc EXCEPT ![h] = l], call' = [call EXCEPT ![h] = c],
           Shape(l, c),
           \A i \in Invite :
               \/ l \in {"join", "commit"} /\ c.invite = i
               \/ i \in c.held
               => Holds(h, i) \/ ~InviteLocked(h, i),
           l = "refer" =>
               /\ Pending(c.team, c.user) = {}
               /\ \A g \in Handler \ {h} :
                     pc[g] = "refer" => call[g].team # c.team \/ call[g].user # c.user
    PROVE  IInv'
<1>1. /\ pc'[h] = l /\ call'[h] = c
      /\ \A g \in Handler \ {h} : pc'[g] = pc[g] /\ call'[g] = call[g]
  BY DEF IInv, TypeOK
<1>2. TypeOK'
  BY DEF IInv, TypeOK, tables, Labels
<1>3. CallShape'
  <2> SUFFICES ASSUME NEW g \in Handler PROVE Shape(pc'[g], call'[g])
    BY DEF CallShape, Shape, tables
  <2> QED
    BY <1>1 DEF IInv, CallShape
<1>4. OneHolder'
  <2>1. ASSUME NEW g \in Handler \ {h}, NEW i \in Invite
        PROVE  Holds(g, i)' <=> Holds(g, i)
    BY <1>1, <2>1 DEF Holds
  <2>2. ASSUME NEW g \in Handler \ {h}, NEW i \in Invite, Holds(h, i)', Holds(g, i)'
        PROVE  FALSE
    <3>1. Holds(h, i) \/ ~InviteLocked(h, i)
      BY <1>1, <2>2 DEF Holds
    <3>2. Holds(g, i)
      BY <2>1, <2>2
    <3>3. InviteLocked(h, i)
      BY <3>2 DEF InviteLocked, Holds
    <3> QED
      BY <3>1, <3>2, <3>3 DEF IInv, OneHolder
  <2> SUFFICES ASSUME NEW k \in Handler, NEW g \in Handler, NEW i \in Invite,
                      Holds(k, i)', Holds(g, i)'
               PROVE  g = k
    BY DEF OneHolder
  <2>3. CASE k # h /\ g # h
    BY <2>1, <2>3 DEF IInv, OneHolder
  <2> QED
    BY <2>2, <2>3
<1>5. InsertsAlone'
  <2>1. ASSUME NEW t, NEW e PROVE Pending(t, e)' = Pending(t, e)
    BY DEF Pending, tables
  <2> SUFFICES ASSUME NEW k \in Handler, pc'[k] = "refer"
               PROVE  /\ Pending(call'[k].team, call'[k].user) = {}
                      /\ \A g \in Handler :
                            /\ pc'[g] = "refer"
                            /\ call'[g].team = call'[k].team
                            /\ call'[g].user = call'[k].user
                            => g = k
    BY DEF InsertsAlone, Pending, tables
  <2>2. CASE k = h
    BY <1>1, <2>2
  <2>3. CASE k # h
    <3>1. pc[k] = "refer" /\ call'[k] = call[k]
      BY <1>1, <2>3
    <3>2. ASSUME pc'[h] = "refer", call'[h].team = call[k].team,
                 call'[h].user = call[k].user
          PROVE  FALSE
      BY <1>1, <2>3, <3>1, <3>2
    <3>3. Pending(call[k].team, call[k].user) = {}
      BY <3>1 DEF IInv, InsertsAlone
    <3>4. ASSUME NEW g \in Handler, pc'[g] = "refer",
                 call'[g].team = call'[k].team, call'[g].user = call'[k].user
          PROVE  g = k
      <4>1. g # h
        BY <3>1, <3>2, <3>4
      <4>2. pc[g] = "refer" /\ call'[g] = call[g]
        BY <1>1, <3>4, <4>1
      <4> QED
        BY <3>1, <3>4, <4>2 DEF IInv, InsertsAlone
    <3> QED
      BY <3>1, <3>3, <3>4
  <2> QED
    BY <2>2, <2>3
<1>6. OneLiveInvitation' /\ TeamsAreWhole'
  BY DEF IInv, OneLiveInvitation, TeamsAreWhole, tables
<1> QED
  BY <1>2, <1>3, <1>4, <1>5, <1>6 DEF IInv

LEMMA FailOK == ASSUME IInv, NEW h \in Handler, Fail(h) PROVE IInv'
<1>1. "idle" \in Labels /\ NoCall.held = {}
  BY DEF Labels, NoCall
<1> QED
  BY <1>1, NoCallType, NoCallShape, LocalStep DEF Fail, End, Goto

\* A call begins without a lock.
LEMMA BeginOK ==
    ASSUME IInv, NEW h \in Handler,
           NEW l \in {"check", "update", "revoke", "delete"}, NEW c \in Calls,
           Begin(h, l, c), Shape(l, c)
    PROVE  IInv'
<1>1. l \in Labels /\ c.held = {}
  BY DEF Labels, Shape
<1> QED
  BY <1>1, LocalStep DEF Begin, Goto

\* A call that only moves on.
LEMMA MoveOK ==
    ASSUME IInv, NEW h \in Handler, NEW l \in Labels \ {"refer", "join", "commit"},
           Goto(h, l), UNCHANGED <<tables, call>>, Shape(l, call[h])
    PROVE  IInv'
<1>1. call[h] \in Calls /\ call' = [call EXCEPT ![h] = call[h]]
  BY DEF IInv, TypeOK
<1>2. \A i \in call[h].held : Holds(h, i)
  BY DEF Holds
<1> QED
  BY <1>1, <1>2, LocalStep DEF Goto

-----------------------------------------------------------------------------
(* Statements that change the tables.                                      *)

\* When a call commits, invitations keep team and address, nothing becomes pending,
\* and nobody else's locked row changes.
LEMMA CommitStep ==
    ASSUME IInv, NEW h \in Handler, End(h), TypeOK', TeamsAreWhole', UNCHANGED users,
           \A i \in Invite :
              /\ invite'[i].team = invite[i].team /\ invite'[i].email = invite[i].email
              /\ invite[i] # Unused => invite'[i] # Unused
              /\ invite'[i].status = "pending" => invite'[i] = invite[i]
              /\ \A g \in Handler \ {h} : Holds(g, i) => invite'[i] = invite[i]
    PROVE  IInv'
<1>1. /\ pc'[h] = "idle" /\ call'[h] = NoCall
      /\ \A g \in Handler \ {h} : pc'[g] = pc[g] /\ call'[g] = call[g]
  BY DEF IInv, TypeOK, End, Goto
<1>2. CallShape'
  <2> SUFFICES ASSUME NEW g \in Handler PROVE Shape(pc[g], call[g])'
    BY DEF CallShape
  <2>1. CASE g = h
    BY <1>1, <2>1 DEF Shape, NoCall
  <2>2. CASE g # h
    <3>1. Shape(pc[g], call[g])
      BY DEF IInv, CallShape
    <3>2. pc[g] \in {"join", "commit"} => invite'[call[g].invite] = invite[call[g].invite]
      BY <2>2, <3>1 DEF Holds, Shape
    <3> QED
      BY <1>1, <2>2, <3>1, <3>2 DEF Shape
  <2> QED
    BY <2>1, <2>2
<1>3. OneHolder'
  <2>1. ASSUME NEW g \in Handler, NEW i \in Invite, Holds(g, i)'
        PROVE  Holds(g, i)
    BY <1>1, <2>1 DEF Holds, NoCall
  <2> QED
    BY <2>1 DEF IInv, OneHolder
<1>4. InsertsAlone'
  <2> SUFFICES ASSUME NEW k \in Handler, pc'[k] = "refer"
               PROVE  /\ Pending(call[k].team, call[k].user)' = {}
                      /\ \A g \in Handler :
                            /\ pc'[g] = "refer"
                            /\ call'[g].team = call'[k].team
                            /\ call'[g].user = call'[k].user
                            => g = k
    BY DEF InsertsAlone
  <2>1. k # h /\ pc[k] = "refer" /\ call'[k] = call[k]
    BY <1>1
  <2>2. Pending(call[k].team, call[k].user) = {}
    BY <2>1 DEF IInv, InsertsAlone
  <2>3. Pending(call[k].team, call[k].user)' = {}
    BY <2>1, <2>2 DEF Pending
  <2>4. ASSUME NEW g \in Handler, pc'[g] = "refer",
               call'[g].team = call'[k].team, call'[g].user = call'[k].user
        PROVE  g = k
    <3>1. pc[g] = "refer" /\ call'[g] = call[g]
      BY <1>1, <2>4
    <3> QED
      BY <2>1, <2>4, <3>1 DEF IInv, InsertsAlone
  <2> QED
    BY <2>3, <2>4
<1>5. OneLiveInvitation'
  BY DEF IInv, OneLiveInvitation
<1> QED
  BY <1>2, <1>3, <1>4, <1>5 DEF IInv

\* Accounts, teams and members may change as long as teams stay whole.
LEMMA RowsStep ==
    ASSUME IInv, UNCHANGED <<invite, pc, call>>, TypeOK', TeamsAreWhole',
           users \subseteq users'
    PROVE  IInv'
<1>1. CallShape' /\ OneHolder'
  BY DEF IInv, TypeOK, CallShape, Shape, OneHolder, Holds
<1>2. InsertsAlone' /\ OneLiveInvitation'
  BY DEF IInv, InsertsAlone, Pending, OneLiveInvitation
<1> QED
  BY <1>1, <1>2 DEF IInv

LEMMA CreateUserOK == ASSUME IInv, CreateUser PROVE IInv'
<1>1. PICK u \in Email \ users :
         users' = users \cup {u} /\ UNCHANGED <<teams, owner, members, invite, pc, call>>
  BY DEF CreateUser
<1>2. TypeOK'
  BY <1>1 DEF IInv, TypeOK
<1>3. TeamsAreWhole'
  BY <1>1 DEF IInv, TeamsAreWhole
<1> QED
  BY <1>1, <1>2, <1>3, RowsStep

LEMMA NewTeam == ASSUME IInv, NEW t \in teams PROVE t \in Team /\ owner[t] # None
  BY DEF IInv, TypeOK, TeamsAreWhole

LEMMA CreateTeamOK == ASSUME IInv, CreateTeamWithOwner PROVE IInv'
<1>1. PICK t \in Team, u \in users :
         /\ owner[t] = None
         /\ teams' = teams \cup {t}
         /\ owner' = [owner EXCEPT ![t] = u]
         /\ members' = members \cup {<<t, u>>}
         /\ UNCHANGED <<users, invite, pc, call>>
  BY DEF CreateTeamWithOwner
<1>2. TypeOK'
  BY <1>1 DEF IInv, TypeOK
<1>3. TeamsAreWhole'
  BY <1>1, NewTeam DEF IInv, TypeOK, TeamsAreWhole
<1> QED
  BY <1>1, <1>2, <1>3, RowsStep

LEMMA RemoveMemberOK == ASSUME IInv, RemoveTeamMember PROVE IInv'
<1>1. PICK m \in members :
         /\ m[2] # owner[m[1]]
         /\ members' = members \ {m}
         /\ UNCHANGED <<users, teams, owner, invite, pc, call>>
  BY DEF RemoveTeamMember
<1>2. TypeOK'
  BY <1>1 DEF IInv, TypeOK
<1>3. TeamsAreWhole'
  BY <1>1 DEF IInv, TypeOK, TeamsAreWhole
<1> QED
  BY <1>1, <1>2, <1>3, RowsStep

LEMMA DeleteTeamOK == ASSUME IInv, NEW h \in Handler, DeleteTeam(h) PROVE IInv'
<1>1. CASE Fail(h)
  BY <1>1, FailOK
<1>2. CASE Goto(h, "cascade") /\ UNCHANGED <<tables, call>>
  <2>1. pc[h] = "delete" /\ Shape(pc[h], call[h])
    BY DEF DeleteTeam, IInv, CallShape
  <2>2. Shape("cascade", call[h])
    BY <2>1 DEF Shape
  <2> QED
    BY <1>2, <2>2, MoveOK DEF Labels
<1> QED
  BY <1>1, <1>2 DEF DeleteTeam

LEMMA SweepUpOK == ASSUME IInv, NEW h \in Handler, SweepUp(h) PROVE IInv'
<1>1. PICK i \in InvitesOf(call[h].team) \ call[h].held :
         /\ ~InviteLocked(h, i)
         /\ call' = [call EXCEPT ![h].held = @ \cup {i}]
  BY DEF SweepUp
<1>2. PICK c \in Calls : /\ c.held = call[h].held \cup {i} /\ c.team = call[h].team
                         /\ call' = [call EXCEPT ![h] = c]
  <2> DEFINE c == [call[h] EXCEPT !.held = @ \cup {i}]
  <2>1. call[h] \in Calls /\ i \in Invite
    BY DEF IInv, TypeOK, InvitesOf
  <2>2. c \in Calls /\ c.held = call[h].held \cup {i} /\ c.team = call[h].team
    BY <2>1 DEF Calls
  <2>3. call' = [call EXCEPT ![h] = c]
    BY <1>1 DEF IInv, TypeOK
  <2> QED
    BY <2>2, <2>3
<1>3. pc[h] = "cascade" /\ Shape(pc[h], call[h])
  BY DEF SweepUp, IInv, CallShape
<1>4. Shape("cascade", c)
  BY <1>2, <1>3 DEF Shape
<1>5. pc' = [pc EXCEPT ![h] = "cascade"] /\ UNCHANGED tables
  BY <1>3 DEF SweepUp, IInv, TypeOK
<1>6. \A j \in c.held : Holds(h, j) \/ ~InviteLocked(h, j)
  BY <1>1, <1>2 DEF Holds
<1> QED
  BY <1>2, <1>4, <1>5, <1>6, LocalStep DEF Labels

\* Whatever the cascade deletes it has locked.
LEMMA CascadeOK == ASSUME IInv, NEW h \in Handler, Cascade(h) PROVE IInv'
<1>1. PICK t \in Team, S \in SUBSET Invite :
      /\ t = call[h].team /\ S = InvitesOf(t) /\ S \subseteq call[h].held
      /\ teams' = teams \ {t} /\ members' = {m \in members : m[1] # t}
      /\ End(h) /\ UNCHANGED <<users, owner>>
  BY DEF Cascade, IInv, CallShape, Shape, InvitesOf
<1>2. invite' = [i \in Invite |->
                IF i \in S THEN [invite[i] EXCEPT !.status = "deleted"]
                                      ELSE invite[i]]
  BY <1>1 DEF Cascade
<1>3. ASSUME NEW i \in S
      PROVE  /\ invite[i].team = t /\ invite[i] # Unused
             /\ invite'[i].team = t /\ invite'[i].email = invite[i].email
             /\ invite'[i].status = "deleted" /\ invite'[i] # Unused
             /\ invite'[i] \in [team : Team, email : Email,
                    status : {"pending", "accepted", "rejected", "deleted"}]
  <2>1. invite[i].team = t /\ invite[i] # Unused
    BY <1>1 DEF InvitesOf, Unused
  <2>2. invite[i] \in [team : Team, email : Email,
                      status : {"pending", "accepted", "rejected", "deleted"}]
    BY <2>1 DEF IInv, TypeOK
  <2>3. invite'[i] = [invite[i] EXCEPT !.status = "deleted"]
    BY <1>2
  <2> QED
    BY <2>1, <2>2, <2>3 DEF Unused
<1>4. \A i \in Invite \ S : invite'[i] = invite[i]
  BY <1>2
<1>5. TypeOK'
  <2>1. pc' \in [Handler -> Labels] /\ call' \in [Handler -> Calls]
    BY <1>1, NoCallType DEF End, Goto, IInv, TypeOK, Labels
  <2>2. \A i \in Invite : invite'[i] \in
            [team : Team, email : Email,
             status : {"pending", "accepted", "rejected", "deleted"}] \cup {Unused}
    <3> SUFFICES ASSUME NEW i \in Invite
                 PROVE invite'[i] \in
            [team : Team, email : Email,
             status : {"pending", "accepted", "rejected", "deleted"}] \cup {Unused}
      OBVIOUS
    <3>1. CASE i \in S
      BY <1>1, <1>3, <3>1 DEF IInv, TypeOK
    <3> QED
      BY <1>4, <3>1 DEF IInv, TypeOK
  <2>3. invite' = [i \in Invite |-> invite'[i]]
    BY <1>2
  <2> QED
    BY <1>1, <2>1, <2>2, <2>3 DEF IInv, TypeOK, Labels
<1>6. TeamsAreWhole'
  <2>1. \A u \in teams' : <<u, owner'[u]>> \in members'
    BY <1>1 DEF IInv, TeamsAreWhole
  <2>2. \A m \in members' : m[1] \in teams'
    BY <1>1 DEF IInv, TeamsAreWhole
  <2>3. ASSUME NEW i \in Invite, invite'[i].status \in {"pending", "accepted", "rejected"}
        PROVE  invite'[i].team \in teams'
    <3>1. i \notin S
      BY <1>3, <2>3
    <3>2. invite'[i] = invite[i] /\ invite[i].team # t
      BY <1>1, <1>4, <2>3, <3>1 DEF InvitesOf
    <3> QED
      BY <1>1, <2>3, <3>2 DEF IInv, TeamsAreWhole
  <2> QED
    BY <2>1, <2>2, <2>3 DEF TeamsAreWhole
<1>7. ASSUME NEW i \in Invite, NEW g \in Handler \ {h}, Holds(g, i)
      PROVE  invite'[i] = invite[i]
  <2>1. ~Holds(h, i)
    BY <1>7 DEF IInv, OneHolder
  <2> QED
    BY <1>1, <1>4, <2>1 DEF Holds
<1>8. \A i \in Invite :
         /\ invite'[i].team = invite[i].team /\ invite'[i].email = invite[i].email
         /\ invite[i] # Unused => invite'[i] # Unused
         /\ invite'[i].status = "pending" => invite'[i] = invite[i]
  BY <1>3, <1>4 DEF Unused
<1> QED
  BY <1>1, <1>5, <1>6, <1>7, <1>8, CommitStep

LEMMA CheckOK == ASSUME IInv, NEW h \in Handler, IsEmailTeamMember(h) PROVE IInv'
<1>1. CASE Fail(h)
  BY <1>1, FailOK
<1>2. CASE Goto(h, "insert") /\ UNCHANGED <<tables, call>>
  <2>1. pc[h] = "check" /\ Shape(pc[h], call[h])
    BY DEF IsEmailTeamMember, IInv, CallShape
  <2>2. Shape("insert", call[h])
    BY <2>1 DEF Shape
  <2> QED
    BY <1>2, <2>2, MoveOK DEF Labels
<1> QED
  BY <1>1, <1>2 DEF IsEmailTeamMember

LEMMA CreateInvitationOK ==
    ASSUME IInv, NEW h \in Handler, CreateInvitation(h) PROVE IInv'
<1>1. CASE Fail(h)
  BY <1>1, FailOK
<1>2. CASE /\ ~HasPending(call[h].team, call[h].user)
           /\ Goto(h, "refer") /\ UNCHANGED <<tables, call>>
  <2>1. pc[h] = "insert" /\ Shape(pc[h], call[h])
    BY DEF CreateInvitation, IInv, CallShape
  <2>2. Shape("refer", call[h]) /\ call[h].held = {}
    BY <2>1 DEF Shape
  <2>3. call[h] \in Calls /\ call' = [call EXCEPT ![h] = call[h]]
    BY <1>2 DEF IInv, TypeOK
  <2>4. \A g \in Handler \ {h} : pc[g] = "refer" =>
            call[g].team # call[h].team \/ call[g].user # call[h].user
    BY DEF CreateInvitation
  <2> QED
    BY <1>2, <2>2, <2>3, <2>4, LocalStep DEF Labels, Goto, HasPending
<1> QED
  BY <1>1, <1>2 DEF CreateInvitation

\* The new row is pending, and the only one for its team and address.
LEMMA ForeignKeyOK == ASSUME IInv, NEW h \in Handler, TeamForeignKey(h) PROVE IInv'
<1>1. CASE Fail(h)
  BY <1>1, FailOK
<1>2. CASE ~Fail(h)
  <2> DEFINE t == call[h].team
             e == call[h].user
  <2>1. /\ pc[h] = "refer" /\ t \in teams /\ End(h)
        /\ UNCHANGED <<users, teams, owner, members>>
        /\ \E i \in Invite :
              /\ invite[i] = Unused
              /\ invite' = [invite EXCEPT ![i] =
                      [team |-> t, email |-> e, status |-> "pending"]]
    BY <1>2 DEF TeamForeignKey
  <2>2. t \in Team /\ e \in Email
    BY <2>1 DEF IInv, CallShape, Shape
  <2>3. /\ Pending(t, e) = {}
        /\ \A g \in Handler : pc[g] = "refer" /\ call[g].team = t /\ call[g].user = e => g = h
    BY <2>1 DEF IInv, InsertsAlone
  <2>4. PICK i \in Invite :
           /\ invite[i] = Unused
           /\ invite' = [invite EXCEPT ![i] =
                   [team |-> t, email |-> e, status |-> "pending"]]
    BY <2>1
  <2> HIDE DEF t, e
  <2>5. /\ invite'[i] = [team |-> t, email |-> e, status |-> "pending"]
        /\ \A j \in Invite \ {i} : invite'[j] = invite[j]
        /\ invite'[i] # Unused
    BY <2>4 DEF IInv, TypeOK, Unused
  <2>6. /\ pc'[h] = "idle" /\ call'[h] = NoCall
        /\ \A g \in Handler \ {h} : pc'[g] = pc[g] /\ call'[g] = call[g]
    BY <2>1 DEF IInv, TypeOK, End, Goto
  <2>7. TypeOK'
    BY <2>1, <2>2, <2>4, NoCallType DEF IInv, TypeOK, End, Goto
  <2>8. CallShape'
    <3> SUFFICES ASSUME NEW g \in Handler PROVE Shape(pc[g], call[g])'
      BY DEF CallShape
    <3>1. CASE g = h
      BY <2>6, <3>1 DEF Shape, NoCall
    <3>2. CASE g # h
      <4>1. Shape(pc[g], call[g])
        BY DEF IInv, CallShape
      <4>2. pc[g] \in {"update", "join", "commit", "revoke"}
               => invite'[call[g].invite] = invite[call[g].invite]
        BY <2>4, <2>5, <4>1 DEF Shape
      <4> QED
        BY <2>1, <2>6, <3>2, <4>1, <4>2 DEF Shape
    <3> QED
      BY <3>1, <3>2
  <2>9. OneHolder'
    <3>1. ASSUME NEW g \in Handler, NEW j \in Invite, Holds(g, j)'
          PROVE  Holds(g, j)
      BY <2>6, <3>1 DEF Holds, NoCall
    <3> QED
      BY <3>1 DEF IInv, OneHolder
  <2>10. InsertsAlone'
    <3> SUFFICES ASSUME NEW k \in Handler, pc'[k] = "refer"
                 PROVE  /\ Pending(call[k].team, call[k].user)' = {}
                        /\ \A g \in Handler :
                              /\ pc'[g] = "refer"
                              /\ call'[g].team = call'[k].team
                              /\ call'[g].user = call'[k].user
                              => g = k
      BY DEF InsertsAlone
    <3>1. k # h /\ pc[k] = "refer" /\ call'[k] = call[k]
      BY <2>6
    <3>2. Pending(call[k].team, call[k].user) = {}
      BY <3>1 DEF IInv, InsertsAlone
    <3>3. call[k].team # t \/ call[k].user # e
      BY <2>3, <3>1
    <3>4. Pending(call[k].team, call[k].user)' = {}
      BY <2>5, <3>1, <3>2, <3>3 DEF Pending
    <3>5. ASSUME NEW g \in Handler, pc'[g] = "refer",
                 call'[g].team = call'[k].team, call'[g].user = call'[k].user
          PROVE  g = k
      <4>1. pc[g] = "refer" /\ call'[g] = call[g]
        BY <2>6, <3>5
      <4> QED
        BY <3>1, <3>5, <4>1 DEF IInv, InsertsAlone
    <3> QED
      BY <3>4, <3>5
  <2>11. OneLiveInvitation'
    <3>1. \A j \in Invite : invite[j].status = "pending" =>
             invite[j].team # t \/ invite[j].email # e
      <4> SUFFICES ASSUME NEW j \in Invite, invite[j].status = "pending",
                          invite[j].team = t, invite[j].email = e
                   PROVE  FALSE
        OBVIOUS
      <4>1. invite[j] = [team |-> t, email |-> e, status |-> "pending"]
        BY DEF IInv, TypeOK, Unused
      <4> QED
        BY <2>3, <4>1 DEF Pending
    <3> QED
      BY <2>5, <3>1 DEF IInv, OneLiveInvitation
  <2>12. TeamsAreWhole'
    BY <2>1, <2>5 DEF IInv, TeamsAreWhole, t
  <2> QED
    BY <2>7, <2>8, <2>9, <2>10, <2>11, <2>12 DEF IInv
<1> QED
  BY <1>1, <1>2

\* One row gets its answer, or is deleted, by the call that may touch it.
LEMMA AnswerStep ==
    ASSUME IInv, NEW h \in Handler, End(h), NEW i \in Invite, invite[i] # Unused,
           NEW s \in {"accepted", "rejected", "deleted"},
           s # "deleted" => invite[i].status = "pending",
           invite' = [invite EXCEPT ![i].status = s],
           ~InviteLocked(h, i) \/ Holds(h, i),
           UNCHANGED <<users, teams, owner>>,
           members' = members
             \/ \E u \in users : members' = members \cup {<<invite[i].team, u>>}
                                /\ invite[i].team \in teams
    PROVE  IInv'
<1>1. /\ invite[i] \in [team : Team, email : Email,
                       status : {"pending", "accepted", "rejected", "deleted"}]
      /\ invite'[i] = [invite[i] EXCEPT !.status = s]
      /\ \A j \in Invite \ {i} : invite'[j] = invite[j]
  BY DEF IInv, TypeOK
<1>2. TypeOK'
  <2>1. members' \subseteq Team \X users
    BY DEF IInv, TypeOK
  <2>2. invite' \in [Invite ->
            [team : Team, email : Email,
             status : {"pending", "accepted", "rejected", "deleted"}] \cup {Unused}]
    BY <1>1 DEF IInv, TypeOK
  <2> QED
    BY <2>1, <2>2, NoCallType DEF IInv, TypeOK, End, Goto
<1>3. TeamsAreWhole'
  <2>1. (\A t \in teams : <<t, owner[t]>> \in members')
        /\ \A m \in members' : m[1] \in teams
    BY DEF IInv, TeamsAreWhole
  <2>2. \A j \in Invite :
           invite'[j].status \in {"pending", "accepted", "rejected"}
              => invite'[j].team \in teams
    BY <1>1 DEF IInv, TeamsAreWhole
  <2> QED
    BY <2>1, <2>2 DEF TeamsAreWhole
<1>4. ASSUME NEW g \in Handler \ {h}, Holds(g, i)
      PROVE  FALSE
  BY <1>4 DEF IInv, OneHolder, InviteLocked, Holds
<1>5. \A j \in Invite :
         /\ invite'[j].team = invite[j].team /\ invite'[j].email = invite[j].email
         /\ invite[j] # Unused => invite'[j] # Unused
         /\ invite'[j].status = "pending" => invite'[j] = invite[j]
         /\ \A g \in Handler \ {h} : Holds(g, j) => invite'[j] = invite[j]
  BY <1>1, <1>4 DEF Unused
<1> QED
  BY <1>2, <1>3, <1>5, CommitStep

\* Of several answers that found the invitation pending, the next to update it
\* locks it.
LEMMA UpdateOK ==
    ASSUME IInv, NEW h \in Handler, UpdateInvitationStatus(h) PROVE IInv'
<1> DEFINE i == call[h].invite
<1>1. /\ pc[h] = "update" /\ ~InviteLocked(h, i) /\ Shape("update", call[h])
      /\ i \in Invite /\ call[h] \in Calls /\ call[h].held = {}
  BY DEF UpdateInvitationStatus, IInv, CallShape, TypeOK, Shape
<1>2. CASE Fail(h)
  BY <1>2, FailOK
<1>3. CASE StillPending(i) /\ Goto(h, "join") /\ UNCHANGED <<tables, call>>
  <2>1. Shape("join", call[h])
    BY <1>1, <1>3 DEF Shape, StillPending
  <2>2. call' = [call EXCEPT ![h] = call[h]]
    BY <1>3 DEF IInv, TypeOK
  <2> QED
    BY <1>1, <1>3, <2>1, <2>2, LocalStep DEF Labels, Goto
<1>4. CASE /\ StillPending(i) /\ End(h)
           /\ invite' = [invite EXCEPT ![i].status = "rejected"]
           /\ UNCHANGED <<users, teams, owner, members>>
  <2>1. invite[i] # Unused
    BY <1>1 DEF Shape
  <2> HIDE DEF i
  <2> QED
    BY <1>1, <1>4, <2>1, AnswerStep DEF StillPending
<1> QED
  BY <1>2, <1>3, <1>4 DEF UpdateInvitationStatus

LEMMA JoinOK ==
    ASSUME IInv, NEW h \in Handler, CreateTeamMemberIfAbsent(h) PROVE IInv'
<1>1. PICK c \in Calls :
         /\ call' = [call EXCEPT ![h] = c]
         /\ c.invite = call[h].invite /\ c.team = call[h].team
         /\ c.user = call[h].user /\ c.held = call[h].held
  <2>1. call[h] \in Calls /\ (UNCHANGED call => call' = [call EXCEPT ![h] = call[h]])
    BY DEF IInv, TypeOK
  <2>2. CASE UNCHANGED call
    BY <2>1, <2>2
  <2>3. CASE call' = [call EXCEPT ![h].fresh = TRUE]
    <3> DEFINE c == [call[h] EXCEPT !.fresh = TRUE]
    <3>1. c \in Calls /\ call' = [call EXCEPT ![h] = c]
      BY <2>1, <2>3 DEF Calls, IInv, TypeOK
    <3>2. /\ c.invite = call[h].invite /\ c.team = call[h].team
          /\ c.user = call[h].user /\ c.held = call[h].held
      BY <2>1 DEF Calls
    <3> QED
      BY <3>1, <3>2
  <2> QED
    BY <2>2, <2>3 DEF CreateTeamMemberIfAbsent
<1>2. pc[h] = "join" /\ Shape(pc[h], call[h])
  BY DEF CreateTeamMemberIfAbsent, IInv, CallShape
<1>3. Shape("commit", c) /\ c.held = {}
  BY <1>1, <1>2 DEF Shape
<1>4. Holds(h, c.invite)
  BY <1>1, <1>2 DEF Holds
<1> QED
  BY <1>1, <1>3, <1>4, LocalStep DEF CreateTeamMemberIfAbsent, Goto, Labels

\* What an acceptance is about when it commits.
LEMMA AcceptFacts ==
    ASSUME IInv, NEW h \in Handler, AcceptInvitation(h)
    PROVE  /\ pc[h] = "commit" /\ End(h)
           /\ call[h].invite \in Invite
           /\ invite[call[h].invite] # Unused
           /\ invite[call[h].invite].team = call[h].team
           /\ invite[call[h].invite].email = call[h].user
           /\ invite[call[h].invite].status = "pending"
           /\ invite[call[h].invite] = [team |-> call[h].team, email |-> call[h].user,
                                       status |-> "pending"]
           /\ call[h].team \in teams
           /\ invite' = [invite EXCEPT ![call[h].invite].status = "accepted"]
           /\ invite'[call[h].invite].status = "accepted"
           /\ \A j \in Invite \ {call[h].invite} : invite'[j] = invite[j]
<1>1. Shape("commit", call[h]) /\ pc[h] = "commit"
  BY DEF AcceptInvitation, IInv, CallShape
<1>2. /\ call[h].invite \in Invite
      /\ invite[call[h].invite] # Unused
      /\ invite[call[h].invite].team = call[h].team
      /\ invite[call[h].invite].email = call[h].user
      /\ invite[call[h].invite].status = "pending"
      /\ invite[call[h].invite] = [team |-> call[h].team, email |-> call[h].user,
                                  status |-> "pending"]
  BY <1>1 DEF Shape, IInv, TypeOK
<1>3. call[h].team \in teams
  BY <1>2 DEF IInv, TeamsAreWhole
<1>4. invite' = [invite EXCEPT ![call[h].invite].status = "accepted"] /\ End(h)
  BY DEF AcceptInvitation
<1> QED
  BY <1>1, <1>2, <1>3, <1>4 DEF IInv, TypeOK

\* The membership row and the answer become visible together.
LEMMA AcceptOK == ASSUME IInv, NEW h \in Handler, AcceptInvitation(h) PROVE IInv'
<1>1. PICK i \in Invite, t \in teams, u \in users :
         /\ i = call[h].invite /\ t = call[h].team /\ u = call[h].user
         /\ invite[i] # Unused /\ invite[i].team = t /\ invite[i].status = "pending"
         /\ invite' = [invite EXCEPT ![i].status = "accepted"]
  <2>1. call[h].user \in users
    BY AcceptFacts DEF IInv, CallShape, Shape
  <2> QED
    BY <2>1, AcceptFacts
<1>2. pc[h] = "commit" /\ End(h) /\ UNCHANGED <<users, teams, owner>>
  BY DEF AcceptInvitation
<1>3. Holds(h, i)
  BY <1>1, <1>2 DEF Holds
<1>4. members' = members \/ members' = members \cup {<<t, u>>}
  BY <1>1 DEF AcceptInvitation
<1>5. members' = members
        \/ \E v \in users : members' = members \cup {<<invite[i].team, v>>}
                            /\ invite[i].team \in teams
  BY <1>1, <1>4
<1> QED
  BY <1>1, <1>2, <1>3, <1>5, AnswerStep

\* A revocation deletes the row whatever its status by then.
LEMMA DeleteInvitationOK ==
    ASSUME IInv, NEW h \in Handler, DeleteInvitation(h) PROVE IInv'
<1>1. PICK i \in Invite :
         /\ invite[i] # Unused /\ ~InviteLocked(h, i)
         /\ invite' = [invite EXCEPT ![i].status = "deleted"]
  BY DEF DeleteInvitation, IInv, CallShape, Shape
<1>2. End(h) /\ UNCHANGED <<users, teams, owner, members>>
  BY DEF DeleteInvitation
<1> QED
  BY <1>1, <1>2, AnswerStep

-----------------------------------------------------------------------------

LEMMA BeginDeleteTeamOK ==
    ASSUME IInv, NEW h \in Handler, handleDeleteTeam(h) PROVE IInv'
<1>1. PICK t \in Team, u \in users :
         Begin(h, "delete", [NoCall EXCEPT !.op = "deleteTeam", !.user = u, !.team = t])
  BY DEF handleDeleteTeam
<1> DEFINE c == [NoCall EXCEPT !.op = "deleteTeam", !.user = u, !.team = t]
<1>2. c \in Calls /\ Shape("delete", c)
  BY DEF NoCall, Calls, Shape, IInv, TypeOK
<1> QED
  BY <1>1, <1>2, BeginOK

LEMMA BeginInviteOK ==
    ASSUME IInv, NEW h \in Handler, handleCreateInvitation(h) PROVE IInv'
<1>1. PICK t \in Team, e \in Email :
         Begin(h, "check", [NoCall EXCEPT !.op = "invite", !.user = e, !.team = t])
  BY DEF handleCreateInvitation
<1> DEFINE c == [NoCall EXCEPT !.op = "invite", !.user = e, !.team = t]
<1>2. c \in Calls /\ Shape("check", c)
  BY DEF NoCall, Calls, Shape
<1> QED
  BY <1>1, <1>2, BeginOK

\* Whoever has an invitation has read it.
LEMMA ReadRow ==
    ASSUME IInv, NEW i \in Invite, invite[i].status = "pending"
    PROVE  invite[i] # Unused /\ invite[i].team \in Team /\ invite[i].email \in Email
  BY DEF IInv, TypeOK, Unused

LEMMA BeginAnswerOK ==
    ASSUME IInv, NEW h \in Handler, NEW op \in {"accept", "reject"},
           NEW u \in users, NEW i \in Invite, pendingInvitationForCaller(u, i),
           Begin(h, "update", [NoCall EXCEPT !.op = op, !.user = u,
                                   !.team = invite[i].team, !.invite = i])
    PROVE  IInv'
<1>1. invite[i].email = u /\ invite[i].status = "pending"
  BY DEF pendingInvitationForCaller
<1>2. invite[i] # Unused /\ u \in Email
  BY <1>1, ReadRow
<1>3. PICK t \in Team : t = invite[i].team
  BY <1>1, ReadRow
<1> DEFINE c == [NoCall EXCEPT !.op = op, !.user = u, !.team = t, !.invite = i]
<1>4. c \in Calls /\ Shape("update", c)
  BY <1>1, <1>2, <1>3 DEF NoCall, Calls, Shape
<1> QED
  BY <1>3, <1>4, BeginOK

LEMMA BeginRevokeOK ==
    ASSUME IInv, NEW h \in Handler, handleDeleteInvitation(h) PROVE IInv'
<1>1. PICK i \in Invite, u \in users :
         /\ invite[i].status = "pending"
         /\ Begin(h, "revoke", [NoCall EXCEPT !.op = "revoke", !.user = u,
                                   !.team = invite[i].team, !.invite = i])
  BY DEF handleDeleteInvitation
<1>2. invite[i] # Unused
  BY <1>1, ReadRow
<1>3. PICK t \in Team : t = invite[i].team
  BY <1>1, ReadRow
<1> DEFINE c == [NoCall EXCEPT !.op = "revoke", !.user = u, !.team = t, !.invite = i]
<1>4. c \in Calls /\ Shape("revoke", c)
  BY <1>2, <1>3 DEF NoCall, Calls, Shape, IInv, TypeOK
<1> QED
  BY <1>1, <1>3, <1>4, BeginOK

LEMMA StutterOK == IInv /\ UNCHANGED vars => IInv'
  BY RowsStep DEF vars, tables, IInv, TypeOK, TeamsAreWhole

\* The invariant is inductive.
LEMMA Inductive == IInv /\ [Next]_vars => IInv'
<1> SUFFICES ASSUME IInv, [Next]_vars PROVE IInv'
  OBVIOUS
<1>1. CASE CreateUser \/ CreateTeamWithOwner \/ RemoveTeamMember
  BY <1>1, CreateUserOK, CreateTeamOK, RemoveMemberOK
<1>2. ASSUME NEW h \in Handler, Abort(h) PROVE IInv'
  BY <1>2, FailOK DEF Abort
<1>3. ASSUME NEW h \in Handler, Advance(h) PROVE IInv'
  BY <1>3, DeleteTeamOK, SweepUpOK, CascadeOK, CheckOK, CreateInvitationOK, ForeignKeyOK,
     UpdateOK, JoinOK, AcceptOK, DeleteInvitationOK
     DEF Advance
<1>4. ASSUME NEW h \in Handler, handleAcceptInvitation(h) PROVE IInv'
  BY <1>4, BeginAnswerOK DEF handleAcceptInvitation
<1>5. ASSUME NEW h \in Handler, handleRejectInvitation(h) PROVE IInv'
  BY <1>5, BeginAnswerOK DEF handleRejectInvitation
<1>6. CASE DeadlockVictim
  BY <1>2, <1>6 DEF DeadlockVictim
<1>7. CASE UNCHANGED vars
  BY <1>7, StutterOK
<1> QED
  BY <1>1, <1>2, <1>3, <1>4, <1>5, <1>6, <1>7, BeginDeleteTeamOK, BeginInviteOK,
     BeginRevokeOK
     DEF Next

LEMMA Invariance == Spec => []IInv
  BY InitOK, Inductive, PTL DEF Spec

-----------------------------------------------------------------------------

\* Tables and calls keep their types.
THEOREM InvitationTypes == Spec => []TypeOK
<1>1. IInv => TypeOK
  BY DEF IInv
<1> QED
  BY <1>1, Invariance, PTL

\* An address has one live invitation to a team at most.
THEOREM OneInvitationLives == Spec => []OneLiveInvitation
<1>1. IInv => OneLiveInvitation
  BY DEF IInv
<1> QED
  BY <1>1, Invariance, PTL

\* The owner of a team is a member, and no row refers to a team that is gone.
THEOREM TeamsStayWhole == Spec => []TeamsAreWhole
<1>1. IInv => TeamsAreWhole
  BY DEF IInv
<1> QED
  BY <1>1, Invariance, PTL

\* Which rows of the tables a step can change, and how.
LEMMA WhatChanges ==
    ASSUME IInv, [Next]_vars, ~UNCHANGED <<invite, members>>
    PROVE  \/ CreateTeamWithOwner \/ RemoveTeamMember
           \/ \E h \in Handler : \/ Cascade(h) \/ AcceptInvitation(h)
                                 \/ TeamForeignKey(h) /\ ~Fail(h)
                                 \/ UpdateInvitationStatus(h) /\ ~Fail(h)
                                 \/ DeleteInvitation(h)
<1> SUFFICES ASSUME \/ CreateUser
                    \/ \E h \in Handler :
                          \/ handleDeleteTeam(h) \/ handleCreateInvitation(h)
                          \/ handleAcceptInvitation(h) \/ handleRejectInvitation(h)
                          \/ handleDeleteInvitation(h)
                          \/ DeleteTeam(h) \/ SweepUp(h) \/ IsEmailTeamMember(h)
                          \/ CreateInvitation(h) \/ CreateTeamMemberIfAbsent(h)
                          \/ Abort(h) \/ Fail(h)
                    \/ UNCHANGED vars
             PROVE  UNCHANGED <<invite, members>>
  BY DEF Next, Advance, DeadlockVictim
<1> QED
  BY DEF CreateUser, handleDeleteTeam, handleCreateInvitation, handleAcceptInvitation,
         handleRejectInvitation, handleDeleteInvitation, Begin, DeleteTeam, SweepUp,
         IsEmailTeamMember, CreateInvitation, CreateTeamMemberIfAbsent, Abort, Fail,
         vars, tables

\* However accepts, rejects and revocations of an invitation race, the first answer
\* stands until the row is deleted.
THEOREM FirstAnswerStands == Spec => FirstAnswerWins
<1>1. IInv /\ [Next]_vars
        => [\A i \in Invite :
              invite[i].status \in {"accepted", "rejected"}
                  => invite'[i].status \in {invite[i].status, "deleted"}]_vars
  <2> SUFFICES ASSUME IInv, [Next]_vars, NEW i \in Invite,
                      invite[i].status \in {"accepted", "rejected"},
                      invite' # invite
               PROVE  invite'[i].status \in {invite[i].status, "deleted"}
    BY DEF IInv, TypeOK
  <2>1. invite[i] # Unused /\ invite \in [Invite -> [team : Team, email : Email,
             status : {"pending", "accepted", "rejected", "deleted"}] \cup {Unused}]
    BY DEF IInv, TypeOK, Unused
  <2>2. CASE CreateTeamWithOwner \/ RemoveTeamMember
    BY <2>2 DEF CreateTeamWithOwner, RemoveTeamMember
  <2>3. ASSUME NEW h \in Handler, Cascade(h)
        PROVE  invite'[i].status \in {invite[i].status, "deleted"}
    <3>1. invite'[i] = invite[i] \/ invite'[i] = [invite[i] EXCEPT !.status = "deleted"]
      BY <2>3 DEF Cascade
    <3> QED
      BY <2>1, <3>1
  <2>4. ASSUME NEW h \in Handler, AcceptInvitation(h)
        PROVE  invite'[i].status \in {invite[i].status, "deleted"}
    <3>1. i # call[h].invite
      BY <2>4, AcceptFacts
    <3> QED
      BY <2>4, <3>1, AcceptFacts
  <2>5. ASSUME NEW h \in Handler, TeamForeignKey(h), ~Fail(h)
        PROVE  invite'[i].status \in {invite[i].status, "deleted"}
    <3>1. PICK j \in Invite :
             /\ invite[j] = Unused
             /\ \E r : invite' = [invite EXCEPT ![j] = r]
      BY <2>5 DEF TeamForeignKey
    <3> QED
      BY <2>1, <3>1
  <2>6. ASSUME NEW h \in Handler, UpdateInvitationStatus(h), ~Fail(h)
        PROVE  invite'[i].status \in {invite[i].status, "deleted"}
    <3>1. PICK j \in Invite : j = call[h].invite
      BY <2>6 DEF UpdateInvitationStatus, IInv, CallShape, Shape
    <3>2. StillPending(j) /\ invite' = [invite EXCEPT ![j].status = "rejected"]
      BY <2>6, <3>1 DEF UpdateInvitationStatus, tables
    <3> QED
      BY <2>1, <3>1, <3>2 DEF StillPending
  <2>7. ASSUME NEW h \in Handler, DeleteInvitation(h)
        PROVE  invite'[i].status \in {invite[i].status, "deleted"}
    <3>1. PICK j \in Invite : invite' = [invite EXCEPT ![j].status = "deleted"]
      BY <2>7 DEF DeleteInvitation, IInv, CallShape, Shape
    <3> QED
      BY <2>1, <3>1
  <2> QED
    BY <2>2, <2>3, <2>4, <2>5, <2>6, <2>7, WhatChanges
<1> QED
  BY <1>1, Invariance, PTL DEF Spec, FirstAnswerWins

\* The step that accepts an invitation makes the invitee a member, if the row was
\* not there when the transaction looked.
THEOREM AcceptingJoins == Spec => AcceptedMeansJoined
<1> DEFINE Joined(i) ==
             \/ <<invite[i].team, invite[i].email>> \in members'
             \/ \E h \in Handler : /\ pc[h] = "commit" /\ call[h].invite = i
                                   /\ ~call[h].fresh
<1>1. IInv /\ [Next]_vars
        => [\A i \in Invite :
              invite[i].status = "pending" /\ invite'[i].status = "accepted"
                  => Joined(i)]_vars
  <2> SUFFICES ASSUME IInv, [Next]_vars, NEW i \in Invite,
                      invite[i].status = "pending", invite'[i].status = "accepted"
               PROVE  Joined(i)
    OBVIOUS
  <2> HIDE DEF Joined
  <2>1. invite[i] # Unused /\ invite \in [Invite -> [team : Team, email : Email,
             status : {"pending", "accepted", "rejected", "deleted"}] \cup {Unused}]
    BY DEF IInv, TypeOK, Unused
  <2>2. CASE CreateTeamWithOwner \/ RemoveTeamMember
    BY <2>2 DEF CreateTeamWithOwner, RemoveTeamMember
  <2>3. ASSUME NEW h \in Handler, Cascade(h) PROVE Joined(i)
    <3>1. invite'[i] = invite[i] \/ invite'[i] = [invite[i] EXCEPT !.status = "deleted"]
      BY <2>3 DEF Cascade
    <3> QED
      BY <2>1, <3>1
  <2>4. ASSUME NEW h \in Handler, AcceptInvitation(h) PROVE Joined(i)
    <3>1. i = call[h].invite /\ pc[h] = "commit"
      BY <2>4, AcceptFacts
    <3>2. invite[i].team = call[h].team /\ invite[i].email = call[h].user
      BY <2>4, <3>1, AcceptFacts
    <3>3. call[h].fresh => <<call[h].team, call[h].user>> \in members'
      BY <2>4 DEF AcceptInvitation
    <3> QED
      BY <3>1, <3>2, <3>3 DEF Joined
  <2>5. ASSUME NEW h \in Handler, TeamForeignKey(h), ~Fail(h) PROVE Joined(i)
    <3>1. PICK j \in Invite :
             /\ invite[j] = Unused
             /\ \E r : invite' = [invite EXCEPT ![j] = r]
      BY <2>5 DEF TeamForeignKey
    <3> QED
      BY <2>1, <3>1
  <2>6. ASSUME NEW h \in Handler, UpdateInvitationStatus(h), ~Fail(h) PROVE Joined(i)
    <3>1. PICK j \in Invite : j = call[h].invite
      BY <2>6 DEF UpdateInvitationStatus, IInv, CallShape, Shape
    <3>2. invite' = invite \/ invite' = [invite EXCEPT ![j].status = "rejected"]
      BY <2>6, <3>1 DEF UpdateInvitationStatus, tables
    <3> QED
      BY <2>1, <3>2
  <2>7. ASSUME NEW h \in Handler, DeleteInvitation(h) PROVE Joined(i)
    <3>1. PICK j \in Invite : invite' = [invite EXCEPT ![j].status = "deleted"]
      BY <2>7 DEF DeleteInvitation, IInv, CallShape, Shape
    <3> QED
      BY <2>1, <3>1
  <2>8. invite' # invite
    OBVIOUS
  <2> QED
    BY <2>2, <2>3, <2>4, <2>5, <2>6, <2>7, <2>8, WhatChanges
<1> QED
  BY <1>1, Invariance, PTL DEF Spec, AcceptedMeansJoined

\* Nobody joins an existing team but through an invitation to their address, which
\* is pending until that step.
THEOREM JoiningNeedsInvitation == Spec => JoinsOnlyInvited
<1> DEFINE Invited(m) ==
             \/ m[1] \notin teams
             \/ \E i \in Pending(m[1], m[2]) : invite'[i].status = "accepted"
<1>1. IInv /\ [Next]_vars => [\A m \in members' \ members : Invited(m)]_vars
  <2> SUFFICES ASSUME IInv, [Next]_vars, NEW m \in members', m \notin members
               PROVE  Invited(m)
    OBVIOUS
  <2>1. CASE CreateTeamWithOwner
    <3>1. PICK t \in Team, u \in users : owner[t] = None /\ m = <<t, u>>
      BY <2>1 DEF CreateTeamWithOwner
    <3> QED
      BY <3>1, NewTeam
  <2>2. ASSUME NEW h \in Handler, AcceptInvitation(h) PROVE Invited(m)
    <3>1. m = <<call[h].team, call[h].user>>
      BY <2>2 DEF AcceptInvitation
    <3>2. call[h].invite \in Pending(m[1], m[2]) /\ invite'[call[h].invite].status = "accepted"
      BY <2>2, <3>1, AcceptFacts DEF Pending
    <3> QED
      BY <3>2
  <2>3. CASE RemoveTeamMember
    BY <2>3 DEF RemoveTeamMember
  <2>4. ASSUME NEW h \in Handler,
               \/ Cascade(h) \/ DeleteInvitation(h)
               \/ TeamForeignKey(h) /\ ~Fail(h)
               \/ UpdateInvitationStatus(h) /\ ~Fail(h)
        PROVE  Invited(m)
    <3>1. members' \subseteq members
      BY <2>4 DEF Cascade, TeamForeignKey, UpdateInvitationStatus, DeleteInvitation, tables
    <3> QED
      BY <3>1
  <2> HIDE DEF Invited
  <2>5. members' # members
    OBVIOUS
  <2> QED
    BY <2>1, <2>2, <2>3, <2>4, <2>5, WhatChanges
<1> QED
  BY <1>1, Invariance, PTL DEF Spec, JoinsOnlyInvited
=============================================================================
