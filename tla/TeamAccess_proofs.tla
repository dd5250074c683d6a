------------------------- MODULE TeamAccess_proofs -------------------------
(***************************************************************************)
(* Access lists, for any sets of users, projects and handlers: a list is   *)
(* never seen half replaced; and as long as only the member's side writes, *)
(* what is stored is what was sent and grants end with the membership.     *)
(***************************************************************************)
EXTENDS MCTeamAccessSides, TLAPS

USE TeamAssumption

Labels == {"idle", "member", "clear", "wait", "grant", "commit"}

Ops == {"replace", "set", "remove"}

LEMMA NoCallType == NoCall \in Calls
  BY DEF NoCall, Calls

LEMMA NoCallShape ==
    ASSUME NEW h \in Handler
    PROVE  Shape(h, "idle", NoCall) /\ NoCall.ins = {} /\ NoCall.op = "none"
  BY DEF Shape, NoCall, Scope

-----------------------------------------------------------------------------

LEMMA InitOK ==
    ASSUME Init, NEW ops \in SUBSET Ops
    PROVE  IInv /\ Cleared(ops) /\ AskedAreMembers /\ GrantsOnlyForMembers
<1>0. "none" \notin ops
  BY DEF Ops
<1>1. TypeOK
  BY NoCallType DEF Init, TypeOK
<1>2. \A h \in Handler : pc[h] = "idle" /\ call[h] = NoCall
  BY DEF Init
<1>3. CallShape /\ InsertsHold
  BY <1>2, NoCallShape DEF CallShape, InsertsHold
<1>4. OneWriter
  BY <1>2, NoCallShape DEF OneWriter, Writes
<1>5. Cleared(ops) /\ AskedAreMembers /\ GrantsOnlyForMembers
  BY <1>2, NoCallShape DEF Cleared, Reached, AskedAreMembers, GrantsOnlyForMembers, Init
<1> QED
  BY <1>1, <1>3, <1>4, <1>5 DEF IInv

\* A statement that leaves the tables alone moves one call to a place where its
\* record fits; it writes a membership row only if nobody else does.
LEMMA LocalStep ==
    ASSUME IInv, NEW h \in Handler, NEW l \in Labels, NEW c \in Calls,
           UNCHANGED team, NEW ops \in SUBSET Ops,
           pc' = [pc EXCEPT ![h] = l], call' = [call EXCEPT ![h] = c],
           Shape(h, l, c), c.ins \subseteq projects \X User,
           c.op \in {"set", "remove"} /\ l # "member" =>
               \/ Writes(h, c.user)
               \/ c.user \in members /\ ~MemberLocked(h, c.user)
    PROVE  /\ IInv'
           /\ Cleared(ops) /\ (c.op \in ops => Reached(l, c)) => Cleared(ops)'
<1>1. /\ pc'[h] = l /\ call'[h] = c
      /\ \A g \in Handler \ {h} : pc'[g] = pc[g] /\ call'[g] = call[g]
  BY DEF IInv, TypeOK
<1>2. TypeOK'
  BY DEF IInv, TypeOK, team, Labels
<1>3. CallShape'
  <2> SUFFICES ASSUME NEW g \in Handler PROVE Shape(g, pc'[g], call'[g])
    BY DEF CallShape, Shape, Scope
  <2> QED
    BY <1>1 DEF IInv, CallShape
<1>4. InsertsHold'
  BY <1>1 DEF IInv, InsertsHold, team
<1>5. OneWriter'
  <2>1. ASSUME NEW g \in Handler \ {h}, NEW u \in User
        PROVE  Writes(g, u)' <=> Writes(g, u)
    BY <1>1, <2>1 DEF Writes
  <2>2. ASSUME NEW u \in User, Writes(h, u)'
        PROVE  /\ u \in members
               /\ \A g \in Handler \ {h} : ~Writes(g, u)
    <3>1. c.op \in {"set", "remove"} /\ c.user = u /\ l # "member"
      BY <1>1, <2>2 DEF Writes
    <3>2. CASE Writes(h, u)
      BY <3>2 DEF IInv, OneWriter
    <3>3. CASE u \in members /\ ~MemberLocked(h, u)
      BY <3>3 DEF MemberLocked, Writes
    <3> QED
      BY <3>1, <3>2, <3>3
  <2> SUFFICES ASSUME NEW k \in Handler, NEW u \in User, Writes(k, u)'
               PROVE  u \in members /\ \A g \in Handler : Writes(g, u)' => g = k
    BY DEF OneWriter, team
  <2>3. CASE k = h
    BY <2>1, <2>2, <2>3
  <2>4. CASE k # h
    <3>1. Writes(k, u)
      BY <2>1, <2>4
    <3>2. u \in members /\ \A g \in Handler : Writes(g, u) => g = k
      BY <3>1 DEF IInv, OneWriter
    <3>3. ~Writes(h, u)'
      BY <2>2, <2>4, <3>1
    <3> QED
      BY <2>1, <3>2, <3>3
  <2> QED
    BY <2>3, <2>4
<1>6. Cleared(ops) /\ (c.op \in ops => Reached(l, c)) => Cleared(ops)'
  <2> SUFFICES ASSUME Cleared(ops), c.op \in ops => Reached(l, c),
                      NEW g \in Handler, call'[g].op \in ops
               PROVE  Reached(pc[g], call[g])'
    BY DEF Cleared
  <2>1. Reached(pc'[g], call'[g])
    BY <1>1 DEF Cleared
  <2> QED
    BY <2>1 DEF Reached, team
<1> QED
  BY <1>2, <1>3, <1>4, <1>5, <1>6 DEF IInv

LEMMA FailOK ==
    ASSUME IInv, NEW ops \in SUBSET Ops, NEW h \in Handler, Fail(h)
    PROVE  IInv' /\ (Cleared(ops) => Cleared(ops)')
<1>1. Reached("idle", NoCall) /\ "idle" \in Labels /\ NoCall.ins \subseteq projects \X User
  BY NoCallShape DEF Reached, Labels
<1> QED
  BY <1>1, NoCallType, NoCallShape, LocalStep DEF Fail, Finish

LEMMA BeginReplaceOK ==
    ASSUME IInv, NEW ops \in SUBSET Ops, NEW h \in Replacers, handleSetProjectAccess(h)
    PROVE  IInv' /\ (Cleared(ops) => Cleared(ops)')
<1>1. PICK p \in Project, S \in SUBSET User :
         Begin(h, [NoCall EXCEPT !.op = "replace", !.project = p, !.ask = {p} \X S], "clear")
  BY DEF handleSetProjectAccess
<1> DEFINE c == [NoCall EXCEPT !.op = "replace", !.project = p, !.ask = {p} \X S]
<1>2. /\ c.op = "replace" /\ c.project = p /\ c.ask = {p} \X S
      /\ c.seen = {} /\ c.del = {} /\ c.ins = {} /\ c \in Calls
  BY DEF NoCall, Calls, Row
<1> HIDE DEF c
<1>3. Shape(h, "clear", c) /\ Reached("clear", c)
  BY <1>2 DEF Shape, Scope, Reached
<1>4. h \in Handler /\ "clear" \in Labels
  BY DEF Handler, Labels
<1> QED
  BY <1>1, <1>2, <1>3, <1>4, LocalStep DEF Begin, c

LEMMA BeginSetOK ==
    ASSUME IInv, NEW ops \in SUBSET Ops, NEW h \in Setters, handleSetMemberAccess(h)
    PROVE  IInv' /\ (Cleared(ops) => Cleared(ops)')
<1>1. PICK u \in User, all \in BOOLEAN, P \in SUBSET Project :
         Begin(h, [NoCall EXCEPT !.op = "set", !.user = u, !.all = all,
                                 !.ask = P \X {u}], "member")
  BY DEF handleSetMemberAccess
<1> DEFINE c == [NoCall EXCEPT !.op = "set", !.user = u, !.all = all, !.ask = P \X {u}]
<1>2. /\ c.op = "set" /\ c.user = u /\ c.ask = P \X {u}
      /\ c.seen = {} /\ c.del = {} /\ c.ins = {} /\ c \in Calls
  BY DEF NoCall, Calls, Row
<1> HIDE DEF c
<1>3. Shape(h, "member", c) /\ Reached("member", c)
  BY <1>2 DEF Shape, Scope, Reached
<1>4. h \in Handler /\ "member" \in Labels
  BY DEF Handler, Labels
<1> QED
  BY <1>1, <1>2, <1>3, <1>4, LocalStep DEF Begin, c

LEMMA BeginRemoveOK ==
    ASSUME IInv, NEW ops \in SUBSET Ops, NEW h \in Removers, handleDeleteTeamMember(h)
    PROVE  IInv' /\ (Cleared(ops) => Cleared(ops)')
<1>1. PICK u \in User :
         Begin(h, [NoCall EXCEPT !.op = "remove", !.user = u], "member")
  BY DEF handleDeleteTeamMember
<1> DEFINE c == [NoCall EXCEPT !.op = "remove", !.user = u]
<1>2. /\ c.op = "remove" /\ c.user = u /\ c.ask = {}
      /\ c.seen = {} /\ c.del = {} /\ c.ins = {} /\ c \in Calls
  BY DEF NoCall, Calls
<1> HIDE DEF c
<1>3. Shape(h, "member", c) /\ Reached("member", c)
  BY <1>2 DEF Shape, Scope, Reached
<1>4. h \in Handler /\ "member" \in Labels
  BY DEF Handler, Labels
<1> QED
  BY <1>1, <1>2, <1>3, <1>4, LocalStep DEF Begin, c

\* The membership row is there, and nobody else has written it.
LEMMA MemberOK ==
    ASSUME IInv, NEW ops \in SUBSET Ops, NEW h \in Handler,
           UpdateMemberAllProjects(h) \/ DeleteTeamMember(h)
    PROVE  IInv' /\ (Cleared(ops) => Cleared(ops)')
<1>1. CASE Fail(h)
  BY <1>1, FailOK
<1>2. CASE /\ pc[h] = "member" /\ call[h].op \in {"set", "remove"}
           /\ ~MemberLocked(h, call[h].user) /\ call[h].user \in members
           /\ Goto(h, "clear") /\ UNCHANGED call
  <2>1. /\ call' = [call EXCEPT ![h] = call[h]] /\ call[h] \in Calls
        /\ call[h].ins \subseteq projects \X User /\ "clear" \in Labels
    BY <1>2 DEF IInv, TypeOK, InsertsHold, Labels
  <2>2. Shape(h, "clear", call[h]) /\ Reached("clear", call[h])
    BY <1>2 DEF IInv, CallShape, Shape, Reached
  <2> QED
    BY <1>2, <2>1, <2>2, LocalStep DEF Goto
<1> QED
  BY <1>1, <1>2 DEF UpdateMemberAllProjects, DeleteTeamMember

\* The snapshot of the DELETE.
LEMMA ClearOK ==
    ASSUME IInv, NEW ops \in SUBSET Ops, NEW h \in Handler,
           DeleteAllProjectAccess(h) \/ DeleteAllUserAccessInTeam(h)
    PROVE  IInv' /\ (Cleared(ops) => Cleared(ops)')
<1> DEFINE S == grants \cap Scope(call[h])
           c == [call[h] EXCEPT !.seen = S]
<1>1. /\ pc[h] = "clear" /\ call' = [call EXCEPT ![h] = c]
      /\ UNCHANGED team /\ pc' = [pc EXCEPT ![h] = "wait"]
  BY DEF DeleteAllProjectAccess, DeleteAllUserAccessInTeam, Goto, IInv, TypeOK
<1>2. call[h] \in Calls /\ S \subseteq Row /\ S \subseteq Scope(call[h])
  BY DEF IInv, TypeOK, Row
<1>3. /\ c \in Calls /\ c.seen = S /\ c.op = call[h].op /\ c.user = call[h].user
      /\ c.project = call[h].project /\ c.ask = call[h].ask /\ c.del = call[h].del
      /\ c.ins = call[h].ins
  BY <1>2 DEF Calls
<1>4. Scope(c) = Scope(call[h])
  BY <1>3 DEF Scope
<1> HIDE DEF c
<1>5. Shape(h, "wait", c)
  <2>1. Shape(h, "clear", call[h])
    BY <1>1 DEF IInv, CallShape
  <2> QED
    BY <1>2, <1>3, <1>4, <2>1 DEF Shape
<1>6. Reached("wait", c)
  BY <1>3, <1>4 DEF Reached
<1>7. c.op \in {"set", "remove"} => Writes(h, c.user)
  BY <1>1, <1>3 DEF Writes
<1>8. c.ins \subseteq projects \X User /\ "wait" \in Labels
  BY <1>3 DEF IInv, InsertsHold, Labels
<1> QED
  BY <1>1, <1>3, <1>5, <1>6, <1>7, <1>8, LocalStep

LEMMA LockDeletedOK ==
    ASSUME IInv, NEW ops \in SUBSET Ops, NEW h \in Handler, LockDeleted(h)
    PROVE  IInv' /\ (Cleared(ops) => Cleared(ops)')
<1> DEFINE l == IF call[h].ask = {} THEN "commit" ELSE "grant"
           c == [call[h] EXCEPT !.del = call[h].seen, !.seen = {}]
<1>1. pc[h] = "wait" /\ UNCHANGED team /\ pc' = [pc EXCEPT ![h] = l]
  BY DEF LockDeleted, Goto
<1>2. call[h] \in Calls
  BY DEF IInv, TypeOK
<1>3. call' = [call EXCEPT ![h] = c]
  BY <1>2 DEF LockDeleted, IInv, TypeOK, Calls
<1>4. /\ c \in Calls /\ c.seen = {} /\ c.op = call[h].op /\ c.user = call[h].user
      /\ c.project = call[h].project /\ c.ask = call[h].ask /\ c.del = call[h].seen
      /\ c.ins = call[h].ins
  BY <1>2 DEF Calls
<1>5. Scope(c) = Scope(call[h])
  BY <1>4 DEF Scope
<1> HIDE DEF c
<1>6. Shape(h, "wait", call[h])
  BY <1>1 DEF IInv, CallShape
<1>7. Shape(h, l, c)
  BY <1>4, <1>5, <1>6 DEF Shape
<1>8. Cleared(ops) => (c.op \in ops => Reached(l, c))
  <2> SUFFICES ASSUME Cleared(ops), c.op \in ops PROVE Reached(l, c)
    OBVIOUS
  <2>1. grants \cap Scope(call[h]) \subseteq call[h].seen
    BY <1>1, <1>4 DEF Cleared, Reached
  <2>2. call[h].ins = {}
    BY <1>6 DEF Shape
  <2> QED
    BY <1>4, <1>5, <2>1, <2>2 DEF Reached
<1>9. /\ c.op \in {"set", "remove"} => Writes(h, c.user)
      /\ c.ins \subseteq projects \X User /\ l \in Labels
  BY <1>1, <1>4 DEF Writes, IInv, InsertsHold, Labels
<1> HIDE DEF l
<1> QED
  BY <1>1, <1>3, <1>4, <1>7, <1>8, <1>9, LocalStep

LEMMA GrantOK ==
    ASSUME IInv, NEW ops \in SUBSET Ops, NEW h \in Handler, Grant(h)
    PROVE  IInv' /\ (Cleared(ops) => Cleared(ops)')
<1>1. CASE Fail(h)
  BY <1>1, FailOK
<1>2. CASE /\ pc[h] = "grant" /\ call[h].ask \subseteq projects \X User
           /\ call' = [call EXCEPT ![h].ins = NewRows(call[h])]
           /\ Goto(h, "commit")
  <2> DEFINE c == [call[h] EXCEPT !.ins = NewRows(call[h])]
  <2>1. call[h] \in Calls /\ NewRows(call[h]) \subseteq call[h].ask
    BY DEF IInv, TypeOK, NewRows
  <2>2. call' = [call EXCEPT ![h] = c]
    BY <1>2, <2>1 DEF IInv, TypeOK, Calls
  <2>3. /\ c \in Calls /\ c.seen = call[h].seen /\ c.op = call[h].op
        /\ c.user = call[h].user /\ c.project = call[h].project
        /\ c.ask = call[h].ask /\ c.del = call[h].del /\ c.ins = NewRows(call[h])
    BY <2>1 DEF Calls
  <2>4. Scope(c) = Scope(call[h])
    BY <2>3 DEF Scope
  <2> HIDE DEF c
  <2>5. Shape(h, "grant", call[h])
    BY <1>2 DEF IInv, CallShape
  <2>6. Shape(h, "commit", c)
    BY <2>1, <2>3, <2>4, <2>5 DEF Shape, NewRows
  <2>7. Cleared(ops) => (c.op \in ops => Reached("commit", c))
    <3> SUFFICES ASSUME Cleared(ops), c.op \in ops PROVE Reached("commit", c)
      OBVIOUS
    <3>1. grants \cap Scope(call[h]) \subseteq call[h].del
      BY <1>2, <2>3 DEF Cleared, Reached
    <3>2. NewRows(call[h]) = call[h].ask
      BY <2>5, <3>1 DEF NewRows, Shape
    <3> QED
      BY <2>3, <2>4, <3>1, <3>2 DEF Reached
  <2>8. /\ c.op \in {"set", "remove"} => Writes(h, c.user)
        /\ c.ins \subseteq projects \X User /\ "commit" \in Labels
    BY <1>2, <2>1, <2>3 DEF Writes, Labels
  <2> QED
    BY <1>2, <2>2, <2>3, <2>6, <2>7, <2>8, LocalStep DEF Goto
<1> QED
  BY <1>1, <1>2 DEF Grant

-----------------------------------------------------------------------------
(* Steps that change the tables.                                           *)

\* A DELETE that skips rows somebody else has deleted keeps everything else.
LEMMA ForgetKeeps ==
    ASSUME NEW c \in Calls, NEW S
    PROVE  /\ Forget(c, S) \in Calls
           /\ Forget(c, S).seen = c.seen \ S
           /\ Forget(c, S).op = c.op /\ Forget(c, S).user = c.user
           /\ Forget(c, S).project = c.project /\ Forget(c, S).all = c.all
           /\ Forget(c, S).ask = c.ask /\ Forget(c, S).del = c.del
           /\ Forget(c, S).ins = c.ins
           /\ Scope(Forget(c, S)) = Scope(c)
           /\ \A h, l : l # "idle" /\ Shape(h, l, c) => Shape(h, l, Forget(c, S))
           /\ c = NoCall => Forget(c, S) = NoCall
<1>1. /\ Forget(c, S) \in Calls
      /\ Forget(c, S).seen = c.seen \ S
      /\ Forget(c, S).op = c.op /\ Forget(c, S).user = c.user
      /\ Forget(c, S).project = c.project /\ Forget(c, S).all = c.all
      /\ Forget(c, S).ask = c.ask /\ Forget(c, S).del = c.del
      /\ Forget(c, S).ins = c.ins
  BY DEF Forget, Calls
<1>2. Scope(Forget(c, S)) = Scope(c)
  BY <1>1 DEF Scope
<1>3. ASSUME NEW h, NEW l, l # "idle", Shape(h, l, c)
      PROVE  Shape(h, l, Forget(c, S))
  <2> DEFINE d == Forget(c, S)
  <2>1. /\ d.op = c.op /\ d.user = c.user /\ d.project = c.project /\ d.ask = c.ask
        /\ d.del = c.del /\ d.ins = c.ins /\ d.seen = c.seen \ S
        /\ Scope(d) = Scope(c)
    BY <1>1, <1>2
  <2> HIDE DEF d
  <2>2. d.op \in {"replace", "set", "remove"}
    BY <1>3, <2>1 DEF Shape
  <2>3. d.ask \cup d.seen \cup d.del \subseteq Scope(d) /\ d.ins \subseteq d.ask
    BY <1>3, <2>1 DEF Shape
  <2>4. /\ d.op = "replace" => h \in Replacers /\ d.project \in Project /\ l # "member"
        /\ d.op \in {"set", "remove"} => d.user \in User
        /\ d.op = "remove" => d.ask = {}
        /\ l = "grant" => d.op # "remove"
    BY <1>3, <2>1 DEF Shape
  <2>5. /\ l \in {"member", "clear"} => d.seen = {}
        /\ l \in {"member", "clear", "wait"} => d.del = {}
        /\ l # "commit" => d.ins = {}
        /\ l = "commit" => d.ask \cap d.del \subseteq d.ins
    BY <1>3, <2>1 DEF Shape
  <2>6. Shape(h, l, d)
    BY <1>3, <2>2, <2>3, <2>4, <2>5 DEF Shape
  <2> QED
    BY <2>6 DEF d
<1>4. c = NoCall => Forget(c, S) = NoCall
  <2>1. NoCall.seen = {} /\ NoCall.seen \ S = {}
    BY DEF NoCall
  <2>2. [c EXCEPT !.seen = c.seen] = c
    BY DEF Calls
  <2> QED
    BY <2>1, <2>2 DEF Forget
<1>5. \A h, l : l # "idle" /\ Shape(h, l, c) => Shape(h, l, Forget(c, S))
  BY <1>3, Zenon
<1> QED
  BY <1>1, <1>2, <1>4, <1>5, Zenon

\* What a commit changes, and what it leaves alone.
LEMMA CommitChanges ==
    ASSUME IInv, NEW h \in Handler, Commit(h)
    PROVE  /\ pc[h] = "commit" /\ pc'[h] = "idle" /\ call'[h] = NoCall
           /\ call[h] \in Calls /\ Shape(h, "commit", call[h])
           /\ grants' = (grants \ call[h].del) \cup call[h].ins
           /\ projects' = projects
           /\ \A g \in Handler \ {h} : /\ call[g] \in Calls /\ pc'[g] = pc[g]
                                      /\ call'[g] = Forget(call[g], call[h].del)
           /\ pc' \in [Handler -> Labels] /\ call' \in [Handler -> Calls]
<1>1. /\ pc[h] = "commit" /\ pc' = [pc EXCEPT ![h] = "idle"]
      /\ call' = [g \in Handler |->
                    IF g = h THEN NoCall ELSE Forget(call[g], call[h].del)]
      /\ grants' = (grants \ call[h].del) \cup call[h].ins /\ projects' = projects
  BY DEF Commit, Finish
<1>2. pc \in [Handler -> Labels] /\ \A g \in Handler : call[g] \in Calls
  BY DEF IInv, TypeOK, Labels
<1>3. \A g \in Handler : Forget(call[g], call[h].del) \in Calls
  BY <1>2, ForgetKeeps
<1>4. call' \in [Handler -> Calls]
  BY <1>1, <1>3, NoCallType
<1>5. Shape(h, "commit", call[h])
  BY <1>1 DEF IInv, CallShape
<1> QED
  BY <1>1, <1>2, <1>4, <1>5 DEF Labels

\* A commit by a handler that leaves the members alone but for its own user.
LEMMA CommitOK ==
    ASSUME IInv, NEW h \in Handler, Commit(h),
           members' \subseteq User, allProjects' \subseteq members',
           \A u \in members : u \in members' \/ Writes(h, u)
    PROVE  IInv'
<1>1. TypeOK'
  BY CommitChanges DEF IInv, TypeOK, InsertsHold, Labels
<1>2. ASSUME NEW g \in Handler
      PROVE  /\ Shape(g, pc'[g], call'[g])
             /\ call'[g].ins \subseteq projects \X User
             /\ g # h => /\ call'[g].op = call[g].op /\ call'[g].user = call[g].user
                         /\ pc'[g] = pc[g]
  <2>1. CASE g = h
    BY <2>1, CommitChanges, NoCallShape
  <2>2. CASE g # h
    <3>1. /\ pc'[g] = pc[g] /\ call'[g] = Forget(call[g], call[h].del)
          /\ call[g] \in Calls /\ Shape(g, pc[g], call[g])
          /\ call[g].ins \subseteq projects \X User
      BY <2>2, CommitChanges DEF IInv, CallShape, InsertsHold
    <3>2. CASE pc[g] = "idle"
      <4>1. call'[g] = NoCall /\ call[g] = NoCall
        BY <3>1, <3>2, ForgetKeeps DEF Shape
      <4> QED
        BY <3>1, <3>2, <4>1, NoCallShape
    <3>3. CASE pc[g] # "idle"
      BY <3>1, <3>3, ForgetKeeps
    <3> QED
      BY <3>2, <3>3
  <2> QED
    BY <2>1, <2>2
<1>3. CallShape'
  <2> SUFFICES ASSUME NEW g \in Handler PROVE Shape(g, pc'[g], call'[g])
    BY DEF CallShape, Shape, Scope
  <2> QED
    BY <1>2
<1>4. InsertsHold'
  BY <1>2, CommitChanges DEF InsertsHold
<1>5. OneWriter'
  <2>1. \A u \in User : ~Writes(h, u)'
    BY CommitChanges, NoCallShape DEF Writes
  <2>2. \A u \in User, g \in Handler \ {h} : Writes(g, u)' <=> Writes(g, u)
    BY <1>2 DEF Writes
  <2> SUFFICES ASSUME NEW g \in Handler, NEW u \in User, Writes(g, u)'
               PROVE  u \in members' /\ \A k \in Handler : Writes(k, u)' => k = g
    BY DEF OneWriter
  <2>3. g # h /\ Writes(g, u)
    BY <2>1, <2>2
  <2>4. u \in members /\ \A k \in Handler : Writes(k, u) => k = g
    BY <2>3 DEF IInv, OneWriter
  <2> QED
    BY <2>1, <2>2, <2>3, <2>4
<1> QED
  BY <1>1, <1>3, <1>4, <1>5 DEF IInv

\* A call that has rows to reach loses none to a commit that does not cross it: two
\* calls about one member wait for each other at the membership row.
LEMMA CommitClears ==
    ASSUME IInv, NEW ops \in SUBSET Ops, Cleared(ops), Uncrossed(ops),
           NEW h \in Handler, Commit(h)
    PROVE  Cleared(ops)'
<1> SUFFICES ASSUME NEW g \in Handler, call'[g].op \in ops PROVE Reached(pc[g], call[g])'
  BY DEF Cleared
<1>1. CASE g = h
  BY <1>1, CommitChanges DEF Reached
<1>2. CASE g # h /\ pc[g] \in {"wait", "grant", "commit"}
  <2>1. /\ pc'[g] = pc[g] /\ call'[g] = Forget(call[g], call[h].del)
        /\ call[g] \in Calls /\ Shape(g, pc[g], call[g])
        /\ Shape(h, "commit", call[h]) /\ pc[h] = "commit"
        /\ grants' = (grants \ call[h].del) \cup call[h].ins
    BY <1>2, CommitChanges DEF IInv, CallShape
  <2>2. call[g].op \in ops /\ Reached(pc[g], call[g])
    BY <2>1, ForgetKeeps DEF Cleared
  <2>3. call[h].ins \subseteq call[h].ask
    BY <2>1 DEF Shape
  <2>4. call[h].ins \cap Scope(call[g]) = {}
    <3>1. CASE "replace" \in {call[g].op, call[h].op}
      BY <1>2, <2>2, <2>3, <3>1 DEF Uncrossed, Crosses
    <3>2. CASE "replace" \notin {call[g].op, call[h].op}
      <4>1. /\ call[g].op \in {"set", "remove"} /\ call[h].op \in {"set", "remove"}
            /\ call[g].user \in User /\ call[h].user \in User
        BY <1>2, <2>1, <3>2 DEF Shape
      <4>2. Writes(g, call[g].user) /\ Writes(h, call[h].user)
        BY <1>2, <2>1, <4>1 DEF Writes
      <4>3. call[g].user # call[h].user
        BY <1>2, <4>1, <4>2 DEF IInv, OneWriter
      <4>4. call[h].ins \subseteq Project \X {call[h].user}
        BY <2>1, <4>1 DEF Shape, Scope
      <4>5. Scope(call[g]) = Project \X {call[g].user}
        BY <4>1 DEF Scope
      <4> QED
        BY <4>3, <4>4, <4>5
    <3> QED
      BY <3>1, <3>2
  <2>5. grants' \cap Scope(call[g]) \subseteq grants \ call[h].del
    BY <2>1, <2>4
  <2>6. /\ call'[g].seen = call[g].seen \ call[h].del /\ call'[g].del = call[g].del
        /\ call'[g].ins = call[g].ins /\ call'[g].ask = call[g].ask
        /\ Scope(call[g])' = Scope(call[g])
    <3>1. Scope(call'[g]) = Scope(call[g])
      BY <2>1, ForgetKeeps
    <3>2. Scope(call[g])' = Scope(call'[g])
      BY DEF Scope
    <3> QED
      BY <2>1, <3>1, <3>2, ForgetKeeps
  <2> QED
    BY <2>1, <2>2, <2>5, <2>6 DEF Reached
<1>3. CASE g # h /\ pc[g] \notin {"wait", "grant", "commit"}
  BY <1>3, CommitChanges DEF Reached
<1> QED
  BY <1>1, <1>2, <1>3

LEMMA CommitsOK ==
    ASSUME IInv, NEW h \in Handler,
           \/ ReplaceProjectAccess(h) \/ SetMemberProjectAccess(h)
           \/ RemoveTeamMember(h)
    PROVE  IInv' /\ Commit(h)
<1>1. Commit(h)
  BY DEF ReplaceProjectAccess, SetMemberProjectAccess, RemoveTeamMember
<1>2. pc[h] = "commit" /\ Shape(h, "commit", call[h])
  BY <1>1, CommitChanges
<1>3. members \subseteq User /\ allProjects \subseteq members
  BY DEF IInv, TypeOK
<1>4. CASE ReplaceProjectAccess(h)
  BY <1>1, <1>3, <1>4, CommitOK DEF ReplaceProjectAccess
<1>5. CASE SetMemberProjectAccess(h)
  <2>1. call[h].user \in members
    BY <1>2, <1>5 DEF SetMemberProjectAccess, Shape, Writes, IInv, OneWriter
  <2> QED
    BY <1>1, <1>3, <1>5, <2>1, CommitOK DEF SetMemberProjectAccess
<1>6. CASE RemoveTeamMember(h)
  <2>1. Writes(h, call[h].user)
    BY <1>2, <1>6 DEF RemoveTeamMember, Writes
  <2> QED
    BY <1>1, <1>3, <1>6, <2>1, CommitOK DEF RemoveTeamMember
<1> QED
  BY <1>1, <1>4, <1>5, <1>6

LEMMA AcceptOK ==
    ASSUME IInv, NEW ops \in SUBSET Ops, AcceptInvitation
    PROVE  IInv' /\ (Cleared(ops) => Cleared(ops)')
<1>1. /\ UNCHANGED <<projects, grants, pc, call>>
      /\ members \subseteq members' /\ members' \subseteq User
      /\ allProjects' \subseteq members'
  BY DEF AcceptInvitation, IInv, TypeOK
<1>2. TypeOK' /\ CallShape' /\ InsertsHold'
  BY <1>1 DEF IInv, TypeOK, CallShape, Shape, Scope, InsertsHold
<1>3. OneWriter'
  BY <1>1 DEF IInv, OneWriter, Writes
<1>4. Cleared(ops) => Cleared(ops)'
  BY <1>1 DEF Cleared, Reached, Scope
<1> QED
  BY <1>2, <1>3, <1>4 DEF IInv

LEMMA DeleteProjectOK ==
    ASSUME IInv, NEW ops \in SUBSET Ops, DeleteProject
    PROVE  IInv' /\ (Cleared(ops) => Cleared(ops)')
<1>1. PICK p \in Project :
         /\ \A h \in Handler : ({p} \X User) \cap call[h].ins = {}
         /\ projects' = projects \ {p} /\ grants' = grants \ ({p} \X User)
         /\ call' = [h \in Handler |-> Forget(call[h], {p} \X User)]
         /\ UNCHANGED <<members, allProjects, pc>>
  BY DEF DeleteProject
<1>2. ASSUME NEW g \in Handler
      PROVE  /\ call[g] \in Calls /\ Shape(g, pc[g], call[g])
             /\ call'[g] = Forget(call[g], {p} \X User)
             /\ Scope(call[g])' = Scope(call[g])
  <2>1. call[g] \in Calls /\ Shape(g, pc[g], call[g])
    BY DEF IInv, TypeOK, CallShape
  <2>2. call'[g] = Forget(call[g], {p} \X User)
    BY <1>1
  <2>3. Scope(call'[g]) = Scope(call[g])
    BY <2>1, <2>2, ForgetKeeps
  <2>4. Scope(call[g])' = Scope(call'[g])
    BY DEF Scope
  <2> QED
    BY <2>1, <2>2, <2>3, <2>4
<1>3. TypeOK'
  <2>1. call' \in [Handler -> Calls]
    BY <1>1, <1>2, ForgetKeeps
  <2> QED
    BY <1>1, <2>1 DEF IInv, TypeOK
<1>4. CallShape'
  <2> SUFFICES ASSUME NEW g \in Handler PROVE Shape(g, pc'[g], call'[g])
    BY DEF CallShape, Shape, Scope
  <2>1. pc'[g] = pc[g]
    BY <1>1
  <2>2. CASE pc[g] = "idle"
    <3>1. call'[g] = NoCall
      BY <1>2, <2>2, ForgetKeeps DEF Shape
    <3> QED
      BY <2>1, <2>2, <3>1, NoCallShape
  <2>3. CASE pc[g] # "idle"
    BY <1>2, <2>1, <2>3, ForgetKeeps
  <2> QED
    BY <2>2, <2>3
<1>5. InsertsHold'
  <2> SUFFICES ASSUME NEW g \in Handler PROVE call'[g].ins \subseteq projects' \X User
    BY DEF InsertsHold
  <2>1. call'[g].ins = call[g].ins
    BY <1>2, ForgetKeeps
  <2>2. call[g].ins \subseteq projects \X User
    BY DEF IInv, InsertsHold
  <2> QED
    BY <1>1, <2>1, <2>2
<1>6. OneWriter'
  <2>1. \A g \in Handler, u \in User : Writes(g, u)' <=> Writes(g, u)
    BY <1>1, <1>2, ForgetKeeps DEF Writes
  <2> QED
    BY <1>1, <2>1 DEF IInv, OneWriter
<1>7. Cleared(ops) => Cleared(ops)'
  <2> SUFFICES ASSUME Cleared(ops), NEW g \in Handler, call'[g].op \in ops
               PROVE  Reached(pc[g], call[g])'
    BY DEF Cleared
  <2>1. /\ call'[g].seen = call[g].seen \ ({p} \X User)
        /\ call'[g].del = call[g].del /\ call'[g].ins = call[g].ins
        /\ call'[g].ask = call[g].ask /\ Scope(call[g])' = Scope(call[g])
        /\ pc'[g] = pc[g] /\ call[g].op \in ops
    BY <1>1, <1>2, ForgetKeeps
  <2>2. Reached(pc[g], call[g])
    BY <2>1 DEF Cleared
  <2> QED
    BY <1>1, <2>1, <2>2 DEF Reached
<1> QED
  BY <1>3, <1>4, <1>5, <1>6, <1>7 DEF IInv

LEMMA StutterOK ==
    ASSUME IInv, NEW ops \in SUBSET Ops, UNCHANGED vars
    PROVE  IInv' /\ (Cleared(ops) => Cleared(ops)')
<1>1. IInv'
  BY DEF vars, team, IInv, TypeOK, CallShape, Shape, Scope, InsertsHold, OneWriter, Writes
<1>2. Cleared(ops) => Cleared(ops)'
  BY DEF vars, team, Cleared, Reached, Scope
<1> QED
  BY <1>1, <1>2

-----------------------------------------------------------------------------

\* Every step keeps the invariant; and as long as the calls of some kind are not
\* crossed, they reach what they have to.
LEMMA StepOK ==
    ASSUME IInv, NEW ops \in SUBSET Ops, [Next]_vars
    PROVE  IInv' /\ (Cleared(ops) /\ Uncrossed(ops) => Cleared(ops)')
<1>1. CASE \E h \in Handler : GrantProjectAccess(h) \/ GrantUserProjectAccess(h)
  BY <1>1, GrantOK DEF GrantProjectAccess, GrantUserProjectAccess
<1>2. CASE \E h \in Handler : ReplaceProjectAccess(h) \/ SetMemberProjectAccess(h)
                              \/ RemoveTeamMember(h)
  BY <1>2, CommitsOK, CommitClears
<1>3. CASE \E h \in Handler : Abort(h)
  BY <1>3, FailOK DEF Abort
<1>4. CASE \/ \E h \in Replacers : handleSetProjectAccess(h)
           \/ \E h \in Setters : handleSetMemberAccess(h)
           \/ \E h \in Removers : handleDeleteTeamMember(h)
  BY <1>4, BeginReplaceOK, BeginSetOK, BeginRemoveOK
<1>5. CASE \E h \in Handler :
             \/ UpdateMemberAllProjects(h) \/ DeleteTeamMember(h) \/ LockDeleted(h)
             \/ DeleteAllProjectAccess(h) \/ DeleteAllUserAccessInTeam(h)
  BY <1>5, MemberOK, ClearOK, LockDeletedOK
<1>6. CASE AcceptInvitation \/ DeleteProject \/ UNCHANGED vars
  BY <1>6, AcceptOK, DeleteProjectOK, StutterOK
<1> QED
  BY <1>1, <1>2, <1>3, <1>4, <1>5, <1>6 DEF Next

\* The invariant is inductive.
LEMMA Inductive == IInv /\ [Next]_vars => IInv'
<1>1. {} \in SUBSET Ops
  OBVIOUS
<1> QED
  BY <1>1, StepOK

LEMMA Invariance == Spec => []IInv
<1>1. Init => IInv
  <2>1. {} \in SUBSET Ops
    OBVIOUS
  <2> QED
    BY <2>1, InitOK
<1> QED
  BY <1>1, Inductive, PTL DEF Spec

\* Memberships, lists and calls keep their types; no grant refers to a project that
\* has been deleted.
THEOREM AccessTypes == Spec => []TypeOK
<1>1. IInv => TypeOK
  BY DEF IInv
<1> QED
  BY <1>1, Invariance, PTL

\* Whatever lists are replaced, set or removed at once, from either side, a grant
\* disappears only by a commit that was asked to leave it out, or with its project.
THEOREM GrantsNeverHalfReplaced == Spec => GrantsLeaveOnRequest
<1> DEFINE Leaves(r) == \/ r[1] \notin projects'
                        \/ \E h \in Handler :
                              /\ pc[h] = "commit" /\ pc'[h] = "idle"
                              /\ r \in Scope(call[h]) \ call[h].ask
<1>1. IInv /\ [Next]_vars => [\A r \in grants \ grants' : Leaves(r)]_vars
  <2> SUFFICES ASSUME IInv, [Next]_vars, NEW r \in grants, r \notin grants'
               PROVE  Leaves(r)
    OBVIOUS
  <2>1. CASE \E h \in Handler : Commit(h)
    <3>1. PICK h \in Handler : Commit(h)
      BY <2>1
    <3>2. r \in call[h].del /\ r \notin call[h].ins
      BY <3>1, CommitChanges
    <3>3. r \in Scope(call[h]) \ call[h].ask
      BY <3>1, <3>2, CommitChanges DEF Shape
    <3> QED
      BY <3>1, <3>3, CommitChanges
  <2>2. CASE DeleteProject
    BY <2>2 DEF DeleteProject
  <2>3. CASE UNCHANGED grants
    BY <2>3
  <2> QED
    BY <2>1, <2>2, <2>3
       DEF Next, vars, team, handleSetProjectAccess, handleSetMemberAccess,
           handleDeleteTeamMember, Begin, UpdateMemberAllProjects, DeleteTeamMember,
           Goto, Fail, Abort, DeleteAllProjectAccess, DeleteAllUserAccessInTeam,
           LockDeleted, GrantProjectAccess, GrantUserProjectAccess, Grant,
           ReplaceProjectAccess, SetMemberProjectAccess, RemoveTeamMember,
           AcceptInvitation
<1> QED
  BY <1>1, Invariance, PTL DEF Spec, GrantsLeaveOnRequest

-----------------------------------------------------------------------------
(* Lists that nobody crosses.                                              *)

\* What a commit stores in the rows of its list, once the call has reached them.
LEMMA CommitStoresAsk ==
    ASSUME IInv, NEW ops \in SUBSET Ops, Cleared(ops), NEW h \in Handler, Commit(h),
           call[h].op \in ops
    PROVE  grants' \cap Scope(call[h]) = call[h].ask
<1>1. /\ Shape(h, "commit", call[h]) /\ pc[h] = "commit"
      /\ grants' = (grants \ call[h].del) \cup call[h].ins
  BY CommitChanges
<1>2. /\ grants \cap Scope(call[h]) \subseteq call[h].del
      /\ call[h].ins = call[h].ask /\ call[h].ask \subseteq Scope(call[h])
  BY <1>1 DEF Cleared, Reached, Shape
<1> QED
  BY <1>1, <1>2

\* The grants of a project are exactly the list that was sent, as soon as it
\* commits: of any number of handlers on either side, only another call that asks
\* for a row of the same project while the list is being replaced can spoil it.
THEOREM ProjectListsAreExact == Spec /\ []Uncrossed({"replace"}) => ReplaceIsExact
<1> DEFINE Exact(h) == grants' \cap Scope(call[h]) = call[h].ask
<1>1. {"replace"} \in SUBSET Ops
  BY DEF Ops
<1>2. ASSUME IInv, Cleared({"replace"})
      PROVE  [\A h \in Replacers : ReplaceProjectAccess(h) => Exact(h)]_vars
  <2> SUFFICES ASSUME NEW h \in Replacers, ReplaceProjectAccess(h)
               PROVE  Exact(h)
    OBVIOUS
  <2>1. h \in Handler /\ Commit(h) /\ call[h].op \in {"replace"}
    BY DEF Handler, ReplaceProjectAccess
  <2> QED
    BY <1>1, <1>2, <2>1, CommitStoresAsk
<1>3. Init => IInv /\ Cleared({"replace"})
  BY <1>1, InitOK
<1>4. IInv /\ Cleared({"replace"}) /\ Uncrossed({"replace"}) /\ [Next]_vars
        => (IInv /\ Cleared({"replace"}))'
  BY <1>1, StepOK
<1> QED
  BY <1>2, <1>3, <1>4, PTL DEF Spec, ReplaceIsExact

\* And what is stored for a member is the list that was sent for them, with its
\* flag: only a project's list that names the member meanwhile can spoil it, for
\* other lists and removals wait at the membership row.
THEOREM MemberListsAreExact == Spec /\ []Uncrossed({"set"}) => SetMemberIsExact
<1> DEFINE Exact(h) == /\ grants' \cap Scope(call[h]) = call[h].ask
                       /\ call[h].user \in members'
                       /\ (call[h].user \in allProjects') = call[h].all
<1>1. {"set"} \in SUBSET Ops
  BY DEF Ops
<1>2. ASSUME IInv, Cleared({"set"})
      PROVE  [\A h \in Setters : SetMemberProjectAccess(h) => Exact(h)]_vars
  <2> SUFFICES ASSUME NEW h \in Setters, SetMemberProjectAccess(h)
               PROVE  Exact(h)
    OBVIOUS
  <2>1. h \in Handler /\ Commit(h) /\ call[h].op \in {"set"} /\ call[h].op = "set"
    BY DEF Handler, SetMemberProjectAccess
  <2>2. grants' \cap Scope(call[h]) = call[h].ask
    BY <1>1, <1>2, <2>1, CommitStoresAsk
  <2>3. Shape(h, "commit", call[h]) /\ pc[h] = "commit" /\ call[h] \in Calls
    BY <1>2, <2>1, CommitChanges
  <2>4. call[h].user \in members
    BY <1>2, <2>1, <2>3 DEF Shape, Writes, IInv, OneWriter
  <2>5. call[h].all \in BOOLEAN
    BY <2>3 DEF Calls
  <2>6. call[h].user \in members' /\ (call[h].user \in allProjects') = call[h].all
    BY <2>4, <2>5 DEF SetMemberProjectAccess
  <2> QED
    BY <2>2, <2>6
<1>3. Init => IInv /\ Cleared({"set"})
  BY <1>1, InitOK
<1>4. IInv /\ Cleared({"set"}) /\ Uncrossed({"set"}) /\ [Next]_vars
        => (IInv /\ Cleared({"set"}))'
  BY <1>1, StepOK
<1> QED
  BY <1>2, <1>3, <1>4, PTL DEF Spec, SetMemberIsExact

-----------------------------------------------------------------------------
(* Grants end with the membership.                                         *)

\* Whom a project's list names stays a member unless a removal crosses the list.
LEMMA AskedStay ==
    ASSUME IInv, AskedAreMembers, Uncrossed({"remove"}), [Next]_vars
    PROVE  AskedAreMembers'
<1> SUFFICES ASSUME NEW g \in Handler, call'[g].op = "replace", NEW r \in call'[g].ask
             PROVE  r[2] \in members'
  BY DEF AskedAreMembers
<1>1. \A h \in Handler : call[h] \in Calls
  BY DEF IInv, TypeOK
<1>2. ASSUME call'[g].op = call[g].op, call'[g].ask = call[g].ask, members \subseteq members'
      PROVE  r[2] \in members'
  BY <1>2 DEF AskedAreMembers
<1>3. ASSUME NEW h \in Handler, Commit(h)
      PROVE  g # h /\ call'[g].op = call[g].op /\ call'[g].ask = call[g].ask
  <2>1. g # h
    BY <1>3, CommitChanges, NoCallShape
  <2> QED
    BY <1>3, <2>1, CommitChanges, ForgetKeeps
<1>4. ASSUME NEW h \in Handler, RemoveTeamMember(h)
      PROVE  r[2] \in members'
  <2>1. /\ g # h /\ call[g].op = "replace" /\ r \in call[g].ask
        /\ call[h].op = "remove" /\ members' = members \ {call[h].user}
    BY <1>3, <1>4 DEF RemoveTeamMember
  <2>2. r \in Project \X User /\ Scope(call[h]) = Project \X {call[h].user}
    BY <1>1, <2>1 DEF Calls, Row, Scope
  <2>3. r \notin Scope(call[h])
    BY <2>1 DEF Uncrossed, Crosses
  <2>4. r[2] \in members
    BY <2>1 DEF AskedAreMembers
  <2> QED
    BY <2>1, <2>2, <2>3, <2>4
<1>5. ASSUME NEW h \in Handler, ReplaceProjectAccess(h) \/ SetMemberProjectAccess(h)
      PROVE  r[2] \in members'
  BY <1>2, <1>3, <1>5 DEF ReplaceProjectAccess, SetMemberProjectAccess
<1>6. ASSUME NEW h \in Handler, NEW c, call' = [call EXCEPT ![h] = c], UNCHANGED members,
             c.op # "replace" \/ (c.op = call[h].op /\ c.ask = call[h].ask)
      PROVE  r[2] \in members'
  <2>1. call'[h] = c /\ (g # h => call'[g] = call[g])
    BY <1>6 DEF IInv, TypeOK
  <2> QED
    BY <1>2, <1>6, <2>1
<1>7. ASSUME NEW h \in Replacers, handleSetProjectAccess(h)
      PROVE  r[2] \in members'
  <2>1. PICK p \in Project, S \in SUBSET User :
           /\ S \subseteq members
           /\ Begin(h, [NoCall EXCEPT !.op = "replace", !.project = p, !.ask = {p} \X S],
                    "clear")
    BY <1>7 DEF handleSetProjectAccess, requireAllTeamMembers
  <2> DEFINE c == [NoCall EXCEPT !.op = "replace", !.project = p, !.ask = {p} \X S]
  <2>2. c.ask = {p} \X S /\ h \in Handler
    BY DEF NoCall, Handler
  <2> HIDE DEF c
  <2>3. call' = [call EXCEPT ![h] = c] /\ UNCHANGED members
    BY <2>1 DEF Begin, team, c
  <2>4. CASE g = h
    <3>1. call'[g] = c
      BY <2>3, <2>4 DEF IInv, TypeOK
    <3> QED
      BY <2>1, <2>2, <2>3, <3>1
  <2>5. CASE g # h
    <3>1. call'[g] = call[g]
      BY <2>3, <2>5
    <3> QED
      BY <1>2, <2>3, <3>1
  <2> QED
    BY <2>4, <2>5
<1>8. CASE \/ \E h \in Setters : handleSetMemberAccess(h)
           \/ \E h \in Removers : handleDeleteTeamMember(h)
  <2>1. PICK h \in Handler : \E c :
           c.op # "replace" /\ call' = [call EXCEPT ![h] = c] /\ UNCHANGED members
    <3>1. CASE \E h \in Setters : handleSetMemberAccess(h)
      <4>1. PICK h \in Setters, u \in User, all \in BOOLEAN, P \in SUBSET Project :
               Begin(h, [NoCall EXCEPT !.op = "set", !.user = u, !.all = all,
                                       !.ask = P \X {u}], "member")
        BY <3>1 DEF handleSetMemberAccess
      <4> QED
        BY <4>1 DEF Begin, team, NoCall, Handler
    <3>2. CASE \E h \in Removers : handleDeleteTeamMember(h)
      <4>1. PICK h \in Removers, u \in User :
               Begin(h, [NoCall EXCEPT !.op = "remove", !.user = u], "member")
        BY <3>2 DEF handleDeleteTeamMember
      <4> QED
        BY <4>1 DEF Begin, team, NoCall, Handler
    <3> QED
      BY <1>8, <3>1, <3>2
  <2> QED
    BY <1>6, <2>1
<1>9. ASSUME NEW h \in Handler, Fail(h)
      PROVE  r[2] \in members'
  BY <1>6, <1>9, NoCallShape DEF Fail, team
<1>10. ASSUME NEW h \in Handler,
              \/ UpdateMemberAllProjects(h) \/ DeleteTeamMember(h) \/ LockDeleted(h)
              \/ DeleteAllProjectAccess(h) \/ DeleteAllUserAccessInTeam(h) \/ Grant(h)
       PROVE  r[2] \in members'
  <2>1. CASE UNCHANGED <<members, call>>
    BY <1>2, <2>1
  <2>2. CASE LockDeleted(h)
    BY <1>1, <1>2, <2>2 DEF LockDeleted, Goto, team, Calls, IInv, TypeOK
  <2>3. CASE DeleteAllProjectAccess(h) \/ DeleteAllUserAccessInTeam(h)
    BY <1>1, <1>2, <2>3
       DEF DeleteAllProjectAccess, DeleteAllUserAccessInTeam, Goto, team, Calls, IInv, TypeOK
  <2>4. CASE Grant(h) /\ ~Fail(h)
    BY <1>1, <1>2, <2>4 DEF Grant, Goto, team, Calls, IInv, TypeOK
  <2> QED
    BY <1>9, <1>10, <2>1, <2>2, <2>3, <2>4
       DEF UpdateMemberAllProjects, DeleteTeamMember, Goto, team
<1>11. CASE AcceptInvitation \/ UNCHANGED vars
  BY <1>2, <1>11 DEF AcceptInvitation, vars, team
<1>12. CASE DeleteProject
  <2>1. PICK S : call'[g] = Forget(call[g], S) /\ UNCHANGED members
    BY <1>12 DEF DeleteProject
  <2> QED
    BY <1>1, <1>2, <2>1, ForgetKeeps
<1> QED
  BY <1>4, <1>5, <1>7, <1>8, <1>9, <1>10, <1>11, <1>12
     DEF Next, Abort, GrantProjectAccess, GrantUserProjectAccess

\* Every grant that a step adds was asked for by the call that commits, and only the
\* commit of a removal takes a member away.
LEMMA MemberTables ==
    ASSUME IInv, [Next]_vars
    PROVE  \/ grants' \subseteq grants /\ members \subseteq members'
           \/ \E h \in Handler : Commit(h) /\ call[h].op # "remove" /\ UNCHANGED members
           \/ \E h \in Handler :
                Commit(h) /\ call[h].op = "remove" /\ members' = members \ {call[h].user}
<1>1. CASE \E h \in Handler : ReplaceProjectAccess(h) \/ SetMemberProjectAccess(h)
                              \/ RemoveTeamMember(h)
  BY <1>1 DEF ReplaceProjectAccess, SetMemberProjectAccess, RemoveTeamMember
<1>2. CASE AcceptInvitation \/ DeleteProject
  BY <1>2 DEF AcceptInvitation, DeleteProject
<1>3. CASE UNCHANGED team
  BY <1>3 DEF team
<1> QED
  BY <1>1, <1>2, <1>3
     DEF Next, vars, handleSetProjectAccess, handleSetMemberAccess,
         handleDeleteTeamMember, Begin, UpdateMemberAllProjects, DeleteTeamMember,
         Goto, Fail, Abort, DeleteAllProjectAccess, DeleteAllUserAccessInTeam,
         LockDeleted, GrantProjectAccess, GrantUserProjectAccess, Grant

LEMMA RemovalInductive ==
    ASSUME RemovalInv, Uncrossed({"remove"}), [Next]_vars
    PROVE  RemovalInv'
<1> USE DEF RemovalInv
<1>1. {"remove"} \in SUBSET Ops
  BY DEF Ops
<1>2. IInv' /\ Cleared({"remove"})'
  BY <1>1, StepOK
<1>3. AskedAreMembers'
  BY AskedStay
<1>4. ASSUME NEW r \in grants' PROVE r[2] \in members'
  <2>1. CASE grants' \subseteq grants /\ members \subseteq members'
    BY <2>1 DEF GrantsOnlyForMembers
  <2>2. ASSUME NEW h \in Handler, Commit(h), call[h].op # "remove", UNCHANGED members
        PROVE  r[2] \in members'
    <3>1. /\ Shape(h, "commit", call[h]) /\ pc[h] = "commit"
          /\ grants' = (grants \ call[h].del) \cup call[h].ins
      BY <2>2, CommitChanges
    <3>2. CASE r \in grants
      BY <2>2, <3>2 DEF GrantsOnlyForMembers
    <3>3. CASE r \in call[h].ins /\ call[h].op = "replace"
      BY <2>2, <3>1, <3>3 DEF Shape, AskedAreMembers
    <3>4. CASE r \in call[h].ins /\ call[h].op = "set"
      <4>1. r[2] = call[h].user
        BY <3>1, <3>4 DEF Shape, Scope
      <4>2. call[h].user \in members
        BY <3>1, <3>4 DEF Shape, Writes, IInv, OneWriter
      <4> QED
        BY <2>2, <4>1, <4>2
    <3> QED
      BY <2>2, <3>1, <3>2, <3>3, <3>4 DEF Shape
  <2>3. ASSUME NEW h \in Handler, Commit(h), call[h].op = "remove",
               members' = members \ {call[h].user}
        PROVE  r[2] \in members'
    <3>1. Shape(h, "commit", call[h]) /\ Scope(call[h]) = Project \X {call[h].user}
      BY <2>3, CommitChanges DEF Scope
    <3>2. grants' \cap Scope(call[h]) = {}
      BY <1>1, <2>3, <3>1, CommitStoresAsk DEF Shape
    <3>3. r \in grants /\ r \in Project \X User
      BY <2>3, <3>1, CommitChanges DEF Shape, IInv, TypeOK
    <3>4. r[2] \in members
      BY <3>3 DEF GrantsOnlyForMembers
    <3> QED
      BY <2>3, <3>1, <3>2, <3>3, <3>4
  <2> QED
    BY <2>1, <2>2, <2>3, MemberTables
<1> QED
  BY <1>2, <1>3, <1>4 DEF GrantsOnlyForMembers

LEMMA RemovalInit == Init => RemovalInv
<1>1. {"remove"} \in SUBSET Ops
  BY DEF Ops
<1> QED
  BY <1>1, InitOK DEF RemovalInv

\* Grants end with the membership, whatever runs at once, unless a project's list
\* that names the member is written while the removal is under way.
THEOREM MembersTakeTheirGrants ==
    Spec /\ []Uncrossed({"remove"}) => []GrantsOnlyForMembers
<1>1. RemovalInv /\ Uncrossed({"remove"}) /\ [Next]_vars => RemovalInv'
  BY RemovalInductive
<1>2. RemovalInv => GrantsOnlyForMembers
  BY DEF RemovalInv
<1> QED
  BY <1>1, <1>2, RemovalInit, PTL DEF Spec

\* Where access is written from the member's side only, by any number of handlers,
\* nothing crosses a removal: the lock on the membership row keeps a list from being
\* written for somebody who has just been removed.
THEOREM MemberSideKeepsGrants == OneSideSpec => []MemberSideGrants
<1> DEFINE OthersIdle == \A h \in Handler \ acting : pc[h] = "idle"
           Side == acting \cap Replacers = {} => RemovalInv
           I == IInv /\ OthersIdle /\ Side
<1>1. OneSideInit => I
  <2> SUFFICES ASSUME OneSideInit PROVE I
    OBVIOUS
  <2>1. RemovalInv
    BY RemovalInit DEF OneSideInit
  <2>2. OthersIdle
    BY DEF OneSideInit, Init
  <2> QED
    BY <2>1, <2>2 DEF RemovalInv
<1>2. I /\ [OneSideNext]_<<vars, acting>> => I'
  <2> SUFFICES ASSUME I, [OneSideNext]_<<vars, acting>> PROVE I'
    OBVIOUS
  <2>1. [Next]_vars /\ acting' = acting
    BY DEF OneSideNext
  <2>2. IInv'
    BY <2>1, Inductive
  <2>3. OthersIdle'
    BY <2>1 DEF OneSideNext, vars
  <2>4. ASSUME acting \cap Replacers = {} PROVE RemovalInv'
    <3>1. ASSUME NEW h \in Handler PROVE call[h].op # "replace"
      <4>1. Shape(h, pc[h], call[h])
        BY DEF IInv, CallShape
      <4>2. CASE h \in Replacers
        BY <2>4, <4>1, <4>2, NoCallShape DEF Shape
      <4>3. CASE h \notin Replacers
        BY <4>1, <4>3 DEF Shape
      <4> QED
        BY <4>2, <4>3
    <3>2. Uncrossed({"remove"})
      BY <3>1 DEF Uncrossed, Crosses
    <3> QED
      BY <2>1, <2>4, <3>2, RemovalInductive
  <2> QED
    BY <2>1, <2>2, <2>3, <2>4
<1>3. I => MemberSideGrants
  BY DEF RemovalInv, MemberSideGrants
<1> QED
  BY <1>1, <1>2, <1>3, PTL DEF OneSideSpec
=============================================================================
