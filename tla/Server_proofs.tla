---------------------------- MODULE Server_proofs ----------------------------
(***************************************************************************)
(* The server process and its sessions, for any numbers of accounts,       *)
(* tokens, requests and restarts: the pool outlives the cleanup, a         *)
(* shutdown that reports success has cut nothing off, a token works as     *)
(* long as promised and not after its logout was answered.  Then the tool  *)
(* that replaces the binary, for any numbers of files and uploads.         *)
(***************************************************************************)
EXTENDS MCServer, TLAPS

USE ServerAssumption

LEMMA NoCallType == NoCall \in Calls
  BY DEF NoCall, Calls

-----------------------------------------------------------------------------
(* Types.                                                                  *)

LEMMA InitType == Init => TypeOK
<1> SUFFICES ASSUME Init PROVE TypeOK
  OBVIOUS
<1>1. /\ 0 \in 0 .. MaxTime /\ 0 \in 0 .. MaxTime + SessionTTL /\ 0 \in 0 .. MaxStarts
  OBVIOUS
<1>2. /\ expires \in [Token -> 0 .. MaxTime + SessionTTL]
      /\ promised \in [Token -> 0 .. MaxTime + SessionTTL]
      /\ \A t \in Token : expires[t] # 0 => t \in answered
  BY <1>1 DEF Init
<1>3. call \in [Request -> Calls]
  BY NoCallType DEF Init
<1> QED
  BY <1>1, <1>2, <1>3 DEF Init, TypeOK

LEMMA TickType == TypeOK /\ Tick => TypeOK'
  BY DEF Tick, TypeOK, process

\* The main goroutine and the listener.
LEMMA MainType ==
    ASSUME TypeOK,
           Start \/ Signal \/ NewPool \/ MigrateUp \/ ListenerFails \/ serve \/ Shutdown
             \/ stopCleanup \/ cleanupDone \/ Exit
    PROVE  TypeOK'
<1>1. CASE Start
  BY <1>1 DEF Start, TypeOK, data
<1>2. CASE Signal \/ ListenerFails
  <2>1. CASE Signal
    BY <2>1 DEF Signal, TypeOK, data
  <2>2. CASE ListenerFails
    BY <2>2 DEF ListenerFails, TypeOK, data
  <2> QED
    BY <1>2, <2>1, <2>2
<1>3. CASE NewPool \/ MigrateUp
  BY <1>3 DEF NewPool, MigrateUp, Main, TypeOK, data
<1>4. CASE serve \/ stopCleanup \/ cleanupDone
  BY <1>4 DEF serve, Broken, stopCleanup, cleanupDone, Main, TypeOK, data
<1>5. CASE Shutdown
  BY <1>5 DEF Shutdown, Main, TypeOK, data
<1>6. CASE Exit
  BY <1>6, NoCallType DEF Exit, TypeOK, data
<1> QED
  BY <1>1, <1>2, <1>3, <1>4, <1>5, <1>6

LEMMA CleanupType ==
    ASSUME TypeOK, SweepDue \/ DeleteExpiredSessions \/ SweepFails \/ CleanupReturns
    PROVE  TypeOK'
<1>1. CASE SweepDue \/ SweepFails \/ CleanupReturns
  BY <1>1 DEF SweepDue, SweepFails, CleanupReturns, Acquire, Release, TypeOK, data, process
<1>2. CASE DeleteExpiredSessions
  BY <1>2 DEF DeleteExpiredSessions, Release, TypeOK, process
<1> QED
  BY <1>1, <1>2

\* A request begins.
LEMMA BeginType ==
    ASSUME TypeOK, NEW r \in Request,
           NEW l \in {"CreateUser", "GetUserByEmail", "GetSession"}, NEW c \in Calls,
           Begin(r, l, c)
    PROVE  TypeOK'
  BY DEF Begin, TypeOK, data, process

LEMMA RequestType ==
    ASSUME TypeOK, NEW r \in Request, handleRegister(r) \/ handleLogin(r) \/ requireAuth(r)
    PROVE  TypeOK'
<1>1. CASE handleRegister(r) \/ handleLogin(r)
  <2>1. PICK e \in Email, l \in {"CreateUser", "GetUserByEmail"} :
           Begin(r, l, [NoCall EXCEPT !.email = {e}])
    BY <1>1 DEF handleRegister, handleLogin
  <2>2. [NoCall EXCEPT !.email = {e}] \in Calls
    <3>1. {e} \in {{x} : x \in Email} \cup {{}}
      OBVIOUS
    <3> QED
      BY <3>1, NoCallType DEF NoCall, Calls
  <2> QED
    BY <2>1, <2>2, BeginType
<1>2. CASE requireAuth(r)
  <2>1. PICK t \in Token, b \in BOOLEAN :
           Begin(r, "GetSession", [NoCall EXCEPT !.token = {t}, !.late = b])
    BY <1>2 DEF requireAuth, TypeOK
  <2>2. [NoCall EXCEPT !.token = {t}, !.late = b] \in Calls
    <3>1. {t} \in {{x} : x \in Token} \cup {{}}
      OBVIOUS
    <3> QED
      BY <3>1, NoCallType DEF NoCall, Calls
  <2> QED
    BY <2>1, <2>2, BeginType
<1> QED
  BY <1>1, <1>2

\* What issuing a session adds to a call.
LEMMA IssueType ==
    ASSUME TypeOK, NEW r \in Request, issueSession(r)
    PROVE  /\ pc' = [pc EXCEPT ![r] = "CreateSession"]
           /\ call' \in [Request -> Calls]
<1>1. call[r] \in Calls /\ now + SessionTTL \in 0 .. MaxTime + SessionTTL
  BY DEF TypeOK
<1>2. [call[r] EXCEPT !.until = now + SessionTTL] \in Calls
  BY <1>1 DEF Calls
<1> QED
  BY <1>2 DEF issueSession, TypeOK

LEMMA EndType ==
    ASSUME TypeOK, NEW r \in Request, End(r)
    PROVE  /\ pc' = [pc EXCEPT ![r] = "idle"]
           /\ call' \in [Request -> Calls]
  BY NoCallType DEF End, TypeOK

\* The new session's token has never been handed out.
LEMMA CreateSessionFacts ==
    ASSUME TypeOK, NEW r \in Request, CreateSession(r)
    PROVE  \E t \in Token \ answered :
              /\ expires' = [expires EXCEPT ![t] = call[r].until]
              /\ promised' = [promised EXCEPT ![t] = call[r].until]
              /\ answered' = answered \cup {t}
<1> DEFINE t == CHOOSE u \in Token \ answered : TRUE
<1>1. t \in Token \ answered
  BY DEF CreateSession, TypeOK
<1> QED
  BY <1>1 DEF CreateSession

LEMMA ServeType ==
    ASSUME TypeOK, NEW r \in Request, Serve(r)
    PROVE  TypeOK'
<1>1. CASE TakeConnection(r)
  BY <1>1, EndType DEF TakeConnection, Acquire, TypeOK, data, process
<1>2. CASE StatementFails(r)
  BY <1>2, EndType DEF StatementFails, Release, TypeOK, data, process
<1>3. CASE CreateUser(r)
  <2>1. users' \subseteq Email
    BY <1>3 DEF CreateUser, TypeOK, Calls
  <2>2. /\ pc' \in [Request -> {"idle", "CreateUser", "GetUserByEmail", "CreateSession",
                               "GetSession", "next", "DeleteSession"}]
        /\ call' \in [Request -> Calls]
    BY <1>3, EndType, IssueType DEF CreateUser, TypeOK
  <2> QED
    BY <1>3, <2>1, <2>2 DEF CreateUser, Release, TypeOK, process
<1>4. CASE GetUserByEmail(r)
  BY <1>4, EndType, IssueType DEF GetUserByEmail, Release, TypeOK, data, process
<1>5. CASE CreateSession(r)
  <2>1. PICK t \in Token \ answered :
           /\ expires' = [expires EXCEPT ![t] = call[r].until]
           /\ promised' = [promised EXCEPT ![t] = call[r].until]
           /\ answered' = answered \cup {t}
    BY <1>5, CreateSessionFacts
  <2>2. call[r].until \in 0 .. MaxTime + SessionTTL
    BY DEF TypeOK, Calls
  <2> QED
    BY <1>5, <2>1, <2>2, EndType DEF CreateSession, Release, TypeOK, process
<1>6. CASE GetSessionByTokenHash(r)
  BY <1>6, EndType DEF GetSessionByTokenHash, Release, TypeOK, data, process
<1>7. CASE handleMe(r)
  BY <1>7, EndType DEF handleMe, TypeOK, data, process
<1>8. CASE handleLogout(r)
  BY <1>8 DEF handleLogout, TypeOK, data, process
<1>9. CASE DeleteSession(r)
  BY <1>9, EndType DEF DeleteSession, Release, TypeOK, process
<1> QED
  BY <1>1, <1>2, <1>3, <1>4, <1>5, <1>6, <1>7, <1>8, <1>9 DEF Serve

LEMMA StepType == TypeOK /\ [Next]_vars => TypeOK'
<1> SUFFICES ASSUME TypeOK, [Next]_vars PROVE TypeOK'
  OBVIOUS
<1>1. CASE UNCHANGED vars
  BY <1>1 DEF TypeOK, vars, data, process
<1> QED
  BY <1>1, TickType, MainType, CleanupType, RequestType, ServeType DEF Next, Run

-----------------------------------------------------------------------------
(* The process.                                                            *)

LEMMA InitProcess == Init => ProcessInv
  BY InitType DEF Init, ProcessInv, Phases, StaysDrained

\* A step of the main goroutine.
LEMMA MainProcess ==
    ASSUME ProcessInv,
           Start \/ Signal \/ NewPool \/ MigrateUp \/ ListenerFails \/ serve \/ Shutdown
             \/ stopCleanup \/ cleanupDone \/ Exit
    PROVE  Phases' /\ StaysDrained'
<1> USE DEF ProcessInv, TypeOK, Phases, StaysDrained, Main
<1>1. CASE Start \/ Signal \/ ListenerFails
  BY <1>1 DEF Start, Signal, ListenerFails
<1>2. CASE NewPool
  BY <1>2 DEF NewPool
<1>3. CASE MigrateUp
  BY <1>3 DEF MigrateUp
<1>4. CASE serve
  BY <1>4 DEF serve
<1>5. CASE Shutdown
  BY <1>5 DEF Shutdown
<1>6. CASE stopCleanup \/ cleanupDone
  BY <1>6 DEF stopCleanup, cleanupDone
<1>7. CASE Exit
  BY <1>7 DEF Exit
<1> QED
  BY <1>1, <1>2, <1>3, <1>4, <1>5, <1>6, <1>7

\* The cleanup goroutine leaves the process and the requests alone.
LEMMA CleanupProcess ==
    ASSUME ProcessInv,
           SweepDue \/ DeleteExpiredSessions \/ SweepFails \/ CleanupReturns
    PROVE  Phases' /\ StaysDrained'
<1>1. /\ UNCHANGED <<phase, drained, pool, pc>>
      /\ cleanup # "none" /\ (cleanup = "done" => UNCHANGED cleanup)
  BY DEF SweepDue, DeleteExpiredSessions, SweepFails, CleanupReturns, process
<1>2. cleanup \in {"none", "done"} => FALSE \/ UNCHANGED cleanup
  BY <1>1
<1> QED
  BY <1>1, <1>2 DEF ProcessInv, Phases, StaysDrained

\* Requests begin only while the process serves, and those under way are not idle.
LEMMA RequestProcess ==
    ASSUME ProcessInv, NEW r \in Request,
           handleRegister(r) \/ handleLogin(r) \/ requireAuth(r) \/ Serve(r)
    PROVE  Phases' /\ StaysDrained'
<1>1. UNCHANGED <<process, cleanup, pool>>
  BY DEF handleRegister, handleLogin, requireAuth, Begin, Serve, TakeConnection, CreateUser,
         GetUserByEmail, CreateSession, GetSessionByTokenHash, handleMe, handleLogout,
         DeleteSession, StatementFails
<1>2. drained => pc[r] # "idle" \/ pc' = [pc EXCEPT ![r] = "idle"]
  BY DEF handleRegister, handleLogin, requireAuth, Begin, Serve, TakeConnection, CreateUser,
         GetUserByEmail, CreateSession, GetSessionByTokenHash, handleMe, handleLogout,
         DeleteSession, StatementFails, End, ProcessInv, StaysDrained
<1>3. StaysDrained'
  BY <1>1, <1>2 DEF ProcessInv, StaysDrained, TypeOK, process
<1> QED
  BY <1>1, <1>3 DEF ProcessInv, Phases, process

LEMMA StepProcess == ProcessInv /\ [Next]_vars => ProcessInv'
<1> SUFFICES ASSUME ProcessInv, [Next]_vars PROVE ProcessInv'
  OBVIOUS
<1>1. TypeOK'
  BY StepType DEF ProcessInv
<1>2. CASE Tick
  BY <1>1, <1>2 DEF Tick, ProcessInv, Phases, StaysDrained, process
<1>3. CASE UNCHANGED vars
  BY <1>1, <1>3 DEF vars, ProcessInv, Phases, StaysDrained, process
<1> QED
  BY <1>1, <1>2, <1>3, MainProcess, CleanupProcess, RequestProcess DEF Next, Run, ProcessInv

\* The pool is closed only after the cleanup goroutine has ended, whatever made the
\* server stop and whenever.
THEOREM PoolClosesLast == Spec => []PoolOutlivesCleanup
<1>1. ProcessInv => PoolOutlivesCleanup
  BY DEF ProcessInv, TypeOK, Phases, PoolOutlivesCleanup
<1> QED
  BY <1>1, InitProcess, StepProcess, PTL DEF Spec

\* A shutdown that reports success has cut no request off.
THEOREM DrainingIsComplete == Spec => []GracefulCutsNothing
<1>1. ProcessInv => GracefulCutsNothing
  BY DEF ProcessInv, StaysDrained, GracefulCutsNothing
<1> QED
  BY <1>1, InitProcess, StepProcess, PTL DEF Spec

-----------------------------------------------------------------------------
(* Sessions.                                                               *)

LEMMA InitSession == Init => SessionInv
<1> SUFFICES ASSUME Init PROVE SessionInv
  OBVIOUS
<1>1. RowsArePromises /\ TokensWork
  BY DEF Init, RowsArePromises, TokensWork
<1>2. LateCalls /\ LoggedOutStaysOut
  BY DEF Init, LateCalls, LoggedOutStaysOut, NoCall
<1> QED
  BY <1>1, <1>2, InitType DEF SessionInv

\* A step that leaves time and sessions alone, and only ends requests.
LEMMA QuietSession ==
    ASSUME SessionInv, TypeOK',
           UNCHANGED <<expires, promised, answered>>,
           now' = now \/ now' = now + 1,
           \A r \in Request : \/ pc'[r] = pc[r] /\ call'[r] = call[r]
                              \/ pc'[r] = "idle" /\ call'[r] = NoCall
    PROVE  SessionInv'
<1>1. RowsArePromises' /\ TokensWork'
  BY DEF SessionInv, RowsArePromises, TokensWork, TypeOK
<1>2. LateCalls'
  <2> SUFFICES ASSUME NEW r \in Request
               PROVE  /\ call'[r].late =>
                            \A t \in call'[r].token : t \in answered /\ promised[t] = 0
                      /\ pc'[r] = "GetSession" => call'[r].token # {}
    BY DEF LateCalls
  <2> QED
    BY DEF SessionInv, LateCalls, NoCall
<1>3. LoggedOutStaysOut'
  BY DEF SessionInv, LoggedOutStaysOut
<1> QED
  BY <1>1, <1>2, <1>3 DEF SessionInv

\* What is gone from the table was good for nobody.
LEMMA SweepSession ==
    ASSUME SessionInv, TypeOK', DeleteExpiredSessions
    PROVE  SessionInv'
<1>1. /\ UNCHANGED <<now, promised, answered, pc, call>>
      /\ \A t \in Token : expires'[t] = IF expires[t] <= now THEN 0 ELSE expires[t]
  BY DEF DeleteExpiredSessions, Expired
<1>2. RowsArePromises' /\ TokensWork'
  BY <1>1 DEF SessionInv, RowsArePromises, TokensWork, TypeOK
<1> QED
  BY <1>1, <1>2 DEF SessionInv, LateCalls, LoggedOutStaysOut

\* A request moves on, or begins, with sessions as they are.
LEMMA MoveSession ==
    ASSUME SessionInv, TypeOK', NEW r \in Request,
           UNCHANGED <<now, expires, promised, answered>>,
           \A q \in Request \ {r} : pc'[q] = pc[q] /\ call'[q] = call[q],
           call'[r].late => \A t \in call'[r].token : t \in answered /\ promised[t] = 0,
           pc'[r] = "GetSession" => call'[r].token # {},
           pc'[r] = "next" => ~call'[r].late
    PROVE  SessionInv'
<1>1. RowsArePromises' /\ TokensWork'
  BY DEF SessionInv, RowsArePromises, TokensWork
<1>2. LateCalls' /\ LoggedOutStaysOut'
  BY DEF SessionInv, LateCalls, LoggedOutStaysOut
<1> QED
  BY <1>1, <1>2 DEF SessionInv

LEMMA BeginSession ==
    ASSUME SessionInv, TypeOK', NEW r \in Request,
           handleRegister(r) \/ handleLogin(r) \/ requireAuth(r)
    PROVE  SessionInv'
<1>1. CASE handleRegister(r) \/ handleLogin(r)
  <2>1. PICK e \in Email, l \in {"CreateUser", "GetUserByEmail"} :
           Begin(r, l, [NoCall EXCEPT !.email = {e}])
    BY <1>1 DEF handleRegister, handleLogin
  <2>2. /\ pc'[r] = l /\ call'[r].late = FALSE
        /\ \A q \in Request \ {r} : pc'[q] = pc[q] /\ call'[q] = call[q]
        /\ UNCHANGED <<now, expires, promised, answered>>
    BY <2>1 DEF Begin, NoCall, SessionInv, TypeOK, data
  <2> QED
    BY <2>2, MoveSession
<1>2. CASE requireAuth(r)
  <2>1. PICK t \in answered :
           Begin(r, "GetSession", [NoCall EXCEPT !.token = {t}, !.late = promised[t] = 0])
    BY <1>2 DEF requireAuth
  <2>2. /\ pc'[r] = "GetSession" /\ call'[r].late = (promised[t] = 0)
        /\ call'[r].token = {t}
        /\ \A q \in Request \ {r} : pc'[q] = pc[q] /\ call'[q] = call[q]
        /\ UNCHANGED <<now, expires, promised, answered>>
    BY <2>1 DEF Begin, NoCall, SessionInv, TypeOK, data
  <2> QED
    BY <2>2, MoveSession
<1> QED
  BY <1>1, <1>2

\* A call draws the expiry of a session; the token it came with does not change.
LEMMA IssueSession ==
    ASSUME SessionInv, TypeOK', NEW r \in Request, issueSession(r),
           UNCHANGED <<now, expires, promised, answered>>
    PROVE  SessionInv'
<1>1. call[r] \in Calls
  BY DEF SessionInv, TypeOK
<1>2. /\ pc'[r] = "CreateSession"
      /\ call'[r].late = call[r].late /\ call'[r].token = call[r].token
      /\ \A q \in Request \ {r} : pc'[q] = pc[q] /\ call'[q] = call[q]
  BY <1>1 DEF issueSession, SessionInv, TypeOK, Calls
<1> QED
  BY <1>2, MoveSession DEF SessionInv, LateCalls

LEMMA EndQuiet ==
    ASSUME SessionInv, NEW r \in Request, End(r)
    PROVE  \A q \in Request : \/ q # r /\ pc'[q] = pc[q] /\ call'[q] = call[q]
                              \/ q = r /\ pc'[q] = "idle" /\ call'[q] = NoCall
  BY DEF End, SessionInv, TypeOK

LEMMA ServeSession ==
    ASSUME SessionInv, TypeOK', NEW r \in Request, Serve(r)
    PROVE  SessionInv'
<1>1. CASE TakeConnection(r)
  <2>1. UNCHANGED <<now, expires, promised, answered>>
    BY <1>1 DEF TakeConnection, data
  <2>2. UNCHANGED <<pc, call>> \/ End(r)
    BY <1>1 DEF TakeConnection
  <2> QED
    BY <2>1, <2>2, EndQuiet, QuietSession
<1>2. CASE StatementFails(r) \/ handleMe(r)
  <2>1. UNCHANGED <<now, expires, promised, answered>> /\ End(r)
    BY <1>2 DEF StatementFails, handleMe, data
  <2> QED
    BY <2>1, EndQuiet, QuietSession
<1>3. CASE CreateUser(r) \/ GetUserByEmail(r)
  <2>1. /\ UNCHANGED <<now, expires, promised, answered>>
        /\ issueSession(r) \/ End(r)
    BY <1>3 DEF CreateUser, GetUserByEmail, data
  <2> QED
    BY <2>1, IssueSession, EndQuiet, QuietSession
<1>4. CASE CreateSession(r)
  <2>1. PICK t \in Token \ answered :
           /\ expires' = [expires EXCEPT ![t] = call[r].until]
           /\ promised' = [promised EXCEPT ![t] = call[r].until]
           /\ answered' = answered \cup {t}
    BY <1>4, CreateSessionFacts DEF SessionInv
  <2>2. now' = now /\ End(r)
    BY <1>4 DEF CreateSession
  <2>3. RowsArePromises' /\ TokensWork'
    BY <2>1, <2>2 DEF SessionInv, RowsArePromises, TokensWork, TypeOK
  <2>4. LateCalls'
    <3> SUFFICES ASSUME NEW q \in Request
                 PROVE  /\ call'[q].late =>
                              \A u \in call'[q].token : u \in answered' /\ promised'[u] = 0
                        /\ pc'[q] = "GetSession" => call'[q].token # {}
      BY DEF LateCalls
    <3>1. CASE q = r
      BY <2>2, <3>1, EndQuiet DEF NoCall
    <3>2. CASE q # r
      <4>1. call'[q] = call[q] /\ pc'[q] = pc[q]
        BY <2>2, <3>2, EndQuiet
      <4>2. ASSUME call[q].late, NEW u \in call[q].token
            PROVE  u \in answered' /\ promised'[u] = 0
        <5>1. u \in answered /\ promised[u] = 0
          BY <4>2 DEF SessionInv, LateCalls
        <5> QED
          BY <2>1, <5>1 DEF SessionInv, TypeOK
      <4> QED
        BY <4>1, <4>2 DEF SessionInv, LateCalls
    <3> QED
      BY <3>1, <3>2
  <2>5. LoggedOutStaysOut'
    BY <2>2, EndQuiet DEF SessionInv, LoggedOutStaysOut
  <2> QED
    BY <2>3, <2>4, <2>5 DEF SessionInv
<1>5. CASE GetSessionByTokenHash(r)
  <2>1. UNCHANGED <<now, expires, promised, answered>> /\ pc[r] = "GetSession"
    BY <1>5 DEF GetSessionByTokenHash, data
  <2>2. CASE End(r)
    BY <2>1, <2>2, EndQuiet, QuietSession
  <2>3. CASE /\ \A t \in call[r].token : Good(t)
             /\ pc' = [pc EXCEPT ![r] = "next"] /\ UNCHANGED call
    <3>1. PICK t \in call[r].token : Good(t)
      BY <2>1, <2>3 DEF SessionInv, LateCalls
    <3>2. ~call[r].late
      <4> SUFFICES ASSUME call[r].late PROVE FALSE
        OBVIOUS
      <4>1. t \in Token /\ promised[t] = 0
        BY DEF SessionInv, LateCalls, TypeOK
      <4> QED
        BY <3>1, <4>1 DEF Good, SessionInv, RowsArePromises, TypeOK
    <3>3. pc'[r] = "next" /\ \A q \in Request \ {r} : pc'[q] = pc[q]
      BY <2>3 DEF SessionInv, TypeOK
    <3> QED
      BY <2>1, <2>3, <3>2, <3>3, MoveSession
  <2> QED
    BY <1>5, <2>2, <2>3 DEF GetSessionByTokenHash
<1>6. CASE handleLogout(r)
  <2>1. /\ UNCHANGED <<now, expires, promised, answered, call>>
        /\ pc'[r] = "DeleteSession" /\ \A q \in Request \ {r} : pc'[q] = pc[q]
    BY <1>6 DEF handleLogout, data, SessionInv, TypeOK
  <2> QED
    BY <2>1, MoveSession DEF SessionInv, LateCalls
<1>7. CASE DeleteSession(r)
  <2>1. /\ UNCHANGED <<now, answered>> /\ End(r)
        /\ \A t \in Token : IF t \in call[r].token
                           THEN expires'[t] = 0 /\ promised'[t] = 0
                           ELSE expires'[t] = expires[t] /\ promised'[t] = promised[t]
    BY <1>7 DEF DeleteSession
  <2>2. RowsArePromises' /\ TokensWork'
    BY <2>1 DEF SessionInv, RowsArePromises, TokensWork, TypeOK
  <2>3. LateCalls'
    <3> SUFFICES ASSUME NEW q \in Request
                 PROVE  /\ call'[q].late =>
                              \A u \in call'[q].token : u \in answered /\ promised'[u] = 0
                        /\ pc'[q] = "GetSession" => call'[q].token # {}
      BY <2>1 DEF LateCalls
    <3>1. CASE q = r
      BY <2>1, <3>1, EndQuiet DEF NoCall
    <3>2. CASE q # r
      <4>1. call'[q] = call[q] /\ pc'[q] = pc[q]
        BY <2>1, <3>2, EndQuiet
      <4>2. ASSUME call[q].late, NEW u \in call[q].token
            PROVE  u \in answered /\ promised'[u] = 0
        <5>1. u \in answered /\ promised[u] = 0
          BY <4>2 DEF SessionInv, LateCalls
        <5>2. u \in Token
          BY <5>1 DEF SessionInv, TypeOK
        <5> QED
          BY <2>1, <5>1, <5>2
      <4> QED
        BY <4>1, <4>2 DEF SessionInv, LateCalls
    <3> QED
      BY <3>1, <3>2
  <2>4. LoggedOutStaysOut'
    BY <2>1, EndQuiet DEF SessionInv, LoggedOutStaysOut
  <2> QED
    BY <2>2, <2>3, <2>4 DEF SessionInv
<1> QED
  BY <1>1, <1>2, <1>3, <1>4, <1>5, <1>6, <1>7 DEF Serve

LEMMA StepSession == SessionInv /\ [Next]_vars => SessionInv'
<1> SUFFICES ASSUME SessionInv, [Next]_vars PROVE SessionInv'
  OBVIOUS
<1>1. TypeOK'
  BY StepType DEF SessionInv
<1>2. CASE Tick \/ UNCHANGED vars
  BY <1>1, <1>2, QuietSession DEF Tick, vars, data
<1>3. CASE Start \/ Signal \/ ListenerFails \/ Run \/ SweepDue \/ SweepFails \/ CleanupReturns
  <2>1. UNCHANGED <<now, expires, promised, answered>>
    BY <1>3 DEF Start, Signal, ListenerFails, Run, NewPool, MigrateUp, serve, Shutdown,
                stopCleanup, cleanupDone, Exit, Main, SweepDue, SweepFails, CleanupReturns,
                data
  <2>2. \A r \in Request : \/ pc'[r] = pc[r] /\ call'[r] = call[r]
                           \/ pc'[r] = "idle" /\ call'[r] = NoCall
    BY <1>3 DEF Start, Signal, ListenerFails, Run, NewPool, MigrateUp, serve, Shutdown,
                stopCleanup, cleanupDone, Exit, Main, SweepDue, SweepFails, CleanupReturns
  <2> QED
    BY <1>1, <2>1, <2>2, QuietSession
<1> QED
  BY <1>1, <1>2, <1>3, SweepSession, BeginSession, ServeSession DEF Next

LEMMA SessionInvariance == Spec => []SessionInv
  BY InitSession, StepSession, PTL DEF Spec

\* The process, its goroutines and the sessions keep their types.
THEOREM ServerTypes == Spec => []TypeOK
  BY InitType, StepType, PTL DEF Spec

\* No sweep, restart or other request ends a session before the time that was promised.
THEOREM SessionsLast == Spec => []TokensWork
<1>1. SessionInv => TokensWork
  BY DEF SessionInv
<1> QED
  BY <1>1, SessionInvariance, PTL

\* A request that comes after the answer to a logout is refused.
THEOREM LogoutIsFinal == Spec => []LoggedOutStaysOut
<1>1. SessionInv => LoggedOutStaysOut
  BY DEF SessionInv
<1> QED
  BY <1>1, SessionInvariance, PTL

-----------------------------------------------------------------------------
(* The upload tool.                                                        *)

Blocks == (Uploader \cup {Lost}) \X (Uploader \cup {Lost})

LEMMA UploadInit == Tool!Init => Tool!IInv
<1> SUFFICES ASSUME Tool!Init PROVE Tool!IInv
  OBVIOUS
<1>1. Tool!TypeOK
  <2>1. content \in [File -> Blocks]
    BY DEF Tool!Init, Tool!NoBlocks, Blocks
  <2>2. MaxUploads \in 0 .. MaxUploads
    BY ToolAssumption
  <2> QED
    BY <2>1, <2>2 DEF Tool!Init, Tool!TypeOK, Blocks
<1>2. Tool!OneAtATime /\ Tool!TempIsOwn /\ Tool!LiveIsWhole
  BY DEF Tool!Init, Tool!OneAtATime, Tool!TempIsOwn, Tool!LiveIsWhole
<1> QED
  BY <1>1, <1>2 DEF Tool!IInv

\* The service, and an upload that begins or breaks off, touch no file.
LEMMA UploadKeepsFiles ==
    ASSUME Tool!IInv, UNCHANGED <<content, live, temp, checked>>,
           running' \in File \cup {NoFile}, overlap' \in BOOLEAN,
           uploads' \in 0 .. MaxUploads, overlap => overlap',
           Tool!OneAtATime',
           uploadPc' \in [Uploader -> {"idle", "open", "block1", "block2", "verify", "rm",
                                       "install"}],
           fd' \in [Uploader -> File \cup {NoFile}],
           \A u \in Uploader :
              /\ fd'[u] # NoFile <=> uploadPc'[u] \in {"block1", "block2"}
              /\ fd'[u] \in {fd[u], NoFile}
              /\ uploadPc'[u] = "install" =>
                    \/ uploadPc[u] = "install"
                    \/ checked => temp # NoFile /\ content[temp] = <<u, u>>
    PROVE  Tool!IInv'
<1>1. Tool!TypeOK'
  BY DEF Tool!IInv, Tool!TypeOK
<1>2. Tool!TempIsOwn'
  BY DEF Tool!IInv, Tool!TempIsOwn
<1>3. Tool!LiveIsWhole'
  BY DEF Tool!IInv, Tool!LiveIsWhole, Tool!Whole
<1> QED
  BY <1>1, <1>2, <1>3 DEF Tool!IInv

LEMMA UploadBegins ==
    ASSUME Tool!IInv, NEW u \in Uploader, Tool!run(u)
    PROVE  Tool!IInv'
<1>1. Tool!OneAtATime'
  BY DEF Tool!run, Tool!Goto, Tool!IInv, Tool!TypeOK, Tool!OneAtATime
<1>2. \A v \in Uploader :
         /\ fd'[v] # NoFile <=> uploadPc'[v] \in {"block1", "block2"}
         /\ fd'[v] \in {fd[v], NoFile}
         /\ uploadPc'[v] = "install" => uploadPc[v] = "install"
  BY DEF Tool!run, Tool!Goto, Tool!IInv, Tool!TypeOK, Tool!TempIsOwn
<1>3. /\ UNCHANGED <<content, live, temp, checked, running, fd>>
      /\ uploads' \in 0 .. MaxUploads /\ overlap' \in BOOLEAN /\ (overlap => overlap')
      /\ uploadPc' \in [Uploader -> {"idle", "open", "block1", "block2", "verify", "rm",
                                     "install"}]
  BY ToolAssumption DEF Tool!run, Tool!files, Tool!Goto, Tool!IInv, Tool!TypeOK
<1> QED
  BY <1>1, <1>2, <1>3, UploadKeepsFiles DEF Tool!IInv, Tool!TypeOK

LEMMA UploadCloses ==
    ASSUME Tool!IInv, NEW u \in Uploader, Tool!Close(u)
    PROVE  /\ uploadPc' \in [Uploader -> {"idle", "open", "block1", "block2", "verify", "rm",
                                          "install"}]
           /\ fd' \in [Uploader -> File \cup {NoFile}]
           /\ uploadPc'[u] = "idle" /\ fd'[u] = NoFile
           /\ \A v \in Uploader \ {u} : uploadPc'[v] = uploadPc[v] /\ fd'[v] = fd[v]
  BY DEF Tool!Close, Tool!Goto, Tool!IInv, Tool!TypeOK

LEMMA UploadBreaks ==
    ASSUME Tool!IInv, NEW u \in Uploader, Tool!Close(u),
           UNCHANGED <<content, live, temp, running, checked, overlap, uploads>>
    PROVE  Tool!IInv'
<1>1. Tool!OneAtATime'
  BY UploadCloses DEF Tool!IInv, Tool!OneAtATime
<1>2. \A v \in Uploader :
         /\ fd'[v] # NoFile <=> uploadPc'[v] \in {"block1", "block2"}
         /\ fd'[v] \in {fd[v], NoFile}
         /\ uploadPc'[v] = "install" => uploadPc[v] = "install"
  BY UploadCloses DEF Tool!IInv, Tool!TempIsOwn
<1> QED
  BY <1>1, <1>2, UploadCloses, UploadKeepsFiles DEF Tool!IInv, Tool!TypeOK

LEMMA UploadOpens ==
    ASSUME Tool!IInv, NEW u \in Uploader, Tool!scpOpen(u)
    PROVE  Tool!IInv'
<1> DEFINE f == IF temp # NoFile THEN temp ELSE CHOOSE g \in Tool!Free : TRUE
<1>1. /\ temp' = f /\ fd' = [fd EXCEPT ![u] = f]
      /\ content' = IF temp # NoFile THEN content
                    ELSE [content EXCEPT ![f] = <<Lost, Lost>>]
      /\ uploadPc' = [uploadPc EXCEPT ![u] = "block1"] /\ uploadPc[u] = "open"
      /\ UNCHANGED <<live, running, checked, overlap, uploads>>
      /\ temp # NoFile \/ Tool!Free # {}
  BY DEF Tool!scpOpen, Tool!Goto, Tool!NoBlocks
<1>2. f \in File /\ (temp # NoFile => f = temp) /\ (live # NoFile => f # live)
  BY <1>1 DEF Tool!Free, Tool!IInv, Tool!TypeOK
<1> HIDE DEF f
<1>3. Tool!TypeOK'
  <2>1. content' \in [File -> Blocks]
    BY <1>1, <1>2 DEF Tool!IInv, Tool!TypeOK, Blocks
  <2> QED
    BY <1>1, <1>2, <2>1, ToolAssumption DEF Tool!IInv, Tool!TypeOK, Blocks
<1>4. Tool!OneAtATime'
  BY <1>1 DEF Tool!IInv, Tool!TypeOK, Tool!OneAtATime
<1>5. Tool!TempIsOwn'
  BY <1>1, <1>2, ToolAssumption
     DEF Tool!IInv, Tool!TypeOK, Tool!OneAtATime, Tool!TempIsOwn
<1>6. Tool!LiveIsWhole'
  <2>1. live # NoFile => content'[live] = content[live]
    BY <1>1, <1>2 DEF Tool!IInv, Tool!TypeOK
  <2> QED
    BY <1>1, <2>1 DEF Tool!IInv, Tool!LiveIsWhole, Tool!Whole
<1> QED
  BY <1>3, <1>4, <1>5, <1>6 DEF Tool!IInv

LEMMA UploadSends ==
    ASSUME Tool!IInv, NEW u \in Uploader, Tool!scpSend(u)
    PROVE  Tool!IInv'
<1>1. PICK i \in {1, 2}, b \in {u, Lost} :
         /\ content' = [content EXCEPT ![fd[u]][i] = b]
         /\ uploadPc[u] \in {"block1", "block2"}
         /\ \/ /\ uploadPc' = [uploadPc EXCEPT ![u] = "block2"] /\ UNCHANGED fd
            \/ /\ uploadPc' = [uploadPc EXCEPT ![u] = "verify"]
               /\ fd' = [fd EXCEPT ![u] = NoFile]
         /\ UNCHANGED <<live, temp, running, checked, overlap, uploads>>
  BY DEF Tool!scpSend, Tool!Goto
<1>2. fd[u] \in File /\ (~overlap => fd[u] = temp)
  BY <1>1 DEF Tool!IInv, Tool!TypeOK, Tool!TempIsOwn
<1>3. content' \in [File -> Blocks] /\ \A f \in File \ {fd[u]} : content'[f] = content[f]
  <2>1. content \in [File -> Blocks] /\ content[fd[u]] \in Blocks
    BY <1>2 DEF Tool!IInv, Tool!TypeOK, Blocks
  <2>2. [content[fd[u]] EXCEPT ![i] = b] \in Blocks
    BY <1>1, <2>1 DEF Blocks
  <2>3. content' = [content EXCEPT ![fd[u]] = [content[fd[u]] EXCEPT ![i] = b]]
    BY <1>1
  <2> QED
    BY <1>2, <2>1, <2>2, <2>3
<1>4. Tool!TypeOK'
  BY <1>1, <1>3 DEF Tool!IInv, Tool!TypeOK, Blocks
<1>5. Tool!OneAtATime'
  BY <1>1 DEF Tool!IInv, Tool!TypeOK, Tool!OneAtATime
<1>6. Tool!TempIsOwn'
  BY <1>1 DEF Tool!IInv, Tool!TypeOK, Tool!OneAtATime, Tool!TempIsOwn
<1>7. Tool!LiveIsWhole'
  BY <1>1, <1>2, <1>3 DEF Tool!IInv, Tool!TypeOK, Tool!LiveIsWhole, Tool!Whole
<1> QED
  BY <1>4, <1>5, <1>6, <1>7 DEF Tool!IInv

LEMMA UploadVerifies ==
    ASSUME Tool!IInv, NEW u \in Uploader, Tool!verifyRemote(u)
    PROVE  Tool!IInv'
<1>1. CASE Tool!Close(u)
  BY <1>1, UploadBreaks DEF Tool!verifyRemote, Tool!files
<1>2. ASSUME NEW l \in {"install", "rm"}, Tool!Goto(u, l), UNCHANGED fd,
             l = "install" /\ checked => temp # NoFile /\ content[temp] = <<u, u>>
      PROVE  Tool!IInv'
  <2>1. /\ uploadPc' = [uploadPc EXCEPT ![u] = l] /\ uploadPc[u] = "verify"
        /\ UNCHANGED <<content, live, temp, running, checked, overlap, uploads, fd>>
    BY <1>2 DEF Tool!verifyRemote, Tool!Goto, Tool!files
  <2>2. Tool!OneAtATime'
    BY <2>1 DEF Tool!IInv, Tool!TypeOK, Tool!OneAtATime
  <2>3. \A v \in Uploader :
           /\ fd'[v] # NoFile <=> uploadPc'[v] \in {"block1", "block2"}
           /\ fd'[v] \in {fd[v], NoFile}
           /\ uploadPc'[v] = "install" =>
                 \/ uploadPc[v] = "install"
                 \/ checked => temp # NoFile /\ content[temp] = <<v, v>>
    BY <1>2, <2>1 DEF Tool!IInv, Tool!TypeOK, Tool!TempIsOwn
  <2>4. uploadPc' \in [Uploader -> {"idle", "open", "block1", "block2", "verify", "rm",
                                    "install"}]
    BY <2>1 DEF Tool!IInv, Tool!TypeOK
  <2> QED
    BY <2>1, <2>2, <2>3, <2>4, UploadKeepsFiles DEF Tool!IInv, Tool!TypeOK
<1> QED
  BY <1>1, <1>2 DEF Tool!verifyRemote

\* Alone, the rename puts in place what was verified.
LEMMA UploadInstalls ==
    ASSUME Tool!IInv, NEW u \in Uploader, Tool!install(u)
    PROVE  Tool!IInv'
<1>1. CASE UNCHANGED <<live, temp>>
  BY <1>1, UploadBreaks DEF Tool!install
<1>2. CASE temp # NoFile /\ live' = temp /\ temp' = NoFile
  <2>1. Tool!Close(u) /\ UNCHANGED <<content, running, checked, overlap, uploads>>
        /\ uploadPc[u] = "install"
    BY DEF Tool!install
  <2>2. Tool!TypeOK'
    BY <1>2, <2>1, UploadCloses DEF Tool!IInv, Tool!TypeOK
  <2>3. Tool!OneAtATime'
    BY <2>1, UploadCloses DEF Tool!IInv, Tool!OneAtATime
  <2>4. ~overlap => \A v \in Uploader \ {u} : uploadPc[v] = "idle"
    BY <2>1 DEF Tool!IInv, Tool!OneAtATime
  <2>5. Tool!TempIsOwn'
    BY <2>1, <2>4, UploadCloses DEF Tool!IInv, Tool!TempIsOwn
  <2>6. Tool!LiveIsWhole'
    BY <1>2, <2>1 DEF Tool!IInv, Tool!TempIsOwn, Tool!LiveIsWhole, Tool!Whole
  <2> QED
    BY <2>2, <2>3, <2>5, <2>6 DEF Tool!IInv
<1> QED
  BY <1>1, <1>2 DEF Tool!install

LEMMA UploadRemoves ==
    ASSUME Tool!IInv, NEW u \in Uploader, Tool!removeDamaged(u)
    PROVE  Tool!IInv'
<1>1. /\ Tool!Close(u) /\ UNCHANGED <<content, live, running, checked, overlap, uploads>>
      /\ uploadPc[u] = "rm" /\ temp' = NoFile
  BY DEF Tool!removeDamaged
<1>2. Tool!TypeOK'
  BY <1>1, UploadCloses DEF Tool!IInv, Tool!TypeOK
<1>3. Tool!OneAtATime'
  BY <1>1, UploadCloses DEF Tool!IInv, Tool!OneAtATime
<1>4. ~overlap => \A v \in Uploader \ {u} : uploadPc[v] = "idle"
  BY <1>1 DEF Tool!IInv, Tool!OneAtATime
<1>5. Tool!TempIsOwn'
  BY <1>1, <1>4, UploadCloses DEF Tool!IInv, Tool!TempIsOwn
<1>6. Tool!LiveIsWhole'
  BY <1>1 DEF Tool!IInv, Tool!LiveIsWhole, Tool!Whole
<1> QED
  BY <1>2, <1>3, <1>5, <1>6 DEF Tool!IInv

LEMMA UploadStep == Tool!IInv /\ [Tool!Next]_(Tool!vars) => Tool!IInv'
<1> SUFFICES ASSUME Tool!IInv, [Tool!Next]_(Tool!vars) PROVE Tool!IInv'
  OBVIOUS
<1>1. CASE Tool!StartService \/ Tool!StopService
  BY <1>1
     DEF Tool!StartService, Tool!StopService, Tool!files, Tool!IInv, Tool!TypeOK,
         Tool!OneAtATime, Tool!TempIsOwn, Tool!LiveIsWhole, Tool!Whole
<1>2. ASSUME NEW u \in Uploader, Tool!ConnectionLost(u) PROVE Tool!IInv'
  BY <1>2, UploadBreaks DEF Tool!ConnectionLost, Tool!files
<1>3. CASE UNCHANGED Tool!vars
  BY <1>3
     DEF Tool!vars, Tool!files, Tool!IInv, Tool!TypeOK, Tool!OneAtATime, Tool!TempIsOwn,
         Tool!LiveIsWhole, Tool!Whole
<1> QED
  BY <1>1, <1>2, <1>3, UploadBegins, UploadOpens, UploadSends, UploadVerifies,
     UploadRemoves, UploadInstalls
     DEF Tool!Next

LEMMA UploadInvariance == BothSpec => [](Tool!IInv)
<1>1. BothInit => Tool!Init
  BY DEF BothInit
<1>2. [BothNext]_<<uploading, vars, toolVars>> => [Tool!Next]_(Tool!vars)
  BY DEF BothNext, toolVars, Tool!vars, Tool!files
<1> QED
  BY <1>1, <1>2, UploadInit, UploadStep, PTL DEF BothSpec

\* However uploads break off and whatever they leave under the temporary name, one at
\* a time they never put a damaged or partial binary in place.
THEOREM LiveStaysWhole == BothSpec => []LiveIsWhole
<1>1. Tool!IInv => LiveIsWhole
  BY DEF Tool!IInv, LiveIsWhole
<1> QED
  BY <1>1, UploadInvariance, PTL

\* Sessions, phases, files and uploads keep their types, and the live name is never
\* the temporary file's too.
THEOREM ServerAndToolTypes == BothSpec => []TypesOK
<1>1. BothInit => Init
  BY DEF BothInit
<1>2. [BothNext]_<<uploading, vars, toolVars>> => [Next]_vars
  BY DEF BothNext
<1>3. Tool!IInv /\ TypeOK => TypesOK
  BY DEF Tool!IInv, TypesOK
<1> QED
  BY <1>1, <1>2, <1>3, InitType, StepType, UploadInvariance, PTL DEF BothSpec
=============================================================================
