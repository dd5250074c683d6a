------------------------------- MODULE Server -------------------------------
(***************************************************************************)
(* One server process at a time, the requests about accounts and sessions  *)
(* it serves, its goroutine that deletes expired sessions, and the tables  *)
(* users and sessions, which outlive the process.                          *)
(*                                                                         *)
(* Every statement takes a connection of the pool and gives it back.  The  *)
(* pool refuses connections once Close is called, and Close waits for the  *)
(* ones that are out.                                                      *)
(***************************************************************************)
EXTENDS Naturals, FiniteSets

CONSTANTS
    Email, Token, Request,
    SessionTTL,     \* auth.SessionTTL, in steps of the clock
    MaxTime,        \* bound: how far the clock runs
    MaxStarts       \* bound: how often the process is started

VARIABLES
    now, users,
    expires,    \* expires[t] of the session with token t, 0 when there is none
    promised,   \* history: until when t was promised to be good, 0 once a logout
                \* has deleted its row
    answered,   \* tokens handed out
    starts,
    phase,      \* where run() and serve() of the process are
    signal,     \* the signal context is cancelled
    listener,   \* the goroutine of ListenAndServe: "unbound" when it could not begin
    drained,    \* Shutdown returned nil
    cleanup,    \* the goroutine of RunSessionCleanup
    stopped,    \* stopCleanup() was called
    pool, busy, \* busy: who holds a connection
    pc, call

Sweeper == "cleanup"    \* as a holder of a connection

ASSUME ServerAssumption ==
    /\ SessionTTL \in Nat /\ MaxTime \in Nat /\ MaxStarts \in Nat
    /\ Sweeper \notin Request

data == <<now, users, expires, promised, answered>>
process == <<starts, phase, signal, listener, drained, stopped>>
vars == <<data, process, cleanup, pool, busy, pc, call>>

NoCall == [email |-> {}, token |-> {}, until |-> 0, late |-> FALSE]

Calls ==
    [email : {{e} : e \in Email} \cup {{}}, token : {{t} : t \in Token} \cup {{}},
     until : 0 .. MaxTime + SessionTTL, late : BOOLEAN]

TypeOK ==
    /\ now \in 0 .. MaxTime
    /\ users \subseteq Email
    /\ expires \in [Token -> 0 .. MaxTime + SessionTTL]
    /\ promised \in [Token -> 0 .. MaxTime + SessionTTL]
    /\ answered \subseteq Token
    /\ \A t \in Token : expires[t] # 0 => t \in answered
    /\ starts \in 0 .. MaxStarts
    /\ phase \in {"off", "connecting", "migrating", "serving", "draining",
                  "returned", "waiting", "closing"}
    /\ signal \in BOOLEAN /\ drained \in BOOLEAN /\ stopped \in BOOLEAN
    /\ listener \in {"none", "up", "unbound", "failed", "closed"}
    /\ cleanup \in {"none", "select", "sweep", "done"}
    /\ pool \in {"none", "open", "closed"}
    /\ busy \subseteq Request \cup {Sweeper}
    /\ pc \in [Request -> {"idle", "CreateUser", "GetUserByEmail", "CreateSession",
                           "GetSession", "next", "DeleteSession"}]
    /\ call \in [Request -> Calls]

Init ==
    /\ now = 0 /\ users = {} /\ answered = {}
    /\ expires = [t \in Token |-> 0] /\ promised = [t \in Token |-> 0]
    /\ starts = 0 /\ phase = "off" /\ signal = FALSE /\ listener = "none"
    /\ drained = FALSE /\ stopped = FALSE
    /\ cleanup = "none" /\ pool = "none" /\ busy = {}
    /\ pc = [r \in Request |-> "idle"] /\ call = [r \in Request |-> NoCall]

Tick == now < MaxTime /\ now' = now + 1
        /\ UNCHANGED <<users, expires, promised, answered, process, cleanup, pool,
                       busy, pc, call>>

-----------------------------------------------------------------------------
(* The main goroutine.                                                     *)

Main(next) ==
    /\ phase' = next
    /\ UNCHANGED <<data, starts, signal, busy, pc, call>>

Start ==
    /\ phase = "off" /\ starts < MaxStarts
    /\ starts' = starts + 1 /\ phase' = "connecting"
    /\ UNCHANGED <<data, signal, listener, drained, stopped, cleanup, pool, busy, pc,
                   call>>

Signal ==
    /\ phase # "off" /\ ~signal /\ signal' = TRUE
    /\ UNCHANGED <<data, starts, phase, listener, drained, stopped, cleanup, pool,
                   busy, pc, call>>

NewPool ==
    /\ phase = "connecting"
    /\ \/ Main("migrating") /\ pool' = "open"
       \/ /\ phase' = "off" /\ signal' = FALSE
          /\ UNCHANGED <<data, starts, pool, busy, pc, call>>
    /\ UNCHANGED <<listener, drained, stopped, cleanup>>

\* Then the goroutines of the cleanup and of the listener start; a failure, or a
\* signal during the migration, leads to pool.Close at once.
MigrateUp ==
    /\ phase = "migrating"
    /\ \/ /\ Main("serving") /\ listener' \in {"up", "unbound"}
          /\ cleanup' = "select" /\ UNCHANGED pool
       \/ Main("closing") /\ pool' = "closed" /\ UNCHANGED <<listener, cleanup>>
    /\ UNCHANGED <<drained, stopped>>

ListenerFails ==
    /\ listener = "up" /\ phase = "serving" /\ listener' = "failed"
    /\ UNCHANGED <<data, starts, phase, signal, drained, stopped, cleanup, pool, busy,
                   pc, call>>

Broken == listener \in {"unbound", "failed"}

\* select: an error of the listener returns at once, a signal begins to drain.
serve ==
    /\ phase = "serving"
    /\ \/ Broken /\ Main("returned") /\ UNCHANGED listener
       \/ /\ signal /\ Main("draining")
          /\ listener' = IF listener = "up" THEN "closed" ELSE listener
    /\ UNCHANGED <<drained, stopped, cleanup, pool>>

\* Mutant: the listener is closed, and nobody waited for.
CloseOnly ==
    /\ phase = "draining"
    /\ Main("returned") /\ drained' = TRUE
    /\ UNCHANGED <<listener, stopped, cleanup, pool>>

\* Every request has ended and no connection is left, or shutdownTimeout has passed.
Shutdown ==
    /\ phase = "draining"
    /\ Main("returned")
    /\ drained' \in BOOLEAN /\ (drained' => \A r \in Request : pc[r] = "idle")
    /\ UNCHANGED <<listener, stopped, cleanup, pool>>

\* Mutant: the cleanup is left to the signal.
StopNothing ==
    /\ phase = "returned"
    /\ Main("waiting")
    /\ UNCHANGED <<listener, drained, stopped, cleanup, pool>>

stopCleanup ==
    /\ phase = "returned"
    /\ Main("waiting") /\ stopped' = TRUE
    /\ UNCHANGED <<listener, drained, cleanup, pool>>

\* Mutant: the pool is closed without waiting for the goroutine.
CloseAtOnce ==
    /\ phase = "waiting"
    /\ Main("closing") /\ pool' = "closed"
    /\ UNCHANGED <<listener, drained, stopped, cleanup>>

\* <-cleanupDone, then the deferred pool.Close.
cleanupDone ==
    /\ phase = "waiting" /\ cleanup = "done"
    /\ Main("closing") /\ pool' = "closed"
    /\ UNCHANGED <<listener, drained, stopped, cleanup>>

\* Close has all connections back; requests still under way die with the process.
Exit ==
    /\ phase = "closing" /\ busy = {}
    /\ phase' = "off"
    /\ signal' = FALSE /\ listener' = "none" /\ drained' = FALSE /\ stopped' = FALSE
    /\ cleanup' = "none" /\ pool' = "none"
    /\ pc' = [r \in Request |-> "idle"] /\ call' = [r \in Request |-> NoCall]
    /\ UNCHANGED <<data, starts, busy>>

-----------------------------------------------------------------------------
(* Statements.                                                             *)

Acquire(x) == pool = "open" /\ x \notin busy /\ busy' = busy \cup {x}

Release(x) == x \in busy /\ busy' = busy \ {x}

\* Session cleanup: a tick, the sweep, and the end when the context is done.
SweepDue ==
    /\ cleanup = "select"
    /\ Acquire(Sweeper) /\ cleanup' = "sweep"
    /\ UNCHANGED <<data, process, pool, pc, call>>

\* Mutant: what expires at the next step of the clock goes already.
ExpiresSoon(t) == expires[t] <= now + 1

Expired(t) == expires[t] <= now

DeleteExpiredSessions ==
    /\ cleanup = "sweep" /\ Release(Sweeper) /\ cleanup' = "select"
    /\ expires' = [t \in Token |-> IF Expired(t) THEN 0 ELSE expires[t]]
    /\ UNCHANGED <<now, users, promised, answered, process, pool, pc, call>>

\* Mutant: the goroutine ends with its first failure.
SweepFailsForGood ==
    /\ cleanup = "sweep" /\ Release(Sweeper) /\ cleanup' = "done"
    /\ UNCHANGED <<data, process, pool, pc, call>>

\* Logged, and tried again on the next tick.
SweepFails ==
    /\ cleanup = "sweep" /\ Release(Sweeper) /\ cleanup' = "select"
    /\ UNCHANGED <<data, process, pool, pc, call>>

CleanupReturns ==
    /\ cleanup = "select" /\ (signal \/ stopped) /\ cleanup' = "done"
    /\ UNCHANGED <<data, process, pool, busy, pc, call>>

-----------------------------------------------------------------------------
(* Requests.                                                               *)

End(r) == pc' = [pc EXCEPT ![r] = "idle"] /\ call' = [call EXCEPT ![r] = NoCall]

\* net/http serves a connection that was accepted also while Shutdown waits, after
\* its timeout and after a failure of the listener, as long as the process lives.
Begin(r, label, c) ==
    /\ listener \in {"up", "failed", "closed"} /\ ~drained /\ pc[r] = "idle"
    /\ pc' = [pc EXCEPT ![r] = label] /\ call' = [call EXCEPT ![r] = c]
    /\ UNCHANGED <<data, process, cleanup, pool, busy>>

handleRegister(r) ==
    \E e \in Email : Begin(r, "CreateUser", [NoCall EXCEPT !.email = {e}])

handleLogin(r) ==
    \E e \in Email : Begin(r, "GetUserByEmail", [NoCall EXCEPT !.email = {e}])

\* A call with a token, which comes late when the token was already logged out.
requireAuth(r) ==
    \E t \in answered :
        Begin(r, "GetSession", [NoCall EXCEPT !.token = {t}, !.late = promised[t] = 0])

\* Before each statement; a closed pool answers with an error (500).
TakeConnection(r) ==
    /\ pc[r] \notin {"idle", "next"}
    /\ \/ Acquire(r) /\ UNCHANGED <<pc, call>>
       \/ pool = "closed" /\ r \notin busy /\ End(r) /\ UNCHANGED busy
    /\ UNCHANGED <<data, process, cleanup, pool>>

\* The statement fails without effect, and the request with it.  One that takes effect
\* although its answer is lost ends the request too: CreateUser says so, and the
\* others end the request in any case.
StatementFails(r) ==
    /\ Release(r) /\ End(r)
    /\ UNCHANGED <<data, process, cleanup, pool>>

\* Mutant: the lifetime is added twice.
IssueTwiceAsLong(r) ==
    /\ pc' = [pc EXCEPT ![r] = "CreateSession"]
    /\ call' = [call EXCEPT ![r].until = now + 2 * SessionTTL]

\* Draws a token and its time of expiry; the insert is a statement of its own.
issueSession(r) ==
    /\ pc' = [pc EXCEPT ![r] = "CreateSession"]
    /\ call' = [call EXCEPT ![r].until = now + SessionTTL]

\* The unique index on the email turns the second registration away.  An insert whose
\* answer is lost leaves a user without a session.
CreateUser(r) ==
    /\ pc[r] = "CreateUser" /\ Release(r)
    /\ \/ /\ ~(call[r].email \subseteq users)
          /\ users' = users \cup call[r].email
          /\ issueSession(r) \/ End(r)
       \/ call[r].email \subseteq users /\ End(r) /\ UNCHANGED users
    /\ UNCHANGED <<now, expires, promised, answered, process, cleanup, pool>>

\* A wrong password ends the request as an unknown email does.
GetUserByEmail(r) ==
    /\ pc[r] = "GetUserByEmail" /\ Release(r)
    /\ \/ call[r].email \subseteq users /\ issueSession(r)
       \/ End(r)
    /\ UNCHANGED <<data, process, cleanup, pool>>

\* `answered' bounds how many sessions are ever created.  Where the answer is lost
\* nobody knows the token, and its row waits for the sweep as any other.
CreateSession(r) ==
    /\ pc[r] = "CreateSession" /\ Release(r) /\ answered # Token
    /\ LET t == CHOOSE u \in Token \ answered : TRUE
       IN  /\ expires' = [expires EXCEPT ![t] = call[r].until]
           /\ promised' = [promised EXCEPT ![t] = call[r].until]
           /\ answered' = answered \cup {t}
    /\ End(r)
    /\ UNCHANGED <<now, users, process, cleanup, pool>>

Good(t) == expires[t] > now

GetSessionByTokenHash(r) ==
    /\ pc[r] = "GetSession" /\ Release(r)
    /\ \/ (\A t \in call[r].token : Good(t)) /\ pc' = [pc EXCEPT ![r] = "next"]
                                             /\ UNCHANGED call
       \/ (\E t \in call[r].token : ~Good(t)) /\ End(r)
    /\ UNCHANGED <<data, process, cleanup, pool>>

handleMe(r) ==
    /\ pc[r] = "next" /\ End(r)
    /\ UNCHANGED <<data, process, cleanup, pool, busy>>

handleLogout(r) ==
    /\ pc[r] = "next" /\ pc' = [pc EXCEPT ![r] = "DeleteSession"]
    /\ UNCHANGED <<data, process, cleanup, pool, busy, call>>

\* Mutant: the client is told that it is logged out before the row is deleted.
DeleteSessionLater(r) ==
    /\ pc[r] = "DeleteSession" /\ Release(r)
    /\ promised' = [t \in Token |-> IF t \in call[r].token THEN 0 ELSE promised[t]]
    /\ End(r)
    /\ UNCHANGED <<now, users, expires, answered, process, cleanup, pool>>

DeleteSession(r) ==
    /\ pc[r] = "DeleteSession" /\ Release(r)
    /\ expires' = [t \in Token |-> IF t \in call[r].token THEN 0 ELSE expires[t]]
    /\ promised' = [t \in Token |-> IF t \in call[r].token THEN 0 ELSE promised[t]]
    /\ End(r)
    /\ UNCHANGED <<now, users, answered, process, cleanup, pool>>

-----------------------------------------------------------------------------

Serve(r) ==
    \/ TakeConnection(r) \/ CreateUser(r) \/ GetUserByEmail(r) \/ CreateSession(r)
    \/ GetSessionByTokenHash(r) \/ handleMe(r) \/ handleLogout(r) \/ DeleteSession(r)
    \/ StatementFails(r)

Run == NewPool \/ MigrateUp \/ serve \/ Shutdown \/ stopCleanup \/ cleanupDone \/ Exit

Next ==
    \/ Tick \/ Start \/ Signal \/ ListenerFails \/ Run
    \/ SweepDue \/ DeleteExpiredSessions \/ SweepFails \/ CleanupReturns
    \/ \E r \in Request :
          handleRegister(r) \/ handleLogin(r) \/ requireAuth(r) \/ Serve(r)

Spec == Init /\ [][Next]_vars

\* Goroutines run, statements end, the ticker fires, select does not pass over the
\* done context for ever, and not every sweep fails.
Fairness ==
    /\ WF_vars(Run)
    /\ \A r \in Request : WF_vars(Serve(r))
    /\ WF_vars(SweepDue) /\ WF_vars(DeleteExpiredSessions \/ SweepFails)
    /\ SF_vars(DeleteExpiredSessions)
    /\ SF_vars(CleanupReturns)

FairSpec == Spec /\ Fairness

-----------------------------------------------------------------------------

\* A session that was handed out and not logged out is good until it expires, even
\* across a restart: the sweep deletes no session a client may still use.
TokensWork == \A t \in Token : promised[t] > now => expires[t] = promised[t]

\* A request that comes after a logout has deleted its session, and so after any
\* answer that says so, does not get past requireAuth.
LoggedOutStaysOut == \A r \in Request : pc[r] = "next" => ~call[r].late

\* The pool is closed only when the cleanup goroutine has ended, however serve
\* returned; its sweep never meets a closed pool.
PoolOutlivesCleanup == pool = "closed" => cleanup \in {"none", "done"}

\* A shutdown that reports success has cut no request off: no request is left to
\* meet the closed pool.
GracefulCutsNothing ==
    pool = "closed" /\ drained => \A r \in Request : pc[r] = "idle"

\* A signal or a failed listener always ends the process: serve, the cleanup and
\* Close do not wait for each other.
ShutdownEnds == phase # "off" /\ (signal \/ Broken) ~> phase = "off"

\* An expired session is deleted in the end by a server that goes on running,
\* although a sweep may fail.
ExpiredAreSwept ==
    \A t \in Token : expires[t] # 0 /\ expires[t] <= now
                        ~> (expires[t] = 0 \/ phase # "serving")

-----------------------------------------------------------------------------
(* The invariants behind these, which the proofs show to be inductive.     *)

\* What exists in each phase of the process.
Phases ==
    /\ phase \in {"off", "connecting"} => pool = "none"
    /\ phase \in {"off", "connecting", "migrating"} => cleanup = "none"
    /\ phase \in {"migrating", "serving", "draining", "returned", "waiting"}
          => pool = "open"
    /\ phase = "closing" => pool = "closed" /\ cleanup \in {"none", "done"}

\* Once drained, no request begins.
StaysDrained ==
    drained => /\ phase \in {"returned", "waiting", "closing"}
               /\ \A r \in Request : pc[r] = "idle"

ProcessInv == TypeOK /\ Phases /\ StaysDrained

\* A row says what was promised, or is gone.
RowsArePromises == \A t \in Token : expires[t] \in {0, promised[t]}

\* A token that has been logged out stays so.
LateCalls ==
    \A r \in Request :
        /\ call[r].late => \A t \in call[r].token : t \in answered /\ promised[t] = 0
        /\ pc[r] = "GetSession" => call[r].token # {}

SessionInv == TypeOK /\ RowsArePromises /\ TokensWork /\ LateCalls /\ LoggedOutStaysOut
=============================================================================
