---------------------------- MODULE RateLimiter -----------------------------
(***************************************************************************)
(* internal/ratelimit: buckets are created on first use, refilled only when*)
(* they are looked at, and dropped by a sweep that runs inside Allow.      *)
(* Allow holds the mutex throughout, so it is one action.                  *)
(*                                                                         *)
(* Units.  A tick is the time in which a bucket gains one unit, so the     *)
(* rate is one unit per tick and a token is Cost units.  Rounding of the   *)
(* float64 arithmetic is left out.                                         *)
(***************************************************************************)
EXTENDS Integers

CONSTANTS Key, Cost, Burst,
    SweepEvery, \* ticks between two sweeps
    MaxTime     \* bound on the clock of an instance

ASSUME LimiterAssumption ==
    /\ Cost \in Nat \ {0} /\ Burst \in Nat /\ Burst >= Cost
    /\ SweepEvery \in Nat /\ MaxTime \in Nat

VARIABLES
    now,
    buckets,    \* keys in the map
    tokens,     \* units of a bucket when it was last looked at
    last,       \* when that was
    lastSweep,
    spent,      \* history: units each key has been allowed to spend
    wait,       \* what the last answer said: 0 if allowed, else ticks to wait
    due         \* history: when that wait is over

map == <<buckets, tokens, last, lastSweep>>
vars == <<now, map, spent, wait, due>>

TypeOK ==
    /\ now \in 0 .. MaxTime
    /\ buckets \subseteq Key
    /\ tokens \in [Key -> 0 .. Burst]
    /\ last \in [Key -> 0 .. MaxTime]
    /\ lastSweep \in -SweepEvery .. MaxTime
    /\ spent \in [Key -> Nat]
    /\ wait \in [Key -> 0 .. Cost]
    /\ due \in [Key -> Nat]

\* lastSweep is the zero time, long before any request.
Init ==
    /\ now = 0
    /\ buckets = {}
    /\ tokens = [k \in Key |-> 0]
    /\ last = [k \in Key |-> 0]
    /\ lastSweep = -SweepEvery
    /\ spent = [k \in Key |-> 0]
    /\ wait = [k \in Key |-> 0]
    /\ due = [k \in Key |-> 0]

Least(a, b) == IF a <= b THEN a ELSE b

Refilled(k) == tokens[k] + (now - last[k])

\* Mutant: the sweep never runs.
SweepNeverDue == FALSE

SweepDue == now - lastSweep >= SweepEvery

\* Mutants: the sweep drops every bucket, or those one unit short of full.
SweptAll == IF SweepDue THEN {} ELSE buckets
SweptEarly == IF SweepDue THEN {k \in buckets : Refilled(k) + 1 < Burst} ELSE buckets

\* The map after sweep(now).
Swept == IF SweepDue THEN {k \in buckets : Refilled(k) < Burst} ELSE buckets

\* Units in k's bucket once it has been found or made, and topped up.
Level(k, held) == IF k \in held THEN Least(Burst, Refilled(k)) ELSE Burst

\* Mutant: the wait is a tick too short.
WaitForShort(n) == Cost - n - 1

\* Ticks until a bucket with n < Cost units holds a token.
WaitFor(n) == Cost - n

Allow(k) ==
    LET n == Level(k, Swept)
        ok == n >= Cost
    IN  /\ buckets' = Swept \cup {k}
        /\ lastSweep' = IF SweepDue THEN now ELSE lastSweep
        /\ last' = [last EXCEPT ![k] = now]
        /\ tokens' = [tokens EXCEPT ![k] = IF ok THEN n - Cost ELSE n]
        /\ wait' = [wait EXCEPT ![k] = IF ok THEN 0 ELSE WaitFor(n)]
        /\ spent' = [spent EXCEPT ![k] = IF ok THEN @ + Cost ELSE @]
        /\ due' = [due EXCEPT ![k] = IF ok THEN 0 ELSE now + WaitFor(n)]
        /\ UNCHANGED now

Tick == now < MaxTime /\ now' = now + 1 /\ UNCHANGED <<map, spent, wait, due>>

Next == Tick \/ \E k \in Key : Allow(k)

Spec == Init /\ [][Next]_vars

-----------------------------------------------------------------------------

(* Parts of the inductive invariant.                                       *)

PastTimes ==
    /\ \A k \in Key : last[k] <= now
    /\ lastSweep <= now

\* Units spent and units left come from the first burst and from time.
Conserved == \A k \in Key : spent[k] + Level(k, buckets) <= Burst + now

\* A refused key gains a unit with every tick of its wait.
WaitCovered ==
    \A k \in Key : wait[k] > 0 =>
        \/ Level(k, buckets) >= Cost
        \/ Level(k, buckets) + due[k] - now >= Cost

\* What the last sweep kept was not full then.
KeptUnfilled == \A k \in buckets : lastSweep - last[k] < Burst

IInv == TypeOK /\ PastTimes /\ Conserved /\ WaitCovered /\ KeptUnfilled

-----------------------------------------------------------------------------

\* Sweeping never gives anyone more: a key has spent at most one burst plus the
\* refill of the time gone by, whatever was dropped from the map meanwhile.
AdmissionBounded == \A k \in Key : spent[k] <= Burst + now

\* Retry-After is enough: once the announced wait of a refused key is over, its
\* bucket holds a token.
RetryAfterIsEnough ==
    \A k \in Key : wait[k] > 0 /\ now >= due[k] => Level(k, Swept) >= Cost

\* The map does not keep idle keys: after any call, every bucket was used less
\* than a full refill plus a sweep interval ago.
IdleBucketsAreDropped ==
    [][\A k \in Key : Allow(k) =>
          \A j \in buckets' : now - last'[j] < Burst + SweepEvery]_vars

\* "Forgetting them changes nothing, since a new bucket starts full": the
\* limiter with its lazy refill and its sweep is a token bucket per key.
Bucket == INSTANCE TokenBucket WITH level <- [k \in Key |-> Level(k, buckets)]

ImplementsTokenBucket == Bucket!Spec
=============================================================================
