------------------------- MODULE RateLimiter_proofs -------------------------
(***************************************************************************)
(* The rate limiter is a token bucket per key, for every set of keys, rate,*)
(* burst, sweep interval and clock bound.                                  *)
(***************************************************************************)
EXTENDS RateLimiter, TLAPS

USE LimiterAssumption DEF WaitFor

\* A level is a number of units between empty and full.
LEMMA LevelType ==
    ASSUME TypeOK, PastTimes, NEW k \in Key, NEW held
    PROVE  Level(k, held) \in 0 .. Burst
BY DEF TypeOK, PastTimes, Level, Least, Refilled

\* sweep(now) only drops buckets that are full, so no key's level changes.
LEMMA SweepChangesNothing ==
    ASSUME TypeOK, PastTimes, NEW k \in Key
    PROVE  Level(k, Swept) = Level(k, buckets)
BY DEF TypeOK, PastTimes, Level, Least, Refilled, Swept

\* A tick adds one unit to every bucket that is not full.
LEMMA TickRefills ==
    ASSUME TypeOK, PastTimes, Tick, NEW k \in Key
    PROVE  Level(k, buckets)' = Least(Burst, Level(k, buckets) + 1)
BY DEF TypeOK, PastTimes, Tick, map, Level, Least, Refilled

\* Allow leaves in the bucket of its key what it found there, less the cost of a
\* request that passed.
LEMMA AllowedLevel ==
    ASSUME TypeOK, PastTimes, NEW k \in Key, Allow(k)
    PROVE  Level(k, buckets)' = IF Level(k, buckets) >= Cost
                                THEN Level(k, buckets) - Cost
                                ELSE Level(k, buckets)
<1> DEFINE n == Level(k, Swept)
<1>1. n \in 0 .. Burst
  BY LevelType
<1>2. n = Level(k, buckets)
  BY SweepChangesNothing
<1>3. /\ k \in buckets' /\ last'[k] = now /\ now' = now
      /\ tokens'[k] = IF n >= Cost THEN n - Cost ELSE n
  BY DEF Allow, TypeOK
<1>4. tokens'[k] \in 0 .. Burst
  BY <1>1, <1>3
<1>5. Level(k, buckets)' = Least(Burst, tokens'[k] + (now' - last'[k]))
  BY <1>3 DEF Level, Refilled
<1>6. Level(k, buckets)' = tokens'[k]
  BY <1>3, <1>4, <1>5 DEF Least, TypeOK
<1> QED
  BY <1>2, <1>3, <1>6

\* Allow changes nobody else's level, although it may sweep their bucket away.
LEMMA OtherLevels ==
    ASSUME TypeOK, PastTimes, NEW k \in Key, Allow(k), NEW j \in Key, j # k
    PROVE  Level(j, buckets)' = Level(j, buckets)
<1>1. /\ j \in buckets' <=> j \in Swept
      /\ last'[j] = last[j] /\ tokens'[j] = tokens[j] /\ now' = now
  BY DEF Allow, TypeOK
<1>2. Level(j, buckets)' = Level(j, Swept)
  BY <1>1 DEF Level, Refilled
<1> QED
  BY <1>2, SweepChangesNothing

\* The invariant is inductive.
LEMMA Inductive == IInv /\ [Next]_vars => IInv'
<1> SUFFICES ASSUME IInv, [Next]_vars PROVE IInv'
  OBVIOUS
<1> USE DEF IInv
<1>1. CASE UNCHANGED vars
  BY <1>1 DEF vars, map, TypeOK, PastTimes, Conserved, WaitCovered,
              KeptUnfilled, Level, Refilled, Least
<1>2. CASE Tick
  <2>1. TypeOK'
    BY <1>2 DEF Tick, map, TypeOK
  <2>2. PastTimes'
    BY <1>2 DEF Tick, map, PastTimes, TypeOK
  <2>3. \A k \in Key : /\ Level(k, buckets) \in 0 .. Burst
                       /\ Level(k, buckets)' = Least(Burst, Level(k, buckets) + 1)
    BY <1>2, LevelType, TickRefills
  <2>4. Conserved'
    <3> SUFFICES ASSUME NEW k \in Key
                 PROVE  spent'[k] + Level(k, buckets)' <= Burst + now'
      BY DEF Conserved
    <3>1. /\ spent'[k] = spent[k] /\ spent[k] \in Nat
          /\ now' = now + 1 /\ now \in Nat
          /\ spent[k] + Level(k, buckets) <= Burst + now
      BY <1>2 DEF Tick, TypeOK, Conserved
    <3> QED
      BY <2>3, <3>1 DEF Least
  <2>5. WaitCovered'
    <3> SUFFICES ASSUME NEW k \in Key, wait'[k] > 0
                 PROVE  \/ Level(k, buckets)' >= Cost
                        \/ Level(k, buckets)' + due'[k] - now' >= Cost
      BY DEF WaitCovered
    <3>1. /\ due'[k] = due[k] /\ due[k] \in Nat
          /\ now' = now + 1 /\ now \in Nat
          /\ \/ Level(k, buckets) >= Cost
             \/ Level(k, buckets) + due[k] - now >= Cost
      BY <1>2 DEF Tick, TypeOK, WaitCovered
    <3> QED
      BY <2>3, <3>1 DEF Least
  <2>6. KeptUnfilled'
    BY <1>2 DEF Tick, map, KeptUnfilled
  <2> QED
    BY <2>1, <2>2, <2>4, <2>5, <2>6
<1>3. ASSUME NEW k \in Key, Allow(k) PROVE IInv'
  <2> DEFINE n == Level(k, Swept)
  <2>1. n \in 0 .. Burst /\ n = Level(k, buckets)
    BY LevelType, SweepChangesNothing
  <2>2. TypeOK'
    <3>1. /\ now' \in 0 .. MaxTime /\ lastSweep' \in -SweepEvery .. MaxTime
          /\ last' \in [Key -> 0 .. MaxTime]
      BY <1>3 DEF Allow, TypeOK
    <3>2. buckets' \subseteq Key
      BY <1>3 DEF Allow, TypeOK, Swept
    <3>3. (IF n >= Cost THEN n - Cost ELSE n) \in 0 .. Burst
      BY <2>1
    <3>4. tokens' \in [Key -> 0 .. Burst]
      BY <1>3, <3>3 DEF Allow, TypeOK
    <3>5. (IF n >= Cost THEN 0 ELSE Cost - n) \in 0 .. Cost
      BY <2>1
    <3>6. wait' \in [Key -> 0 .. Cost]
      BY <1>3, <3>5 DEF Allow, TypeOK
    <3>7. (IF n >= Cost THEN 0 ELSE now + Cost - n) \in Nat
      BY <2>1 DEF TypeOK
    <3>8. due' \in [Key -> Nat]
      BY <1>3, <3>7 DEF Allow, TypeOK
    <3>9. spent' \in [Key -> Nat]
      BY <1>3 DEF Allow, TypeOK
    <3> QED
      BY <3>1, <3>2, <3>4, <3>6, <3>8, <3>9 DEF TypeOK
  <2>3. PastTimes'
    BY <1>3 DEF Allow, PastTimes, TypeOK
  <2>4. Level(k, buckets)' = IF n >= Cost THEN n - Cost ELSE n
    BY <1>3, <2>1, AllowedLevel
  <2>5. Conserved'
    <3> SUFFICES ASSUME NEW j \in Key
                 PROVE  spent'[j] + Level(j, buckets)' <= Burst + now'
      BY DEF Conserved
    <3>1. now' = now /\ spent[j] + Level(j, buckets) <= Burst + now
      BY <1>3 DEF Allow, Conserved
    <3>2. CASE j = k
      <4>1. spent'[k] = IF n >= Cost THEN spent[k] + Cost ELSE spent[k]
        BY <1>3 DEF Allow, TypeOK
      <4>2. spent[k] \in Nat /\ now \in Nat
        BY DEF TypeOK
      <4> QED
        BY <2>1, <2>4, <3>1, <3>2, <4>1, <4>2
    <3>3. CASE j # k
      <4>1. spent'[j] = spent[j]
        BY <1>3, <3>3 DEF Allow, TypeOK
      <4> QED
        BY <1>3, <3>1, <3>3, <4>1, OtherLevels
    <3> QED
      BY <3>2, <3>3
  <2>6. WaitCovered'
    <3> SUFFICES ASSUME NEW j \in Key, wait'[j] > 0
                 PROVE  \/ Level(j, buckets)' >= Cost
                        \/ Level(j, buckets)' + due'[j] - now' >= Cost
      BY DEF WaitCovered
    <3>1. CASE j = k
      <4>1. /\ now' = now /\ now \in Nat
            /\ wait'[k] = IF n >= Cost THEN 0 ELSE Cost - n
            /\ due'[k] = IF n >= Cost THEN 0 ELSE now + Cost - n
        BY <1>3 DEF Allow, TypeOK
      <4> QED
        BY <2>1, <2>4, <3>1, <4>1
    <3>2. CASE j # k
      <4>1. wait'[j] = wait[j] /\ due'[j] = due[j] /\ now' = now
        BY <1>3, <3>2 DEF Allow, TypeOK
      <4>2. Level(j, buckets)' = Level(j, buckets)
        BY <1>3, <3>2, OtherLevels
      <4> QED
        BY <4>1, <4>2 DEF WaitCovered
    <3> QED
      BY <3>1, <3>2
  <2>7. KeptUnfilled'
    <3> SUFFICES ASSUME NEW j \in buckets'
                 PROVE  lastSweep' - last'[j] < Burst
      BY DEF KeptUnfilled
    <3>1. j \in Key /\ tokens[j] \in 0 .. Burst
      BY <2>2 DEF TypeOK
    <3>2. CASE j = k
      BY <1>3, <3>1, <3>2 DEF Allow, TypeOK, PastTimes
    <3>3. CASE j # k
      <4>1. last'[j] = last[j] /\ j \in Swept
        BY <1>3, <3>1, <3>3 DEF Allow, TypeOK
      <4>2. CASE SweepDue
        BY <1>3, <3>1, <4>1, <4>2 DEF Allow, Swept, Refilled, TypeOK
      <4>3. CASE ~SweepDue
        BY <1>3, <4>1, <4>3 DEF Allow, Swept, KeptUnfilled
      <4> QED
        BY <4>2, <4>3
    <3> QED
      BY <3>2, <3>3
  <2> QED
    BY <2>2, <2>3, <2>5, <2>6, <2>7
<1> QED
  BY <1>1, <1>2, <1>3 DEF Next

\* Every behaviour of the limiter satisfies the invariant.
LEMMA Invariance == Spec => []IInv
<1>1. Init => IInv
  <2> SUFFICES ASSUME Init PROVE IInv
    OBVIOUS
  <2>1. \A k \in Key : Level(k, buckets) = Burst
    BY DEF Init, Level
  <2> QED
    BY <2>1 DEF Init, IInv, TypeOK, PastTimes, Conserved, WaitCovered,
                KeptUnfilled
<1> QED
  BY <1>1, Inductive, PTL DEF Spec

\* The limiter's state keeps its types: no bucket holds less than nothing or
\* more than the burst.
THEOREM LimiterTypeCorrect == Spec => []TypeOK
<1>1. IInv => TypeOK
  BY DEF IInv
<1> QED
  BY <1>1, Invariance, PTL

\* A key never spends more than one burst plus the refill of the time gone by,
\* however often its bucket was dropped and made again.
THEOREM AdmissionIsBounded == Spec => []AdmissionBounded
<1>1. IInv => AdmissionBounded
  <2> SUFFICES ASSUME IInv, NEW k \in Key PROVE spent[k] <= Burst + now
    BY DEF AdmissionBounded
  <2>1. Level(k, buckets) \in 0 .. Burst
    BY LevelType DEF IInv
  <2> QED
    BY <2>1 DEF IInv, Conserved, TypeOK
<1> QED
  BY <1>1, Invariance, PTL

\* A client that waits as long as Retry-After says finds a token.
THEOREM RetryAfterSuffices == Spec => []RetryAfterIsEnough
<1>1. IInv => RetryAfterIsEnough
  <2> SUFFICES ASSUME IInv, NEW k \in Key, wait[k] > 0, now >= due[k]
               PROVE  Level(k, Swept) >= Cost
    BY DEF RetryAfterIsEnough
  <2>1. /\ Level(k, buckets) \in 0 .. Burst
        /\ Level(k, Swept) = Level(k, buckets)
    BY LevelType, SweepChangesNothing DEF IInv
  <2> QED
    BY <2>1 DEF IInv, WaitCovered, TypeOK
<1> QED
  BY <1>1, Invariance, PTL

\* After any call, every bucket in the map was used less than a full refill plus
\* a sweep interval ago.
THEOREM IdleBucketsLeave == Spec => IdleBucketsAreDropped
<1>1. IInv /\ [Next]_vars =>
        [\A k \in Key : Allow(k) =>
            \A j \in buckets' : now - last'[j] < Burst + SweepEvery]_vars
  <2> SUFFICES ASSUME IInv, NEW k \in Key, Allow(k), NEW j \in buckets'
               PROVE  now - last'[j] < Burst + SweepEvery
    BY DEF vars
  <2>0. [Next]_vars
    BY DEF Next
  <2>1. IInv'
    BY <2>0, Inductive
  <2>2. lastSweep' - last'[j] < Burst /\ j \in Key /\ last'[j] \in 0 .. MaxTime
    BY <2>1 DEF IInv, KeptUnfilled, TypeOK
  <2>3. /\ now \in Nat /\ lastSweep \in Int /\ lastSweep <= now
        /\ lastSweep' = IF SweepDue THEN now ELSE lastSweep
    BY DEF IInv, TypeOK, PastTimes, Allow
  <2>4. CASE SweepDue
    BY <2>2, <2>3, <2>4
  <2>5. CASE ~SweepDue
    BY <2>2, <2>3, <2>5 DEF SweepDue
  <2> QED
    BY <2>4, <2>5
<1> QED
  BY <1>1, Invariance, PTL DEF Spec, IdleBucketsAreDropped

\* The limiter implements one token bucket per key: dropping full buckets and
\* refilling lazily cannot be observed.
THEOREM LimiterImplementsTokenBucket == Spec => ImplementsTokenBucket
<1>1. Init => Bucket!Init
  BY DEF Init, Bucket!Init, Level
<1>2. IInv /\ [Next]_vars => [Bucket!Next]_Bucket!bucketVars
  <2> SUFFICES ASSUME IInv, [Next]_vars PROVE [Bucket!Next]_Bucket!bucketVars
    OBVIOUS
  <2>1. TypeOK /\ PastTimes
    BY DEF IInv
  <2>2. CASE UNCHANGED vars
    BY <2>2 DEF vars, map, Bucket!bucketVars, Level, Refilled, Least
  <2>3. CASE Tick
    <3>1. \A k \in Key : Level(k, buckets)' = Least(Burst, Level(k, buckets) + 1)
      BY <2>1, <2>3, TickRefills
    <3>2. UNCHANGED <<spent, wait>>
      BY <2>3 DEF Tick
    <3>3. Bucket!Refill
      BY <3>1, <3>2 DEF Bucket!Refill, Bucket!Least, Least
    <3> QED
      BY <3>3 DEF Bucket!Next
  <2>4. ASSUME NEW k \in Key, Allow(k) PROVE [Bucket!Next]_Bucket!bucketVars
    <3> DEFINE n == Level(k, Swept)
    <3>1. n = Level(k, buckets) /\ n \in 0 .. Burst
      BY <2>1, LevelType, SweepChangesNothing
    <3>2. Level(k, buckets)' = IF n >= Cost THEN n - Cost ELSE n
      BY <2>1, <2>4, <3>1, AllowedLevel
    <3>3. \A j \in Key : j # k => Level(j, buckets)' = Level(j, buckets)
      BY <2>1, <2>4, OtherLevels
    <3>4. /\ wait' = [wait EXCEPT ![k] = IF n >= Cost THEN 0 ELSE Cost - n]
          /\ spent' = [spent EXCEPT ![k] = IF n >= Cost THEN @ + Cost ELSE @]
          /\ spent \in [Key -> Nat]
      BY <2>1, <2>4 DEF Allow, TypeOK
    <3>5. CASE n >= Cost
      <4>1. [j \in Key |-> Level(j, buckets)]'
              = [[j \in Key |-> Level(j, buckets)] EXCEPT ![k] = @ - Cost]
        BY <3>1, <3>2, <3>3, <3>5
      <4>2. Bucket!Pass(k)
        BY <3>1, <3>4, <3>5, <4>1 DEF Bucket!Pass
      <4> QED
        BY <4>2 DEF Bucket!Next
    <3>6. CASE ~(n >= Cost)
      <4>1. [j \in Key |-> Level(j, buckets)]' = [j \in Key |-> Level(j, buckets)]
        BY <3>1, <3>2, <3>3, <3>6
      <4>2. spent' = spent /\ wait' = [wait EXCEPT ![k] = Cost - n]
        BY <3>4, <3>6
      <4>3. Bucket!Refuse(k)
        BY <3>1, <3>6, <4>1, <4>2 DEF Bucket!Refuse
      <4> QED
        BY <4>3 DEF Bucket!Next
    <3> QED
      BY <3>5, <3>6
  <2> QED
    BY <2>2, <2>3, <2>4 DEF Next
<1> QED
  BY <1>1, <1>2, Invariance, PTL DEF Spec, ImplementsTokenBucket, Bucket!Spec
=============================================================================
