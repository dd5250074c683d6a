---------------------------- MODULE TokenBucket -----------------------------
(***************************************************************************)
(* What a rate limiter promises: every key has a bucket at all times, which*)
(* gains one unit per tick up to Burst; a request spends Cost units or is  *)
(* refused and told how many ticks to wait.                                *)
(***************************************************************************)
EXTENDS Integers

CONSTANTS
    Key,
    Cost,       \* units one request spends: ticks it takes to refill a token
    Burst       \* units of a full bucket

VARIABLES
    level,      \* units in each key's bucket
    spent,      \* units each key has spent since the start
    wait        \* ticks the last answer to each key told it to wait: 0 if allowed

bucketVars == <<level, spent, wait>>

Least(a, b) == IF a <= b THEN a ELSE b

Init ==
    /\ level = [k \in Key |-> Burst]
    /\ spent = [k \in Key |-> 0]
    /\ wait = [k \in Key |-> 0]

Refill ==
    /\ level' = [k \in Key |-> Least(Burst, level[k] + 1)]
    /\ UNCHANGED <<spent, wait>>

Pass(k) ==
    /\ level[k] >= Cost
    /\ level' = [level EXCEPT ![k] = @ - Cost]
    /\ spent' = [spent EXCEPT ![k] = @ + Cost]
    /\ wait' = [wait EXCEPT ![k] = 0]

Refuse(k) ==
    /\ level[k] < Cost
    /\ wait' = [wait EXCEPT ![k] = Cost - level[k]]
    /\ UNCHANGED <<level, spent>>

Next == Refill \/ \E k \in Key : Pass(k) \/ Refuse(k)

Spec == Init /\ [][Next]_bucketVars
=============================================================================
