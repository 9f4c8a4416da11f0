---------------------------- MODULE TokenBucket ----------------------------
(***************************************************************************)
(* One user's token bucket under any sequence of Take, Return and          *)
(* Available, at any times.  Every method holds b.mu from its reading of   *)
(* the clock to its return, so a method is one step.                       *)
(*                                                                         *)
(* Beside the bucket runs the one it stands for: level is what a bucket    *)
(* that fills continuously would hold, in units of 1 / Den token.          *)
(***************************************************************************)
EXTENDS Bucket

CONSTANTS
    Amounts,  \* what callers ask for and give back
    Honest,   \* a Return undoes at most one grant, as the token gate's does
    MaxTime,  \* bound: ticks of the clock
    MaxOps    \* bound: calls of Take and Return

ASSUME CallerAssumption ==
    /\ Amounts \subseteq 0 .. MaxInt
    /\ Honest \in BOOLEAN
    /\ MaxTime \in Nat /\ MaxOps \in Nat

VARIABLES
    bucket,    \* the bucket: b.tokens and b.lastRefill
    now,       \* time.Now()
    granted,   \* tokens granted so far, less those given back
    refills,   \* refills that advanced the clock by a truncated interval
    level,     \* what a continuous bucket would hold, times Den
    ops        \* calls so far

vars == <<bucket, now, granted, refills, level, ops>>

Full == Den * Capacity
AtMostFull(x) == IF x > Full THEN Full ELSE x

Init ==
    /\ now = 0
    /\ bucket = NewBucket(now)
    /\ granted = 0
    /\ refills = 0
    /\ level = Full
    /\ ops = 0

Tick ==
    /\ now < MaxTime
    /\ now' = now + 1
    /\ level' = AtMostFull(level + Num)
    /\ UNCHANGED <<bucket, granted, refills, ops>>

(* Whether the refill at the start of a call added tokens. *)
Refills == ~FreshClock(bucket) /\ Accrued(now - bucket.lastRefill) > 0
CountRefill == refills' = IF Refills THEN refills + 1 ELSE refills

Available ==
    /\ bucket' = Refilled(bucket, now)
    /\ CountRefill
    /\ UNCHANGED <<now, granted, level, ops>>

Take(n) ==
    /\ ops < MaxOps
    /\ ops' = ops + 1
    /\ CountRefill
    /\ LET b == Refilled(bucket, now)
       IN  \/ /\ Grants(b, n)
              /\ bucket' = Spent(b, n)
              /\ granted' = granted + n
              /\ level' = level - Den * n
           \/ /\ ~Grants(b, n)
              /\ bucket' = b
              /\ UNCHANGED <<granted, level>>
    /\ UNCHANGED now

Return(n) ==
    /\ Honest => n <= granted /\ n <= Capacity
    /\ ops < MaxOps
    /\ ops' = ops + 1
    /\ CountRefill
    /\ bucket' = Credited(Refilled(bucket, now), n)
    /\ granted' = granted - n
    /\ level' = AtMostFull(level + Den * n)
    /\ UNCHANGED now

Next ==
    \/ Tick
    \/ Available
    \/ \E n \in Amounts : Take(n) \/ Return(n)

Spec == Init /\ [][Next]_vars

-----------------------------------------------------------------------------
(* The bucket holds between 0 and Capacity tokens, whatever is taken and   *)
(* given back, and its clock is never ahead of the time. *)
TypeOK ==
    /\ bucket \in [tokens : 0 .. Capacity, lastRefill : 0 .. now]
    /\ now \in Nat
    /\ granted \in Nat
    /\ refills \in Nat
    /\ level \in Int /\ level <= Full
    /\ ops \in Nat

(* What truncating the interval a refill consumes can add, per refill.     *)
(* Nothing when a token takes a whole number of ticks (Num = 1). *)
Rounding == IF Num = 0 THEN 0 ELSE (Num - 1) * refills

(* The rate limit: what a user holds at any time, tokens granted and not   *)
(* given back, is at most the capacity and what accrued at the rate since  *)
(* the bucket was made. *)
RateLimited ==
    Den * granted <= Full + Num * now + Rounding

(* Its inductive form: the tokens in the bucket belong to the same budget, *)
(* and only the time up to lastRefill has been turned into tokens. *)
Budget ==
    Den * (bucket.tokens + granted) <= Full + Num * bucket.lastRefill + Rounding

(* The bucket with the fraction of a token it owes, times Den. *)
WithOwed == Den * bucket.tokens + Num * (now - bucket.lastRefill)

(* Lazy refilling never short-changes the user: the bucket always stands   *)
(* for at least what one that fills continuously would hold. *)
NeverShort == level <= WithOwed

(* And it gives less than one token too much, besides the rounding: the    *)
(* fraction that is kept when a refill fills the bucket.  A full bucket    *)
(* that nobody asks only starts its clock afresh when somebody does. *)
WithinOneToken == level = Full \/ WithOwed < level + Den + Rounding
=============================================================================
