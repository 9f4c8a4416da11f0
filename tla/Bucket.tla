------------------------------- MODULE Bucket -------------------------------
(***************************************************************************)
(* The token bucket of src/internal/tokens/bucket.go as functions: what    *)
(* each method makes of a bucket and of the time at which it holds b.mu.   *)
(*                                                                         *)
(* Time is counted in ticks (nanoseconds in the code) and the rate is the  *)
(* fraction Num / Den of a token per tick.  The code computes in float64;  *)
(* here the quotients are exact, and truncated where the code truncates:   *)
(* to whole tokens and to whole ticks.                                     *)
(***************************************************************************)
EXTENDS Integers

CONSTANTS
    Capacity,  \* b.capacity
    Num, Den,  \* b.refillPerSec, in tokens per tick
    MaxInt     \* the largest value of b.tokens, 2^63 - 1 in the code

(* NewBucket clamps the capacity to 1 or more and the rate to 0 or more. *)
ASSUME BucketAssumption ==
    /\ Capacity \in Nat \ {0}
    /\ Num \in Nat
    /\ Den \in Nat \ {0}
    /\ MaxInt \in Nat /\ MaxInt >= 2 * Capacity

(* A sum that does not fit its word wraps around. *)
Wrapped(x) == IF x > MaxInt THEN x - 2 * (MaxInt + 1) ELSE x

(* Mistakes that the properties tell from the code: each of the definitions *)
(* marked so is a wrong version of the one its name starts with. *)
CappedNot(x) == x                                        \* a mistake

Capped(x) == IF x > Capacity THEN Capacity ELSE x

NewBucket(now) == [tokens |-> Capacity, lastRefill |-> now]

AccruedRoundedUp(ticks) == (Num * ticks + Den - 1) \div Den   \* a mistake

(* The whole tokens of an interval, and the whole ticks they stand for. *)
Accrued(ticks) == (Num * ticks) \div Den
Consumed(add) == (Den * add) \div Num

(* Mistakes: the fraction of a token is dropped; what the cap cut off stays  *)
(* owed. *)
RefilledFromNow(b, now) ==
    [tokens |-> Capped(b.tokens + Accrued(now - b.lastRefill)), lastRefill |-> now]

RefilledByTokensAdded(b, now) ==
    LET total == Capped(b.tokens + Accrued(now - b.lastRefill))
    IN  IF Num = 0 \/ b.tokens >= Capacity THEN [b EXCEPT !.lastRefill = now]
        ELSE [tokens |-> total,
              lastRefill |-> b.lastRefill + Consumed(total - b.tokens)]

(* refillLocked.  The remainder of the interval stays owed, except that a  *)
(* full bucket starts its clock afresh. *)
FreshClock(b) == Num = 0 \/ b.tokens >= Capacity

Refilled(b, now) ==
    LET add == Accrued(now - b.lastRefill)
    IN  IF FreshClock(b) THEN [b EXCEPT !.lastRefill = now]
        ELSE IF add <= 0 THEN b
        ELSE [tokens |-> Capped(b.tokens + add),
              lastRefill |-> b.lastRefill + Consumed(add)]

(* Take, on the bucket after its refill. *)
Grants(b, n) == n <= b.tokens
Spent(b, n) == [b EXCEPT !.tokens = @ - n]

(* Return: the sum is an int64. *)
Credited(b, n) == [b EXCEPT !.tokens = Capped(Wrapped(@ + n))]
=============================================================================
