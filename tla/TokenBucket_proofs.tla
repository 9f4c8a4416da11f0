------------------------- MODULE TokenBucket_proofs -------------------------
(***************************************************************************)
(* Theorems about TokenBucket, for every capacity, rate and word size, as  *)
(* long as callers are honest.                                             *)
(***************************************************************************)
EXTENDS TokenBucket, BasicFacts, TLAPS

(* A bucket, and what a refill makes of it. *)
Buckets == [tokens : 0 .. Capacity, lastRefill : 0 .. now]
Debt(b) == Den * b.tokens - Num * b.lastRefill

(* The interval a refill consumes lies between what its tokens are worth,  *)
(* less the truncation, and the time that has passed. *)
LEMMA Consumption ==
    ASSUME NEW d \in Nat, Num # 0
    PROVE  /\ Accrued(d) \in Nat
           /\ Consumed(Accrued(d)) \in 0 .. d
           /\ Num * Consumed(Accrued(d)) <= Den * Accrued(d)
           /\ Den * Accrued(d) <= Num * Consumed(Accrued(d)) + (Num - 1)
<1> DEFINE add == Accrued(d)
           c == Consumed(add)
<1>0. Num \in Nat \ {0} /\ Den \in Nat \ {0}
  BY BucketAssumption
<1>1. Num * d \in Nat
  BY <1>0, Products
<1>2. add \in Nat /\ Den * add <= Num * d
  BY <1>0, <1>1, Division DEF Accrued
<1> HIDE DEF add
<1>3. Den * add \in Nat
  BY <1>0, <1>2, Products
<1>4. c \in Nat /\ Num * c <= Den * add /\ Den * add < Num * c + Num
  BY <1>0, <1>3, Division DEF Consumed
<1> HIDE DEF c
<1>5. Num * c \in Int
  BY <1>0, <1>4, Products
<1>6. c <= d
  BY <1>0, <1>1, <1>2, <1>3, <1>4, <1>5, Cancelling
<1> QED
  BY <1>0, <1>2, <1>3, <1>4, <1>5, <1>6 DEF add, c

(* A refill keeps a bucket a bucket, adds no more than the time it uses up *)
(* is worth, and never drops what the bucket stands for below a level that *)
(* was within it. *)
LEMMA RefillFacts ==
    ASSUME now \in Nat, bucket \in Buckets
    PROVE  /\ Refilled(bucket, now) \in Buckets
           /\ Debt(Refilled(bucket, now))
                <= Debt(bucket) + (IF Refills THEN Num - 1 ELSE 0)
           /\ \A x \in Int :
                x <= Full /\ x <= WithOwed =>
                    x <= Den * Refilled(bucket, now).tokens
                         + Num * (now - Refilled(bucket, now).lastRefill)
<1> DEFINE b == Refilled(bucket, now)
           t == bucket.tokens
           l == bucket.lastRefill
           d == now - l
           add == Accrued(d)
           c == Consumed(add)
<1>0. /\ Num \in Nat /\ Den \in Nat \ {0} /\ Capacity \in Nat \ {0}
      /\ t \in 0 .. Capacity /\ l \in 0 .. now /\ d \in Nat
      /\ bucket = [tokens |-> t, lastRefill |-> l]
  BY BucketAssumption DEF Buckets
<1>1. CASE FreshClock(bucket)
  <2>1. b = [tokens |-> t, lastRefill |-> now]
    BY <1>0, <1>1 DEF Refilled
  <2>2. ~Refills
    BY <1>1 DEF Refills
  <2>3. Num * l <= Num * now /\ Num * l \in Int /\ Num * now \in Int /\ Den * t \in Int
    <3>1. l \in Int /\ now \in Int /\ l <= now /\ t \in Int
      BY <1>0
    <3> HIDE DEF t, l
    <3>2. Num * l <= Num * now
      BY <1>0, <3>1, Products
    <3> QED
      BY <1>0, <3>1, <3>2, Products
  <2>4. b \in Buckets /\ b.tokens = t /\ b.lastRefill = now
    <3>1. now \in 0 .. now
      BY <1>0
    <3> HIDE DEF t, l
    <3> QED
      BY <1>0, <2>1, <3>1 DEF Buckets
  <2>5. Debt(b) <= Debt(bucket)
    BY <2>3, <2>4 DEF Debt
  <2>6. Num * (now - now) = 0
    BY <1>0
  <2>7. ASSUME NEW x \in Int, x <= Full, x <= WithOwed PROVE x <= Den * t
    <3>1. CASE Num = 0
      BY <1>0, <2>7, <3>1 DEF WithOwed
    <3>2. CASE t >= Capacity
      <4>1. t = Capacity
        BY <1>0, <3>2
      <4> QED
        BY <2>7, <4>1 DEF Full
    <3> QED
      BY <1>1, <3>1, <3>2 DEF FreshClock
  <2>8. Debt(bucket) \in Int
    BY <2>3 DEF Debt
  <2> HIDE DEF t, l
  <2>9. Debt(b) <= Debt(bucket) + (IF Refills THEN Num - 1 ELSE 0)
    BY <2>2, <2>5, <2>8
  <2>10. ASSUME NEW x \in Int, x <= Full, x <= WithOwed
         PROVE  x <= Den * b.tokens + Num * (now - b.lastRefill)
    BY <2>3, <2>4, <2>6, <2>7, <2>10
  <2> QED
    BY <2>4, <2>9, <2>10
<1>2. CASE ~FreshClock(bucket)
  <2>0. Num # 0 /\ t < Capacity
    BY <1>0, <1>2 DEF FreshClock
  <2>1. /\ add \in Nat /\ c \in 0 .. d
        /\ Num * c <= Den * add /\ Den * add <= Num * c + (Num - 1)
    BY <1>0, <2>0, Consumption
  <2>2. CASE add <= 0
    <3>1. b = bucket /\ ~Refills
      BY <1>2, <2>1, <2>2 DEF Refilled, Refills
    <3>2. Debt(bucket) \in Int
      BY <1>0, Products DEF Debt
    <3> QED
      BY <3>1, <3>2 DEF WithOwed
  <2>3. CASE ~(add <= 0)
    <3>1. Refills
      BY <1>2, <2>1, <2>3 DEF Refills
    <3>2. b = [tokens |-> Capped(t + add), lastRefill |-> l + c]
      BY <1>2, <2>3 DEF Refilled
    <3>3. b.tokens = Capped(t + add) /\ b.lastRefill = l + c
      BY <3>2
    <3> HIDE DEF add, c
    <3>4. /\ Capped(t + add) \in 0 .. Capacity /\ Capped(t + add) <= t + add
          /\ Capped(t + add) = t + add \/ Capped(t + add) = Capacity
      BY <1>0, <2>1 DEF Capped
    <3>5. l + c \in 0 .. now
      BY <1>0, <2>1
    <3> HIDE DEF t, l
    <3>6. b \in Buckets
      BY <3>2, <3>4, <3>5 DEF Buckets
    <3>7. /\ Den * (t + add) = Den * t + Den * add
          /\ Num * (l + c) = Num * l + Num * c
          /\ Den * Capped(t + add) <= Den * (t + add)
          /\ {Den * t, Den * add, Num * l, Num * c, Den * Capped(t + add)} \subseteq Int
      BY <1>0, <2>1, <3>4, Products
    <3>8. Debt(bucket) = Den * t - Num * l /\ Debt(b) = Den * Capped(t + add) - Num * (l + c)
      BY <3>3 DEF Debt, t, l
    <3>9. Debt(b) <= Debt(bucket) + (Num - 1)
      BY <1>0, <2>1, <3>7, <3>8
    <3>10. ASSUME NEW x \in Int, x <= Full, x <= WithOwed
           PROVE  x <= Den * b.tokens + Num * (now - b.lastRefill)
      <4>1. /\ Num * (now - l) = Num * now - Num * l
            /\ Num * (now - (l + c)) = Num * now - Num * (l + c)
            /\ Num * (now - (l + c)) >= 0
            /\ Num * now \in Int
        BY <1>0, <2>1, <3>5, Products
      <4>2. x <= Den * t + (Num * now - Num * l)
        BY <3>10, <4>1 DEF WithOwed, t, l
      <4>3. CASE Capped(t + add) = Capacity
        BY <1>0, <3>3, <3>10, <4>1, <4>3, <3>7 DEF Full
      <4>4. CASE Capped(t + add) = t + add
        <5>1. x <= Den * (t + add) + (Num * now - Num * (l + c))
          BY <2>1, <3>7, <4>1, <4>2
        <5> QED
          BY <3>3, <4>1, <4>4, <5>1
      <4> QED
        BY <3>4, <4>3, <4>4
    <3> QED
      BY <3>1, <3>6, <3>9, <3>10
  <2> QED
    BY <2>2, <2>3
<1> QED
  BY <1>1, <1>2

(* What a bucket stands for, with what it is owed.  A refill adds no more  *)
(* to that than the truncation, and leaves less than a token above a full  *)
(* bucket. *)
Worth(b) == Den * b.tokens + Num * (now - b.lastRefill)

LEMMA WorthFacts ==
    ASSUME now \in Nat, NEW b \in Buckets
    PROVE  /\ Worth(b) \in Int /\ Worth(b) = Debt(b) + Num * now
           /\ {Num * now, Debt(b), Den * b.tokens} \subseteq Int
           /\ Den * b.tokens \in 0 .. Full
<1>0. /\ Num \in Nat /\ Den \in Nat \ {0} /\ Capacity \in Nat \ {0}
      /\ b.tokens \in 0 .. Capacity /\ b.lastRefill \in 0 .. now
  BY BucketAssumption DEF Buckets
<1> DEFINE t == b.tokens
           l == b.lastRefill
<1>1. t \in Int /\ l \in Int /\ t <= Capacity /\ t >= 0
  BY <1>0
<1>2. Worth(b) = Den * t + Num * (now - l) /\ Debt(b) = Den * t - Num * l
  BY DEF Worth, Debt
<1> HIDE DEF t, l
<1>3. /\ Num * (now - l) = Num * now - Num * l /\ Den * t <= Den * Capacity /\ Den * t >= 0
      /\ {Den * t, Num * now, Num * l} \subseteq Int
  BY <1>0, <1>1, Products
<1>4. Den * t = Den * b.tokens
  BY DEF t
<1>5. Full \in Int /\ Full = Den * Capacity
  BY <1>0, Products DEF Full
<1> QED
  BY <1>2, <1>3, <1>4, <1>5

LEMMA RefillIsWorthLittle ==
    ASSUME now \in Nat, bucket \in Buckets
    PROVE  Worth(Refilled(bucket, now)) < Full + Den + (IF Refills THEN Num - 1 ELSE 0)
<1> DEFINE b == Refilled(bucket, now)
           t == bucket.tokens
           l == bucket.lastRefill
           d == now - l
           add == Accrued(d)
           c == Consumed(add)
<1>0. /\ Num \in Nat /\ Den \in Nat \ {0} /\ Capacity \in Nat \ {0}
      /\ t \in 0 .. Capacity /\ l \in 0 .. now /\ d \in Nat
  BY BucketAssumption DEF Buckets
<1>1. b \in Buckets
  BY RefillFacts
<1> SUFFICES Worth(b) < Full + Den + (IF Refills THEN Num - 1 ELSE 0)
  OBVIOUS
<1> HIDE DEF b
<1>2. Den * b.tokens \in 0 .. Full /\ Full \in Int
  <2>1. Full \in Int
    BY <1>0, Products DEF Full
  <2> QED
    BY <1>1, <2>1, WorthFacts
<1>3. CASE FreshClock(bucket)
  <2>1. b.lastRefill = now /\ ~ Refills
    BY <1>0, <1>3 DEF Refilled, Refills, Buckets, b
  <2>2. Num * (now - now) = 0
    BY <1>0
  <2> QED
    BY <1>0, <1>2, <2>1, <2>2 DEF Worth
<1>4. CASE ~ FreshClock(bucket)
  <2>0. Num # 0
    BY <1>4 DEF FreshClock
  <2>1. /\ add \in Nat /\ c \in 0 .. d
        /\ Den * add <= Num * c + (Num - 1)
    BY <1>0, <2>0, Consumption
  <2>2. Num * d < Den * add + Den
    <3>1. Num * d \in Nat
      BY <1>0, Products
    <3> QED
      BY <1>0, <3>1, Division DEF Accrued
  <2>3. CASE add <= 0
    <3>1. b = bucket /\ ~ Refills
      BY <1>4, <2>1, <2>3 DEF Refilled, Refills, b
    <3>2. add = 0
      BY <2>1, <2>3
    <3> HIDE DEF add
    <3>3. Den * add = 0
      BY <1>0, <3>2
    <3>4. now - b.lastRefill = d
      BY <3>1
    <3> HIDE DEF d
    <3>5. Num * d < Den /\ Num * d \in Int
      BY <1>0, <2>2, <3>3, Products
    <3> QED
      BY <1>0, <1>2, <3>1, <3>4, <3>5 DEF Worth
  <2>4. CASE ~ (add <= 0)
    <3>1. Refills
      BY <1>4, <2>1, <2>4 DEF Refills
    <3>2. b.lastRefill = l + c
      BY <1>4, <2>4 DEF Refilled, Buckets, b
    <3> HIDE DEF add, c
    <3>3. now - (l + c) = d - c
      BY <1>0, <2>1
    <3>4. d \in Int /\ c \in Int
      BY <1>0, <2>1
    <3>5. now - b.lastRefill = d - c
      BY <3>2, <3>3
    <3> HIDE DEF d
    <3>6. Num * (d - c) = Num * d - Num * c /\ {Num * d, Num * c, Den * add} \subseteq Int
      BY <1>0, <2>1, <3>4, Products
    <3>7. Num * (d - c) < Den + (Num - 1) /\ Num * (d - c) \in Int
      BY <1>0, <2>1, <2>2, <3>6
    <3>8. Worth(b) = Den * b.tokens + Num * (d - c)
      BY <3>5 DEF Worth
    <3> QED
      BY <1>0, <1>2, <3>1, <3>7, <3>8
  <2> QED
    BY <2>3, <2>4
<1> QED
  BY <1>3, <1>4

(* Adding and giving back tokens, on a bucket after its refill. *)
LEMMA SpentFacts ==
    ASSUME now \in Nat, NEW b \in Buckets, NEW n \in Nat, Grants(b, n)
    PROVE  /\ Spent(b, n) \in Buckets
           /\ Spent(b, n).tokens = b.tokens - n
           /\ Spent(b, n).lastRefill = b.lastRefill
  BY BucketAssumption DEF Buckets, Grants, Spent

LEMMA CreditedFacts ==
    ASSUME now \in Nat, NEW b \in Buckets, NEW n \in 0 .. Capacity
    PROVE  /\ Credited(b, n) \in Buckets
           /\ Credited(b, n).tokens = Capped(b.tokens + n)
           /\ Credited(b, n).lastRefill = b.lastRefill
<1>1. /\ Capacity \in Nat \ {0} /\ MaxInt \in Nat /\ MaxInt >= 2 * Capacity
      /\ b.tokens \in 0 .. Capacity
  BY BucketAssumption DEF Buckets
<1>2. Wrapped(b.tokens + n) = b.tokens + n
  BY <1>1 DEF Wrapped
<1>3. Capped(b.tokens + n) \in 0 .. Capacity
  BY <1>1 DEF Capped
<1>4. Credited(b, n) = [b EXCEPT !.tokens = Capped(b.tokens + n)]
  BY <1>2 DEF Credited, Buckets
<1> QED
  BY <1>3, <1>4 DEF Buckets

(* Between 0 and Capacity tokens, and a clock that is never ahead. *)
THEOREM TypeCorrect == ASSUME Honest PROVE Spec => []TypeOK
<1>0. Capacity \in Nat \ {0} /\ Num \in Nat /\ Den \in Nat \ {0} /\ Full \in Nat
  BY BucketAssumption, Products DEF Full
<1>1. Init => TypeOK
  BY <1>0 DEF Init, TypeOK, NewBucket
<1>2. TypeOK /\ [Next]_vars => TypeOK'
  <2> SUFFICES ASSUME TypeOK, [Next]_vars PROVE TypeOK'
    OBVIOUS
  <2> DEFINE b == Refilled(bucket, now)
  <2>0. /\ bucket \in Buckets /\ now \in Nat /\ granted \in Nat /\ refills \in Nat
        /\ level \in Int /\ level <= Full /\ ops \in Nat
    BY DEF TypeOK, Buckets
  <2>1. b \in Buckets
    BY <2>0, RefillFacts
  <2> HIDE DEF b
  <2>2. ASSUME CountRefill PROVE refills' \in Nat
    BY <2>0, <2>2 DEF CountRefill
  <2>3. \A x \in Int : AtMostFull(x) \in Int /\ AtMostFull(x) <= Full
    BY <1>0 DEF AtMostFull
  <2>4. CASE Tick
    <3>1. now' = now + 1 /\ level' = AtMostFull(level + Num)
          /\ UNCHANGED <<bucket, granted, refills, ops>>
      BY <2>4 DEF Tick
    <3>2. bucket \in [tokens : 0 .. Capacity, lastRefill : 0 .. now']
      BY <2>0, <3>1 DEF Buckets
    <3> QED
      BY <1>0, <2>0, <2>3, <3>1, <3>2 DEF TypeOK
  <2>5. CASE Available
    <3>1. bucket' = b /\ CountRefill /\ UNCHANGED <<now, granted, level, ops>>
      BY <2>5 DEF Available, b
    <3> QED
      BY <2>0, <2>1, <2>2, <3>1 DEF TypeOK, Buckets
  <2>6. ASSUME NEW n \in Amounts, Take(n) PROVE TypeOK'
    <3>0. n \in Nat
      BY CallerAssumption, BucketAssumption
    <3>1. /\ ops' = ops + 1 /\ CountRefill /\ now' = now
          /\ \/ /\ Grants(b, n) /\ bucket' = Spent(b, n)
                /\ granted' = granted + n /\ level' = level - Den * n
             \/ bucket' = b /\ UNCHANGED <<granted, level>>
      BY <2>6 DEF Take, b
    <3>2. Den * n \in Nat
      BY <1>0, <3>0, Products
    <3>3. bucket' \in Buckets
      BY <2>0, <2>1, <3>0, <3>1, SpentFacts
    <3>4. granted' \in Nat /\ level' \in Int /\ level' <= Full
      BY <1>0, <2>0, <3>0, <3>1, <3>2
    <3> QED
      BY <2>0, <2>2, <3>1, <3>3, <3>4 DEF TypeOK, Buckets
  <2>7. ASSUME NEW n \in Amounts, Return(n) PROVE TypeOK'
    <3>0. n \in Nat /\ n <= granted /\ n \in 0 .. Capacity
      BY <1>0, <2>7, CallerAssumption, BucketAssumption DEF Return
    <3>1. /\ ops' = ops + 1 /\ CountRefill /\ now' = now
          /\ bucket' = Credited(b, n)
          /\ granted' = granted - n /\ level' = AtMostFull(level + Den * n)
      BY <2>7 DEF Return, b
    <3>2. Den * n \in Nat
      BY <1>0, <3>0, Products
    <3>3. bucket' \in Buckets
      BY <2>0, <2>1, <3>0, <3>1, CreditedFacts
    <3>4. granted' \in Nat /\ level' \in Int /\ level' <= Full
      BY <2>0, <2>3, <3>0, <3>1, <3>2
    <3> QED
      BY <2>0, <2>2, <3>1, <3>3, <3>4 DEF TypeOK, Buckets
  <2>8. CASE UNCHANGED vars
    BY <2>8 DEF vars, TypeOK
  <2> QED
    BY <2>4, <2>5, <2>6, <2>7, <2>8 DEF Next
<1> QED
  BY <1>1, <1>2, PTL DEF Spec

(* Every token granted or left in the bucket was there at the start or     *)
(* accrued at the rate before lastRefill. *)
THEOREM BudgetHolds == ASSUME Honest PROVE Spec => []Budget
<1>0. Capacity \in Nat \ {0} /\ Num \in Nat /\ Den \in Nat \ {0} /\ Full \in Nat
  BY BucketAssumption, Products DEF Full
<1> DEFINE Budgeted == Debt(bucket) + Den * granted <= Full + Rounding
<1>1. Init => Budget
  <2> SUFFICES ASSUME Init PROVE Budget
    OBVIOUS
  <2>1. bucket.tokens = Capacity /\ bucket.lastRefill = 0 /\ granted = 0 /\ refills = 0
    BY DEF Init, NewBucket
  <2>2. Num * 0 = 0 /\ Rounding = 0 /\ Capacity + 0 = Capacity
    BY <1>0, <2>1 DEF Rounding
  <2> QED
    BY <1>0, <2>1, <2>2 DEF Budget, Full
<1>2. ASSUME TypeOK PROVE Budget <=> Budgeted
  <2>1. /\ bucket \in Buckets /\ granted \in Nat /\ refills \in Nat
    BY <1>2 DEF TypeOK, Buckets
  <2>2. bucket.tokens \in Nat /\ bucket.lastRefill \in Nat
    BY <1>0, <1>2 DEF TypeOK
  <2>3. Rounding \in Int
    BY <1>0, <2>1, Products DEF Rounding
  <2>4. /\ Den * (bucket.tokens + granted) = Den * bucket.tokens + Den * granted
        /\ {Den * bucket.tokens, Den * granted, Num * bucket.lastRefill} \subseteq Int
    BY <1>0, <2>1, <2>2, Products
  <2> QED
    BY <1>0, <2>3, <2>4 DEF Budget, Debt
<1>3. ASSUME TypeOK, TypeOK', Budgeted, [Next]_vars PROVE Budgeted'
  <2> DEFINE b == Refilled(bucket, now)
             r == IF Refills THEN Num - 1 ELSE 0
  <2>0. /\ bucket \in Buckets /\ now \in Nat /\ granted \in Nat /\ refills \in Nat
    BY <1>3 DEF TypeOK, Buckets
  <2>1. b \in Buckets /\ Debt(b) <= Debt(bucket) + r
    BY <2>0, RefillFacts
  <2>2. Rounding \in Int /\ Den * granted \in Int
    BY <1>0, <2>0, Products DEF Rounding
  <2>3. \A c \in Buckets : {Den * c.tokens, Num * c.lastRefill, Debt(c)} \subseteq Int
    <3> SUFFICES ASSUME NEW c \in Buckets
                 PROVE  {Den * c.tokens, Num * c.lastRefill, Debt(c)} \subseteq Int
      OBVIOUS
    <3>1. c.tokens \in Int /\ c.lastRefill \in Int
      BY <1>0, <2>0 DEF Buckets
    <3>2. Den * c.tokens \in Int /\ Num * c.lastRefill \in Int
      BY <1>0, <3>1, Products
    <3> QED
      BY <3>2 DEF Debt
  <2>4. ASSUME CountRefill PROVE Rounding' = Rounding + r
    <3>1. CASE Refills
      <4>1. refills' = refills + 1 /\ Num # 0
        BY <2>4, <3>1 DEF CountRefill, Refills, FreshClock
      <4>2. (Num - 1) * (refills + 1) = (Num - 1) * refills + (Num - 1)
        BY <1>0, <2>0, <4>1
      <4> QED
        BY <3>1, <4>1, <4>2 DEF Rounding
    <3>2. CASE ~Refills
      <4>1. refills' = refills
        BY <2>4, <3>2 DEF CountRefill
      <4> QED
        BY <2>2, <3>2, <4>1 DEF Rounding
    <3> QED
      BY <3>1, <3>2
  <2>5. r \in Int
    BY <1>0
  <2> HIDE DEF b, r
  <2>6. CASE Tick \/ UNCHANGED vars
    BY <1>3, <2>6 DEF Tick, vars, Debt, Rounding
  <2>7. CASE Available
    <3>1. bucket' = b /\ CountRefill /\ granted' = granted
      BY <2>7 DEF Available, b
    <3>2. Debt(bucket)' = Debt(b)
      BY <3>1 DEF Debt
    <3> QED
      BY <1>0, <1>3, <2>0, <2>1, <2>2, <2>3, <2>4, <2>5, <3>1, <3>2
  <2>8. ASSUME NEW n \in Amounts, Take(n) PROVE Budgeted'
    <3>0. n \in Nat
      BY CallerAssumption, BucketAssumption
    <3>1. CountRefill /\ \/ /\ Grants(b, n) /\ bucket' = Spent(b, n)
                            /\ granted' = granted + n
                         \/ bucket' = b /\ granted' = granted
      BY <2>8 DEF Take, b
    <3>2. CASE Grants(b, n) /\ bucket' = Spent(b, n) /\ granted' = granted + n
      <4>1. bucket'.tokens = b.tokens - n /\ bucket'.lastRefill = b.lastRefill
        BY <2>0, <2>1, <3>0, <3>2, SpentFacts
      <4>2. b.tokens \in Int
        BY <1>0, <2>1 DEF Buckets
      <4>3. /\ Den * (b.tokens - n) = Den * b.tokens - Den * n
            /\ Den * (granted + n) = Den * granted + Den * n
            /\ Den * n \in Int
        BY <1>0, <2>0, <3>0, <4>2, Products
      <4>4. Debt(bucket)' = Debt(b) - Den * n
        BY <2>1, <2>3, <4>1, <4>3 DEF Debt
      <4> QED
        BY <1>0, <1>3, <2>0, <2>1, <2>2, <2>3, <2>4, <2>5, <3>1, <3>2, <4>3, <4>4
    <3>3. CASE bucket' = b /\ granted' = granted
      <4>1. Debt(bucket)' = Debt(b)
        BY <3>3 DEF Debt
      <4> QED
        BY <1>0, <1>3, <2>0, <2>1, <2>2, <2>3, <2>4, <2>5, <3>1, <3>3, <4>1
    <3> QED
      BY <3>1, <3>2, <3>3
  <2>9. ASSUME NEW n \in Amounts, Return(n) PROVE Budgeted'
    <3>0. n \in Nat /\ n \in 0 .. Capacity
      BY <1>0, <2>9, CallerAssumption, BucketAssumption DEF Return
    <3>1. CountRefill /\ bucket' = Credited(b, n) /\ granted' = granted - n
      BY <2>9 DEF Return, b
    <3>2. /\ bucket'.tokens = Capped(b.tokens + n)
          /\ bucket'.lastRefill = b.lastRefill
      BY <2>0, <2>1, <3>0, <3>1, CreditedFacts
    <3>3. b.tokens \in Nat
      BY <1>0, <2>1 DEF Buckets
    <3>4. Capped(b.tokens + n) <= b.tokens + n /\ Capped(b.tokens + n) \in Int
      BY <1>0, <3>0, <3>3 DEF Capped
    <3>5. /\ Den * Capped(b.tokens + n) <= Den * (b.tokens + n)
          /\ Den * (b.tokens + n) = Den * b.tokens + Den * n
          /\ Den * (granted - n) = Den * granted - Den * n
          /\ {Den * n, Den * Capped(b.tokens + n)} \subseteq Int
      BY <1>0, <2>0, <3>0, <3>3, <3>4, Products
    <3>6. Debt(bucket)' = Den * Capped(b.tokens + n) - Num * b.lastRefill
      BY <3>2 DEF Debt
    <3>7. Debt(b) = Den * b.tokens - Num * b.lastRefill
      BY DEF Debt
    <3> QED
      BY <1>0, <1>3, <2>0, <2>1, <2>2, <2>3, <2>4, <2>5, <3>1, <3>5, <3>6, <3>7
  <2> QED
    BY <1>3, <2>6, <2>7, <2>8, <2>9 DEF Next
<1>4. Budget /\ TypeOK /\ TypeOK' /\ [Next]_vars => Budget'
  <2>1. TypeOK' => (Budget' <=> Budgeted')
    BY <1>2, PTL
  <2> QED
    BY <1>2, <1>3, <2>1
<1> QED
  BY <1>1, <1>4, TypeCorrect, PTL DEF Spec

(* The rate limit: no user ever holds more than the capacity and what      *)
(* accrued since the bucket was made. *)
THEOREM RateIsLimited == ASSUME Honest PROVE Spec => []RateLimited
<1>0. Capacity \in Nat \ {0} /\ Num \in Nat /\ Den \in Nat \ {0} /\ Full \in Nat
  BY BucketAssumption, Products DEF Full
<1>1. TypeOK /\ Budget => RateLimited
  <2> SUFFICES ASSUME TypeOK, Budget PROVE RateLimited
    OBVIOUS
  <2>1. /\ bucket.tokens \in Nat /\ bucket.lastRefill \in Nat /\ bucket.lastRefill <= now
        /\ now \in Nat /\ granted \in Nat /\ refills \in Nat
    BY <1>0 DEF TypeOK
  <2>2. /\ Den * granted <= Den * (bucket.tokens + granted)
        /\ {Den * granted, Den * (bucket.tokens + granted)} \subseteq Int
    BY <1>0, <2>1, Products
  <2>3. /\ Num * bucket.lastRefill <= Num * now
        /\ {Num * bucket.lastRefill, Num * now} \subseteq Int
    BY <1>0, <2>1, Products
  <2>4. Rounding \in Int
    BY <1>0, <2>1, Products DEF Rounding
  <2> QED
    BY <1>0, <2>2, <2>3, <2>4 DEF Budget, RateLimited
<1> QED
  BY <1>1, TypeCorrect, BudgetHolds, PTL

(* Lazy refilling never gives a user less than a bucket that fills         *)
(* continuously would. *)
THEOREM NeverShortChanged == ASSUME Honest PROVE Spec => []NeverShort
<1>0. Capacity \in Nat \ {0} /\ Num \in Nat /\ Den \in Nat \ {0} /\ Full \in Nat
  BY BucketAssumption, Products DEF Full
<1>1. Init => NeverShort
  <2> SUFFICES ASSUME Init PROVE NeverShort
    OBVIOUS
  <2>1. /\ bucket.tokens = Capacity /\ bucket.lastRefill = 0 /\ now = 0 /\ level = Full
    BY DEF Init, NewBucket
  <2>2. Num * (0 - 0) = 0
    BY <1>0
  <2> QED
    BY <1>0, <2>1, <2>2 DEF NeverShort, WithOwed, Full
<1>2. TypeOK /\ NeverShort /\ [Next]_vars => NeverShort'
  <2> SUFFICES ASSUME TypeOK, NeverShort, [Next]_vars PROVE NeverShort'
    OBVIOUS
  <2> DEFINE b == Refilled(bucket, now)
             owed == Num * (now - b.lastRefill)
  <2>0. /\ bucket \in Buckets /\ now \in Nat
        /\ level \in Int /\ level <= Full /\ level <= WithOwed
    BY DEF TypeOK, Buckets, NeverShort
  <2>1. b \in Buckets /\ level <= Den * b.tokens + owed
    BY <2>0, RefillFacts
  <2> HIDE DEF b
  <2>2. b.tokens \in 0 .. Capacity /\ b.lastRefill \in 0 .. now
    BY <2>1 DEF Buckets
  <2>3. Den * b.tokens \in Int /\ owed \in Int /\ owed >= 0
    <3>1. now - b.lastRefill \in Int /\ now - b.lastRefill >= 0 /\ b.tokens \in Int
      BY <1>0, <2>0, <2>2
    <3> QED
      BY <1>0, <3>1, Products
  <2> HIDE DEF owed
  <2>4. CASE Tick
    <3>1. now' = now + 1 /\ level' = AtMostFull(level + Num) /\ bucket' = bucket
      BY <2>4 DEF Tick
    <3> DEFINE d == now - bucket.lastRefill
    <3>2. d \in Int /\ bucket.tokens \in Int
      BY <1>0, <2>0 DEF Buckets
    <3>3. Num * (d + 1) = Num * d + Num /\ Num * d \in Int /\ Den * bucket.tokens \in Int
      BY <1>0, <3>2, Products
    <3>4. (now + 1) - bucket.lastRefill = d + 1
      BY <1>0, <2>0 DEF Buckets
    <3>5. WithOwed' = Den * bucket.tokens + Num * (d + 1)
      <4>1. WithOwed' = Den * bucket.tokens + Num * ((now + 1) - bucket.lastRefill)
        BY <3>1, Zenon DEF WithOwed
      <4> HIDE DEF d
      <4> QED
        BY <3>4, <4>1, Zenon
    <3>6. level <= Den * bucket.tokens + Num * d
      BY <2>0 DEF WithOwed
    <3> HIDE DEF d
    <3>7. level' <= level + Num
      BY <1>0, <2>0, <3>1 DEF AtMostFull
    <3>8. level' \in Int
      BY <1>0, <2>0, <3>1 DEF AtMostFull
    <3> QED
      BY <1>0, <2>0, <3>3, <3>5, <3>6, <3>7, <3>8 DEF NeverShort
  <2>5. CASE Available
    <3>1. bucket' = b /\ now' = now /\ level' = level
      BY <2>5 DEF Available, b
    <3> QED
      BY <2>1, <3>1 DEF NeverShort, WithOwed, owed
  <2>6. ASSUME NEW n \in Amounts, Take(n) PROVE NeverShort'
    <3>0. n \in Nat
      BY CallerAssumption, BucketAssumption
    <3>1. now' = now /\ \/ /\ Grants(b, n) /\ bucket' = Spent(b, n)
                           /\ level' = level - Den * n
                        \/ bucket' = b /\ level' = level
      BY <2>6 DEF Take, b
    <3>2. CASE Grants(b, n) /\ bucket' = Spent(b, n) /\ level' = level - Den * n
      <4>1. bucket'.tokens = b.tokens - n /\ bucket'.lastRefill = b.lastRefill
        BY <2>0, <2>1, <3>0, <3>2, SpentFacts
      <4>2. Den * (b.tokens - n) = Den * b.tokens - Den * n /\ Den * n \in Int
        BY <1>0, <2>2, <3>0, Products
      <4>3. WithOwed' = Den * (b.tokens - n) + owed
        BY <3>1, <4>1 DEF WithOwed, owed
      <4> QED
        BY <2>0, <2>1, <2>3, <3>2, <4>2, <4>3 DEF NeverShort
    <3>3. CASE bucket' = b /\ level' = level
      BY <2>1, <3>1, <3>3 DEF NeverShort, WithOwed, owed
    <3> QED
      BY <3>1, <3>2, <3>3
  <2>7. ASSUME NEW n \in Amounts, Return(n) PROVE NeverShort'
    <3>0. n \in Nat /\ n \in 0 .. Capacity
      BY <1>0, <2>7, CallerAssumption, BucketAssumption DEF Return
    <3>1. bucket' = Credited(b, n) /\ now' = now /\ level' = AtMostFull(level + Den * n)
      BY <2>7 DEF Return, b
    <3>2. bucket'.tokens = Capped(b.tokens + n) /\ bucket'.lastRefill = b.lastRefill
      BY <2>0, <2>1, <3>0, <3>1, CreditedFacts
    <3>3. WithOwed' = Den * Capped(b.tokens + n) + owed
      BY <3>1, <3>2 DEF WithOwed, owed
    <3>4. Den * n \in Int
      BY <1>0, <3>0, Products
    <3>5. level' \in Int /\ level' <= Full /\ level' <= level + Den * n
      BY <1>0, <2>0, <3>1, <3>4 DEF AtMostFull
    <3>6. CASE Capped(b.tokens + n) = Capacity
      BY <1>0, <2>3, <3>3, <3>5, <3>6 DEF NeverShort, Full
    <3>7. CASE Capped(b.tokens + n) = b.tokens + n
      <4>1. Den * (b.tokens + n) = Den * b.tokens + Den * n
        BY <1>0, <2>2, <3>0, Products
      <4> QED
        BY <2>0, <2>1, <2>3, <3>3, <3>4, <3>5, <3>7, <4>1 DEF NeverShort
    <3> QED
      BY <3>6, <3>7 DEF Capped
  <2>8. CASE UNCHANGED vars
    BY <2>0, <2>8 DEF vars, NeverShort, WithOwed
  <2> QED
    BY <2>4, <2>5, <2>6, <2>7, <2>8 DEF Next
<1> QED
  BY <1>1, <1>2, TypeCorrect, PTL DEF Spec

(* And less than a token too much: the fraction that refillLocked keeps    *)
(* when a refill fills the bucket. *)
THEOREM LittleIsGiven == ASSUME Honest PROVE Spec => []WithinOneToken
<1>0. Capacity \in Nat \ {0} /\ Num \in Nat /\ Den \in Nat \ {0} /\ Full \in Nat
  BY BucketAssumption, Products DEF Full
<1>1. Init => WithinOneToken
  BY DEF Init, WithinOneToken
<1>2. ASSUME TypeOK, TypeOK', WithinOneToken, [Next]_vars PROVE WithinOneToken'
  <2> DEFINE b == Refilled(bucket, now)
             r == IF Refills THEN Num - 1 ELSE 0
  <2>0. /\ bucket \in Buckets /\ now \in Nat /\ refills \in Nat
        /\ level \in Int /\ level <= Full /\ level' \in Int /\ level' <= Full
    BY <1>2 DEF TypeOK, Buckets
  <2>1. /\ b \in Buckets /\ Debt(b) <= Debt(bucket) + r
        /\ Worth(b) < Full + Den + r
    BY <2>0, RefillFacts, RefillIsWorthLittle
  <2>2. r \in Int /\ Rounding \in Int /\ WithOwed = Worth(bucket)
    BY <1>0, <2>0, Products DEF Rounding, WithOwed, Worth
  <2>3. refills \in Nat => (Num # 0 => Rounding >= 0)
    BY <1>0, Products DEF Rounding
  <2>4. ASSUME CountRefill PROVE Rounding' = Rounding + r
    <3>1. CASE Refills
      <4>1. refills' = refills + 1 /\ Num # 0
        BY <2>4, <3>1 DEF CountRefill, Refills, FreshClock
      <4>2. (Num - 1) * (refills + 1) = (Num - 1) * refills + (Num - 1)
        BY <1>0, <2>0, <4>1
      <4> QED
        BY <3>1, <4>1, <4>2 DEF Rounding
    <3>2. CASE ~Refills
      <4>1. refills' = refills
        BY <2>4, <3>2 DEF CountRefill
      <4> QED
        BY <2>2, <3>2, <4>1 DEF Rounding
    <3> QED
      BY <3>1, <3>2
  <2>5. Rounding >= 0
    BY <1>0, <2>0, <2>3 DEF Rounding
  <2> HIDE DEF b, r
  <2>6. /\ Worth(b) \in Int /\ Worth(bucket) \in Int
        /\ Worth(b) <= Worth(bucket) + r
    BY <2>0, <2>1, <2>2, WorthFacts
  <2>7. Worth(b) < Full + Den + (Rounding + r)
    BY <1>0, <2>1, <2>2, <2>5, <2>6
  <2>8. level = Full \/ Worth(b) < level + Den + (Rounding + r)
    BY <1>0, <1>2, <2>0, <2>2, <2>6 DEF WithinOneToken
  <2>9. CASE Tick
    <3>1. now' = now + 1 /\ level' = AtMostFull(level + Num) /\ bucket' = bucket
          /\ refills' = refills
      BY <2>9 DEF Tick
    <3> DEFINE d == now - bucket.lastRefill
    <3>2. d \in Int /\ bucket.tokens \in Int
      BY <1>0, <2>0 DEF Buckets
    <3>3. Num * (d + 1) = Num * d + Num /\ Num * d \in Int /\ Den * bucket.tokens \in Int
      BY <1>0, <3>2, Products
    <3>4. (now + 1) - bucket.lastRefill = d + 1
      BY <1>0, <2>0 DEF Buckets
    <3>5. WithOwed' = Den * bucket.tokens + Num * (d + 1)
      <4>1. WithOwed' = Den * bucket.tokens + Num * ((now + 1) - bucket.lastRefill)
        BY <3>1, Zenon DEF WithOwed
      <4> HIDE DEF d
      <4> QED
        BY <3>4, <4>1, Zenon
    <3>6. WithOwed = Den * bucket.tokens + Num * d
      BY DEF WithOwed
    <3> HIDE DEF d
    <3>7. Rounding' = Rounding
      BY <3>1 DEF Rounding
    <3>8. level' = Full \/ (level # Full /\ level' = level + Num)
      BY <1>0, <2>0, <3>1 DEF AtMostFull
    <3> QED
      BY <1>0, <1>2, <2>0, <2>2, <3>3, <3>5, <3>6, <3>7, <3>8 DEF WithinOneToken
  <2>10. CASE Available
    <3>1. bucket' = b /\ now' = now /\ level' = level /\ CountRefill
      BY <2>10 DEF Available, b
    <3>2. WithOwed' = Worth(b)
      BY <3>1 DEF WithOwed, Worth
    <3> QED
      BY <2>4, <2>8, <3>1, <3>2 DEF WithinOneToken
  <2>11. ASSUME NEW n \in Amounts, Take(n) PROVE WithinOneToken'
    <3>0. n \in Nat
      BY CallerAssumption, BucketAssumption
    <3>1. now' = now /\ CountRefill
          /\ \/ /\ Grants(b, n) /\ bucket' = Spent(b, n)
                /\ level' = level - Den * n
             \/ bucket' = b /\ level' = level
      BY <2>11 DEF Take, b
    <3>2. CASE Grants(b, n) /\ bucket' = Spent(b, n) /\ level' = level - Den * n
      <4>1. bucket'.tokens = b.tokens - n /\ bucket'.lastRefill = b.lastRefill
        BY <2>0, <2>1, <3>0, <3>2, SpentFacts
      <4>2. b.tokens \in Int
        BY <1>0, <2>1 DEF Buckets
      <4>3. Den * (b.tokens - n) = Den * b.tokens - Den * n /\ Den * n \in Int
            /\ Den * b.tokens \in Int
        BY <1>0, <3>0, <4>2, Products
      <4>4. WithOwed' = Den * (b.tokens - n) + Num * (now - b.lastRefill)
        BY <3>1, <4>1 DEF WithOwed
      <4>5. Num * (now - b.lastRefill) = Worth(b) - Den * b.tokens
        BY <2>0, <2>1, <4>3, WorthFacts, <1>0, Products DEF Worth, Buckets
      <4>6. WithOwed' = Worth(b) - Den * n
        BY <2>6, <4>3, <4>4, <4>5
      <4> QED
        BY <1>0, <2>0, <2>2, <2>4, <2>6, <2>7, <2>8, <3>1, <3>2, <4>3, <4>6 DEF WithinOneToken
    <3>3. CASE bucket' = b /\ level' = level
      <4>1. WithOwed' = Worth(b)
        BY <3>1, <3>3 DEF WithOwed, Worth
      <4> QED
        BY <2>4, <2>8, <3>1, <3>3, <4>1 DEF WithinOneToken
    <3> QED
      BY <3>1, <3>2, <3>3
  <2>12. ASSUME NEW n \in Amounts, Return(n) PROVE WithinOneToken'
    <3>0. n \in Nat /\ n \in 0 .. Capacity
      BY <1>0, <2>12, CallerAssumption, BucketAssumption DEF Return
    <3>1. bucket' = Credited(b, n) /\ now' = now /\ level' = AtMostFull(level + Den * n)
          /\ CountRefill
      BY <2>12 DEF Return, b
    <3>2. bucket'.tokens = Capped(b.tokens + n) /\ bucket'.lastRefill = b.lastRefill
      BY <2>0, <2>1, <3>0, <3>1, CreditedFacts
    <3>3. b.tokens \in Nat /\ Capped(b.tokens + n) <= b.tokens + n /\ Capped(b.tokens + n) \in Int
      BY <1>0, <2>1, <3>0 DEF Buckets, Capped
    <3>4. /\ Den * Capped(b.tokens + n) <= Den * (b.tokens + n)
          /\ Den * (b.tokens + n) = Den * b.tokens + Den * n
          /\ {Den * n, Den * b.tokens, Den * Capped(b.tokens + n)} \subseteq Int
          /\ Den * n >= 0
      BY <1>0, <3>0, <3>3, Products
    <3>5. WithOwed' = Den * Capped(b.tokens + n) + Num * (now - b.lastRefill)
      BY <3>1, <3>2 DEF WithOwed
    <3>6. Num * (now - b.lastRefill) = Worth(b) - Den * b.tokens
      BY <2>0, <2>1, <3>4, WorthFacts, <1>0, Products DEF Worth, Buckets
    <3>7. WithOwed' <= Worth(b) + Den * n /\ WithOwed' \in Int
      BY <2>6, <3>4, <3>5, <3>6
    <3>8. level' = Full \/ (level # Full /\ level' = level + Den * n)
      BY <1>0, <2>0, <3>1, <3>4 DEF AtMostFull
    <3> QED
      BY <1>0, <2>0, <2>2, <2>4, <2>6, <2>8, <3>1, <3>4, <3>7, <3>8 DEF WithinOneToken
  <2>13. CASE UNCHANGED vars
    BY <1>2, <2>13 DEF vars, WithinOneToken, WithOwed, Rounding
  <2> QED
    BY <1>2, <2>9, <2>10, <2>11, <2>12, <2>13 DEF Next
<1>3. TypeOK /\ TypeOK' /\ WithinOneToken /\ [Next]_vars => WithinOneToken'
  BY <1>2
<1> QED
  BY <1>1, <1>3, TypeCorrect, PTL DEF Spec
=============================================================================
