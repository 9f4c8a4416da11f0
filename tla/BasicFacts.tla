----------------------------- MODULE BasicFacts -----------------------------
(***************************************************************************)
(* What the proofs need to know of products and quotients, of induction,   *)
(* and of folds and sums over finite sets.                                 *)
(*                                                                         *)
(* The theorems of the library on induction take the predicate as an       *)
(* operator; here it is a set, which the provers can instantiate, and what *)
(* makes induction sound is WFMin: what is well-founded has minimal        *)
(* elements.                                                               *)
(***************************************************************************)
EXTENDS FiniteSetTheorems, FiniteSetsExt, Functions, TLAPS

(* Products and quotients, where the solver has to be helped. *)
LEMMA Division ==
    ASSUME NEW a \in Nat, NEW b \in Nat \ {0}
    PROVE  /\ a \div b \in Nat
           /\ b * (a \div b) <= a
           /\ a < b * (a \div b) + b
  OBVIOUS

LEMMA Products ==
    ASSUME NEW k \in Nat, NEW a \in Int, NEW b \in Int
    PROVE  /\ k * a \in Int
           /\ k * (a + b) = k * a + k * b
           /\ k * (a - b) = k * a - k * b
           /\ a <= b => k * a <= k * b
           /\ a >= 0 => k * a >= 0
  OBVIOUS

LEMMA Cancelling ==
    ASSUME NEW k \in Nat \ {0}, NEW a \in Int, NEW b \in Int, k * a <= k * b
    PROVE  a <= b
  OBVIOUS

(* Induction on the natural numbers: a set of them that has 0 and the      *)
(* successor of each of its members has them all. *)
LEMMA CountInduction ==
    ASSUME NEW G, 0 \in G, \A n \in Nat : n \in G => n + 1 \in G
    PROVE  \A n \in Nat : n \in G
<1> DEFINE Bad == Nat \ G
<1> SUFFICES ASSUME Bad # {} PROVE FALSE
  OBVIOUS
<1>1. PICK n \in Bad : \A m \in Bad : <<m, n>> \notin OpToRel(<, Nat)
  <2> Bad \subseteq Nat
    OBVIOUS
  <2> HIDE DEF Bad
  <2> QED BY NatLessThanWellFounded, WFMin
<1>2. n # 0 /\ n \in Nat
  OBVIOUS
<1>3. n - 1 \in Nat /\ (n - 1) + 1 = n
  BY <1>2
<1>4. <<n - 1, n>> \in OpToRel(<, Nat)
  BY <1>3 DEF OpToRel
<1> QED
  BY <1>1, <1>3, <1>4

(* Induction on a finite set: a set of its subsets that has each of them   *)
(* whose smaller ones, with one member less, it has, has the whole. *)
LEMMA SubsetInduction ==
    ASSUME NEW S, IsFiniteSet(S), NEW G,
           \A T \in SUBSET S : (\A x \in T : T \ {x} \in G) => T \in G
    PROVE  S \in G
<1>1. IsWellFoundedOn(StrictSubsetOrdering(S), SUBSET S)
  BY FS_StrictSubsetOrderingWellFounded, FS_FiniteSubsetsOfFinite
<1> DEFINE Bad == {T \in SUBSET S : T \notin G}
<1> SUFFICES ASSUME S \notin G PROVE FALSE
  OBVIOUS
<1>2. PICK T \in Bad : \A U \in Bad : <<U, T>> \notin StrictSubsetOrdering(S)
  <2> Bad \subseteq SUBSET S /\ Bad # {}
    OBVIOUS
  <2> HIDE DEF Bad
  <2> QED BY <1>1, WFMin
<1>3. T \in SUBSET S /\ T \notin G
  OBVIOUS
<1>4. ASSUME NEW x \in T PROVE T \ {x} \in G
  <2>1. <<T \ {x}, T>> \in StrictSubsetOrdering(S)
    BY <1>3, <1>4 DEF StrictSubsetOrdering
  <2> QED BY <2>1, <1>2, <1>3
<1> QED
  BY <1>3, <1>4

(* The values of a function on a finite set are finitely many. *)
LEMMA ImageIsFinite ==
    ASSUME NEW S, IsFiniteSet(S), NEW f
    PROVE  IsFiniteSet({f[x] : x \in S})
<1> DEFINE T == {f[x] : x \in S}
           g == [x \in S |-> f[x]]
<1>1. g \in [S -> T] /\ \A t \in T : \E x \in S : g[x] = t
  OBVIOUS
<1>2. g \in Surjection(S, T)
  BY <1>1 DEF Surjection
<1> QED BY <1>2, FS_Surjection

(* Max finds the greatest member of a finite set. *)
LEMMA MaxIsGreatest ==
    ASSUME NEW S, IsFiniteSet(S), S \subseteq Int, S # {}
    PROVE  Max(S) \in S /\ \A y \in S : y <= Max(S)
<1> DEFINE G == {T \in SUBSET S : T = {} \/ \E x \in T : \A y \in T : x >= y}
<1>1. ASSUME NEW T \in SUBSET S, \A x \in T : T \ {x} \in G PROVE T \in G
  <2> SUFFICES ASSUME NEW x \in T PROVE \E z \in T : \A y \in T : z >= y
    OBVIOUS
  <2>1. CASE T \ {x} = {}
    <3>1. \A y \in T : y = x /\ x \in Int
      BY <2>1
    <3> QED BY <3>1
  <2>2. CASE T \ {x} # {}
    <3>1. PICK z \in T \ {x} : \A y \in T \ {x} : z >= y
      BY <1>1, <2>2
    <3>2. CASE z >= x
      BY <3>1, <3>2
    <3>3. CASE ~(z >= x)
      <4>1. \A y \in T : x >= y
        BY <3>1, <3>3
      <4> QED BY <4>1
    <3> QED BY <3>2, <3>3
  <2> QED BY <2>1, <2>2
<1>2. S \in G
  <2> HIDE DEF G
  <2> QED BY <1>1, SubsetInduction
<1>3. \E x \in S : \A y \in S : x >= y
  BY <1>2
<1>4. Max(S) \in S /\ \A y \in S : Max(S) >= y
  BY <1>3 DEF Max
<1> QED
  BY <1>4

-----------------------------------------------------------------------------
(* A fold of the library is a function of sets defined by what it makes of *)
(* a set with one member less.  Step and Pick are what it does with the    *)
(* member and how it chooses it.  There is such a function: the one that   *)
(* is right for sets of at most n members gives the one for n + 1. *)
IsFold(g, S, base, Step, Pick) ==
    g = [T \in SUBSET S |-> IF T = {} THEN base
                            ELSE Step[Pick[T]][g[T \ {Pick[T]}]]]

LEMMA FoldIsDefined ==
    ASSUME NEW S, IsFiniteSet(S), NEW V, NEW base \in V, NEW Step \in [S -> [V -> V]],
           NEW Pick, \A T \in SUBSET S : T # {} => Pick[T] \in T
    PROVE  \E g \in [SUBSET S -> V] : IsFold(g, S, base, Step, Pick)
<1> DEFINE Body(g, T) == IF T = {} THEN base ELSE Step[Pick[T]][g[T \ {Pick[T]}]]
           Small(n) == {T \in SUBSET S : Cardinality(T) <= n}
           Solves(g, n) == \A T \in Small(n) : g[T] = Body(g, T)
           G == {n \in Nat : \E g : g = [T \in SUBSET S |-> g[T]] /\ Solves(g, n)}
<1>1. \A T \in SUBSET S : IsFiniteSet(T) /\ Cardinality(T) \in Nat
  BY FS_Subset, FS_CardinalityType
<1>2. 0 \in G
  <2> DEFINE g == [T \in SUBSET S |-> base]
  <2>1. Solves(g, 0)
    BY <1>1, FS_EmptySet
  <2>2. g = [T \in SUBSET S |-> g[T]]
    OBVIOUS
  <2> QED BY <2>1, <2>2
<1>3. ASSUME NEW n \in Nat, n \in G PROVE n + 1 \in G
  <2>1. PICK g : g = [T \in SUBSET S |-> g[T]] /\ Solves(g, n)
    BY <1>3
  <2> DEFINE h == [T \in SUBSET S |-> Body(g, T)]
  <2>2. ASSUME NEW T \in Small(n + 1), T # {} PROVE h[T \ {Pick[T]}] = g[T \ {Pick[T]}]
    <3>1. Pick[T] \in T
      BY <2>2
    <3>2. T \ {Pick[T]} \in Small(n)
      <4>1. Cardinality(T \ {Pick[T]}) = Cardinality(T) - 1
        BY <1>1, <3>1, FS_RemoveElement
      <4> HIDE DEF Body, Solves
      <4> QED BY <4>1, <1>1
    <3> QED
      BY <2>1, <3>2
  <2>3. Solves(h, n + 1)
    BY <2>2
  <2>4. h = [T \in SUBSET S |-> h[T]]
    OBVIOUS
  <2> HIDE DEF h, Solves
  <2> QED BY <2>3, <2>4
<1>4. Cardinality(S) \in G
  <2> HIDE DEF G
  <2> QED BY <1>1, <1>2, <1>3, CountInduction
<1>5. PICK g : g = [T \in SUBSET S |-> g[T]] /\ Solves(g, Cardinality(S))
  BY <1>4
<1>6. SUBSET S \subseteq Small(Cardinality(S))
  BY FS_Subset
<1>7. g = [T \in SUBSET S |-> Body(g, T)]
  BY <1>5, <1>6
<1>8. ASSUME NEW U \in SUBSET S PROVE g[U] \in V
  <2> DEFINE Typed == {T \in SUBSET U : g[T] \in V}
  <2>1. ASSUME NEW T \in SUBSET U, \A x \in T : T \ {x} \in Typed PROVE T \in Typed
    <3>1. CASE T = {}
      BY <1>7, <3>1
    <3>2. CASE T # {}
      <4>1. Pick[T] \in T /\ T \in SUBSET S
        BY <3>2
      <4>2. g[T] = Step[Pick[T]][g[T \ {Pick[T]}]]
        BY <1>7, <3>2
      <4>3. Step[Pick[T]] \in [V -> V] /\ g[T \ {Pick[T]}] \in V
        BY <2>1, <4>1
      <4> QED BY <4>2, <4>3
    <3> QED BY <3>1, <3>2
  <2>2. U \in Typed
    <3> HIDE DEF Typed
    <3> QED BY <1>1, <2>1, SubsetInduction
  <2> QED BY <2>2
<1>9. g \in [SUBSET S -> V]
  BY <1>5, <1>8
<1> QED
  BY <1>7, <1>9, Zenon DEF IsFold

-----------------------------------------------------------------------------
(* SumFunctionOnSet adds the values of a function up, one index after the  *)
(* other, and is defined as the fold that does. *)
Picked(T) == CHOOSE x \in T : TRUE
Adds(g, f, S) ==
    g = [T \in SUBSET S |-> IF T = {} THEN 0 ELSE f[Picked(T)] + g[T \ {Picked(T)}]]

LEMMA SumIsItsFold ==
    \A f, S : SumFunctionOnSet(f, S) = (CHOOSE g : Adds(g, f, S))[S]
BY Zenon DEF SumFunctionOnSet, FoldFunctionOnSet, MapThenFoldSet, Adds, Picked

LEMMA SumIsDefined ==
    ASSUME NEW S, IsFiniteSet(S), NEW f, \A x \in S : f[x] \in Int
    PROVE  \E g : Adds(g, f, S)
<1> DEFINE Step == [x \in S |-> [sum \in Int |-> f[x] + sum]]
           Pick == [T \in SUBSET S |-> Picked(T)]
<1>1. \A T \in SUBSET S : T # {} => Picked(T) \in T
  BY DEF Picked
<1>2. Step \in [S -> [Int -> Int]]
  OBVIOUS
<1>3. PICK g \in [SUBSET S -> Int] : IsFold(g, S, 0, Step, Pick)
  <2>1. \A T \in SUBSET S : T # {} => Pick[T] \in T
    BY <1>1
  <2> DEFINE V == Int
             none == 0
  <2>2. none \in V /\ Step \in [S -> [V -> V]]
    BY <1>2
  <2> HIDE DEF Step, Pick, V, none
  <2>3. \E g \in [SUBSET S -> V] : IsFold(g, S, none, Step, Pick)
    BY <2>1, <2>2, FoldIsDefined
  <2> QED BY <2>3 DEF V, none
<1>4. \A T \in SUBSET S : g[T] = IF T = {} THEN 0 ELSE Step[Picked(T)][g[T \ {Picked(T)}]]
  <2> HIDE DEF Step
  <2> QED BY <1>3, Zenon DEF IsFold
<1>5. \A x \in S, v \in Int : Step[x][v] = f[x] + v
  OBVIOUS
<1> HIDE DEF Step, Pick
<1>6. ASSUME NEW T \in SUBSET S, T # {} PROVE g[T] = f[Picked(T)] + g[T \ {Picked(T)}]
  <2> DEFINE p == Picked(T)
  <2>1. p \in S /\ g[T \ {p}] \in Int
    BY <1>1, <1>6
  <2>2. g[T] = Step[p][g[T \ {p}]]
    BY <1>4, <1>6
  <2> HIDE DEF p
  <2>3. g[T] = f[p] + g[T \ {p}]
    BY <1>5, <2>1, <2>2
  <2> QED BY <2>3 DEF p
<1> QED
  BY <1>4, <1>6 DEF Adds

(* And only one, whatever the set of indices it was written for. *)
LEMMA FoldsAgree ==
    ASSUME NEW S, NEW U, IsFiniteSet(U), U \subseteq S, NEW f, NEW g, NEW h,
           Adds(g, f, S), Adds(h, f, U)
    PROVE  g[U] = h[U]
<1> DEFINE G == {T \in SUBSET U : g[T] = h[T]}
<1>1. ASSUME NEW T \in SUBSET U, \A x \in T : T \ {x} \in G PROVE T \in G
  <2>1. T # {} => Picked(T) \in T
    BY DEF Picked
  <2>2. g[T] = IF T = {} THEN 0 ELSE f[Picked(T)] + g[T \ {Picked(T)}]
    BY DEF Adds
  <2>3. h[T] = IF T = {} THEN 0 ELSE f[Picked(T)] + h[T \ {Picked(T)}]
    BY DEF Adds
  <2> QED BY <1>1, <2>1, <2>2, <2>3
<1>2. U \in G
  <2> HIDE DEF G
  <2> QED BY <1>1, SubsetInduction
<1> QED
  BY <1>2

(* So the sum is what its definition reads as. *)
LEMMA SumUnfolds ==
    ASSUME NEW S, IsFiniteSet(S), NEW f, \A x \in S : f[x] \in Int
    PROVE  SumFunctionOnSet(f, S) =
             IF S = {} THEN 0
             ELSE f[Picked(S)] + SumFunctionOnSet(f, S \ {Picked(S)})
<1> DEFINE g == CHOOSE g : Adds(g, f, S)
           R == S \ {Picked(S)}
           h == CHOOSE h : Adds(h, f, R)
<1>1. Adds(g, f, S)
  BY SumIsDefined
<1>2. IsFiniteSet(R) /\ R \subseteq S
  BY FS_Subset
<1>3. Adds(h, f, R)
  BY <1>2, SumIsDefined
<1>4. SumFunctionOnSet(f, S) = g[S] /\ SumFunctionOnSet(f, R) = h[R]
  BY SumIsItsFold
<1> HIDE DEF g, h
<1>5. g[R] = h[R]
  BY <1>1, <1>2, <1>3, FoldsAgree
<1>6. g[S] = IF S = {} THEN 0 ELSE f[Picked(S)] + g[R]
  BY <1>1 DEF Adds
<1> QED
  BY <1>4, <1>5, <1>6

-----------------------------------------------------------------------------
(* The sum of no values, and one value taken out of a sum. *)
LEMMA SumOfNone ==
    ASSUME NEW f
    PROVE  SumFunctionOnSet(f, {}) = 0
BY FS_EmptySet, SumUnfolds

LEMMA SumTakesOut ==
    ASSUME NEW S, IsFiniteSet(S), NEW f, \A x \in S : f[x] \in Int
    PROVE  /\ SumFunctionOnSet(f, S) \in Int
           /\ \A x \in S : SumFunctionOnSet(f, S) = f[x] + SumFunctionOnSet(f, S \ {x})
<1> DEFINE Total(T) == SumFunctionOnSet(f, T)
           Splits(T) == /\ Total(T) \in Int
                        /\ \A x \in T : /\ Total(T) = f[x] + Total(T \ {x})
                                        /\ Total(T \ {x}) \in Int
           G == {T \in SUBSET S : Splits(T)}
<1>1. ASSUME NEW T \in SUBSET S, \A x \in T : T \ {x} \in G PROVE T \in G
  <2>1. CASE T = {}
    BY <2>1, SumOfNone
  <2>2. CASE T # {}
    <3> DEFINE p == Picked(T)
    <3>1. p \in T
      BY <2>2 DEF Picked
    <3>2. IsFiniteSet(T)
      BY FS_Subset
    <3>3. Total(T) = f[p] + Total(T \ {p})
      BY <2>2, <3>2, SumUnfolds
    <3>4. Splits(T \ {p})
      BY <1>1, <3>1
    <3> HIDE DEF p, Total
    <3>5. Total(T) \in Int
      BY <3>1, <3>3, <3>4
    <3>6. ASSUME NEW x \in T, x # p PROVE Total(T) = f[x] + Total(T \ {x})
      <4>1. Splits(T \ {x})
        BY <1>1
      <4>2. Total(T \ {x}) = f[p] + Total((T \ {x}) \ {p})
        BY <3>1, <3>6, <4>1
      <4>3. Total(T \ {p}) = f[x] + Total((T \ {p}) \ {x})
        BY <3>4, <3>6
      <4>4. (T \ {x}) \ {p} = (T \ {p}) \ {x}
        OBVIOUS
      <4>5. Total((T \ {p}) \ {x}) \in Int
        BY <3>4, <3>6
      <4>6. f[p] \in Int /\ f[x] \in Int
        BY <3>1
      <4> HIDE DEF Splits
      <4>7. Total(T \ {x}) = f[p] + Total((T \ {p}) \ {x})
        BY <4>2, <4>4, Zenon
      <4> HIDE <4>4
      <4> QED BY <3>3, <4>3, <4>5, <4>6, <4>7
    <3>7. \A x \in T : Total(T \ {x}) \in Int
      BY <1>1
    <3> QED BY <3>3, <3>5, <3>6, <3>7
  <2> QED BY <2>1, <2>2
<1>2. S \in G
  <2> HIDE DEF G
  <2> QED BY <1>1, SubsetInduction
<1> QED
  BY <1>2

(* Two functions that agree on the indices have one sum. *)
LEMMA SumsAgree ==
    ASSUME NEW S, IsFiniteSet(S), NEW f, NEW g,
           \A x \in S : f[x] \in Int /\ g[x] = f[x]
    PROVE  SumFunctionOnSet(g, S) = SumFunctionOnSet(f, S)
<1> DEFINE G == {T \in SUBSET S : SumFunctionOnSet(g, T) = SumFunctionOnSet(f, T)}
<1>1. ASSUME NEW T \in SUBSET S, \A x \in T : T \ {x} \in G PROVE T \in G
  <2>1. CASE T = {}
    BY <2>1, SumOfNone
  <2>2. ASSUME NEW x \in T PROVE T \in G
    <3>1. IsFiniteSet(T)
      BY FS_Subset
    <3>2. SumFunctionOnSet(f, T) = f[x] + SumFunctionOnSet(f, T \ {x})
      BY <3>1, <2>2, SumTakesOut
    <3>3. SumFunctionOnSet(g, T) = g[x] + SumFunctionOnSet(g, T \ {x})
      BY <3>1, <2>2, SumTakesOut
    <3> QED BY <1>1, <2>2, <3>2, <3>3
  <2> QED BY <2>1, <2>2
<1>2. S \in G
  <2> HIDE DEF G
  <2> QED BY <1>1, SubsetInduction
<1> QED
  BY <1>2

(* A sum changes by what its one changed value does. *)
LEMMA SumChanges ==
    ASSUME NEW S, IsFiniteSet(S), NEW f, NEW g, NEW x \in S,
           \A y \in S : f[y] \in Int /\ g[y] \in Int,
           \A y \in S \ {x} : g[y] = f[y]
    PROVE  SumFunctionOnSet(g, S) = SumFunctionOnSet(f, S) + (g[x] - f[x])
<1>1. IsFiniteSet(S \ {x})
  BY FS_Subset
<1>2. SumFunctionOnSet(g, S \ {x}) = SumFunctionOnSet(f, S \ {x})
  BY <1>1, SumsAgree
<1>3. SumFunctionOnSet(f, S) = f[x] + SumFunctionOnSet(f, S \ {x})
  BY SumTakesOut
<1>4. SumFunctionOnSet(g, S) = g[x] + SumFunctionOnSet(g, S \ {x})
  BY SumTakesOut
<1>5. SumFunctionOnSet(f, S \ {x}) \in Int
  BY <1>1, SumTakesOut
<1> QED
  BY <1>2, <1>3, <1>4, <1>5

(* Sums are ordered as their values are; those of naturals are natural. *)
LEMMA SumIsMonotone ==
    ASSUME NEW S, IsFiniteSet(S), NEW f, NEW g,
           \A x \in S : f[x] \in Int /\ g[x] \in Int /\ f[x] <= g[x]
    PROVE  SumFunctionOnSet(f, S) <= SumFunctionOnSet(g, S)
<1> DEFINE G == {T \in SUBSET S : SumFunctionOnSet(f, T) <= SumFunctionOnSet(g, T)}
<1>1. ASSUME NEW T \in SUBSET S, \A x \in T : T \ {x} \in G PROVE T \in G
  <2>1. CASE T = {}
    BY <2>1, SumOfNone
  <2>2. ASSUME NEW x \in T PROVE T \in G
    <3>1. IsFiniteSet(T) /\ IsFiniteSet(T \ {x})
      BY FS_Subset
    <3>2. SumFunctionOnSet(f, T) = f[x] + SumFunctionOnSet(f, T \ {x})
      BY <3>1, <2>2, SumTakesOut
    <3>3. SumFunctionOnSet(g, T) = g[x] + SumFunctionOnSet(g, T \ {x})
      BY <3>1, <2>2, SumTakesOut
    <3>4. /\ SumFunctionOnSet(f, T \ {x}) \in Int
          /\ SumFunctionOnSet(g, T \ {x}) \in Int
      BY <3>1, SumTakesOut
    <3> QED BY <1>1, <2>2, <3>2, <3>3, <3>4
  <2> QED BY <2>1, <2>2
<1>2. S \in G
  <2> HIDE DEF G
  <2> QED BY <1>1, SubsetInduction
<1> QED
  BY <1>2

LEMMA SumOfZeros ==
    ASSUME NEW S, IsFiniteSet(S), NEW f, \A x \in S : f[x] = 0
    PROVE  SumFunctionOnSet(f, S) = 0
<1> DEFINE G == {T \in SUBSET S : SumFunctionOnSet(f, T) = 0}
<1>1. ASSUME NEW T \in SUBSET S, \A x \in T : T \ {x} \in G PROVE T \in G
  <2>1. CASE T = {}
    BY <2>1, SumOfNone
  <2>2. ASSUME NEW x \in T PROVE T \in G
    <3>1. IsFiniteSet(T)
      BY FS_Subset
    <3>2. SumFunctionOnSet(f, T) = f[x] + SumFunctionOnSet(f, T \ {x})
      BY <3>1, <2>2, SumTakesOut
    <3> QED BY <1>1, <2>2, <3>2
  <2> QED BY <2>1, <2>2
<1>2. S \in G
  <2> HIDE DEF G
  <2> QED BY <1>1, SubsetInduction
<1> QED
  BY <1>2

LEMMA SumIsNatural ==
    ASSUME NEW S, IsFiniteSet(S), NEW f, \A x \in S : f[x] \in Nat
    PROVE  SumFunctionOnSet(f, S) \in Nat
<1> DEFINE z == [x \in S |-> 0]
<1>1. SumFunctionOnSet(z, S) = 0
  BY SumOfZeros
<1>2. SumFunctionOnSet(z, S) <= SumFunctionOnSet(f, S)
  BY SumIsMonotone
<1>3. SumFunctionOnSet(f, S) \in Int
  BY SumTakesOut
<1> QED
  BY <1>1, <1>2, <1>3

(* The union of two finite sets with nothing in common has as many members
   as the two together. *)
LEMMA DisjointUnion ==
  ASSUME NEW S, IsFiniteSet(S), NEW T, IsFiniteSet(T), S \cap T = {}
  PROVE  /\ IsFiniteSet(S \cup T)
         /\ Cardinality(S \cup T) \in Nat
         /\ Cardinality(S \cup T) = Cardinality(S) + Cardinality(T)
<1>1. /\ IsFiniteSet(S \cup T)
      /\ Cardinality(S \cup T) = Cardinality(S) + Cardinality(T) - Cardinality(S \cap T)
  BY FS_Union
<1>2. Cardinality(S \cap T) = 0
  BY FS_EmptySet
<1>3. Cardinality(S) \in Nat /\ Cardinality(T) \in Nat
  BY FS_CardinalityType
<1> QED BY <1>1, <1>2, <1>3

(* B splits into the parts A[x], and f has their sizes. *)
Splits(B, A, S) ==
    /\ \A x, y \in S : x # y => A[x] \cap A[y] = {}
    /\ \A z : z \in B <=> \E x \in S : z \in A[x]
Sizes(f, A, S) == \A x \in S : IsFiniteSet(A[x]) /\ f[x] = Cardinality(A[x])

(* What is counted in disjoint parts is counted by their sum. *)
LEMMA SumCounts ==
    ASSUME NEW S, IsFiniteSet(S), NEW A, NEW f, NEW B, Splits(B, A, S), Sizes(f, A, S)
    PROVE  IsFiniteSet(B) /\ SumFunctionOnSet(f, S) = Cardinality(B)
<1> USE DEF Splits, Sizes
<1> DEFINE All(T) == UNION {A[x] : x \in T}
           Counted(T) == IsFiniteSet(All(T)) /\ SumFunctionOnSet(f, T) = Cardinality(All(T))
           G == {T \in SUBSET S : Counted(T)}
<1>1. \A x \in S : f[x] \in Nat
  BY FS_CardinalityType
<1>2. ASSUME NEW T \in SUBSET S, \A x \in T : T \ {x} \in G PROVE T \in G
  <2>1. CASE T = {}
    <3>1. All(T) = {}
      BY <2>1
    <3> QED BY <2>1, <3>1, SumOfNone, FS_EmptySet
  <2>2. ASSUME NEW x \in T PROVE T \in G
    <3>1. IsFiniteSet(T)
      BY FS_Subset
    <3>2. SumFunctionOnSet(f, T) = f[x] + SumFunctionOnSet(f, T \ {x})
      BY <1>1, <3>1, <2>2, SumTakesOut
    <3>3. Counted(T \ {x})
      BY <1>2, <2>2
    <3>4. All(T) = A[x] \cup All(T \ {x}) /\ A[x] \cap All(T \ {x}) = {}
      <4>1. All(T) = A[x] \cup All(T \ {x})
        BY <2>2
      <4>2. A[x] \cap All(T \ {x}) = {}
        BY <2>2
      <4> QED BY <4>1, <4>2
    <3>5. IsFiniteSet(A[x]) /\ f[x] = Cardinality(A[x])
      BY <2>2
    <3> HIDE DEF All
    <3>6. /\ IsFiniteSet(All(T))
          /\ Cardinality(All(T)) = Cardinality(A[x]) + Cardinality(All(T \ {x}))
      <4> DEFINE P == A[x]
                 R == All(T \ {x})
      <4>1. IsFiniteSet(P) /\ IsFiniteSet(R) /\ P \cap R = {} /\ All(T) = P \cup R
        BY <3>3, <3>4, <3>5
      <4> HIDE DEF P, R
      <4>2. IsFiniteSet(P \cup R) /\ Cardinality(P \cup R) = Cardinality(P) + Cardinality(R)
        BY <4>1, DisjointUnion
      <4> QED BY <4>1, <4>2 DEF P, R
    <3> QED BY <3>2, <3>3, <3>5, <3>6
  <2> QED BY <2>1, <2>2
<1>3. S \in G
  <2> HIDE DEF G
  <2> QED BY <1>2, SubsetInduction
<1>4. All(S) = B
  <2>1. \A z : z \in All(S) <=> z \in B
    OBVIOUS
  <2> HIDE DEF All
  <2> QED BY <2>1
<1> HIDE DEF All
<1> QED
  BY <1>3, <1>4

-----------------------------------------------------------------------------
(* What is built step by step *)

(* A function on 0 .. n whose value at i is a step from its value at i - 1 *)
(* exists, so what is defined by that equation satisfies it. *)
LEMMA StepsAreDefined ==
    ASSUME NEW n \in Nat, NEW V, NEW base \in V, NEW Step \in [1 .. n -> [V -> V]]
    PROVE  \E F \in [0 .. n -> V] : F[0] = base /\ \A i \in 1 .. n : F[i] = Step[i][F[i - 1]]
<1> DEFINE Upto(F, k) == F[0] = base /\ \A i \in 1 .. k : F[i] = Step[i][F[i - 1]]
           G == {k \in Nat : k <= n => \E F \in [0 .. k -> V] : Upto(F, k)}
<1>1. 0 \in G
  <2> DEFINE F == [i \in 0 .. 0 |-> base]
  <2>1. F \in [0 .. 0 -> V] /\ Upto(F, 0)
    OBVIOUS
  <2> QED BY <2>1
<1>2. ASSUME NEW k \in Nat, k \in G PROVE k + 1 \in G
  <2> SUFFICES ASSUME k + 1 <= n PROVE \E F \in [0 .. k + 1 -> V] : Upto(F, k + 1)
    OBVIOUS
  <2>1. PICK E \in [0 .. k -> V] : Upto(E, k)
    BY <1>2
  <2> DEFINE F == [i \in 0 .. k + 1 |-> IF i <= k THEN E[i] ELSE Step[k + 1][E[k]]]
  <2>2. Step[k + 1] \in [V -> V] /\ E[k] \in V
    OBVIOUS
  <2>3. Step[k + 1][E[k]] \in V
    BY <2>2
  <2>4. F \in [0 .. k + 1 -> V]
    BY <2>3
  <2>5. \A i \in 0 .. k : F[i] = E[i]
    OBVIOUS
  <2>6. F[k + 1] = Step[k + 1][E[k]]
    OBVIOUS
  <2> HIDE DEF F
  <2>7. ASSUME NEW i \in 1 .. k + 1 PROVE F[i] = Step[i][F[i - 1]]
    <3>1. CASE i <= k
      <4>1. i \in 1 .. k /\ i - 1 \in 0 .. k /\ i \in 0 .. k
        BY <3>1
      <4> QED BY <2>1, <2>5, <4>1
    <3>2. CASE i = k + 1
      <4>1. i - 1 = k /\ k \in 0 .. k
        BY <3>2
      <4> QED BY <2>5, <2>6, <3>2, <4>1
    <3> QED BY <3>1, <3>2
  <2>8. F[0] = base
    BY <2>1, <2>5
  <2> QED BY <2>4, <2>7, <2>8
<1>3. n \in G
  <2> HIDE DEF G
  <2> QED BY <1>1, <1>2, CountInduction
<1> QED BY <1>3
=============================================================================
