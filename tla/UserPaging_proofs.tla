-------------------------- MODULE UserPaging_proofs --------------------------
(***************************************************************************)
(* Proofs about UserPaging: what a client that reads the sorted list page  *)
(* by page misses or gets twice, for any limit, offset and number of calls *)
(* that come between its pages.                                            *)
(***************************************************************************)
EXTENDS UserPaging, UserService_proofs, FiniteSetTheorems

(* The users at or before i in the sorted list. *)
UpTo(d, i) == {j \in Listed(d) : j <= i}
Rank(d, i) == Cardinality(UpTo(d, i))

InPages(i) == \E n \in DOMAIN pages : pages[n] = i

PagingTypes ==
    /\ IsFiniteSet(made)
    /\ reading \in {"no", "yes", "done"}
    /\ limit \in Int /\ offset \in Int /\ pages \in Seq(Ids)
    /\ reading = "no" => pages = <<>> /\ ~went
    /\ reading = "no" => stayed = {} /\ ~came
    /\ reading # "no" => offset \in Nat
    /\ stayed \subseteq Listed(dir)

(* While nobody went, who stayed was given out or comes after the pages    *)
(* that were. *)
Behind ==
    reading = "yes" /\ FromTheStart /\ ~went =>
        \A i \in stayed : InPages(i) \/ Rank(dir, i) > offset

(* While nobody came, who was given out is not after them. *)
Before ==
    ~came => /\ reading = "yes" => \A n \in DOMAIN pages : Rank(dir, pages[n]) <= offset
             /\ IsOrdered(pages)

AllGiven ==
    reading = "done" /\ FromTheStart /\ ~went => \A i \in stayed : InPages(i)

PagingIInv == PagingTypes /\ (Sorted => Behind /\ Before /\ AllGiven)

-----------------------------------------------------------------------------
(* The sorted list *)

LEMMA ListedIsFinite ==
    ASSUME IInv, IsFiniteSet(made)
    PROVE  /\ IsFiniteSet(Listed(dir)) /\ Listed(dir) \subseteq made
           /\ Cardinality(Listed(dir)) \in Nat
<1>1. Listed(dir) \subseteq made
  BY DEF Listed, IInv, IdsAreMade
<1> QED
  BY <1>1, FS_Subset, FS_CardinalityType

LEMMA RankFacts ==
    ASSUME NEW d, IsFiniteSet(Listed(d))
    PROVE  /\ \A i : Rank(d, i) \in Nat
           /\ \A e : Listed(e) \subseteq Listed(d) => \A i : Rank(e, i) <= Rank(d, i)
<1>1. ASSUME NEW i PROVE IsFiniteSet(UpTo(d, i)) /\ Rank(d, i) \in Nat
  BY FS_Subset, FS_CardinalityType DEF UpTo, Rank
<1>2. ASSUME NEW e, Listed(e) \subseteq Listed(d), NEW i PROVE Rank(e, i) <= Rank(d, i)
  <2>1. UpTo(e, i) \in SUBSET UpTo(d, i)
    BY <1>2 DEF UpTo
  <2> QED
    BY <1>1, <2>1, FS_Subset DEF Rank
<1> QED
  BY <1>1, <1>2

(* In the sorted list each user has its rank as its place. *)
LEMMA PlaceIsRank ==
    ASSUME Sorted, NEW d, IsFiniteSet(Listed(d)), NEW list \in ListOf(d)
    PROVE  /\ list \in Seq(Ids) /\ Len(list) = Cardinality(Listed(d)) /\ Len(list) \in Nat
           /\ IsOrdered(list)
           /\ \A k \in 1 .. Len(list) : list[k] \in Listed(d) /\ Rank(d, list[k]) = k
           /\ \A i \in Listed(d) : \E k \in 1 .. Len(list) : list[k] = i
<1> DEFINE n == Cardinality(Listed(d))
<1>1. /\ list \in [1 .. n -> Listed(d)]
      /\ {list[k] : k \in DOMAIN list} = Listed(d)
      /\ IsOrdered(list)
  BY DEF ListOf
<1>2. n \in Nat
  BY FS_CardinalityType
<1>3. Listed(d) \subseteq Ids /\ Ids \subseteq Nat
  BY UsersAssumption DEF Listed
<1> HIDE DEF n
<1>4. list \in Seq(Ids) /\ Len(list) = n
  BY <1>1, <1>2, <1>3
<1>5. \A i \in Listed(d) : \E k \in 1 .. n : list[k] = i
  BY <1>1
<1>6. ASSUME NEW k \in 1 .. n PROVE Rank(d, list[k]) = k
  <2> DEFINE f == [m \in 1 .. k |-> list[m]]
             S == UpTo(d, list[k])
  <2>1. \A m \in 1 .. n : list[m] \in Listed(d) /\ list[m] \in Nat
    BY <1>1, <1>3
  <2>2. \A m, p \in 1 .. n : m < p => list[m] < list[p]
    BY <1>1 DEF IsOrdered
  <2>3. \A m \in 1 .. n : list[m] <= list[k] <=> m <= k
    BY <1>2, <2>1, <2>2
  <2>4. f \in [1 .. k -> S]
    BY <1>2, <2>1, <2>3 DEF UpTo
  <2>5. \A i \in S : \E m \in 1 .. k : f[m] = i
    BY <1>2, <1>5, <2>3 DEF UpTo
  <2>6. \A m, p \in 1 .. k : m # p => f[m] # f[p]
    BY <1>2, <2>1, <2>2
  <2>7. f \in Bijection(1 .. k, S)
    BY <2>4, <2>5, <2>6 DEF Bijection, Injection, Surjection, IsInjective
  <2>8. IsFiniteSet(1 .. k) /\ Cardinality(1 .. k) = k
    BY <1>2, FS_Interval
  <2> HIDE DEF f, S
  <2>9. Cardinality(S) = k
    BY <2>7, <2>8, FS_Bijection DEF ExistsBijection
  <2> QED
    BY <2>9 DEF Rank, S
<1> QED
  BY <1>1, <1>2, <1>4, <1>5, <1>6 DEF n

(* A page is what follows the offset, and empty only at the end. *)
LEMMA SliceFacts ==
    ASSUME NEW list \in Seq(Ids), NEW lim \in Nat \ {0}, NEW off \in Nat,
           NEW page, page = PageSlice(list, lim, off)
    PROVE  /\ page \in Seq(Ids) /\ Len(page) \in Nat
           /\ \A k \in 1 .. Len(page) : page[k] = list[off + k] /\ off + k \in 1 .. Len(list)
           /\ page = <<>> => Len(list) <= off
           /\ page = <<>> <=> Len(page) = 0
<1>1. CASE off >= Len(list)
  BY <1>1 DEF PageSlice
<1>2. CASE off < Len(list)
  <2> DEFINE end == IF off + lim > Len(list) THEN Len(list) ELSE off + lim
  <2>1. end \in Nat /\ off + 1 \in 1 .. Len(list) /\ end \in off + 1 .. Len(list)
    BY <1>2
  <2>2. page = SubSeq(list, off + 1, end)
    BY <1>2 DEF PageSlice
  <2> HIDE DEF end
  <2>3. /\ page \in Seq(Ids) /\ Len(page) = end - off
        /\ \A k \in 1 .. end - off : page[k] = list[off + k]
    BY <2>1, <2>2
  <2> QED
    BY <1>2, <2>1, <2>3
<1> QED
  BY <1>1, <1>2

LEMMA LimitFacts ==
    ASSUME PagingTypes
    PROVE  PageLimit(limit) \in Nat \ {0} /\ PageOffset(offset) \in Nat
           /\ (offset \in Nat => PageOffset(offset) = offset)
  BY PagingAssumption DEF PagingTypes, PageLimit, PageOffset

LEMMA IdsOfList ==
    ASSUME NEW s \in Seq(Ids)
    PROVE  /\ DOMAIN s = 1 .. Len(s) /\ Len(s) \in Nat
           /\ \A n \in 1 .. Len(s) : s[n] \in Ids /\ s[n] \in Int
<1>1. /\ DOMAIN s = 1 .. Len(s) /\ Len(s) \in Nat
      /\ \A n \in 1 .. Len(s) : s[n] \in Ids
  OBVIOUS
<1>2. \A i \in Ids : i \in Int
  BY UsersAssumption
<1> QED BY <1>1, <1>2

(* What was given out before a page and in it. *)
Appended(given, page, all) ==
    /\ all \in Seq(Ids) /\ Len(all) = Len(given) + Len(page)
    /\ Len(given) \in Nat /\ Len(page) \in Nat
    /\ \A n \in 1 .. Len(given) : all[n] = given[n]
    /\ \A k \in 1 .. Len(page) : all[Len(given) + k] = page[k]
    /\ \A n \in 1 .. Len(all) :
         \/ n \in 1 .. Len(given)
         \/ \E k \in 1 .. Len(page) : n = Len(given) + k

LEMMA AppendedPage ==
    ASSUME NEW given \in Seq(Ids), NEW page \in Seq(Ids)
    PROVE  Appended(given, page, given \o page)
  <1> DEFINE all == given \o page
  <1>1. /\ all \in Seq(Ids) /\ Len(all) = Len(given) + Len(page)
        /\ Len(given) \in Nat /\ Len(page) \in Nat
    OBVIOUS
  <1>2. \A n \in 1 .. Len(given) : all[n] = given[n]
    OBVIOUS
  <1>3. \A k \in 1 .. Len(page) : all[Len(given) + k] = page[k]
    OBVIOUS
  <1>4. ASSUME NEW n \in 1 .. Len(all), n \notin 1 .. Len(given)
        PROVE  \E k \in 1 .. Len(page) : n = Len(given) + k
    <2>1. n - Len(given) \in 1 .. Len(page) /\ n = Len(given) + (n - Len(given))
      BY <1>1, <1>4
    <2> QED BY <2>1
  <1> QED BY <1>1, <1>2, <1>3, <1>4 DEF Appended

-----------------------------------------------------------------------------
(* A page is read *)

LEMMA ReadPageStep ==
    ASSUME IInv, PagingIInv, ReadPage
    PROVE  PagingIInv'
<1> USE DEF PagingIInv
<1>1. PICK list \in ListOf(dir) :
        LET page == PageSlice(list, PageLimit(limit), PageOffset(offset))
        IN  /\ pages' = pages \o page
            /\ offset' = PageOffset(offset) + Len(page)
            /\ reading' = IF page = <<>> THEN "done" ELSE "yes"
  BY DEF ReadPage
<1>2. PICK page : page = PageSlice(list, PageLimit(limit), PageOffset(offset))
  OBVIOUS
<1>3. PICK off : off = PageOffset(offset)
  OBVIOUS
<1>4. /\ pages' = pages \o page /\ offset' = off + Len(page)
      /\ reading' = IF page = <<>> THEN "done" ELSE "yes"
      /\ stayed' = IF reading = "no" THEN Listed(dir) ELSE stayed
      /\ UNCHANGED <<dir, made, limit, came, went>> /\ reading \in {"no", "yes"}
  BY <1>1, <1>2, <1>3 DEF ReadPage, vars, PagingTypes
<1>5. off \in Nat /\ (reading = "yes" => off = offset)
  BY <1>3, LimitFacts DEF PagingTypes
<1>6. IsFiniteSet(Listed(dir)) /\ Listed(dir) \subseteq made
  BY ListedIsFinite DEF PagingTypes
<1>7. list \in Seq(Ids) /\ Len(list) \in Nat
  <2>1. Cardinality(Listed(dir)) \in Nat /\ Listed(dir) \subseteq Ids
    BY <1>6, FS_CardinalityType DEF Listed
  <2> QED
    BY <2>1 DEF ListOf
<1>8. /\ page \in Seq(Ids) /\ Len(page) \in Nat
      /\ \A k \in 1 .. Len(page) : page[k] = list[off + k] /\ off + k \in 1 .. Len(list)
      /\ page = <<>> => Len(list) <= off
      /\ page = <<>> <=> Len(page) = 0
  BY <1>2, <1>3, <1>7, LimitFacts, SliceFacts
<1>9. pages \in Seq(Ids) /\ Len(pages) \in Nat
  BY DEF PagingTypes
<1>10. /\ pages' \in Seq(Ids) /\ Len(pages') = Len(pages) + Len(page)
       /\ \A n \in 1 .. Len(pages) : pages'[n] = pages[n]
       /\ \A k \in 1 .. Len(page) : pages'[Len(pages) + k] = page[k]
       /\ \A n \in 1 .. Len(pages') :
            \/ n \in 1 .. Len(pages)
            \/ \E k \in 1 .. Len(page) : n = Len(pages) + k
  <2>1. Appended(pages, page, pages \o page)
    BY <1>8, <1>9, AppendedPage
  <2> QED BY <1>4, <2>1 DEF Appended
<1>11. PagingTypes'
  BY <1>4, <1>5, <1>8, <1>10 DEF PagingTypes, Listed
<1>12. FromTheStart' => /\ off = Len(pages)
                        /\ reading = "yes" => FromTheStart
                        /\ reading = "no" => off = 0
  BY <1>4, <1>5, <1>8, <1>9, <1>10 DEF FromTheStart, PagingTypes
<1>13. ASSUME Sorted PROVE Behind' /\ Before' /\ AllGiven'
  <2> USE <1>13
  <2>1. /\ IsOrdered(list)
        /\ \A k \in 1 .. Len(list) : list[k] \in Listed(dir) /\ Rank(dir, list[k]) = k
        /\ \A i \in Listed(dir) : \E k \in 1 .. Len(list) : list[k] = i
    BY <1>6, PlaceIsRank
  <2>2. Rank(dir, 0)' = Rank(dir, 0) /\ \A i : Rank(dir, i)' = Rank(dir, i)
    BY <1>4 DEF Rank, UpTo, Listed
  (* Who stayed is in the pages or after the new one. *)
  <2>3. ASSUME FromTheStart', ~went', NEW i \in stayed'
        PROVE  InPages(i)' \/ Rank(dir, i) > off + Len(page)
    <3>1. i \in Listed(dir)
      BY <1>4, <2>3 DEF PagingTypes
    <3>2. PICK k \in 1 .. Len(list) : list[k] = i
      BY <2>1, <3>1
    <3>3. Rank(dir, i) = k
      BY <2>1, <3>2
    <3>4. InPages(i) \/ k > off
      BY <1>4, <1>5, <1>12, <2>3, <3>3 DEF Behind, PagingTypes
    <3>5. ASSUME InPages(i) PROVE InPages(i)'
      <4>1. PICK n \in 1 .. Len(pages) : pages[n] = i
        BY <1>9, <3>5, IdsOfList DEF InPages
      <4>2. n \in 1 .. Len(pages') /\ pages'[n] = i /\ DOMAIN pages' = 1 .. Len(pages')
        BY <1>8, <1>9, <1>10, <4>1
      <4> QED BY <4>2 DEF InPages
    <3>6. ASSUME k > off, k <= off + Len(page) PROVE InPages(i)'
      <4>1. k - off \in 1 .. Len(page) /\ off + (k - off) = k
        BY <1>5, <1>7, <1>8, <3>6
      <4>2. page[k - off] = i
        BY <1>8, <3>2, <4>1
      <4>3. pages'[Len(pages) + (k - off)] = i /\ Len(pages) + (k - off) \in 1 .. Len(pages')
        BY <1>8, <1>9, <1>10, <4>1, <4>2
      <4>4. DOMAIN pages' = 1 .. Len(pages')
        BY <1>10
      <4> QED BY <4>3, <4>4 DEF InPages
    <3> QED
      BY <1>5, <1>7, <1>8, <3>3, <3>4, <3>5, <3>6
  <2>4. Behind'
    BY <1>4, <2>2, <2>3 DEF Behind
  (* An empty page is the end of the list. *)
  <2>5. AllGiven'
    <3> SUFFICES ASSUME reading' = "done", FromTheStart', ~went', NEW i \in stayed'
                 PROVE  InPages(i)'
      BY DEF AllGiven
    <3>1. page = <<>> /\ Len(list) <= off /\ Len(page) = 0
      BY <1>4, <1>8
    <3>2. i \in Listed(dir)
      BY <1>4 DEF PagingTypes
    <3>3. Rank(dir, i) \in 1 .. Len(list)
      BY <2>1, <3>2
    <3> QED
      BY <1>5, <1>7, <2>3, <3>1, <3>3
  <2>6. ASSUME ~came PROVE Before'
    <3>1. ASSUME NEW n \in 1 .. Len(pages)
          PROVE  pages[n] \in Nat /\ Rank(dir, pages[n]) <= off /\ reading = "yes"
      <4>1. reading = "yes"
        BY <1>4, <3>1 DEF PagingTypes
      <4>2. n \in DOMAIN pages /\ pages[n] \in Ids
        BY <1>9, <3>1, IdsOfList
      <4> QED BY <1>5, <2>6, <4>1, <4>2, UsersAssumption DEF Before
    <3>2. ASSUME NEW k \in 1 .. Len(page)
          PROVE  page[k] \in Listed(dir) /\ Rank(dir, page[k]) = off + k
      BY <1>8, <2>1
    <3>3. \A n \in DOMAIN pages' : Rank(dir, pages'[n]) <= off + Len(page)
      <4>1. \A i : Rank(dir, i) \in Nat
        BY <1>6, RankFacts
      <4> QED
        BY <1>5, <1>8, <1>9, <1>10, <3>1, <3>2, <4>1
    <3>4. ASSUME NEW n \in 1 .. Len(pages), NEW k \in 1 .. Len(page)
          PROVE  pages[n] < page[k]
      <4>1. SUFFICES ASSUME page[k] <= pages[n] PROVE FALSE
        <5>1. page[k] \in Int /\ pages[n] \in Int
          BY <1>8, <1>9, IdsOfList
        <5> QED BY <5>1
      <4>2. page[k] \in Int /\ pages[n] \in Int
        BY <1>8, <1>9, IdsOfList
      <4>3. UpTo(dir, page[k]) \in SUBSET UpTo(dir, pages[n])
        <5>1. \A i \in Listed(dir) : i \in Int
          BY UsersAssumption DEF Listed
        <5> QED BY <4>1, <4>2, <5>1 DEF UpTo
      <4>4. IsFiniteSet(UpTo(dir, pages[n]))
        BY <1>6, FS_Subset DEF UpTo
      <4>5. Rank(dir, page[k]) <= Rank(dir, pages[n])
        BY <4>3, <4>4, FS_Subset DEF Rank
      <4>6. Rank(dir, pages[n]) \in Nat
        BY <1>6, RankFacts
      <4> QED
        BY <1>5, <3>1, <3>2, <4>5, <4>6
    <3>5. ASSUME NEW k \in 1 .. Len(page), NEW m \in 1 .. Len(page), k < m
          PROVE  page[k] < page[m]
      <4>1. /\ page[k] = list[off + k] /\ off + k \in DOMAIN list
            /\ page[m] = list[off + m] /\ off + m \in DOMAIN list
        BY <1>7, <1>8, IdsOfList
      <4>2. off + k < off + m
        BY <1>5, <1>8, <3>5
      <4> HIDE DEF IsOrdered
      <4>3. \A p, q \in DOMAIN list : p < q => list[p] < list[q]
        BY <2>1 DEF IsOrdered
      <4> QED BY <4>1, <4>2, <4>3
    <3>6. IsOrdered(pages)
      BY <2>6 DEF Before
    <3>7. IsOrdered(pages')
      <4>1. \A m, n \in 1 .. Len(pages') : m < n => pages'[m] < pages'[n]
        <5> SUFFICES ASSUME NEW m \in 1 .. Len(pages'), NEW n \in 1 .. Len(pages'), m < n
                     PROVE  pages'[m] < pages'[n]
          OBVIOUS
        <5>1. CASE n \in 1 .. Len(pages)
          <6>1. m \in 1 .. Len(pages) /\ DOMAIN pages = 1 .. Len(pages)
            BY <1>8, <1>9, <1>10, <5>1, IdsOfList
          <6> QED BY <1>10, <3>6, <5>1, <6>1 DEF IsOrdered
        <5>2. CASE n \notin 1 .. Len(pages)
          <6>1. PICK k \in 1 .. Len(page) : n = Len(pages) + k
            BY <1>10, <5>2
          <6>2. CASE m \in 1 .. Len(pages)
            BY <1>10, <3>4, <6>1, <6>2
          <6>3. CASE m \notin 1 .. Len(pages)
            <7>1. PICK l \in 1 .. Len(page) : m = Len(pages) + l
              BY <1>10, <6>3
            <7>2. l < k
              BY <1>8, <1>9, <6>1, <7>1
            <7> QED BY <1>10, <3>5, <6>1, <7>1, <7>2
          <6> QED BY <6>2, <6>3
        <5> QED BY <5>1, <5>2
      <4> QED BY <1>10, <4>1 DEF IsOrdered
    <3> QED
      BY <1>4, <2>2, <3>3, <3>7 DEF Before
  <2>7. ASSUME came PROVE Before'
    BY <1>4, <2>7 DEF Before
  <2> QED
    BY <2>4, <2>5, <2>6, <2>7
<1> QED
  BY <1>4, <1>11, <1>13
-----------------------------------------------------------------------------
(* The calls go on *)

LEMMA MadeIsFinite ==
    ASSUME IsFiniteSet(made), [Next]_vars PROVE IsFiniteSet(made')
<1>1. made' = made \/ \E i \in Ids : made' = made \cup {i}
  BY DEF Next, Call, Serve, Register, RemoveUser, GetForUpdate, PutUpdate, LoginForDelete,
     RemoveLoggedIn, vars
<1> QED
  BY <1>1, FS_AddElement

LEMMA ObservedStep ==
    ASSUME IInv, IInv', PagingIInv, Next, Observed
    PROVE  PagingIInv'
<1> USE DEF PagingIInv
<1>1. PICK now : now = dir'
  OBVIOUS
<1>2. /\ stayed' = stayed \cap Listed(now)
      /\ came' = (came \/ (reading = "yes" /\ Listed(now) \ Listed(dir) # {}))
      /\ went' = (went \/ (reading = "yes" /\ Listed(dir) \ Listed(now) # {}))
      /\ UNCHANGED <<reading, limit, offset, pages>>
  BY <1>1 DEF Observed
<1>3. IsFiniteSet(made')
  BY MadeIsFinite DEF PagingTypes
<1>4. IsFiniteSet(Listed(dir)) /\ IsFiniteSet(Listed(now))
  <2>1. Listed(now) \subseteq made'
    BY <1>1 DEF IInv, IdsAreMade, Listed
  <2> QED BY <1>3, <2>1, ListedIsFinite, FS_Subset DEF PagingTypes
<1>5. \A i : Rank(dir, i)' = Rank(now, i)
  BY <1>1 DEF Rank, UpTo, Listed
<1>6. PagingTypes'
  BY <1>1, <1>2, <1>3 DEF PagingTypes, Listed
<1>7. \A i : InPages(i)' <=> InPages(i)
  BY <1>2 DEF InPages
<1>8. FromTheStart' <=> FromTheStart
  BY <1>2 DEF FromTheStart
<1>9. ASSUME Sorted PROVE Behind' /\ Before' /\ AllGiven'
  <2> USE <1>9
  <2>1. Behind'
    <3> SUFFICES ASSUME reading = "yes", FromTheStart, ~went', NEW i \in stayed', ~InPages(i)
                 PROVE  Rank(now, i) > offset
      BY <1>2, <1>5, <1>7, <1>8 DEF Behind
    <3>1. ~went /\ Listed(dir) \subseteq Listed(now) /\ i \in stayed
      BY <1>2
    <3>2. Rank(dir, i) > offset
      BY <3>1 DEF Behind
    <3>3. Rank(dir, i) \in Nat /\ Rank(now, i) \in Nat /\ Rank(dir, i) <= Rank(now, i)
      BY <1>4, <3>1, RankFacts
    <3> QED BY <3>2, <3>3 DEF PagingTypes
  <2>2. Before'
    <3> SUFFICES ASSUME ~came'
                 PROVE  /\ reading = "yes" => \A n \in DOMAIN pages : Rank(now, pages[n]) <= offset
                        /\ IsOrdered(pages)
      BY <1>2, <1>5 DEF Before
    <3>1. ~came /\ IsOrdered(pages)
      BY <1>2 DEF Before
    <3>2. ASSUME reading = "yes", NEW n \in DOMAIN pages PROVE Rank(now, pages[n]) <= offset
      <4>1. Listed(now) \subseteq Listed(dir)
        BY <1>2, <3>2
      <4>2. Rank(dir, pages[n]) <= offset
        BY <3>1, <3>2 DEF Before
      <4>3. /\ Rank(dir, pages[n]) \in Nat /\ Rank(now, pages[n]) \in Nat
            /\ Rank(now, pages[n]) <= Rank(dir, pages[n])
        BY <1>4, <4>1, RankFacts
      <4> QED BY <4>2, <4>3 DEF PagingTypes
    <3> QED BY <3>1, <3>2
  <2>3. AllGiven'
    BY <1>2, <1>7, <1>8 DEF AllGiven
  <2> QED BY <2>1, <2>2, <2>3
<1> QED
  BY <1>6, <1>9

LEMMA StutterPaging ==
    ASSUME PagingIInv, UNCHANGED <<vars, pagingVars>> PROVE PagingIInv'
  BY DEF PagingIInv, PagingTypes, Behind, Before, AllGiven, InPages, FromTheStart, Rank, UpTo,
     Listed, IsOrdered, vars, pagingVars

-----------------------------------------------------------------------------
(* The calls of a paged system are those of UserService: what holds of     *)
(* UserService holds here. *)
LEMMA ServiceSteps == [PagingNext]_<<vars, pagingVars>> => [Next]_vars
  BY DEF PagingNext, ReadPage

LEMMA ServiceHolds == PagingSpec => []IInv
<1>1. PagingInit => IInv
  BY InitIInv DEF PagingInit
<1>2. IInv /\ [PagingNext]_<<vars, pagingVars>> => IInv'
  BY ServiceSteps, NextIInv
<1> QED
  BY <1>1, <1>2, PTL DEF PagingSpec

LEMMA PagingIInvHolds == PagingSpec => []PagingIInv
<1>1. PagingInit => PagingIInv
  <2> SUFFICES ASSUME PagingInit PROVE PagingIInv
    OBVIOUS
  <2>1. PagingTypes
    BY FS_EmptySet, PagingAssumption DEF PagingInit, Init, PagingTypes
  <2> QED
    BY <2>1 DEF PagingInit, PagingIInv, Behind, Before, AllGiven, IsOrdered
<1>2. IInv /\ PagingIInv /\ [PagingNext]_<<vars, pagingVars>> => PagingIInv'
  <2> SUFFICES ASSUME IInv, PagingIInv, [PagingNext]_<<vars, pagingVars>> PROVE PagingIInv'
    OBVIOUS
  <2>1. IInv'
    BY ServiceSteps, NextIInv
  <2> QED
    BY <2>1, ReadPageStep, ObservedStep, StutterPaging DEF PagingNext
<1> QED
  BY <1>1, <1>2, ServiceHolds, PTL DEF PagingSpec

(* ListUsers of a repository that lists by id (httpapi/handler.go:37-100,  *)
(* grpc/server.go:111-160): whoever reads every page from the start misses *)
(* one who stayed only if another went meanwhile, and gets one twice only  *)
(* if another came, for every limit, offset and order of the calls. *)
THEOREM PagesDoCover == PagingSpec => []PagesCover
<1>1. PagingIInv => PagesCover
  <2> SUFFICES ASSUME PagingIInv, Sorted PROVE PagesCover
    BY DEF PagesCover
  <2>1. reading = "done" /\ FromTheStart /\ ~went =>
          \A i \in stayed : \E n \in DOMAIN pages : pages[n] = i
    BY DEF PagingIInv, AllGiven, InPages
  <2>2. ASSUME ~came, NEW m \in DOMAIN pages, NEW n \in DOMAIN pages, m # n
        PROVE  pages[m] # pages[n]
    <3>1. /\ m \in Int /\ n \in Int /\ pages[m] \in Int /\ pages[n] \in Int
      BY IdsOfList DEF PagingIInv, PagingTypes
    <3>2. m < n => pages[m] < pages[n]
      BY <2>2 DEF PagingIInv, Before, IsOrdered
    <3>3. n < m => pages[n] < pages[m]
      BY <2>2 DEF PagingIInv, Before, IsOrdered
    <3> QED BY <2>2, <3>1, <3>2, <3>3
  <2> QED BY <2>1, <2>2 DEF PagesCover
<1> QED
  BY <1>1, PagingIInvHolds, PTL
=============================================================================
