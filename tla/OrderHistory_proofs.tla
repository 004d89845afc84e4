------------------------ MODULE OrderHistory_proofs ------------------------
(***************************************************************************)
(* Proofs about OrderHistory, for any number of orders, any order of their *)
(* creation and commit, and any page size.                                 *)
(***************************************************************************)
EXTENDS OrderHistory, FiniteSetTheorems, WellFoundedInduction, TLAPS

(* How many of n orders a page of the request has.                         *)
Share(a, n) ==
    LET rest == n - a.offset
    IN  IF rest <= 0 THEN 0 ELSE IF rest < a.limit THEN rest ELSE a.limit

Before(S, n) == {o \in S : Rank(o, S) < n}

Found == Matching(ask.filter)

-----------------------------------------------------------------------------
(* Ranks and pages                                                         *)

LEMMA RankIsNat ==
    ASSUME NEW S \in SUBSET Orders, NEW o \in Orders
    PROVE  /\ IsFiniteSet(S)
           /\ Cardinality(S) \in Nat
           /\ Rank(o, S) \in Nat
           /\ Rank(o, S) <= Cardinality(S)
<1>1. IsFiniteSet(S)
  BY FS_Subset, HistoryAssumption
<1>2. {p \in S : Created[p] > Created[o]} \in SUBSET S
  OBVIOUS
<1>3. QED
  BY <1>1, <1>2, FS_Subset, FS_CardinalityType DEF Rank

(* More orders, higher ranks.                                              *)
LEMMA RankGrows ==
    ASSUME NEW S \in SUBSET Orders, NEW T \in SUBSET Orders, S \subseteq T,
           NEW o \in Orders
    PROVE  Rank(o, S) <= Rank(o, T)
<1>1. IsFiniteSet({p \in T : Created[p] > Created[o]})
  <2>1. {p \in T : Created[p] > Created[o]} \in SUBSET Orders
    OBVIOUS
  <2>2. QED
    BY <2>1, FS_Subset, HistoryAssumption
<1>2. {p \in S : Created[p] > Created[o]} \in SUBSET {p \in T : Created[p] > Created[o]}
  OBVIOUS
<1>3. QED
  BY <1>1, <1>2, FS_Subset DEF Rank

(* A set of orders has a newest one and an oldest one: minimal elements of *)
(* the sets of what is newer, or older, than each.                         *)
LEMMA NewestExists ==
    ASSUME NEW T \in SUBSET Orders, T # {}
    PROVE  \E x \in T : \A y \in T : Created[y] <= Created[x]
<1> DEFINE After(x) == {y \in T : Created[y] > Created[x]}
           F == {After(x) : x \in T}
<1>1. IsFiniteSet(T)
  BY FS_Subset, HistoryAssumption
<1>2. FiniteSubsetsOf(T) = SUBSET T
  BY <1>1, FS_FiniteSubsetsOfFinite
<1>3. IsWellFoundedOn(StrictSubsetOrdering(T), SUBSET T)
  BY <1>2, FS_StrictSubsetOrderingWellFounded
<1>4. F \subseteq SUBSET T /\ F # {}
  OBVIOUS
<1>5. \E m \in F : \A n \in F : ~ (<<n, m>> \in StrictSubsetOrdering(T))
  <2> HIDE DEF F
  <2> QED BY <1>3, <1>4, WFMin
<1>6. PICK x \in T : \A y \in T : ~ (<<After(y), After(x)>> \in StrictSubsetOrdering(T))
  BY <1>5
<1>7. ASSUME NEW y \in T, ~ (Created[y] <= Created[x])
      PROVE  FALSE
  <2>1. \A z \in T : Created[z] \in Nat
    BY HistoryAssumption
  <2>2. y \in After(x) /\ y \notin After(y)
    BY <1>7, <2>1
  <2>3. After(y) \subseteq After(x)
    BY <1>7, <2>1
  <2>4. <<After(y), After(x)>> \in StrictSubsetOrdering(T)
    <3>1. After(y) \in SUBSET T /\ After(x) \in SUBSET T
      OBVIOUS
    <3> HIDE DEF After
    <3>2. After(y) # After(x)
      BY <2>2
    <3>3. QED
      BY <2>3, <3>1, <3>2 DEF StrictSubsetOrdering
  <2>5. QED
    BY <1>6, <2>4
<1>8. QED
  BY <1>7

LEMMA OldestExists ==
    ASSUME NEW T \in SUBSET Orders, T # {}
    PROVE  \E x \in T : \A y \in T : Created[x] <= Created[y]
<1> DEFINE Until(x) == {y \in T : Created[y] < Created[x]}
           F == {Until(x) : x \in T}
<1>1. IsFiniteSet(T)
  BY FS_Subset, HistoryAssumption
<1>2. FiniteSubsetsOf(T) = SUBSET T
  BY <1>1, FS_FiniteSubsetsOfFinite
<1>3. IsWellFoundedOn(StrictSubsetOrdering(T), SUBSET T)
  BY <1>2, FS_StrictSubsetOrderingWellFounded
<1>4. F \subseteq SUBSET T /\ F # {}
  OBVIOUS
<1>5. \E m \in F : \A n \in F : ~ (<<n, m>> \in StrictSubsetOrdering(T))
  <2> HIDE DEF F
  <2> QED BY <1>3, <1>4, WFMin
<1>6. PICK x \in T : \A y \in T : ~ (<<Until(y), Until(x)>> \in StrictSubsetOrdering(T))
  BY <1>5
<1>7. ASSUME NEW y \in T, ~ (Created[x] <= Created[y])
      PROVE  FALSE
  <2>1. \A z \in T : Created[z] \in Nat
    BY HistoryAssumption
  <2>2. y \in Until(x) /\ y \notin Until(y)
    BY <1>7, <2>1
  <2>3. Until(y) \subseteq Until(x)
    BY <1>7, <2>1
  <2>4. <<Until(y), Until(x)>> \in StrictSubsetOrdering(T)
    <3>1. Until(y) \in SUBSET T /\ Until(x) \in SUBSET T
      OBVIOUS
    <3> HIDE DEF Until
    <3>2. Until(y) # Until(x)
      BY <2>2
    <3>3. QED
      BY <2>3, <3>1, <3>2 DEF StrictSubsetOrdering
  <2>5. QED
    BY <1>6, <2>4
<1>8. QED
  BY <1>7

(* The ranks of a set of orders are 0, 1, ... without a gap.               *)
LEMMA RanksHaveNoGap ==
    ASSUME NEW S \in SUBSET Orders, NEW n \in Nat
    PROVE  /\ IsFiniteSet(Before(S, n))
           /\ Cardinality(Before(S, n)) = IF n <= Cardinality(S) THEN n ELSE Cardinality(S)
<1> DEFINE A == Before(S, n)
<1>1. A \in SUBSET S /\ A \in SUBSET Orders /\ S \ A \in SUBSET Orders
  BY DEF Before
<1>2. IsFiniteSet(A) /\ Cardinality(A) \in Nat /\ IsFiniteSet(S) /\ Cardinality(S) \in Nat
      /\ Cardinality(A) <= Cardinality(S)
  <2> HIDE DEF A
  <2>1. IsFiniteSet(S) /\ IsFiniteSet(A)
    BY <1>1, FS_Subset, HistoryAssumption
  <2>2. QED
    BY <1>1, <2>1, FS_Subset, FS_CardinalityType
<1>3. Cardinality(A) <= n
  <2>1. CASE A = {}
    BY <2>1, FS_EmptySet DEF Before
  <2>2. CASE A # {}
    <3>1. PICK q \in A : \A y \in A : Created[q] <= Created[y]
      <4> HIDE DEF A
      <4> QED BY <1>1, <2>2, OldestExists
    <3>2. q \in S /\ Rank(q, S) < n /\ Rank(q, S) \in Nat
      BY <1>1, RankIsNat DEF Before
    <3>3. A \ {q} \subseteq {p \in S : Created[p] > Created[q]}
      <4>1. \A y \in A \ {q} : y \in S /\ Created[y] \in Nat /\ Created[q] \in Nat
                              /\ Created[q] <= Created[y] /\ Created[q] # Created[y]
        <5> HIDE DEF A
        <5> QED BY <1>1, <3>1, HistoryAssumption
      <4>2. QED
        BY <4>1
    <3>4. IsFiniteSet({p \in S : Created[p] > Created[q]})
      <4>1. {p \in S : Created[p] > Created[q]} \in SUBSET S
        OBVIOUS
      <4>2. QED
        BY <1>2, <4>1, FS_Subset
    <3>5. Cardinality(A \ {q}) <= Rank(q, S)
      <4> HIDE DEF A
      <4> QED BY <3>3, <3>4, FS_Subset DEF Rank
    <3>6. Cardinality(A \ {q}) = Cardinality(A) - 1
      <4> HIDE DEF A
      <4> QED BY <1>2, <3>1, FS_RemoveElement
    <3>7. QED
      BY <1>2, <3>2, <3>5, <3>6
  <2>3. QED
    BY <2>1, <2>2
<1>4. CASE A = S
  BY <1>2, <1>3, <1>4
<1>5. CASE A # S
  <2>1. S \ A # {}
    BY <1>1, <1>5
  <2>2. PICK p \in S \ A : \A y \in S \ A : Created[y] <= Created[p]
    <3> HIDE DEF A
    <3> QED BY <1>1, <2>1, NewestExists
  <2>3. Rank(p, S) >= n /\ Rank(p, S) \in Nat
    BY RankIsNat DEF Before
  <2>4. {y \in S : Created[y] > Created[p]} \in SUBSET A
    <3>1. ASSUME NEW y \in S, Created[y] > Created[p], y \notin A
          PROVE  FALSE
      <4>1. Created[y] <= Created[p] /\ Created[y] \in Nat /\ Created[p] \in Nat
        <5> HIDE DEF A
        <5> QED BY <2>2, <3>1, HistoryAssumption
      <4>2. QED
        BY <3>1, <4>1
    <3> HIDE DEF A
    <3>2. QED
      BY <3>1
  <2>5. Rank(p, S) <= Cardinality(A)
    <3> HIDE DEF A
    <3> QED BY <1>2, <2>4, FS_Subset DEF Rank
  <2>6. QED
    BY <1>2, <1>3, <2>3, <2>5
<1>6. QED
  BY <1>2, <1>4, <1>5

(* A page is exactly as full as the number of orders lets it be.           *)
LEMMA PageIsFull ==
    ASSUME NEW S \in SUBSET Orders,
           NEW a \in [filter : Filters, limit : Limits, offset : Nat]
    PROVE  /\ IsFiniteSet(PageOf(S, a))
           /\ Cardinality(PageOf(S, a)) = Share(a, Cardinality(S))
           /\ Cardinality(PageOf(S, a)) < a.limit =>
                 \A o \in S : Rank(o, S) >= a.offset => o \in PageOf(S, a)
<1> DEFINE A == Before(S, a.offset)
           B == Before(S, a.offset + a.limit)
<1>1. a.offset \in Nat /\ a.limit \in Nat /\ a.limit > 0 /\ a.offset + a.limit \in Nat
  <2>1. a.offset \in Nat /\ a.limit \in Limits
    OBVIOUS
  <2>2. QED
    BY <2>1, HistoryAssumption
<1>2. /\ IsFiniteSet(A)
      /\ Cardinality(A) = IF a.offset <= Cardinality(S) THEN a.offset ELSE Cardinality(S)
  BY <1>1, RanksHaveNoGap
<1>3. /\ IsFiniteSet(B)
      /\ Cardinality(B) = IF a.offset + a.limit <= Cardinality(S)
                          THEN a.offset + a.limit ELSE Cardinality(S)
  BY <1>1, RanksHaveNoGap
<1>4. Cardinality(S) \in Nat
  BY FS_Subset, FS_CardinalityType, HistoryAssumption
<1>5. \A o \in S : Rank(o, S) \in Nat /\ Rank(o, S) <= Cardinality(S)
  BY RankIsNat
<1>6. PageOf(S, a) = B \ A /\ A \in SUBSET B
  BY <1>1, <1>5 DEF PageOf, Before
<1>7. IsFiniteSet(B \ A) /\ Cardinality(B \ A) = Cardinality(B) - Cardinality(A)
  <2>1. B \cap A = A
    BY <1>6
  <2> HIDE DEF A, B
  <2>2. QED
    BY <1>2, <1>3, <2>1, FS_Difference
<1>8. Cardinality(PageOf(S, a)) = Share(a, Cardinality(S))
  <2> HIDE DEF A, B
  <2> QED BY <1>1, <1>2, <1>3, <1>4, <1>6, <1>7 DEF Share
<1>9. ASSUME Cardinality(PageOf(S, a)) < a.limit, NEW o \in S, Rank(o, S) >= a.offset,
             o \notin PageOf(S, a)
      PROVE  FALSE
  <2>1. Rank(o, S) >= a.offset + a.limit
    BY <1>1, <1>5, <1>9 DEF PageOf
  <2>2. Cardinality(S) >= a.offset + a.limit
    BY <1>1, <1>4, <1>5, <2>1
  <2>3. QED
    BY <1>1, <1>4, <1>8, <1>9, <2>2 DEF Share
<1>10. QED
  BY <1>6, <1>7, <1>8, <1>9
-----------------------------------------------------------------------------
(* The inductive invariant                                                 *)

(* Where the next page of the walk begins, once this one is answered.      *)
Reach == IF pc \in {"between", "done"} THEN ask.offset + ask.limit ELSE ask.offset

(* While no order leaves the filter, what the walk has still to show is    *)
(* behind the pages it has.                                                *)
Ahead ==
    ~ left /\ pc # "idle" => \A o \in expected \ seen :
        /\ o \in Found
        /\ pc # "done"
        /\ IF pc = "answer"
           THEN o \in page \/ (/\ Rank(o, Found) >= ask.offset + ask.limit
                               /\ Cardinality(page) >= ask.limit)
           ELSE Rank(o, Found) >= Reach

(* While no order comes into it, what the walk has shown is in front.      *)
Behind ==
    ~ came =>
        /\ ~ repeats
        /\ \A o \in seen \cap Found : Rank(o, Found) < Reach
        /\ pc = "answer" =>
              \A o \in page \cap Found : Rank(o, Found) < ask.offset + ask.limit

(* What the first statement has counted.                                   *)
Counts == pc = "select" /\ ~ moved => total = Cardinality(Found)

HistoryInv ==
    /\ TypeOK
    /\ pc = "idle" => seen = {}
    /\ Ahead
    /\ Behind
    /\ Counts
    /\ TotalFitsPage

LEMMA FoundAreMine == Found \in SUBSET Mine /\ Found \in SUBSET Orders
  BY HistoryAssumption DEF Found, Matching, Committed

LEMMA AskIsNat ==
    ASSUME TypeOK
    PROVE  /\ ask.offset \in Nat /\ ask.limit \in Nat /\ ask.limit > 0
           /\ ask.offset + ask.limit \in Nat /\ ask.filter \in Filters
<1>1. ask.offset \in Nat /\ ask.limit \in Limits /\ ask.filter \in Filters
  BY DEF TypeOK
<1>2. QED
  BY <1>1, HistoryAssumption

LEMMA HistoryStarts == Init => HistoryInv
<1> SUFFICES ASSUME Init PROVE HistoryInv
  OBVIOUS
<1>1. TypeOK
  <2>1. status \in [Orders -> Life!Stages] /\ released \subseteq Orders
    BY DEF Init, Life!Init, Life!Stages
  <2>2. ask \in [filter : Filters, limit : Limits, offset : Nat]
    BY DEF Init
  <2>3. QED
    BY <2>1, <2>2 DEF Init, TypeOK, Pcs
<1>2. QED
  BY <1>1 DEF Init, HistoryInv, Ahead, Behind, Counts, TotalFitsPage

-----------------------------------------------------------------------------
(* Steps of the client and its request                                     *)

LEMMA OpenKeeps == HistoryInv /\ Open => HistoryInv'
<1> SUFFICES ASSUME HistoryInv, Open PROVE HistoryInv'
  OBVIOUS
<1>1. TypeOK'
  <2>1. ask' \in [filter : Filters, limit : Limits, offset : Nat]
    BY DEF Open
  <2>2. expected' \subseteq Mine \cap Committed
    BY DEF Open, Matching
  <2>3. Committed' = Committed
    BY DEF Open, life, Committed
  <2>4. QED
    BY <2>1, <2>2, <2>3 DEF Open, life, HistoryInv, TypeOK, Pcs
<1>2. Found' = expected' /\ Found' \in SUBSET Orders
  BY FoundAreMine, HistoryAssumption DEF Open, Found, Matching, Committed, life
<1>3. Ahead'
  <2>1. ask'.offset = 0
    BY DEF Open
  <2>2. \A o \in Found' : Rank(o, Found') >= 0
    BY <1>2, RankIsNat
  <2>3. QED
    BY <1>2, <2>1, <2>2 DEF Open, Ahead, Reach, Found
<1>4. QED
  BY <1>1, <1>3 DEF Open, HistoryInv, Behind, Counts, TotalFitsPage

LEMMA NextPageKeeps == HistoryInv /\ NextPage => HistoryInv'
<1> SUFFICES ASSUME HistoryInv, NextPage PROVE HistoryInv'
  OBVIOUS
<1>1. /\ ask'.offset = ask.offset + ask.limit
      /\ ask'.limit = ask.limit /\ ask'.filter = ask.filter
      /\ ask' \in [filter : Filters, limit : Limits, offset : Nat]
  BY AskIsNat DEF NextPage, HistoryInv, TypeOK
<1>2. TypeOK'
  BY <1>1 DEF NextPage, life, HistoryInv, TypeOK, Pcs, Committed
<1>3. Found' = Found /\ Reach' = Reach
  BY <1>1 DEF NextPage, Found, Matching, Committed, life, Reach
<1>4. Ahead' /\ Behind'
  BY <1>3 DEF NextPage, HistoryInv, Ahead, Behind
<1>5. QED
  BY <1>2, <1>4 DEF NextPage, HistoryInv, Counts, TotalFitsPage

LEMMA CountKeeps == HistoryInv /\ CountOrders => HistoryInv'
<1> SUFFICES ASSUME HistoryInv, CountOrders PROVE HistoryInv'
  OBVIOUS
<1>1. total' = Cardinality(Found) /\ total' \in Nat
  BY FoundAreMine, RankIsNat, FS_Subset, FS_CardinalityType, HistoryAssumption
     DEF CountOrders, Count, Found
<1>2. TypeOK'
  BY <1>1 DEF CountOrders, life, HistoryInv, TypeOK, Pcs, Committed
<1>3. Found' = Found /\ Reach' = Reach
  BY DEF CountOrders, Found, Matching, Committed, life, Reach
<1>4. Ahead' /\ Behind'
  BY <1>3 DEF CountOrders, HistoryInv, Ahead, Behind
<1>5. QED
  BY <1>1, <1>2, <1>3, <1>4 DEF CountOrders, HistoryInv, Counts, TotalFitsPage

LEMMA SelectKeeps == HistoryInv /\ SelectPage => HistoryInv'
<1> SUFFICES ASSUME HistoryInv, SelectPage PROVE HistoryInv'
  OBVIOUS
<1>1. Found' = Found /\ Reach' = Reach /\ Reach = ask.offset /\ ask' = ask
  BY DEF SelectPage, Found, Matching, Committed, life, Reach
<1>2. page' = PageOf(Found, ask)
  BY DEF SelectPage, Found
<1>3. page' \subseteq Found /\ Found \subseteq Mine \cap Committed
  BY <1>2 DEF PageOf, Found, Matching
<1>4. TypeOK'
  <2>1. Committed' = Committed
    BY DEF SelectPage, life, Committed
  <2>2. QED
    BY <1>3, <2>1 DEF SelectPage, life, HistoryInv, TypeOK, Pcs
<1>5. /\ Cardinality(page') = Share(ask, Cardinality(Found))
      /\ Cardinality(page') < ask.limit =>
            \A o \in Found : Rank(o, Found) >= ask.offset => o \in page'
  BY <1>2, FoundAreMine, PageIsFull DEF HistoryInv, TypeOK
<1>6. \A o \in Found : Rank(o, Found) \in Nat
  BY FoundAreMine, RankIsNat
<1>7. Cardinality(page') \in Nat
  <2>1. page' \in SUBSET Orders
    BY <1>3, FoundAreMine
  <2>2. QED
    BY <2>1, FS_Subset, FS_CardinalityType, HistoryAssumption
<1>8. Ahead'
  <2> SUFFICES ASSUME ~ left, NEW o \in expected \ seen
               PROVE  /\ o \in Found
                      /\ o \in page' \/ (/\ Rank(o, Found) >= ask.offset + ask.limit
                                         /\ Cardinality(page') >= ask.limit)
    BY <1>1 DEF SelectPage, Ahead
  <2>1. o \in Found /\ Rank(o, Found) >= ask.offset
    BY <1>1 DEF SelectPage, HistoryInv, Ahead
  <2>2. CASE o \in page'
    BY <2>1, <2>2
  <2>3. CASE o \notin page'
    <3>1. Rank(o, Found) >= ask.offset + ask.limit
      BY <1>2, <1>6, <2>1, <2>3, AskIsNat DEF PageOf, HistoryInv
    <3>2. Cardinality(page') >= ask.limit
      BY <1>5, <1>7, <2>1, <2>3, AskIsNat DEF HistoryInv
    <3>3. QED
      BY <2>1, <3>1, <3>2
  <2>4. QED
    BY <2>2, <2>3
<1>9. Behind'
  <2> SUFFICES ASSUME ~ came
               PROVE  /\ page' \cap seen = {} /\ ~ repeats
                      /\ \A o \in seen \cap Found : Rank(o, Found) < ask.offset
                      /\ \A o \in page' : Rank(o, Found) < ask.offset + ask.limit
    BY <1>1, <1>3 DEF SelectPage, Behind
  <2>1. /\ ~ repeats
        /\ \A o \in seen \cap Found : Rank(o, Found) < ask.offset
    BY <1>1 DEF HistoryInv, Behind
  <2>2. \A o \in page' : Rank(o, Found) >= ask.offset /\ Rank(o, Found) < ask.offset + ask.limit
    BY <1>2, <1>6, AskIsNat DEF PageOf, HistoryInv
  <2>3. page' \cap seen = {}
    BY <1>3, <1>6, <2>1, <2>2, AskIsNat DEF HistoryInv
  <2>4. QED
    BY <2>1, <2>2, <2>3
<1>10. TotalFitsPage'
  <2> SUFFICES ASSUME ~ moved
               PROVE  Cardinality(page') = Share(ask, total)
    BY <1>1 DEF SelectPage, TotalFitsPage, Share
  <2>1. total = Cardinality(Found)
    BY DEF SelectPage, HistoryInv, Counts
  <2>2. QED
    BY <1>5, <2>1
<1>11. QED
  BY <1>4, <1>8, <1>9, <1>10 DEF SelectPage, HistoryInv, Counts

LEMMA AnswerKeeps == HistoryInv /\ AnswerPage => HistoryInv'
<1> SUFFICES ASSUME HistoryInv, AnswerPage PROVE HistoryInv'
  OBVIOUS
<1>1. Found' = Found /\ ask' = ask /\ Reach' = ask.offset + ask.limit
  BY DEF AnswerPage, Found, Matching, Committed, life, Reach
<1>2. TypeOK'
  BY DEF AnswerPage, life, HistoryInv, TypeOK, Pcs, Committed
<1>3. pc' = "done" => Cardinality(page) < ask.limit
  BY DEF AnswerPage
<1>4. Cardinality(page) \in Nat
  <2>1. page \in SUBSET Orders
    BY HistoryAssumption DEF HistoryInv, TypeOK
  <2>2. QED
    BY <2>1, FS_Subset, FS_CardinalityType, HistoryAssumption
<1>5. Ahead'
  <2> SUFFICES ASSUME ~ left, NEW o \in expected, o \notin seen \cup page
               PROVE  /\ o \in Found /\ pc' # "done"
                      /\ Rank(o, Found) >= ask.offset + ask.limit
    BY <1>1 DEF AnswerPage, Ahead
  <2>1. /\ o \in Found
        /\ Rank(o, Found) >= ask.offset + ask.limit
        /\ Cardinality(page) >= ask.limit
    BY DEF AnswerPage, HistoryInv, Ahead
  <2>2. QED
    BY <1>3, <1>4, <2>1, AskIsNat DEF HistoryInv
<1>6. Behind'
  <2> SUFFICES ASSUME ~ came
               PROVE  /\ ~ repeats
                      /\ \A o \in (seen \cup page) \cap Found :
                            Rank(o, Found) < ask.offset + ask.limit
    BY <1>1 DEF AnswerPage, Behind
  <2>1. /\ ~ repeats
        /\ \A o \in seen \cap Found : Rank(o, Found) < ask.offset
        /\ \A o \in page \cap Found : Rank(o, Found) < ask.offset + ask.limit
    BY DEF AnswerPage, HistoryInv, Behind, Reach
  <2>2. \A o \in Found : Rank(o, Found) \in Nat
    BY FoundAreMine, RankIsNat
  <2>3. QED
    BY <2>1, <2>2, AskIsNat DEF HistoryInv
<1>7. QED
  BY <1>2, <1>5, <1>6 DEF AnswerPage, HistoryInv, Counts, TotalFitsPage

LEMMA CardKeeps == HistoryInv /\ (\E o \in Orders : GetOrder(o)) => HistoryInv'
<1> SUFFICES ASSUME HistoryInv, NEW o \in Orders, GetOrder(o) PROVE HistoryInv'
  OBVIOUS
<1>1. Found' = Found /\ Reach' = Reach /\ Committed' = Committed
  BY DEF GetOrder, Found, Matching, Committed, life, walk, Reach
<1>2. card' \in [id : Orders, reply : {"found", "ORDER_NOT_FOUND"}]
  BY DEF GetOrder
<1>3. TypeOK'
  BY <1>1, <1>2 DEF GetOrder, life, walk, HistoryInv, TypeOK, Pcs
<1>4. QED
  BY <1>1, <1>3
     DEF GetOrder, walk, HistoryInv, Ahead, Behind, Counts, TotalFitsPage

-----------------------------------------------------------------------------
(* Steps of the orders                                                     *)

LEMMA MoveIsTyped == TypeOK /\ OrdersMove => TypeOK' /\ Committed \subseteq Committed'
<1> SUFFICES ASSUME TypeOK, OrdersMove PROVE TypeOK' /\ Committed \subseteq Committed'
  OBVIOUS
<1>1. PICK o \in Orders : \/ Life!Place(o) \/ Life!Cancellation(o) \/ Life!GiveBack(o)
  BY DEF OrdersMove, Life!Next
<1>2. /\ status' \in [Orders -> Life!Stages] /\ released' \subseteq Orders
      /\ \A p \in Orders : status[p] # "none" => status'[p] # "none"
  BY <1>1 DEF TypeOK, Life!Place, Life!Cancellation, Life!GiveBack, Life!Accept,
              Life!Complete, Life!Reopen, Life!Becomes, Life!Stages
<1>3. Committed \subseteq Committed'
  BY <1>2 DEF Committed
<1>4. left' \in BOOLEAN /\ came' \in BOOLEAN /\ moved' \in BOOLEAN
  BY DEF OrdersMove, TypeOK
<1>5. QED
  BY <1>2, <1>3, <1>4 DEF OrdersMove, walk, TypeOK

LEMMA MoveKeeps == HistoryInv /\ OrdersMove => HistoryInv'
<1> SUFFICES ASSUME HistoryInv, OrdersMove PROVE HistoryInv'
  OBVIOUS
<1>1. TypeOK'
  BY MoveIsTyped DEF HistoryInv
<1>2. Found \in SUBSET Orders /\ Found' \in SUBSET Orders
  BY FoundAreMine, HistoryAssumption DEF Found, Matching, Committed
<1>3. /\ left' = (left \/ ~ Found \subseteq Found')
      /\ came' = (came \/ ~ Found' \subseteq Found)
      /\ moved' = (moved \/ (pc = "select" /\ Found # Found'))
  BY DEF OrdersMove, Found
<1>4. /\ ask' = ask /\ Reach' = Reach /\ pc' = pc /\ page' = page
      /\ seen' = seen /\ expected' = expected /\ total' = total /\ repeats' = repeats
  BY DEF OrdersMove, walk, Reach
<1>5. \A o \in Found : Rank(o, Found) \in Nat
  BY <1>2, RankIsNat
<1>6. \A o \in Found' : Rank(o, Found') \in Nat
  BY <1>2, RankIsNat
<1>7. Reach \in Nat
  BY AskIsNat DEF HistoryInv, Reach
<1>8. Ahead'
  <2>1. CASE left'
    BY <2>1 DEF Ahead
  <2>2. CASE ~ left'
    <3>1. ~ left /\ Found \subseteq Found'
      BY <1>3, <2>2
    <3>2. \A o \in Found : Rank(o, Found) <= Rank(o, Found')
      BY <1>2, <3>1, RankGrows
    <3> SUFFICES ASSUME pc # "idle", NEW o \in expected \ seen
                 PROVE  /\ o \in Found' /\ pc # "done"
                        /\ IF pc = "answer"
                           THEN o \in page \/ (/\ Rank(o, Found') >= ask.offset + ask.limit
                                               /\ Cardinality(page) >= ask.limit)
                           ELSE Rank(o, Found') >= Reach
      BY <1>4 DEF Ahead
    <3>3. /\ o \in Found /\ pc # "done"
          /\ IF pc = "answer"
             THEN o \in page \/ (/\ Rank(o, Found) >= ask.offset + ask.limit
                                 /\ Cardinality(page) >= ask.limit)
             ELSE Rank(o, Found) >= Reach
      BY <3>1 DEF HistoryInv, Ahead
    <3>4. o \in Found'
      BY <3>1, <3>3
    <3>5. QED
      BY <1>5, <1>6, <1>7, <3>2, <3>3, <3>4, AskIsNat DEF HistoryInv
  <2>3. QED
    BY <2>1, <2>2
<1>9. Behind'
  <2>1. CASE came'
    BY <2>1 DEF Behind
  <2>2. CASE ~ came'
    <3>1. ~ came /\ Found' \subseteq Found
      BY <1>3, <2>2
    <3>2. \A o \in Found' : Rank(o, Found') <= Rank(o, Found)
      BY <1>2, <3>1, RankGrows
    <3>3. /\ ~ repeats
          /\ \A o \in seen \cap Found : Rank(o, Found) < Reach
          /\ pc = "answer" =>
                \A o \in page \cap Found : Rank(o, Found) < ask.offset + ask.limit
      BY <3>1 DEF HistoryInv, Behind
    <3>4. \A o \in seen \cap Found' : Rank(o, Found') < Reach
      BY <1>5, <1>6, <1>7, <3>1, <3>2, <3>3
    <3>5. pc = "answer" =>
             \A o \in page \cap Found' : Rank(o, Found') < ask.offset + ask.limit
      BY <1>5, <1>6, <3>1, <3>2, <3>3, AskIsNat DEF HistoryInv
    <3>6. QED
      BY <1>4, <3>3, <3>4, <3>5 DEF Behind
  <2>3. QED
    BY <2>1, <2>2
<1>10. Counts' /\ TotalFitsPage'
  BY <1>3, <1>4 DEF HistoryInv, Counts, TotalFitsPage
<1>11. QED
  BY <1>1, <1>4, <1>8, <1>9, <1>10 DEF HistoryInv

LEMMA HistoryStep == HistoryInv /\ [Next]_vars => HistoryInv'
<1>1. HistoryInv /\ UNCHANGED vars => HistoryInv'
  BY DEF vars, life, walk, HistoryInv, TypeOK, Ahead, Behind, Counts, TotalFitsPage,
         Found, Matching, Committed, Reach
<1>2. QED
  BY <1>1, OpenKeeps, NextPageKeeps, CountKeeps, SelectKeeps, AnswerKeeps, CardKeeps,
     MoveKeeps DEF Next

-----------------------------------------------------------------------------
(* The history of orders is well typed; in particular, every order it has  *)
(* shown is one of the buyer's that was committed.                         *)
THEOREM HistoryTypeCorrect == Spec => []TypeOK
<1>1. HistoryInv => TypeOK
  BY DEF HistoryInv
<1>2. QED
  BY <1>1, HistoryStarts, HistoryStep, PTL DEF Spec

(* Unless an order leaves the filter, a walk through the history shows     *)
(* every order that matched when it began.                                 *)
THEOREM NothingIsMissed == Spec => []NoneMissed
<1>1. HistoryInv => NoneMissed
  BY DEF HistoryInv, NoneMissed, Ahead
<1>2. QED
  BY <1>1, HistoryStarts, HistoryStep, PTL DEF Spec

(* Unless an order comes into the filter, no order is shown twice.         *)
THEOREM NothingIsShownTwice == Spec => []NoneTwice
<1>1. HistoryInv => NoneTwice
  BY DEF HistoryInv, NoneTwice, Behind
<1>2. QED
  BY <1>1, HistoryStarts, HistoryStep, PTL DEF Spec

(* total_count and the page agree unless the orders change in between.     *)
THEOREM TotalsFitPages == Spec => []TotalFitsPage
<1>1. HistoryInv => TotalFitsPage
  BY DEF HistoryInv
<1>2. QED
  BY <1>1, HistoryStarts, HistoryStep, PTL DEF Spec

(* An order that the history has shown is found when it is opened.         *)
THEOREM ShownOrdersAreFound == Spec => ShownCanBeOpened
<1>1. HistoryInv /\ [Next]_vars => [\A o \in seen : GetOrder(o) => card'.reply = "found"]_vars
  BY DEF HistoryInv, TypeOK, GetOrder, Visible
<1>2. QED
  BY <1>1, HistoryStarts, HistoryStep, PTL DEF Spec, ShownCanBeOpened

=============================================================================
