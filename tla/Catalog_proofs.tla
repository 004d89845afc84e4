-------------------------- MODULE Catalog_proofs --------------------------
(***************************************************************************)
(* Theorems about Catalog.  The invariants hold for every finite list of   *)
(* categories and every catalog, page size and limit: hierarchies and      *)
(* listings are read by recursive functions, whose values are found by     *)
(* induction on the natural numbers, in first-order form (Upwards).        *)
(***************************************************************************)
EXTENDS Catalog, FiniteSetTheorems, SequenceTheorems, WellFoundedInduction, TLAPS

-----------------------------------------------------------------------------
(* Induction, recursion and least elements.                                *)

(* A set that holds 0 and with every number the next holds all numbers.    *)
LEMMA Upwards ==
    ASSUME NEW S, 0 \in S, \A n \in Nat : n \in S => n + 1 \in S
    PROVE  Nat \subseteq S
<1> SUFFICES ASSUME NEW T, T = Nat \ S, T # {} PROVE FALSE
  OBVIOUS
<1>1. PICK x \in T : \A y \in T : ~ (<<y, x>> \in OpToRel(<, Nat))
  BY WFMin, NatLessThanWellFounded
<1>2. x \in Nat /\ x # 0 /\ x - 1 \in Nat /\ x - 1 < x
  OBVIOUS
<1>3. x - 1 \notin T
  BY <1>1, <1>2 DEF OpToRel
<1>4. (x - 1) + 1 = x
  BY <1>2
<1> QED BY <1>2, <1>3, <1>4

(* The functions that walk through a set, a step at each number.           *)
StepsOn(X) == [Nat -> [X -> X]]

Follows(f, first, step) == f[0] = first /\ \A n \in Nat \ {0} : f[n] = step[n][f[n - 1]]

(* A function on the numbers can be defined by its first value and the     *)
(* step to the next: any two finite pieces of it agree where both are.     *)
LEMMA Recursion ==
    ASSUME NEW X, NEW first \in X, NEW step \in StepsOn(X)
    PROVE  \E f \in [Nat -> X] : Follows(f, first, step)
<1> USE DEF StepsOn
<1> DEFINE Upto(n) == {g \in [0 .. n -> X] : \A i \in 0 .. n : g[i] = IF i = 0 THEN first ELSE step[i][g[i - 1]]}
           Reach == {n \in Nat : \E g : g \in Upto(n)}
<1>1. Nat \subseteq Reach
  <2>1. 0 \in Reach
    <3>1. [i \in 0 .. 0 |-> first] \in Upto(0)
      OBVIOUS
    <3> QED BY <3>1
  <2>2. ASSUME NEW n \in Nat, n \in Reach PROVE n + 1 \in Reach
    <3>1. PICK g \in Upto(n) : TRUE
      BY <2>2
    <3> DEFINE h == [i \in 0 .. n + 1 |-> IF i = n + 1 THEN step[n + 1][g[n]] ELSE g[i]]
    <3>2. h \in [0 .. n + 1 -> X]
      OBVIOUS
    <3>3. ASSUME NEW i \in 0 .. n + 1 PROVE h[i] = IF i = 0 THEN first ELSE step[i][h[i - 1]]
      <4>1. CASE i = n + 1
        BY <4>1
      <4>2. CASE i \in 0 .. n
        BY <4>2, g[i] = IF i = 0 THEN first ELSE step[i][g[i - 1]]
      <4> QED BY <4>1, <4>2
    <3>4. h \in Upto(n + 1)
      BY <3>2, <3>3
    <3> QED
      <4> HIDE DEF Upto, h
      <4> QED BY <3>4
  <2> QED
    <3> HIDE DEF Reach
    <3> QED BY <2>1, <2>2, Upwards
<1>2. ASSUME NEW n \in Nat, NEW g \in Upto(n)
      PROVE  /\ g \in [0 .. n -> X] /\ g[0] = first
             /\ \A i \in Nat \ {0} : i <= n => g[i] = step[i][g[i - 1]]
  OBVIOUS
<1> HIDE DEF Upto
<1>3. ASSUME NEW n \in Nat, NEW m \in Nat, NEW g \in Upto(n), NEW h \in Upto(m), n <= m
      PROVE  \A i \in 0 .. n : g[i] = h[i]
  <2> DEFINE Same == {i \in Nat : i <= n => g[i] = h[i]}
  <2>1. 0 \in Same
    BY <1>2
  <2>2. ASSUME NEW i \in Nat, i \in Same PROVE i + 1 \in Same
    <3>1. CASE i + 1 <= n
      <4>1. i + 1 \in Nat \ {0} /\ i + 1 <= m /\ (i + 1) - 1 = i /\ i <= n
        BY <1>3, <3>1
      <4>2. g[i + 1] = step[i + 1][g[i]] /\ h[i + 1] = step[i + 1][h[i]]
        BY <1>2, <3>1, <4>1
      <4> QED BY <2>2, <4>1, <4>2
    <3> QED BY <3>1
  <2>3. Nat \subseteq Same
    <3> HIDE DEF Same
    <3> QED BY <2>1, <2>2, Upwards
  <2> QED BY <2>3
<1> DEFINE piece(n) == CHOOSE g : g \in Upto(n)
           f == [n \in Nat |-> piece(n)[n]]
<1>4. ASSUME NEW n \in Nat PROVE piece(n) \in Upto(n)
  <2>1. \E g : g \in Upto(n)
    BY <1>1
  <2> QED BY <2>1
<1> HIDE DEF piece
<1>5. ASSUME NEW n \in Nat PROVE piece(n)[n] \in X
  BY <1>2, <1>4
<1>6. ASSUME NEW n \in Nat PROVE f[n] = IF n = 0 THEN first ELSE step[n][f[n - 1]]
  <2>1. CASE n = 0
    BY <1>2, <1>4, <2>1
  <2>2. CASE n # 0
    <3>1. n - 1 \in Nat /\ n - 1 <= n /\ n - 1 \in 0 .. n - 1
      BY <2>2
    <3>2. piece(n)[n] = step[n][piece(n)[n - 1]]
      BY <1>2, <1>4, <2>2
    <3>3. piece(n - 1)[n - 1] = piece(n)[n - 1]
      BY <1>3, <1>4, <3>1
    <3> QED BY <2>2, <3>1, <3>2, <3>3
  <2> QED BY <2>1, <2>2
<1>7. f \in [Nat -> X]
  BY <1>5
<1> QED
  <2> HIDE DEF f
  <2> QED BY <1>6, <1>7 DEF Follows
(* A function stays in a set that its first value is in and no step leaves. *)
LEMMA Ranges ==
    ASSUME NEW X, NEW f, f = [n \in Nat |-> f[n]],
           f[0] \in X, \A n \in Nat : f[n] \in X => f[n + 1] \in X
    PROVE  f \in [Nat -> X]
<1> DEFINE Typed == {n \in Nat : f[n] \in X}
<1>1. 0 \in Typed /\ \A n \in Nat : n \in Typed => n + 1 \in Typed
  OBVIOUS
<1>2. Nat \subseteq Typed
  <2> HIDE DEF Typed
  <2> QED BY <1>1, Upwards
<1> QED BY <1>2

(* A set of numbers that is not empty has its minimum.                     *)
LEMMA MinOfNumbers ==
    ASSUME NEW S \in SUBSET Nat, S # {}
    PROVE  Min(S) \in S /\ \A x \in S : Min(S) <= x
<1>1. PICK m \in S : \A x \in S : ~ (<<x, m>> \in OpToRel(<, Nat))
  BY WFMin, NatLessThanWellFounded
<1>2. ASSUME NEW x \in S PROVE m <= x
  <2>1. x \in Nat /\ m \in Nat
    OBVIOUS
  <2>2. ~ (x < m)
    BY <1>1, <2>1 DEF OpToRel
  <2> QED BY <2>1, <2>2
<1> QED BY <1>2 DEF Min

(* The smaller of two numbers.                                             *)
LEMMA MinOfTwo ==
    ASSUME NEW a \in Nat, NEW b \in Nat
    PROVE  Min({a, b}) = IF a <= b THEN a ELSE b
<1>1. Min({a, b}) \in {a, b} /\ Min({a, b}) <= a /\ Min({a, b}) <= b
  BY MinOfNumbers
<1> QED BY <1>1

-----------------------------------------------------------------------------
(* Sequences.                                                              *)

LEMMA InjectiveSeq ==
    ASSUME NEW S, NEW s \in Seq(S)
    PROVE  IsInjective(s) <=> \A i, j \in 1 .. Len(s) : s[i] = s[j] => i = j
  BY DEF IsInjective

LEMMA ElementsOfSeq ==
    ASSUME NEW S, NEW s \in Seq(S)
    PROVE  /\ ToSet(s) \subseteq S /\ s \in Seq(ToSet(s))
           /\ \A x : x \in ToSet(s) <=> \E i \in 1 .. Len(s) : s[i] = x
  BY DEF ToSet

(* A sequence without repetition is as long as its set of elements is big. *)
LEMMA LenOfInjective ==
    ASSUME NEW S, NEW s \in Seq(S), IsInjective(s)
    PROVE  IsFiniteSet(ToSet(s)) /\ Cardinality(ToSet(s)) = Len(s)
<1>1. Len(s) \in Nat /\ s \in [1 .. Len(s) -> ToSet(s)]
  BY ElementsOfSeq DEF ToSet
<1>2. s \in Bijection(1 .. Len(s), ToSet(s))
  BY <1>1, InjectiveSeq, ElementsOfSeq DEF Bijection, Injection, Surjection, IsInjective
<1>3. ExistsBijection(1 .. Len(s), ToSet(s))
  BY <1>2 DEF ExistsBijection
<1>4. IsFiniteSet(1 .. Len(s)) /\ Cardinality(1 .. Len(s)) = Len(s)
  BY <1>1, FS_Interval
<1> QED BY <1>3, <1>4, FS_Bijection

(* The recursive definition of Selected: what is kept grows at a number    *)
(* when the element there is to keep.                                      *)
LEMMA SelectedSteps ==
    ASSUME NEW S, NEW s \in Seq(S), NEW keep
    PROVE  /\ Selected(s, keep)[0] = <<>>
           /\ \A i \in Nat : Selected(s, keep)[i + 1] =
                 IF s[i + 1] \in keep THEN Append(Selected(s, keep)[i], s[i + 1]) ELSE Selected(s, keep)[i]
<1> DEFINE X == Seq(keep)
           first == <<>>
           step == [n \in Nat |-> [x \in X |-> IF s[n] \in keep THEN Append(x, s[n]) ELSE x]]
           Grown(g) == [n \in Nat |-> IF n = 0 THEN first
                          ELSE IF s[n] \in keep THEN Append(g[n - 1], s[n]) ELSE g[n - 1]]
<1>1. first \in X /\ step \in StepsOn(X)
  BY DEF StepsOn
<1>2. PICK f \in [Nat -> X] : Follows(f, first, step)
  <2> HIDE DEF step, X, first
  <2> QED BY <1>1, Recursion
<1>3. f = Grown(f)
  <2>1. ASSUME NEW n \in Nat PROVE f[n] = Grown(f)[n]
    <3>1. CASE n = 0
      BY <1>2, <3>1 DEF Follows
    <3>2. CASE n # 0
      <4>1. f[n - 1] \in X
        BY <3>2
      <4>2. f[n] = step[n][f[n - 1]]
        BY <1>2, <3>2 DEF Follows
      <4> QED BY <3>2, <4>1, <4>2
    <3> QED BY <3>1, <3>2
  <2>2. f = [n \in Nat |-> f[n]] /\ Grown(f) = [n \in Nat |-> Grown(f)[n]]
    OBVIOUS
  <2> HIDE DEF Grown
  <2> QED BY <2>1, <2>2
<1> DEFINE k == Selected(s, keep)
<1>4. k = CHOOSE g : g = Grown(g)
  BY DEF Selected
<1>5. k = Grown(k)
  <2> HIDE DEF k, Grown
  <2> QED BY <1>3, <1>4
<1> HIDE DEF k
<1>6. k = [n \in Nat |-> k[n]] /\ k[0] = <<>>
  BY <1>5
<1>7. ASSUME NEW n \in Nat PROVE k[n + 1] = IF s[n + 1] \in keep THEN Append(k[n], s[n + 1]) ELSE k[n]
  <2>1. n + 1 \in Nat /\ n + 1 # 0 /\ (n + 1) - 1 = n
    OBVIOUS
  <2> QED BY <1>5, <2>1
<1> QED BY <1>6, <1>7 DEF k

(* What has been kept of the first n elements of a sequence.               *)
LEMMA SelectedPrefix ==
    ASSUME NEW S, NEW s \in Seq(S), NEW keep
    PROVE  \A n \in Nat : n <= Len(s) =>
              /\ Selected(s, keep)[n] \in Seq(S)
              /\ \A x : x \in ToSet(Selected(s, keep)[n]) <=> x \in keep /\ \E j \in 1 .. n : s[j] = x
              /\ IsInjective(s) => IsInjective(Selected(s, keep)[n])
<1> DEFINE k == Selected(s, keep)
           Good(m) == /\ k[m] \in Seq(S)
                      /\ \A x : x \in ToSet(k[m]) <=> x \in keep /\ \E j \in 1 .. m : s[j] = x
                      /\ IsInjective(s) => IsInjective(k[m])
           GoodUpto == {m \in Nat : m <= Len(s) => Good(m)}
<1> HIDE DEF k
<1>1. k[0] = <<>> /\ \A m \in Nat : k[m + 1] = IF s[m + 1] \in keep THEN Append(k[m], s[m + 1]) ELSE k[m]
  <2>1. Selected(s, keep)[0] = <<>>
    BY SelectedSteps
  <2>2. \A m \in Nat : Selected(s, keep)[m + 1] =
           IF s[m + 1] \in keep THEN Append(Selected(s, keep)[m], s[m + 1]) ELSE Selected(s, keep)[m]
    BY SelectedSteps
  <2> QED BY <2>1, <2>2 DEF k
<1>2. 0 \in GoodUpto
  <2>1. <<>> \in Seq(S) /\ ToSet(<<>>) = {} /\ IsInjective(<<>>)
    BY DEF ToSet, IsInjective
  <2>2. \A j : j \notin 1 .. 0
    OBVIOUS
  <2> QED BY <1>1, <2>1, <2>2
<1>3. ASSUME NEW m \in Nat, m \in GoodUpto PROVE m + 1 \in GoodUpto
  <2> SUFFICES ASSUME m + 1 <= Len(s) PROVE Good(m + 1)
    OBVIOUS
  <2>1. Good(m) /\ s[m + 1] \in S /\ m + 1 \in 1 .. Len(s)
    BY <1>3
  <2>2. \A x : (\E j \in 1 .. m + 1 : s[j] = x) <=> (\E j \in 1 .. m : s[j] = x) \/ x = s[m + 1]
    <3>1. 1 .. m + 1 = (1 .. m) \cup {m + 1}
      OBVIOUS
    <3> QED BY <3>1
  <2>3. CASE s[m + 1] \notin keep
    BY <1>1, <2>1, <2>2, <2>3
  <2>4. CASE s[m + 1] \in keep
    <3> DEFINE e == s[m + 1]
               a == Append(k[m], e)
    <3>1. /\ a \in Seq(S) /\ Len(a) = Len(k[m]) + 1 /\ Len(k[m]) \in Nat
          /\ \A i \in 1 .. Len(k[m]) : a[i] = k[m][i]
          /\ a[Len(k[m]) + 1] = e
      BY <2>1, AppendProperties
    <3>2. k[m + 1] = a
      BY <1>1, <2>4
    <3> HIDE DEF a
    <3>3. 1 .. Len(a) = (1 .. Len(k[m])) \cup {Len(k[m]) + 1}
      BY <3>1
    <3>4. \A x : x \in ToSet(a) <=> x \in ToSet(k[m]) \/ x = e
      <4>1. \A x : x \in ToSet(a) <=> \E i \in 1 .. Len(a) : a[i] = x
        BY <3>1, ElementsOfSeq
      <4>2. \A x : x \in ToSet(k[m]) <=> \E i \in 1 .. Len(k[m]) : k[m][i] = x
        BY <2>1, ElementsOfSeq
      <4> QED BY <3>1, <3>3, <4>1, <4>2
    <3>5. ASSUME IsInjective(s) PROVE IsInjective(a)
      <4>1. \A j \in 1 .. m : s[j] # e
        <5>1. \A j \in 1 .. m : j \in 1 .. Len(s) /\ j # m + 1
          BY <2>1
        <5> QED BY <2>1, <3>5, <5>1, InjectiveSeq
      <4>2. e \notin ToSet(k[m])
        BY <2>1, <4>1
      <4>3. \A i \in 1 .. Len(k[m]) : k[m][i] # e
        BY <2>1, <4>2, ElementsOfSeq
      <4>4. IsInjective(k[m])
        BY <2>1, <3>5
      <4>5. \A i, j \in 1 .. Len(k[m]) : k[m][i] = k[m][j] => i = j
        BY <2>1, <4>4, InjectiveSeq
      <4>6. \A i, j \in 1 .. Len(a) : a[i] = a[j] => i = j
        BY <3>1, <3>3, <4>3, <4>5
      <4> QED BY <3>1, <4>6, InjectiveSeq
    <3> QED BY <2>1, <2>2, <2>4, <3>1, <3>2, <3>4, <3>5
  <2> QED BY <2>3, <2>4
<1>4. Nat \subseteq GoodUpto
  <2> HIDE DEF GoodUpto
  <2> QED BY <1>2, <1>3, Upwards
<1> QED BY <1>4 DEF k

(* Select keeps what it should and repeats nothing.                        *)
LEMMA SelectIsFilter ==
    ASSUME NEW S, NEW s \in Seq(S), NEW keep
    PROVE  /\ Select(s, keep) \in Seq(S)
           /\ ToSet(Select(s, keep)) = ToSet(s) \cap keep
           /\ IsInjective(s) => IsInjective(Select(s, keep))
<1>1. Len(s) \in Nat /\ Len(s) <= Len(s)
  OBVIOUS
<1>2. /\ Select(s, keep) \in Seq(S)
      /\ \A x : x \in ToSet(Select(s, keep)) <=> x \in keep /\ \E j \in 1 .. Len(s) : s[j] = x
      /\ IsInjective(s) => IsInjective(Select(s, keep))
  BY <1>1, SelectedPrefix DEF Select
<1>3. \A x : x \in ToSet(s) <=> \E j \in 1 .. Len(s) : s[j] = x
  BY ElementsOfSeq
<1> QED BY <1>2, <1>3

(* A page of a sequence.                                                   *)
LEMMA PageIsPiece ==
    ASSUME NEW S, NEW s \in Seq(S), NEW limit \in Nat, NEW offset \in Nat
    PROVE  LET page == Page(s, limit, offset)
               end == IF offset + limit <= Len(s) THEN offset + limit ELSE Len(s)
           IN  /\ page \in Seq(S)
               /\ Len(page) = IF offset <= end THEN end - offset ELSE 0
               /\ \A i \in 1 .. Len(page) : page[i] = s[offset + i] /\ offset + i \in 1 .. Len(s)
               /\ ToSet(page) \subseteq ToSet(s)
               /\ IsInjective(s) => IsInjective(page)
<1> DEFINE page == Page(s, limit, offset)
           end == IF offset + limit <= Len(s) THEN offset + limit ELSE Len(s)
<1>1. end \in Nat /\ end <= Len(s) /\ Len(s) \in Nat
  OBVIOUS
<1>2. page = SubSeq(s, offset + 1, end)
  <2>1. Min({offset + limit, Len(s)}) = end
    BY MinOfTwo
  <2> QED BY <2>1 DEF Page
<1>3. offset + 1 \in Int /\ end \in Int /\ \A i \in offset + 1 .. end : s[i] \in S
  BY <1>1
<1> HIDE DEF page, end
<1>4. /\ page \in Seq(S)
      /\ Len(page) = IF offset + 1 <= end THEN end - (offset + 1) + 1 ELSE 0
      /\ \A i \in 1 .. end - (offset + 1) + 1 : page[i] = s[offset + 1 + i - 1]
  BY <1>2, <1>3, SubSeqProperties
<1>5. Len(page) = IF offset <= end THEN end - offset ELSE 0
  BY <1>1, <1>4
<1>6. ASSUME NEW i \in 1 .. Len(page) PROVE page[i] = s[offset + i] /\ offset + i \in 1 .. Len(s)
  <2>1. i \in 1 .. end - (offset + 1) + 1 /\ offset + 1 + i - 1 = offset + i
    BY <1>1, <1>5
  <2> QED BY <1>1, <1>4, <2>1
<1>7. ToSet(page) \subseteq ToSet(s)
  <2> SUFFICES ASSUME NEW x \in ToSet(page) PROVE x \in ToSet(s)
    OBVIOUS
  <2>1. PICK i \in 1 .. Len(page) : page[i] = x
    BY <1>4, ElementsOfSeq
  <2>2. s[offset + i] = x /\ offset + i \in 1 .. Len(s)
    BY <1>6, <2>1
  <2> QED BY <2>2, ElementsOfSeq
<1>8. ASSUME IsInjective(s) PROVE IsInjective(page)
  <2>1. ASSUME NEW i \in 1 .. Len(page), NEW j \in 1 .. Len(page), page[i] = page[j] PROVE i = j
    <3>1. offset + i = offset + j
      BY <1>6, <1>8, <2>1, InjectiveSeq
    <3> QED BY <3>1
  <2> QED BY <1>4, <2>1, InjectiveSeq
<1> QED BY <1>4, <1>5, <1>6, <1>7, <1>8 DEF page, end

(* Appending what is not there yet repeats nothing.                        *)
LEMMA ConcatOfInjectives ==
    ASSUME NEW S, NEW s \in Seq(S), NEW t \in Seq(S)
    PROVE  /\ s \o t \in Seq(S) /\ Len(s \o t) = Len(s) + Len(t)
           /\ ToSet(s \o t) = ToSet(s) \cup ToSet(t)
           /\ IsInjective(s) /\ IsInjective(t) /\ ToSet(s) \cap ToSet(t) = {} => IsInjective(s \o t)
<1> DEFINE st == s \o t
<1>1. /\ st \in Seq(S) /\ Len(st) = Len(s) + Len(t) /\ Len(s) \in Nat /\ Len(t) \in Nat
      /\ \A i \in 1 .. Len(s) + Len(t) : st[i] = IF i <= Len(s) THEN s[i] ELSE t[i - Len(s)]
  BY ConcatProperties
<1> HIDE DEF st
<1>2. \A i \in 1 .. Len(s) : i \in 1 .. Len(st) /\ st[i] = s[i]
  BY <1>1
<1>3. \A i \in 1 .. Len(t) : Len(s) + i \in 1 .. Len(st) /\ st[Len(s) + i] = t[i]
  <2> TAKE i \in 1 .. Len(t)
  <2>1. Len(s) + i \in 1 .. Len(s) + Len(t) /\ ~ (Len(s) + i <= Len(s)) /\ (Len(s) + i) - Len(s) = i
    BY <1>1
  <2> QED BY <1>1, <2>1
<1>4. \A i \in 1 .. Len(st) : i \in 1 .. Len(s) \/ (i - Len(s) \in 1 .. Len(t) /\ i = Len(s) + (i - Len(s)))
  BY <1>1
<1>5. \A x : x \in ToSet(s) <=> \E i \in 1 .. Len(s) : s[i] = x
  BY ElementsOfSeq
<1>6. \A x : x \in ToSet(t) <=> \E i \in 1 .. Len(t) : t[i] = x
  BY ElementsOfSeq
<1>7. \A x : x \in ToSet(st) <=> \E i \in 1 .. Len(st) : st[i] = x
  BY <1>1, ElementsOfSeq
<1>8. \A x : x \in ToSet(st) <=> x \in ToSet(s) \/ x \in ToSet(t)
  <2>1. ASSUME NEW x \in ToSet(st) PROVE x \in ToSet(s) \/ x \in ToSet(t)
    <3>1. PICK i \in 1 .. Len(st) : st[i] = x
      BY <1>7
    <3> QED BY <1>2, <1>3, <1>4, <1>5, <1>6, <3>1
  <2>2. ASSUME NEW x \in ToSet(s) PROVE x \in ToSet(st)
    BY <1>2, <1>5, <1>7
  <2>3. ASSUME NEW x \in ToSet(t) PROVE x \in ToSet(st)
    BY <1>3, <1>6, <1>7
  <2> QED BY <2>1, <2>2, <2>3
<1>9. ASSUME IsInjective(s), IsInjective(t), ToSet(s) \cap ToSet(t) = {} PROVE IsInjective(st)
  <2>1. \A i, j \in 1 .. Len(s) : s[i] = s[j] => i = j
    BY <1>9, InjectiveSeq
  <2>2. \A i, j \in 1 .. Len(t) : t[i] = t[j] => i = j
    BY <1>9, InjectiveSeq
  <2>3. \A i \in 1 .. Len(s), j \in 1 .. Len(t) : s[i] # t[j]
    BY <1>5, <1>6, <1>9
  <2>4. ASSUME NEW i \in 1 .. Len(st), NEW j \in 1 .. Len(st), st[i] = st[j] PROVE i = j
    <3>1. CASE i \in 1 .. Len(s) /\ j \in 1 .. Len(s)
      BY <1>2, <2>1, <2>4, <3>1
    <3>2. CASE i \in 1 .. Len(s) /\ j \notin 1 .. Len(s)
      <4>1. st[i] = s[i] /\ st[j] = t[j - Len(s)] /\ j - Len(s) \in 1 .. Len(t)
        BY <1>2, <1>3, <1>4, <3>2
      <4> QED BY <2>3, <2>4, <3>2, <4>1
    <3>3. CASE i \notin 1 .. Len(s) /\ j \in 1 .. Len(s)
      <4>1. st[j] = s[j] /\ st[i] = t[i - Len(s)] /\ i - Len(s) \in 1 .. Len(t)
        BY <1>2, <1>3, <1>4, <3>3
      <4> QED BY <2>3, <2>4, <3>3, <4>1
    <3>4. CASE i \notin 1 .. Len(s) /\ j \notin 1 .. Len(s)
      <4>1. st[i] = t[i - Len(s)] /\ st[j] = t[j - Len(s)]
        BY <1>3, <1>4, <3>4
      <4>2. i - Len(s) = j - Len(s)
        BY <1>4, <2>2, <2>4, <3>4, <4>1
      <4> QED BY <1>1, <4>2
    <3> QED BY <3>1, <3>2, <3>3, <3>4
  <2> QED BY <1>1, <2>4, InjectiveSeq
<1> QED BY <1>1, <1>8, <1>9 DEF st

(* The first rows of a sequence.                                           *)
LEMMA PageFromStart ==
    ASSUME NEW S, NEW s \in Seq(S), NEW limit \in Nat
    PROVE  /\ Page(s, limit, 0) \in Seq(S)
           /\ Len(Page(s, limit, 0)) = IF limit <= Len(s) THEN limit ELSE Len(s)
           /\ ToSet(Page(s, limit, 0)) \subseteq ToSet(s)
           /\ Len(s) <= limit => Page(s, limit, 0) = s
           /\ IsInjective(s) => IsInjective(Page(s, limit, 0))
<1> DEFINE page == Page(s, limit, 0)
<1>1. /\ page \in Seq(S)
      /\ Len(page) = IF limit <= Len(s) THEN limit ELSE Len(s)
      /\ \A i \in 1 .. Len(page) : page[i] = s[i]
      /\ ToSet(page) \subseteq ToSet(s)
      /\ IsInjective(s) => IsInjective(page)
  <2>1. 0 \in Nat /\ Len(s) \in Nat
    OBVIOUS
  <2>2. /\ page \in Seq(S)
        /\ Len(page) = IF 0 <= (IF 0 + limit <= Len(s) THEN 0 + limit ELSE Len(s))
                       THEN (IF 0 + limit <= Len(s) THEN 0 + limit ELSE Len(s)) - 0 ELSE 0
        /\ \A i \in 1 .. Len(page) : page[i] = s[0 + i] /\ 0 + i \in 1 .. Len(s)
        /\ ToSet(page) \subseteq ToSet(s)
        /\ IsInjective(s) => IsInjective(page)
    BY <2>1, PageIsPiece
  <2> HIDE DEF page
  <2> QED BY <2>1, <2>2
<1> HIDE DEF page
<1>2. ASSUME Len(s) <= limit PROVE page = s
  <2>1. Len(page) = Len(s) /\ \A i \in 1 .. Len(s) : page[i] = s[i]
    BY <1>1, <1>2
  <2> QED BY <1>1, <2>1, SeqEqual
<1> QED BY <1>1, <1>2 DEF page

(* Collect repeats nothing, respects the limit and leaves out the product; *)
(* below the limit it has left out nothing else.                           *)
LEMMA CollectIsFair ==
    ASSUME NEW have \in Seq(Products), NEW items \in Seq(Products), NEW p, NEW limit \in Nat,
           IsInjective(have), IsInjective(items)
    PROVE  LET all == ToSet(have) \cup (ToSet(items) \ {p})
           IN  /\ Collect(have, items, p, limit) \in Seq(Products)
               /\ IsInjective(Collect(have, items, p, limit))
               /\ ToSet(Collect(have, items, p, limit)) \subseteq all
               /\ Len(Collect(have, items, p, limit)) <= limit
               /\ Len(Collect(have, items, p, limit)) < limit => ToSet(Collect(have, items, p, limit)) = all
<1> DEFINE all == ToSet(have) \cup (ToSet(items) \ {p})
           new == Select(items, Products \ ({p} \cup ToSet(have)))
           room == have \o new
<1>1. new \in Seq(Products) /\ IsInjective(new) /\ ToSet(new) = ToSet(items) \cap (Products \ ({p} \cup ToSet(have)))
  BY SelectIsFilter
<1>2. ToSet(items) \subseteq Products
  BY ElementsOfSeq
<1> HIDE DEF new
<1>3. room \in Seq(Products) /\ IsInjective(room) /\ ToSet(room) = ToSet(have) \cup ToSet(new)
  BY <1>1, ConcatOfInjectives
<1>4. ToSet(room) = all
  BY <1>1, <1>2, <1>3
<1>5. Collect(have, items, p, limit) = Page(room, limit, 0)
  BY DEF Collect, new
<1> HIDE DEF room, all
<1>6. /\ Page(room, limit, 0) \in Seq(Products)
      /\ Len(Page(room, limit, 0)) = IF limit <= Len(room) THEN limit ELSE Len(room)
      /\ ToSet(Page(room, limit, 0)) \subseteq ToSet(room)
      /\ Len(room) <= limit => Page(room, limit, 0) = room
      /\ IsInjective(Page(room, limit, 0))
  BY <1>3, PageFromStart
<1>7. Len(room) \in Nat
  BY <1>3
<1>8. Len(Page(room, limit, 0)) <= limit
  BY <1>6, <1>7
<1>9. Len(Page(room, limit, 0)) < limit => Page(room, limit, 0) = room
  BY <1>6, <1>7
<1> QED BY <1>3, <1>4, <1>5, <1>6, <1>8, <1>9 DEF all

(* What has been collected stays where it is.                              *)
LEMMA CollectKeeps ==
    ASSUME NEW have \in Seq(Products), NEW items \in Seq(Products), NEW p, NEW limit \in Nat,
           Len(have) <= limit
    PROVE  /\ Len(Collect(have, items, p, limit)) >= Len(have)
           /\ \A j \in 1 .. Len(have) : Collect(have, items, p, limit)[j] = have[j]
<1> DEFINE new == Select(items, Products \ ({p} \cup ToSet(have)))
           room == have \o new
           block == Page(room, limit, 0)
           end == IF 0 + limit <= Len(room) THEN 0 + limit ELSE Len(room)
<1>1. new \in Seq(Products) /\ Len(new) \in Nat
  BY SelectIsFilter
<1> HIDE DEF new
<1>2. /\ room \in Seq(Products) /\ Len(room) = Len(have) + Len(new)
      /\ \A j \in 1 .. Len(have) : room[j] = have[j]
  BY <1>1, ConcatProperties
<1>3. block = Collect(have, items, p, limit)
  BY DEF Collect, new
<1> HIDE DEF room
<1>4. 0 \in Nat /\ Len(have) \in Nat /\ Len(room) \in Nat
  BY <1>2
<1>5. /\ Len(block) = IF 0 <= end THEN end - 0 ELSE 0
      /\ \A j \in 1 .. Len(block) : block[j] = room[0 + j]
  BY <1>2, <1>4, PageIsPiece
<1> HIDE DEF block
<1>6. Len(block) = IF limit <= Len(room) THEN limit ELSE Len(room)
  BY <1>4, <1>5
<1>7. Len(block) \in Nat /\ Len(block) >= Len(have)
  BY <1>1, <1>2, <1>4, <1>6
<1>8. ASSUME NEW j \in 1 .. Len(have) PROVE block[j] = have[j]
  <2>1. j \in 1 .. Len(block) /\ 0 + j = j
    BY <1>4, <1>7
  <2> QED BY <1>2, <1>5, <2>1
<1> QED BY <1>3, <1>7, <1>8

LEMMA CollectIsSeq ==
    ASSUME NEW have \in Seq(Products), NEW items \in Seq(Products), NEW p, NEW limit \in Nat
    PROVE  Collect(have, items, p, limit) \in Seq(Products)
<1> DEFINE new == Select(items, Products \ ({p} \cup ToSet(have)))
<1>1. new \in Seq(Products)
  BY SelectIsFilter
<1> HIDE DEF new
<1>2. have \o new \in Seq(Products)
  BY <1>1, ConcatProperties
<1>3. Page(have \o new, limit, 0) \in Seq(Products)
  BY <1>2, PageFromStart
<1> QED BY <1>3 DEF Collect, new

-----------------------------------------------------------------------------
(* What B2B answers, and how pages are joined.                             *)

(* A listing: every product of the category once.                          *)
LEMMA ListingOfCategory ==
    ASSUME NEW c
    PROVE  /\ Listing(c) \in Seq(Products) /\ IsInjective(Listing(c))
           /\ ToSet(Listing(c)) = {p \in Products : shelf[p] = c}
           /\ Len(Listing(c)) \in Nat
<1> DEFINE keep == {p \in Products : shelf[p] = c}
<1>1. NewestFirst \in Seq(Products) /\ IsInjective(NewestFirst) /\ ToSet(NewestFirst) = Products
  BY CatalogAssumption DEF Products
<1> HIDE DEF keep
<1>2. /\ Select(NewestFirst, keep) \in Seq(Products) /\ IsInjective(Select(NewestFirst, keep))
      /\ ToSet(Select(NewestFirst, keep)) = Products \cap keep
  BY <1>1, SelectIsFilter
<1>3. Listing(c) = Select(NewestFirst, keep)
  BY DEF Listing, keep
<1> HIDE DEF Listing
<1>4. Len(Listing(c)) \in Nat
  BY <1>2, <1>3
<1> QED BY <1>2, <1>3, <1>4 DEF keep

(* The similar products: the others of the category, and perhaps the       *)
(* product itself, once each.                                              *)
LEMMA SimilarInCategory ==
    ASSUME NEW p, NEW rows \in Similar(p)
    PROVE  /\ rows \in Seq(Products) /\ IsInjective(rows)
           /\ ToSet(rows) \subseteq {q \in Products : shelf[q] = shelf[p]}
           /\ {q \in Products \ {p} : shelf[q] = shelf[p]} \subseteq ToSet(rows)
<1> DEFINE all == Listing(shelf[p])  others == Select(all, Products \ {p})
<1>1. /\ all \in Seq(Products) /\ IsInjective(all)
      /\ ToSet(all) = {q \in Products : shelf[q] = shelf[p]}
  BY ListingOfCategory
<1> HIDE DEF all
<1>2. others \in Seq(Products) /\ IsInjective(others) /\ ToSet(others) = ToSet(all) \cap (Products \ {p})
  BY <1>1, SelectIsFilter
<1>3. rows = all \/ rows = others
  BY DEF Similar, all
<1> HIDE DEF others
<1> QED BY <1>1, <1>2, <1>3

(* The recursive definition of Joined: a page is added at its offset.      *)
LEMMA JoinedSteps ==
    ASSUME cards \in Seq(Products), \A o \in DOMAIN pages : pages[o].items \in Seq(Products)
    PROVE  /\ Joined[0] = cards
           /\ \A i \in Nat : Joined[i + 1] = IF i + 1 \in DOMAIN pages THEN Joined[i] \o pages[i + 1].items
                                                                       ELSE Joined[i]
<1> DEFINE X == Seq(Products)
           step == [n \in Nat |-> [x \in X |-> IF n \in DOMAIN pages THEN x \o pages[n].items ELSE x]]
           Grown(g) == [n \in Nat |-> IF n = 0 THEN cards
                          ELSE IF n \in DOMAIN pages THEN g[n - 1] \o pages[n].items ELSE g[n - 1]]
<1>1. cards \in X /\ step \in StepsOn(X)
  <2>1. ASSUME NEW n \in Nat, NEW x \in X PROVE (IF n \in DOMAIN pages THEN x \o pages[n].items ELSE x) \in X
    BY ConcatProperties
  <2> QED BY <2>1 DEF StepsOn
<1>2. PICK f \in [Nat -> X] : Follows(f, cards, step)
  <2> HIDE DEF step, X
  <2> QED BY <1>1, Recursion
<1>3. f = Grown(f)
  <2>1. ASSUME NEW n \in Nat PROVE f[n] = Grown(f)[n]
    <3>1. CASE n = 0
      BY <1>2, <3>1 DEF Follows
    <3>2. CASE n # 0
      <4>1. f[n - 1] \in X
        BY <3>2
      <4>2. f[n] = step[n][f[n - 1]]
        BY <1>2, <3>2 DEF Follows
      <4> QED BY <3>2, <4>1, <4>2
    <3> QED BY <3>1, <3>2
  <2>2. f = [n \in Nat |-> f[n]] /\ Grown(f) = [n \in Nat |-> Grown(f)[n]]
    OBVIOUS
  <2> HIDE DEF Grown
  <2> QED BY <2>1, <2>2
<1> DEFINE j == Joined
<1>4. j = CHOOSE g : g = Grown(g)
  BY DEF Joined
<1>5. j = Grown(j)
  <2> HIDE DEF j, Grown
  <2> QED BY <1>3, <1>4
<1> HIDE DEF j
<1>6. j[0] = cards
  BY <1>5
<1>7. ASSUME NEW n \in Nat
      PROVE j[n + 1] = IF n + 1 \in DOMAIN pages THEN j[n] \o pages[n + 1].items ELSE j[n]
  <2>1. n + 1 \in Nat /\ n + 1 # 0 /\ (n + 1) - 1 = n
    OBVIOUS
  <2> QED BY <1>5, <2>1
<1> QED BY <1>6, <1>7 DEF j

LEMMA JoinedIsSeq ==
    ASSUME cards \in Seq(Products), \A o \in DOMAIN pages : pages[o].items \in Seq(Products), NEW n \in Nat
    PROVE  Joined[n] \in Seq(Products)
<1> DEFINE Typed == {i \in Nat : Joined[i] \in Seq(Products)}
<1>1. 0 \in Typed
  BY JoinedSteps
<1>2. ASSUME NEW i \in Nat, i \in Typed PROVE i + 1 \in Typed
  <2>1. Joined[i] \in Seq(Products)
    BY <1>2
  <2>2. Joined[i + 1] = IF i + 1 \in DOMAIN pages THEN Joined[i] \o pages[i + 1].items ELSE Joined[i]
    BY JoinedSteps
  <2>3. i + 1 \in DOMAIN pages => Joined[i] \o pages[i + 1].items \in Seq(Products)
    BY <2>1, ConcatProperties
  <2>4. CASE i + 1 \in DOMAIN pages
    <3>1. Joined[i + 1] = Joined[i] \o pages[i + 1].items
      BY <2>2, <2>4
    <3>2. Joined[i + 1] \in Seq(Products)
      BY <2>3, <2>4, <3>1, Zenon
    <3> QED BY <3>2
  <2>5. CASE i + 1 \notin DOMAIN pages
    BY <2>1, <2>2, <2>5
  <2> QED BY <2>4, <2>5
<1>3. Nat \subseteq Typed
  <2> HIDE DEF Typed
  <2> QED BY <1>1, <1>2, Upwards
<1> QED BY <1>3

-----------------------------------------------------------------------------
(* Types.                                                                  *)

PageOf == [limit : 0 .. PageSize, items : Seq(Products), got : BOOLEAN]

(* What a request has been asked for, at each of its calls.                *)
AskedFor ==
    /\ pc = "product" => /\ call.op \in {"breadcrumbs", "card", "similar"} /\ call.product \in Products
                         /\ call.op = "similar" => call.limit \in Limits
    /\ pc = "listing" => /\ call.op = "listing" /\ call.target \in Categories
                         /\ call.limit \in Limits /\ call.offset \in Nat
    /\ pc = "categories" => call.op \in Navigation
    /\ pc \in {"similar", "parent", "topup"} => /\ call.op = "similar" /\ call.product \in Products
                                                /\ call.limit \in Limits /\ category \in Categories
    /\ pc \in {"parent", "topup"} => Len(cards) <= call.limit
    /\ pc \in {"page", "pages", "batch"} => call.op = "facets" /\ call.target \in Categories

(* Pages are those of some number of products.                             *)
Paged == pages = <<>> \/ \E total \in Nat : pages \in [Offsets(total) -> PageOf]

Shape ==
    /\ TypeOK
    /\ cards \in Seq(Products)
    /\ Sound(tree, shelf)
    /\ AskedFor
    /\ Paged

LEMMA TreeTypes ==
    ASSUME NEW t
    PROVE  t \in Trees <=> DOMAIN t \subseteq Categories /\ t \in [DOMAIN t -> Categories \cup {NoParent}]
  BY DEF Trees

LEMMA Numbers ==
    /\ \A n \in Limits : n \in Nat /\ n >= 1 /\ n <= MaxSimilar /\ n <= MaxPage /\ n * 2 <= MaxPage
    /\ MaxSimilar \in Nat /\ MaxPage \in Nat /\ PageSize \in Nat /\ ScanLimit \in Nat
    /\ PageSize >= 1 /\ ScanLimit >= 1 /\ PageSize <= MaxPage /\ PageSize <= ScanLimit
    /\ MaxEdits \in Nat
  BY CatalogAssumption

LEMMA RowsInContract ==
    ASSUME NEW n \in Limits
    PROVE  /\ Rows(n) \in 0 .. MaxSimilar
           /\ Rows(n) = IF n < MaxSimilar THEN n + 1 ELSE n
<1>1. n \in Nat /\ n + 1 \in Nat /\ MaxSimilar \in Nat /\ n <= MaxSimilar
  BY Numbers
<1>2. Rows(n) = IF n + 1 <= MaxSimilar THEN n + 1 ELSE MaxSimilar
  BY <1>1, MinOfTwo DEF Rows
<1> QED BY <1>1, <1>2

LEMMA TargetOfScan ==
    ASSUME NEW total \in Nat
    PROVE  Target(total) \in Nat /\ Target(total) = IF ScanLimit <= total THEN ScanLimit ELSE total
  BY Numbers, MinOfTwo DEF Target

LEMMA OffsetsOfScan ==
    ASSUME NEW total \in Nat
    PROVE  \A o \in Offsets(total) : /\ o \in Nat /\ o \in PageSize .. ScanLimit - 1 /\ o < Target(total)
                                     /\ Min({PageSize, Target(total) - o}) \in 0 .. PageSize
<1> SUFFICES ASSUME NEW o \in Offsets(total)
             PROVE  /\ o \in Nat /\ o \in PageSize .. ScanLimit - 1 /\ o < Target(total)
                    /\ Min({PageSize, Target(total) - o}) \in 0 .. PageSize
  OBVIOUS
<1>1. o \in PageSize .. Target(total) - 1
  BY DEF Offsets
<1>2. Target(total) \in Nat /\ Target(total) <= ScanLimit
  BY TargetOfScan, Numbers
<1>3. o \in Nat /\ o \in PageSize .. ScanLimit - 1 /\ o < Target(total) /\ Target(total) - o \in Nat
  BY <1>1, <1>2, Numbers
<1>4. Min({PageSize, Target(total) - o}) = IF PageSize <= Target(total) - o THEN PageSize ELSE Target(total) - o
  BY <1>3, MinOfTwo, Numbers
<1> QED BY <1>3, <1>4, Numbers

LEMMA InitShape == Init => Shape
<1> SUFFICES ASSUME Init PROVE Shape
  OBVIOUS
<1>1. <<>> \in Seq(Products) /\ ToSet(<<>>) = {} /\ DOMAIN <<>> = {}
  BY DEF ToSet
<1>2. TypeOK
  BY <1>1, Numbers DEF Init, TypeOK, Endpoints, Steps
<1> QED BY <1>1, <1>2 DEF Init, Shape, AskedFor, Paged

(* A request begins, or the last one is forgotten.                         *)
LEMMA BeginShape ==
    ASSUME Shape, NEW step, NEW what, Begin(step, what),
           what.op \in Endpoints, step \in Steps \ {"similar", "parent", "topup", "pages", "batch"},
           step = "product" => /\ what.op \in {"breadcrumbs", "card", "similar"} /\ what.product \in Products
                               /\ what.op = "similar" => what.limit \in Limits,
           step = "listing" => /\ what.op = "listing" /\ what.target \in Categories
                               /\ what.limit \in Limits /\ what.offset \in Nat,
           step = "categories" => what.op \in Navigation,
           step = "page" => what.op = "facets" /\ what.target \in Categories
    PROVE  Shape'
<1>1. pc' = step /\ call' = what /\ shown' = Placed(tree, shelf)
      /\ UNCHANGED <<tree, shelf, category, cards, pages, ask, answer, edits>>
  BY DEF Begin
<1>2. shown' \subseteq (Products \cup Categories) \X Categories
  BY <1>1, TreeTypes DEF Placed, Listed, Shape, TypeOK
<1>3. TypeOK'
  BY <1>1, <1>2 DEF Shape, TypeOK
<1>4. Sound(tree, shelf)' /\ Paged'
  BY <1>1 DEF Shape, Sound, Paged, Offsets, Target, PageOf
<1>5. AskedFor'
  BY <1>1 DEF AskedFor, Steps
<1> QED BY <1>1, <1>3, <1>4, <1>5 DEF Shape

(* B2B's answers to GET /products/{id}, a listing and GET /categories.     *)
LEMMA ReadShape ==
    ASSUME Shape, ReadProduct \/ ReadListing \/ ReadCategories
    PROVE  Shape'
<1> USE DEF World, Answer, GoTo
<1>1. UNCHANGED <<tree, shelf, edits, shown, pages, call>>
  BY DEF ReadProduct, ReadListing, ReadCategories, request
<1>2. Sound(tree, shelf)' /\ Paged'
  BY <1>1 DEF Shape, Sound, Paged, Offsets, Target, PageOf
<1>3. DOMAIN tree \subseteq Categories
  BY TreeTypes DEF Shape, TypeOK
<1>4. CASE ReadProduct
  <2>1. pc = "product" /\ UNCHANGED <<cards, ask>>
    BY <1>4 DEF ReadProduct
  <2>2. call.op \in {"breadcrumbs", "card", "similar"} /\ call.product \in Products
        /\ (call.op = "similar" => call.limit \in Limits)
    BY <2>1 DEF Shape, AskedFor
  <2>3. CASE shelf[call.product] = Hidden
    <3>1. pc' = "idle" /\ answer'.code = 404 /\ UNCHANGED category
      BY <1>4, <2>3 DEF ReadProduct
    <3>2. TypeOK'
      BY <1>1, <2>1, <3>1 DEF Shape, TypeOK, Steps
    <3> QED BY <1>1, <1>2, <2>1, <3>1, <3>2 DEF Shape, AskedFor
  <2>4. CASE shelf[call.product] # Hidden
    <3>1. /\ category' = shelf[call.product]
          /\ \/ call.op = "card" /\ pc' = "idle" /\ answer'.code = 200
             \/ call.op = "similar" /\ pc' = "similar" /\ UNCHANGED answer
             \/ call.op = "breadcrumbs" /\ pc' = "categories" /\ UNCHANGED answer
      BY <1>4, <2>4 DEF ReadProduct
    <3>2. category' \in Categories
      BY <1>3, <2>2, <2>4, <3>1 DEF Shape, Sound
    <3>3. TypeOK'
      BY <1>1, <2>1, <3>1, <3>2 DEF Shape, TypeOK, Steps
    <3>4. AskedFor'
      BY <1>1, <2>2, <3>1, <3>2 DEF AskedFor, Navigation
    <3> QED BY <1>1, <1>2, <2>1, <3>3, <3>4 DEF Shape
  <2> QED BY <2>3, <2>4
<1>5. CASE ReadListing
  <2>1. pc = "listing" /\ pc' = "idle" /\ answer'.code \in {200, 400} /\ UNCHANGED category
    BY <1>5 DEF ReadListing, request
  <2>2. call.target \in Categories /\ call.limit \in Limits /\ call.offset \in Nat
    BY <2>1 DEF Shape, AskedFor
  <2>3. \/ UNCHANGED <<cards, ask>>
        \/ /\ ask' = [of |-> "page", limit |-> call.limit]
           /\ cards' = Page(Listing(call.target), call.limit, call.offset)
    BY <1>5 DEF ReadListing
  <2>4. cards' \in Seq(Products)
    <3>1. call.limit \in Nat
      BY <2>2, Numbers
    <3>2. Listing(call.target) \in Seq(Products)
      BY ListingOfCategory
    <3>3. Page(Listing(call.target), call.limit, call.offset) \in Seq(Products)
      BY <2>2, <3>1, <3>2, PageIsPiece
    <3> QED BY <2>3, <3>3 DEF Shape
  <2>5. ToSet(cards') \subseteq Products
    BY <2>4, ElementsOfSeq
  <2>6. ask'.limit \in 0 .. (IF ask'.of = "similar" THEN MaxSimilar ELSE MaxPage)
    <3>1. call.limit \in 0 .. MaxPage
      BY <2>2, Numbers
    <3> QED BY <2>3, <3>1 DEF Shape, TypeOK
  <2>7. TypeOK'
    BY <1>1, <2>1, <2>5, <2>6 DEF Shape, TypeOK, Steps
  <2> QED BY <1>1, <1>2, <2>1, <2>4, <2>7 DEF Shape, AskedFor
<1>6. CASE ReadCategories
  <2>1. pc' = "idle" /\ answer'.code \in {200, 404, 422} /\ UNCHANGED <<category, cards, ask>>
    BY <1>6 DEF ReadCategories
  <2>2. TypeOK'
    BY <1>1, <2>1 DEF Shape, TypeOK, Steps
  <2> QED BY <1>1, <1>2, <2>1, <2>2 DEF Shape, AskedFor
<1> QED BY <1>4, <1>5, <1>6

(* The steps of the similar products.                                      *)
LEMMA SimilarShape ==
    ASSUME Shape, ReadSimilar \/ ResolveParent \/ TopUp
    PROVE  Shape'
<1> USE DEF World, Answer, GoTo
<1>1. UNCHANGED <<tree, shelf, edits, shown, pages, call>>
  BY DEF ReadSimilar, ResolveParent, TopUp, request
<1>2. Sound(tree, shelf)' /\ Paged'
  BY <1>1 DEF Shape, Sound, Paged, Offsets, Target, PageOf
<1>3. /\ call.op = "similar" /\ call.product \in Products /\ call.limit \in Limits /\ category \in Categories
      /\ pc \in {"parent", "topup"} => Len(cards) <= call.limit
  BY DEF Shape, AskedFor, ReadSimilar, ResolveParent, TopUp
<1>4. call.limit \in Nat /\ Len(cards) \in Nat
  BY <1>3, Numbers DEF Shape
<1>5. CASE ReadSimilar
  <2>1. PICK rows \in Similar(call.product) :
           cards' = Collect(<<>>, Page(rows, Rows(call.limit), 0), call.product, call.limit)
    BY <1>5 DEF ReadSimilar
  <2>2. Rows(call.limit) \in 0 .. MaxSimilar /\ Rows(call.limit) \in Nat
    BY <1>3, RowsInContract, Numbers
  <2>3. rows \in Seq(Products) /\ IsInjective(rows)
    BY SimilarInCategory
  <2>4. Page(rows, Rows(call.limit), 0) \in Seq(Products) /\ IsInjective(Page(rows, Rows(call.limit), 0))
    BY <2>2, <2>3, PageFromStart
  <2>5. <<>> \in Seq(Products) /\ IsInjective(<<>>)
    BY DEF IsInjective
  <2>6. cards' \in Seq(Products) /\ Len(cards') <= call.limit
    BY <1>4, <2>1, <2>4, <2>5, CollectIsFair
  <2>7. ToSet(cards') \subseteq Products
    BY <2>6, ElementsOfSeq
  <2>8. /\ ask' = [of |-> "similar", limit |-> Rows(call.limit)] /\ UNCHANGED category
        /\ (pc' = "parent" /\ UNCHANGED answer) \/ (pc' = "idle" /\ answer'.code = 200)
    BY <1>5 DEF ReadSimilar, request
  <2>9. TypeOK'
    BY <1>1, <2>2, <2>7, <2>8 DEF Shape, TypeOK, Steps
  <2> QED BY <1>1, <1>2, <1>3, <2>6, <2>8, <2>9 DEF Shape, AskedFor
<1>6. CASE ResolveParent
  <2>1. /\ pc = "parent" /\ UNCHANGED <<cards, ask>>
        /\ \/ pc' = "idle" /\ answer'.code = 200 /\ UNCHANGED category
           \/ /\ pc' = "topup" /\ UNCHANGED answer /\ category' # NoParent
              /\ category \in DOMAIN tree /\ category' = tree[category]
    BY <1>6 DEF ResolveParent
  <2>2. pc' = "topup" => category' \in Categories
    BY <2>1, TreeTypes DEF Shape, TypeOK
  <2>3. TypeOK'
    BY <1>1, <2>1, <2>2 DEF Shape, TypeOK, Steps
  <2> QED BY <1>1, <1>2, <1>3, <2>1, <2>2, <2>3 DEF Shape, AskedFor
<1>7. CASE TopUp
  <2> DEFINE wanted == (call.limit - Len(cards)) * 2
             page == Page(Listing(category), wanted, 0)
             newest == Listing(category)
  <2>1. /\ pc' = "idle" /\ answer'.code = 200 /\ ask' = [of |-> "page", limit |-> wanted]
        /\ cards' = Collect(cards, page, call.product, call.limit) /\ UNCHANGED category
    BY <1>7 DEF TopUp, request
  <2>2. wanted \in 0 .. MaxPage /\ wanted \in Nat
    <3>1. pc = "topup"
      BY <1>7 DEF TopUp
    <3> QED BY <1>3, <1>4, <3>1, Numbers
  <2>3. cards' \in Seq(Products)
    <3>1. newest \in Seq(Products)
      BY ListingOfCategory
    <3> HIDE DEF newest, wanted
    <3>2. Page(newest, wanted, 0) \in Seq(Products) /\ cards \in Seq(Products)
      BY <2>2, <3>1, PageFromStart DEF Shape
    <3>3. Collect(cards, Page(newest, wanted, 0), call.product, call.limit) \in Seq(Products)
      BY <1>4, <3>2, CollectIsSeq
    <3> QED BY <2>1, <3>3 DEF newest
  <2>4. ToSet(cards') \subseteq Products
    BY <2>3, ElementsOfSeq
  <2> HIDE DEF wanted
  <2>5. TypeOK'
    BY <1>1, <2>1, <2>2, <2>4 DEF Shape, TypeOK, Steps
  <2> QED BY <1>1, <1>2, <2>1, <2>3, <2>5 DEF Shape, AskedFor
<1> QED BY <1>5, <1>6, <1>7

(* The steps of the scan.                                                  *)
LEMMA ScanShape ==
    ASSUME Shape, FirstPage \/ (\E o \in DOMAIN pages : NextPage(o)) \/ JoinPages \/ ReadCards
    PROVE  Shape'
<1> USE DEF World, Answer, GoTo
<1>1. UNCHANGED <<tree, shelf, edits, shown, call>>
  BY DEF FirstPage, NextPage, JoinPages, ReadCards, request
<1>2. Sound(tree, shelf)'
  BY <1>1 DEF Shape, Sound
<1>3. call.op = "facets" /\ call.target \in Categories
  BY DEF Shape, AskedFor, FirstPage, NextPage, JoinPages, ReadCards
<1>4. \A n \in Nat, m \in Nat : Page(Listing(call.target), n, m) \in Seq(Products)
  BY ListingOfCategory, PageIsPiece
<1>5. CASE FirstPage
  <2> DEFINE total == Len(Listing(call.target))
             row(o) == [limit |-> Min({PageSize, Target(total) - o}), items |-> <<>>, got |-> FALSE]
             empty == [o \in Offsets(total) |-> row(o)]
  <2>1. /\ pc' \in {"batch", "pages"} /\ UNCHANGED answer /\ category' = call.target
        /\ ask' = [of |-> "page", limit |-> PageSize]
        /\ cards' = Page(Listing(call.target), PageSize, 0)
        /\ UNCHANGED pages \/ pages' = empty
    BY <1>5 DEF FirstPage
  <2>2. total \in Nat
    BY ListingOfCategory
  <2>3. ASSUME NEW o \in Offsets(total) PROVE row(o) \in PageOf
    <3>1. Min({PageSize, Target(total) - o}) \in 0 .. PageSize /\ <<>> \in Seq(Products)
      BY <2>2, OffsetsOfScan
    <3> HIDE DEF total
    <3> QED BY <3>1 DEF PageOf
  <2>4. empty \in [Offsets(total) -> PageOf]
    BY <2>3
  <2> HIDE DEF total, empty, row
  <2>5. Paged' /\ \A o \in DOMAIN pages' : o \in PageSize .. ScanLimit - 1
    <3>1. CASE UNCHANGED pages
      BY <3>1 DEF Shape, TypeOK, Paged, Offsets, Target, PageOf
    <3>2. CASE pages' = empty
      <4>1. DOMAIN empty = Offsets(total)
        BY <2>4
      <4>2. Paged'
        BY <2>2, <2>4, <3>2 DEF Paged, Offsets, Target, PageOf
      <4> QED BY <2>2, <3>2, <4>1, <4>2, OffsetsOfScan
    <3> QED BY <2>1, <3>1, <3>2
  <2>6. cards' \in Seq(Products) /\ ToSet(cards') \subseteq Products
    BY <1>4, <2>1, ElementsOfSeq, Numbers
  <2>7. PageSize \in 0 .. MaxPage
    BY Numbers
  <2>8. TypeOK'
    BY <1>1, <1>3, <2>1, <2>5, <2>6, <2>7 DEF Shape, TypeOK, Steps
  <2> QED BY <1>1, <1>2, <1>3, <2>1, <2>5, <2>6, <2>8 DEF Shape, AskedFor
<1>6. ASSUME NEW o \in DOMAIN pages, NextPage(o) PROVE Shape'
  <2>1. /\ pc = "pages" /\ UNCHANGED <<pc, answer, category, cards>>
        /\ ask' = [of |-> "page", limit |-> pages[o].limit]
        /\ pages' = [pages EXCEPT ![o].got = TRUE,
                                  ![o].items = Page(Listing(call.target), pages[o].limit, o)]
    BY <1>6 DEF NextPage, request
  <2>2. pages # <<>>
    OBVIOUS
  <2>3. PICK total \in Nat : pages \in [Offsets(total) -> PageOf]
    BY <2>2 DEF Shape, Paged
  <2>4. o \in Offsets(total) /\ pages[o] \in PageOf
    BY <2>3
  <2>5. o \in Nat /\ pages[o].limit \in 0 .. PageSize /\ pages[o].limit \in Nat
    <3>1. o \in Nat
      BY <2>3, <2>4, OffsetsOfScan
    <3>2. pages[o].limit \in 0 .. PageSize
      BY <2>4 DEF PageOf
    <3> QED BY <3>1, <3>2, Numbers
  <2> DEFINE items == Page(Listing(call.target), pages[o].limit, o)
  <2>6. items \in Seq(Products)
    BY <1>4, <2>5
  <2> HIDE DEF items
  <2>7. pages' \in [Offsets(total) -> PageOf]
    <3>1. [pages[o] EXCEPT !.got = TRUE, !.items = items] \in PageOf
      BY <2>4, <2>6 DEF PageOf
    <3>2. pages' = [pages EXCEPT ![o] = [pages[o] EXCEPT !.got = TRUE, !.items = items]]
      BY <2>1, <2>3 DEF items
    <3> QED BY <2>3, <3>1, <3>2
  <2>8. Paged' /\ \A p \in DOMAIN pages' : p \in PageSize .. ScanLimit - 1
    <3>1. DOMAIN pages' = Offsets(total)
      BY <2>7
    <3> QED BY <2>7, <3>1, OffsetsOfScan DEF Paged, Offsets, Target, PageOf
  <2>9. TypeOK'
    BY <1>1, <2>1, <2>5, <2>8, Numbers DEF Shape, TypeOK
  <2> QED BY <1>1, <1>2, <2>1, <2>8, <2>9 DEF Shape, AskedFor
<1>7. CASE JoinPages
  <2>1. /\ pc' = "batch" /\ cards' = Joined[ScanLimit]
        /\ UNCHANGED <<answer, category, pages, ask>>
    BY <1>7 DEF JoinPages, request
  <2>2. \A o \in DOMAIN pages : pages[o].items \in Seq(Products)
    <3>1. CASE pages = <<>>
      BY <3>1
    <3>2. ASSUME NEW total \in Nat, pages \in [Offsets(total) -> PageOf]
          PROVE  \A o \in DOMAIN pages : pages[o].items \in Seq(Products)
      BY <3>2 DEF PageOf
    <3> QED BY <3>1, <3>2 DEF Shape, Paged
  <2>3. cards' \in Seq(Products) /\ ToSet(cards') \subseteq Products
    BY <2>1, <2>2, JoinedIsSeq, Numbers, ElementsOfSeq DEF Shape
  <2>4. Paged'
    BY <2>1 DEF Shape, Paged, Offsets, Target, PageOf
  <2>5. TypeOK'
    BY <1>1, <2>1, <2>3 DEF Shape, TypeOK, Steps
  <2> QED BY <1>1, <1>2, <1>3, <2>1, <2>3, <2>4, <2>5 DEF Shape, AskedFor
<1>8. CASE ReadCards
  <2>1. pc' = "idle" /\ answer'.code = 200 /\ UNCHANGED <<category, cards, pages, ask>>
    BY <1>8 DEF ReadCards, request
  <2>2. Paged'
    BY <2>1 DEF Shape, Paged, Offsets, Target, PageOf
  <2>3. TypeOK'
    BY <1>1, <2>1 DEF Shape, TypeOK, Steps
  <2> QED BY <1>1, <1>2, <2>1, <2>2, <2>3 DEF Shape, AskedFor
<1> QED BY <1>5, <1>6, <1>7, <1>8

(* A call fails, the request is forgotten, B2B changes.                    *)
LEMMA OtherShape ==
    ASSUME Shape, Abort \/ Leave \/ Edit
    PROVE  Shape'
<1>1. CASE Abort
  <2>1. /\ pc' = "idle" /\ answer'.code \in {200, 502}
        /\ UNCHANGED <<tree, shelf, edits, shown, call, category, cards, pages, ask>>
    BY <1>1 DEF Abort, Answer, World, request
  <2>2. Sound(tree, shelf)' /\ Paged'
    BY <2>1 DEF Shape, Sound, Paged, Offsets, Target, PageOf
  <2>3. TypeOK'
    BY <2>1 DEF Shape, TypeOK, Steps
  <2> QED BY <2>1, <2>2, <2>3 DEF Shape, AskedFor
<1>2. CASE Leave
  <2>1. <<>> \in Seq(Products) /\ ToSet(<<>>) = {} /\ DOMAIN <<>> = {}
    BY DEF ToSet
  <2>2. /\ UNCHANGED <<tree, shelf, pc>> /\ pc = "idle" /\ call' = [op |-> "list"]
        /\ category' = NoParent /\ cards' = <<>> /\ pages' = <<>>
        /\ ask' = [of |-> "page", limit |-> 0] /\ answer' = [code |-> 0] /\ edits' = 0 /\ shown' = {}
    BY <1>2 DEF Leave
  <2>3. Sound(tree, shelf)' /\ Paged'
    BY <2>2 DEF Shape, Sound, Paged
  <2>4. TypeOK'
    BY <2>1, <2>2, Numbers DEF Shape, TypeOK, Endpoints
  <2> QED BY <2>1, <2>2, <2>3, <2>4 DEF Shape, AskedFor
<1>3. CASE Edit
  <2>1. /\ edits < MaxEdits /\ edits' = edits + 1 /\ shown' = shown \cup Placed(tree', shelf')
        /\ UNCHANGED <<call, category, pc, cards, pages, ask, answer>>
    BY <1>3 DEF Edit, request
  <2>2. edits' \in 0 .. MaxEdits
    BY <2>1, Numbers DEF Shape, TypeOK
  <2>3. /\ DOMAIN tree \subseteq Categories /\ tree \in [DOMAIN tree -> Categories \cup {NoParent}]
        /\ shelf \in [Products -> Categories \cup {Hidden}] /\ Sound(tree, shelf)
    BY TreeTypes DEF Shape, TypeOK
  <2>4. tree' \in Trees /\ shelf' \in [Products -> Categories \cup {Hidden}] /\ Sound(tree', shelf')
    <3>1. ASSUME NEW p \in Products, NEW place \in DOMAIN tree \cup {Hidden},
                 shelf' = [shelf EXCEPT ![p] = place], UNCHANGED tree
          PROVE  tree' \in Trees /\ shelf' \in [Products -> Categories \cup {Hidden}] /\ Sound(tree', shelf')
      BY <2>3, <3>1 DEF Shape, TypeOK, Sound
    <3>2. ASSUME NEW c \in DOMAIN tree, NEW up \in Categories \cup {NoParent},
                 tree' = [tree EXCEPT ![c] = up], UNCHANGED shelf
          PROVE  tree' \in Trees /\ shelf' \in [Products -> Categories \cup {Hidden}] /\ Sound(tree', shelf')
      <4>1. DOMAIN tree' = DOMAIN tree /\ tree' \in [DOMAIN tree -> Categories \cup {NoParent}]
        BY <2>3, <3>2
      <4> QED BY <2>3, <3>2, <4>1, TreeTypes DEF Sound
    <3>3. ASSUME NEW c \in DOMAIN tree, tree' = [d \in DOMAIN tree \ {c} |-> tree[d]],
                 Sound(tree', shelf), UNCHANGED shelf
          PROVE  tree' \in Trees /\ shelf' \in [Products -> Categories \cup {Hidden}] /\ Sound(tree', shelf')
      <4>1. DOMAIN tree' = DOMAIN tree \ {c} /\ tree' \in [DOMAIN tree \ {c} -> Categories \cup {NoParent}]
        BY <2>3, <3>3
      <4> QED BY <2>3, <3>3, <4>1, TreeTypes
    <3> QED BY <1>3, <3>1, <3>2, <3>3 DEF Edit
  <2>5. Paged'
    BY <2>1 DEF Shape, Paged, Offsets, Target, PageOf
  <2>7. shown' \subseteq (Products \cup Categories) \X Categories
    <3>1. DOMAIN tree' \subseteq Categories
      BY <2>4, TreeTypes
    <3> QED BY <2>1, <3>1 DEF Shape, TypeOK, Placed, Listed
  <2>6. TypeOK'
    BY <2>1, <2>2, <2>4, <2>7 DEF Shape, TypeOK
  <2> QED BY <2>1, <2>4, <2>5, <2>6 DEF Shape, AskedFor
<1> QED BY <1>1, <1>2, <1>3

(* Every step keeps the types: one case for every group of actions.        *)
LEMMA StepShape == Shape /\ [Next]_vars => Shape'
<1> SUFFICES ASSUME Shape, [Next]_vars PROVE Shape'
  OBVIOUS
<1> USE DEF Endpoints, Steps, Navigation
<1>1. CASE GetCategories \/ GetCategoryTree
  BY <1>1, BeginShape DEF GetCategories, GetCategoryTree
<1>2. ASSUME NEW c \in Categories, GetCategoryDetail(c) \/ BreadcrumbsOfCategory(c) \/ GetFacets(c)
      PROVE  Shape'
  BY <1>2, BeginShape DEF GetCategoryDetail, BreadcrumbsOfCategory, GetFacets
<1>3. ASSUME NEW c \in Categories, NEW n \in Limits, NEW o \in 0 .. 1, GetProducts(c, n, o)
      PROVE  Shape'
  <2>1. PICK flaw \in BOOLEAN, in_stock \in BOOLEAN :
           Begin("listing", [op |-> "listing", target |-> c, limit |-> n, offset |-> o,
                             flaw |-> flaw, in_stock |-> in_stock])
    BY <1>3 DEF GetProducts
  <2> QED BY <2>1, BeginShape
<1>4. ASSUME NEW p \in Products, BreadcrumbsOfProduct(p) \/ GetProduct(p)
      PROVE  Shape'
  BY <1>4, BeginShape DEF BreadcrumbsOfProduct, GetProduct
<1>5. ASSUME NEW p \in Products, NEW n \in Limits, GetSimilarProducts(p, n)
      PROVE  Shape'
  BY <1>5, BeginShape DEF GetSimilarProducts
<1>6. CASE UNCHANGED vars
  <2>1. UNCHANGED <<tree, shelf, call, pc, category, cards, pages, ask, answer, edits, shown>>
    BY <1>6 DEF vars
  <2>2. TypeOK' /\ Sound(tree, shelf)'
    BY <2>1 DEF Shape, TypeOK, Sound
  <2>3. AskedFor' /\ Paged'
    BY <2>1 DEF Shape, AskedFor, Paged, Offsets, Target, PageOf
  <2> QED BY <2>1, <2>2, <2>3 DEF Shape
<1> QED BY <1>1, <1>2, <1>3, <1>4, <1>5, <1>6, ReadShape, SimilarShape, ScanShape, OtherShape
        DEF Next, CallFails, BodyUnreadable

LEMMA ShapeInvariant == Spec => []Shape
  BY InitShape, StepShape, PTL DEF Spec

(* Types, for any B2B and any sizes; in particular B2B is never asked for  *)
(* more rows than its contract allows.                                     *)
THEOREM CatalogTypes == Spec => []TypeOK
<1>1. Shape => TypeOK
  BY DEF Shape
<1> QED BY <1>1, ShapeInvariant, PTL

-----------------------------------------------------------------------------
(* Answers.                                                                *)

(* What a request has been answered with, if a step does not leave it      *)
(* alone, is the work of one of the handlers.                              *)
LEMMA AnswerSteps ==
    ASSUME Shape, [Next]_vars, NEW ops, Answered(ops)'
    PROVE  /\ call' = call /\ call.op \in ops
           /\ \/ UNCHANGED vars
              \/ ReadProduct /\ call.op = "card"
              \/ ReadListing /\ call.op = "listing"
              \/ ReadCategories /\ call.op \in Navigation
              \/ (ReadSimilar \/ ResolveParent \/ TopUp) /\ call.op = "similar"
              \/ Abort /\ pc \in {"parent", "topup"} /\ call.op = "similar"
              \/ ReadCards /\ call.op = "facets"
<1>1. pc' = "idle" /\ call'.op \in ops /\ answer'.code = 200
  BY DEF Answered
<1>2. ASSUME NEW step, NEW what, Begin(step, what), step # "idle" PROVE FALSE
  BY <1>1, <1>2 DEF Begin
<1>3. CASE UNCHANGED vars
  BY <1>1, <1>3 DEF vars
<1>4. CASE ReadProduct
  BY <1>1, <1>4 DEF ReadProduct, Answer, GoTo
<1>5. CASE ReadListing
  BY <1>1, <1>5 DEF ReadListing, request, Shape, AskedFor
<1>6. CASE ReadCategories
  BY <1>1, <1>6 DEF ReadCategories, Navigation
<1>7. CASE ReadSimilar \/ ResolveParent \/ TopUp
  BY <1>1, <1>7 DEF ReadSimilar, ResolveParent, TopUp, request, Shape, AskedFor
<1>8. CASE FirstPage \/ (\E o \in DOMAIN pages : NextPage(o)) \/ JoinPages
  BY <1>1, <1>8 DEF FirstPage, NextPage, JoinPages, GoTo
<1>9. CASE ReadCards
  BY <1>1, <1>9 DEF ReadCards, request, Shape, AskedFor
<1>10. CASE Abort
  BY <1>1, <1>10 DEF Abort, request, Answer, Shape, AskedFor
<1>11. CASE Leave
  BY <1>1, <1>11 DEF Leave
<1>12. CASE Edit
  BY <1>1, <1>12 DEF Edit
<1>13. CASE GetCategories \/ GetCategoryTree
  BY <1>2, <1>13 DEF GetCategories, GetCategoryTree
<1>14. CASE \E c \in Categories : GetCategoryDetail(c) \/ BreadcrumbsOfCategory(c) \/ GetFacets(c)
  BY <1>2, <1>14 DEF GetCategoryDetail, BreadcrumbsOfCategory, GetFacets
<1>15. CASE \E c \in Categories, n \in Limits, o \in 0 .. 1 : GetProducts(c, n, o)
  BY <1>2, <1>15 DEF GetProducts
<1>16. CASE \E p \in Products : \/ BreadcrumbsOfProduct(p) \/ GetProduct(p)
                                \/ \E n \in Limits : GetSimilarProducts(p, n)
  BY <1>2, <1>16 DEF BreadcrumbsOfProduct, GetProduct, GetSimilarProducts
<1> QED
  BY <1>3, <1>4, <1>5, <1>6, <1>7, <1>8, <1>9, <1>10, <1>11, <1>12, <1>13, <1>14, <1>15, <1>16
  DEF Next, CallFails, BodyUnreadable

(* While a request runs, what is somewhere now has been there meanwhile.   *)
Watched == pc # "idle" => Placed(tree, shelf) \subseteq shown

LEMMA StepWatched == Watched /\ [Next]_vars => Watched'
<1> SUFFICES ASSUME Watched, [Next]_vars PROVE Watched'
  OBVIOUS
<1>1. ASSUME NEW step, NEW what, Begin(step, what) PROVE Watched'
  BY <1>1 DEF Begin, Watched, Placed, Listed
<1>2. ASSUME UNCHANGED <<tree, shelf, shown>>, pc # "idle" \/ pc' = pc PROVE Watched'
  BY <1>2 DEF Watched, Placed, Listed
<1>3. CASE Edit
  BY <1>3 DEF Edit, Watched, Placed, Listed
<1>4. CASE Leave
  BY <1>4 DEF Leave, Watched
<1>5. CASE ReadProduct \/ ReadListing \/ ReadCategories \/ ReadSimilar \/ ResolveParent \/ TopUp
           \/ FirstPage \/ (\E o \in DOMAIN pages : NextPage(o)) \/ JoinPages \/ ReadCards \/ Abort
  BY <1>2, <1>5 DEF ReadProduct, ReadListing, ReadCategories, ReadSimilar, ResolveParent, TopUp,
                    FirstPage, NextPage, JoinPages, ReadCards, Abort, World
<1>6. CASE UNCHANGED vars
  BY <1>2, <1>6 DEF vars
<1>7. CASE GetCategories \/ GetCategoryTree
  BY <1>1, <1>7 DEF GetCategories, GetCategoryTree
<1>8. CASE \E c \in Categories : GetCategoryDetail(c) \/ BreadcrumbsOfCategory(c) \/ GetFacets(c)
  BY <1>1, <1>8 DEF GetCategoryDetail, BreadcrumbsOfCategory, GetFacets
<1>9. CASE \E c \in Categories, n \in Limits, o \in 0 .. 1 : GetProducts(c, n, o)
  BY <1>1, <1>9 DEF GetProducts
<1>10. CASE \E p \in Products : \/ BreadcrumbsOfProduct(p) \/ GetProduct(p)
                                \/ \E n \in Limits : GetSimilarProducts(p, n)
  BY <1>1, <1>10 DEF BreadcrumbsOfProduct, GetProduct, GetSimilarProducts
<1> QED
  BY <1>3, <1>4, <1>5, <1>6, <1>7, <1>8, <1>9, <1>10 DEF Next, CallFails, BodyUnreadable

LEMMA WatchedInvariant == Spec => []Watched
<1>1. Init => Watched
  BY DEF Init, Watched
<1> QED BY <1>1, StepWatched, PTL DEF Spec

(* The price of a card is the least of what it offers.                     *)
LEMMA PriceOfCard ==
    ASSUME NEW skus \in SkuLists
    PROVE  LET card == Detail(skus)
               for_sale == {k \in card.skus : k.active_quantity > 0}
           IN  /\ card.has_stock <=> for_sale # {}
               /\ card.has_stock => \E k \in for_sale : card.min_price = FinalPrice(k)
               /\ \A k \in for_sale : card.min_price <= FinalPrice(k)
<1> DEFINE card == Detail(skus)
           for_sale == {k \in card.skus : k.active_quantity > 0}
           prices == {FinalPrice(k) : k \in for_sale}
<1>1. /\ card.skus = skus /\ card.min_price = MinPrice(skus)
      /\ card.has_stock <=> InStock(skus) # {}
  BY DEF Detail
<1>2. for_sale = InStock(skus)
  BY <1>1 DEF InStock
<1>3. \A k \in skus : k.price \in Nat /\ k.discount \in Nat /\ k.discount <= k.price
  BY CatalogAssumption
<1>4. \A k \in skus : FinalPrice(k) \in Nat
  BY <1>3 DEF FinalPrice
<1> HIDE DEF card
<1>5. prices \in SUBSET Nat
  BY <1>1, <1>4
<1>6. ASSUME for_sale # {} PROVE MinPrice(skus) = Min(prices)
  BY <1>2, <1>6 DEF MinPrice
<1>7. ASSUME for_sale # {}
      PROVE  /\ \E k \in for_sale : MinPrice(skus) = FinalPrice(k)
             /\ \A k \in for_sale : MinPrice(skus) <= FinalPrice(k)
  <2>1. prices # {}
    BY <1>7
  <2>2. Min(prices) \in prices /\ \A x \in prices : Min(prices) <= x
    <3> HIDE DEF prices
    <3> QED BY <1>5, <2>1, MinOfNumbers
  <2> QED BY <1>6, <1>7, <2>2
<1> QED BY <1>1, <1>2, <1>7 DEF card

(* A card or a listing is of what B2B showed while the request ran, and a  *)
(* card has the price of the cheapest that can be bought.                  *)
THEOREM CardsAndListingsAreTrue == Spec => []ShopWindowIsTrue
<1>1. Init => ShopWindowIsTrue
  BY DEF Init, ShopWindowIsTrue, Answered
<1>2. Shape /\ Watched /\ ShopWindowIsTrue /\ [Next]_vars => ShopWindowIsTrue'
  <2> SUFFICES ASSUME Shape, Watched, ShopWindowIsTrue, [Next]_vars PROVE ShopWindowIsTrue'
    OBVIOUS
  <2>1. CASE UNCHANGED vars
    BY <2>1 DEF vars, ShopWindowIsTrue, Answered
  <2>2. ASSUME ~ UNCHANGED vars, Answered({"card"})'
        PROVE  LET card == answer'.body
                   for_sale == {k \in card.skus : k.active_quantity > 0}
               IN  /\ \E c \in Categories : <<call'.product, c>> \in shown'
                   /\ card.has_stock <=> for_sale # {}
                   /\ card.has_stock => \E k \in for_sale : card.min_price = FinalPrice(k)
                   /\ \A k \in for_sale : card.min_price <= FinalPrice(k)
    <3>1. ReadProduct /\ call' = call /\ call.op = "card" /\ answer'.code = 200
      BY <2>2, AnswerSteps DEF Answered, Navigation
    <3>2. /\ shelf[call.product] # Hidden /\ pc = "product" /\ shown' = shown
          /\ \E skus \in SkuLists : answer' = [code |-> 200, body |-> Detail(skus)]
      BY <3>1 DEF ReadProduct, Answer, World
    <3>3. call.product \in Products /\ shelf[call.product] \in Categories
      BY <3>2 DEF Shape, AskedFor, TypeOK
    <3>4. <<call.product, shelf[call.product]>> \in shown
      BY <3>2, <3>3 DEF Watched, Placed, Listed
    <3>5. PICK skus \in SkuLists : answer'.body = Detail(skus)
      BY <3>2
    <3> QED BY <3>1, <3>2, <3>3, <3>4, <3>5, PriceOfCard
  <2>3. ASSUME ~ UNCHANGED vars, Answered({"listing"})'
        PROVE  \A p \in ToSet(answer'.body.items) : call'.in_stock /\ <<p, call'.target>> \in shown'
    <3>1. ReadListing /\ call' = call /\ answer'.code = 200
      BY <2>3, AnswerSteps DEF Answered, Navigation
    <3>2. pc = "listing" /\ shown' = shown
      BY <3>1 DEF ReadListing, World
    <3>3. call.target \in Categories /\ call.limit \in Nat /\ call.offset \in Nat
      BY <3>2, Numbers DEF Shape, AskedFor
    <3>4. CASE answer'.body.items = <<>>
      BY <3>4 DEF ToSet
    <3>5. CASE call.in_stock /\ answer'.body.items = Page(Listing(call.target), call.limit, call.offset)
      <4>1. ToSet(answer'.body.items) \subseteq {p \in Products : shelf[p] = call.target}
        <5> DEFINE all == Listing(call.target)
        <5>1. all \in Seq(Products) /\ ToSet(all) = {p \in Products : shelf[p] = call.target}
          BY ListingOfCategory
        <5> HIDE DEF all
        <5>2. ToSet(Page(all, call.limit, call.offset)) \subseteq ToSet(all)
          BY <3>3, <5>1, PageIsPiece
        <5> QED BY <3>5, <5>1, <5>2 DEF all
      <4> QED BY <3>1, <3>2, <3>3, <3>5, <4>1 DEF Watched, Placed, Listed
    <3> QED BY <3>1, <3>4, <3>5 DEF ReadListing, Answer
  <2> QED BY <2>1, <2>2, <2>3 DEF ShopWindowIsTrue
<1> QED BY <1>1, <1>2, ShapeInvariant, WatchedInvariant, PTL DEF Spec

-----------------------------------------------------------------------------
(* The block of similar products.                                          *)

(* The steps after which a block is being put together.                    *)
LEMMA BlockSteps ==
    ASSUME [Next]_vars, pc' \in {"similar", "parent", "topup"}
    PROVE  \/ UNCHANGED vars
           \/ Edit
           \/ ReadProduct /\ pc' = "similar"
           \/ ReadSimilar /\ pc' = "parent"
           \/ ResolveParent /\ pc' = "topup"
<1>1. ASSUME NEW step, NEW what, Begin(step, what), step \notin {"similar", "parent", "topup"} PROVE FALSE
  BY <1>1 DEF Begin
<1>2. CASE ReadProduct
  BY <1>2 DEF ReadProduct, Answer, GoTo
<1>3. CASE ReadSimilar \/ ResolveParent \/ TopUp
  BY <1>3 DEF ReadSimilar, ResolveParent, TopUp, Answer, GoTo
<1>4. CASE ReadListing \/ ReadCategories \/ ReadCards
  BY <1>4 DEF ReadListing, ReadCategories, ReadCards, Answer
<1>5. CASE FirstPage \/ (\E o \in DOMAIN pages : NextPage(o)) \/ JoinPages
  BY <1>5 DEF FirstPage, NextPage, JoinPages, GoTo, request
<1>6. CASE Abort \/ Leave
  BY <1>6 DEF Abort, Leave, Answer
<1>7. CASE GetCategories \/ GetCategoryTree
  BY <1>1, <1>7 DEF GetCategories, GetCategoryTree
<1>8. CASE \E c \in Categories : GetCategoryDetail(c) \/ BreadcrumbsOfCategory(c) \/ GetFacets(c)
  BY <1>1, <1>8 DEF GetCategoryDetail, BreadcrumbsOfCategory, GetFacets
<1>9. CASE \E c \in Categories, n \in Limits, o \in 0 .. 1 : GetProducts(c, n, o)
  BY <1>1, <1>9 DEF GetProducts
<1>10. ASSUME NEW p \in Products,
              \/ BreadcrumbsOfProduct(p) \/ GetProduct(p)
              \/ \E n \in Limits : GetSimilarProducts(p, n)
       PROVE  FALSE
  <2>1. \E what : Begin("product", what)
    BY <1>10 DEF BreadcrumbsOfProduct, GetProduct, GetSimilarProducts
  <2> QED BY <1>1, <2>1
<1> QED
  BY <1>2, <1>3, <1>4, <1>5, <1>6, <1>7, <1>8, <1>9, <1>10 DEF Next, CallFails, BodyUnreadable

LEMMA ContainsElement ==
    ASSUME NEW S, NEW s \in Seq(S), NEW x
    PROVE  Contains(s, x) <=> x \in ToSet(s)
  BY ElementsOfSeq DEF Contains

(* A block, complete or not, that is as it should be.                      *)
Clean(block) ==
    /\ IsInjective(block) /\ call.product \notin ToSet(block)
    /\ \A q \in ToSet(block) : NextTo(q, call.product)

(* So is what has been collected; and the category at hand is one that the *)
(* product has been in, or the parent of such a one.                       *)
BlockSoFar ==
    /\ pc \in {"parent", "topup"} => Clean(cards)
    /\ pc \in {"similar", "parent"} => <<call.product, category>> \in shown
    /\ pc = "topup" =>
          \E home \in Categories : <<call.product, home>> \in shown /\ <<home, category>> \in shown

(* What a handler adds is listed in the category it asked for.             *)
LEMMA SimilarCollects ==
    ASSUME Shape, Watched, ReadSimilar
    PROVE  /\ cards' \in Seq(Products) /\ Clean(cards') /\ Len(cards') <= call.limit
           /\ ToSet(cards') \subseteq {q \in Products \ {call.product} : shelf[q] = shelf[call.product]}
           /\ Len(cards') < call.limit /\ call.limit < MaxSimilar =>
                 ToSet(cards') = {q \in Products \ {call.product} : shelf[q] = shelf[call.product]}
<1> DEFINE n == call.limit  p == call.product
           home == {q \in Products \ {p} : shelf[q] = shelf[p]}
<1>1. /\ pc = "similar" /\ n \in Limits /\ n \in Nat /\ p \in Products /\ shelf[p] \in Categories
      /\ Listed(shelf) \subseteq shown
  BY Numbers DEF ReadSimilar, Shape, TypeOK, AskedFor, Watched, Placed
<1>2. PICK rows \in Similar(p) : cards' = Collect(<<>>, Page(rows, Rows(n), 0), p, n)
  BY DEF ReadSimilar
<1> DEFINE page == Page(rows, Rows(n), 0)
<1>3. Rows(n) \in Nat /\ Rows(n) = (IF n < MaxSimilar THEN n + 1 ELSE n)
  BY <1>1, RowsInContract, Numbers
<1>4. /\ rows \in Seq(Products) /\ IsInjective(rows) /\ Len(rows) \in Nat
      /\ ToSet(rows) \subseteq {q \in Products : shelf[q] = shelf[p]} /\ home \subseteq ToSet(rows)
  BY SimilarInCategory
<1>5. /\ page \in Seq(Products) /\ IsInjective(page) /\ ToSet(page) \subseteq ToSet(rows)
      /\ Len(page) = IF Rows(n) <= Len(rows) THEN Rows(n) ELSE Len(rows)
      /\ Len(rows) <= Rows(n) => page = rows
  BY <1>3, <1>4, PageFromStart
<1>6. <<>> \in Seq(Products) /\ IsInjective(<<>>) /\ ToSet(<<>>) = {}
  BY DEF IsInjective, ToSet
<1> HIDE DEF n, p, page
<1>7. /\ cards' \in Seq(Products) /\ IsInjective(cards') /\ Len(cards') <= n
      /\ ToSet(cards') \subseteq ToSet(page) \ {p}
      /\ Len(cards') < n => ToSet(cards') = ToSet(page) \ {p}
  BY <1>1, <1>2, <1>5, <1>6, CollectIsFair DEF page
<1>8. ToSet(cards') \subseteq home
  BY <1>4, <1>5, <1>7
<1>9. Clean(cards')
  <2>1. <<p, shelf[p]>> \in shown /\ \A q \in home : <<q, shelf[p]>> \in shown
    BY <1>1 DEF Listed
  <2>2. \A q \in home : NextTo(q, p)
    BY <1>1, <2>1 DEF NextTo
  <2> QED BY <1>7, <1>8, <2>2 DEF Clean, p
<1>10. ASSUME Len(cards') < n, n < MaxSimilar PROVE ToSet(cards') = home
  <2>1. CASE Len(rows) <= Rows(n)
    BY <1>4, <1>5, <1>7, <1>8, <1>10, <2>1
  <2>2. CASE Rows(n) < Len(rows)
    <3>1. Len(page) = n + 1
      BY <1>1, <1>3, <1>4, <1>5, <1>10, <2>2
    <3>2. IsFiniteSet(ToSet(page)) /\ Cardinality(ToSet(page)) = n + 1
      BY <1>5, <3>1, LenOfInjective
    <3>3. Cardinality(ToSet(cards')) = Len(cards')
      BY <1>7, LenOfInjective
    <3>4. /\ p \in ToSet(page) => Cardinality(ToSet(page) \ {p}) = n
          /\ p \notin ToSet(page) => ToSet(page) \ {p} = ToSet(page)
      <4>1. n \in Nat /\ n + 1 - 1 = n
        BY <1>1
      <4> QED BY <3>2, <4>1, FS_RemoveElement
    <3>5. ToSet(cards') = ToSet(page) \ {p}
      BY <1>7, <1>10
    <3>6. Len(cards') = n \/ Len(cards') = n + 1
      BY <3>2, <3>3, <3>4, <3>5
    <3> QED BY <1>1, <1>10, <3>6
  <2> QED BY <1>1, <1>3, <1>4, <2>1, <2>2
<1> QED BY <1>7, <1>8, <1>9, <1>10 DEF n, p

LEMMA TopUpCollects ==
    ASSUME Shape, Watched, BlockSoFar, TopUp
    PROVE  /\ cards' \in Seq(Products) /\ Clean(cards') /\ Len(cards') <= call.limit
           /\ ToSet(cards') \subseteq ToSet(cards) \cup {q \in Products \ {call.product} : shelf[q] = category}
           /\ /\ Len(cards') < call.limit
              /\ \A q \in ToSet(cards) : shelf[q] # category
              /\ shelf[call.product] # category
              => ToSet(cards') = ToSet(cards) \cup {q \in Products \ {call.product} : shelf[q] = category}
           /\ Len(cards') < call.limit => ToSet(cards) \subseteq ToSet(cards')
           /\ \A i \in 1 .. Len(cards') :
                 IF i <= Len(cards) THEN cards'[i] = cards[i] ELSE cards'[i] \notin ToSet(cards)
<1> DEFINE n == call.limit  p == call.product  place == {q \in Products : shelf[q] = category}
           newest == Listing(category)  wanted == (n - Len(cards)) * 2
           page == Page(newest, wanted, 0)
<1>1. /\ pc = "topup" /\ n \in Nat /\ category \in Categories /\ Len(cards) <= n /\ Len(cards) \in Nat
      /\ cards \in Seq(Products) /\ Clean(cards) /\ Listed(shelf) \subseteq shown
  BY Numbers DEF TopUp, Shape, AskedFor, Watched, Placed, BlockSoFar
<1>2. wanted \in Nat
  BY <1>1
<1>3. newest \in Seq(Products) /\ IsInjective(newest) /\ ToSet(newest) = place /\ Len(newest) \in Nat
  BY ListingOfCategory
<1>4. cards' = Collect(cards, page, p, n)
  BY DEF TopUp
<1> HIDE DEF newest, wanted, n, p
<1>5. /\ page \in Seq(Products) /\ IsInjective(page) /\ ToSet(page) \subseteq place
      /\ Len(page) = IF wanted <= Len(newest) THEN wanted ELSE Len(newest)
      /\ Len(newest) <= wanted => page = newest
  BY <1>2, <1>3, PageFromStart
<1> HIDE DEF page
<1>6. IsInjective(cards) /\ p \notin ToSet(cards)
  BY <1>1 DEF Clean, p
<1>7. /\ cards' \in Seq(Products) /\ IsInjective(cards') /\ Len(cards') <= n
      /\ ToSet(cards') \subseteq ToSet(cards) \cup (ToSet(page) \ {p})
      /\ Len(cards') < n => ToSet(cards') = ToSet(cards) \cup (ToSet(page) \ {p})
  BY <1>1, <1>4, <1>5, <1>6, CollectIsFair
<1>8. Clean(cards')
  <2>1. PICK home \in Categories : <<p, home>> \in shown /\ <<home, category>> \in shown
    BY <1>1 DEF BlockSoFar, p
  <2>2. \A q \in place : <<q, category>> \in shown
    BY <1>1 DEF Listed
  <2>3. \A q \in place : NextTo(q, p)
    BY <1>1, <2>1, <2>2 DEF NextTo
  <2>4. \A q \in ToSet(cards) : NextTo(q, p)
    BY <1>1 DEF Clean, p
  <2> HIDE DEF place
  <2>5. \A q \in ToSet(cards') : NextTo(q, p)
    BY <1>5, <1>7, <2>3, <2>4
  <2> QED BY <1>6, <1>7, <2>5 DEF Clean, p
<1>9. ASSUME Len(cards') < n, \A q \in ToSet(cards) : shelf[q] # category, shelf[p] # category
      PROVE  ToSet(cards') = ToSet(cards) \cup (place \ {p})
  <2>1. CASE Len(newest) <= wanted
    BY <1>3, <1>5, <1>7, <1>9, <2>1
  <2>2. CASE wanted < Len(newest)
    <3>1. ToSet(page) \ {p} = ToSet(page) /\ ToSet(cards) \cap ToSet(page) = {}
      BY <1>5, <1>9
    <3>2. /\ IsFiniteSet(ToSet(page)) /\ Cardinality(ToSet(page)) = Len(page) /\ Len(page) = wanted
      BY <1>2, <1>3, <1>5, <2>2, LenOfInjective
    <3>3. IsFiniteSet(ToSet(cards)) /\ Cardinality(ToSet(cards)) = Len(cards)
      BY <1>1, <1>6, LenOfInjective
    <3>4. Cardinality(ToSet(cards')) = Len(cards')
      BY <1>7, LenOfInjective
    <3>5. Cardinality(ToSet(cards) \cup ToSet(page)) = Len(cards) + wanted - Cardinality(ToSet(cards) \cap ToSet(page))
      BY <3>2, <3>3, FS_Union
    <3>6. Cardinality(ToSet(cards) \cap ToSet(page)) = 0
      BY <3>1, FS_EmptySet
    <3>7. Len(cards') = Len(cards) + wanted
      <4>1. ToSet(cards') = ToSet(cards) \cup ToSet(page)
        BY <1>7, <1>9, <3>1
      <4>2. Len(cards') = Len(cards) + wanted - 0
        BY <3>4, <3>5, <3>6, <4>1
      <4> QED BY <1>1, <1>2, <4>2
    <3> QED BY <1>1, <1>9, <3>7 DEF wanted
  <2> QED BY <1>2, <1>3, <2>1, <2>2
<1>10. ASSUME NEW i \in 1 .. Len(cards')
       PROVE  IF i <= Len(cards) THEN cards'[i] = cards[i] ELSE cards'[i] \notin ToSet(cards)
  <2>1. /\ Len(cards') >= Len(cards)
        /\ \A j \in 1 .. Len(cards) : cards'[j] = cards[j]
    BY <1>1, <1>4, <1>5, CollectKeeps
  <2>2. ASSUME i > Len(cards), cards'[i] \in ToSet(cards) PROVE FALSE
    <3>1. PICK j \in 1 .. Len(cards) : cards[j] = cards'[i]
      BY <1>1, <2>2, ElementsOfSeq
    <3>2. j \in 1 .. Len(cards') /\ cards'[j] = cards'[i]
      BY <1>1, <1>7, <2>1, <3>1
    <3>3. j = i
      BY <1>7, <3>2, InjectiveSeq
    <3> QED BY <1>1, <2>2, <3>3
  <2> QED BY <1>1, <2>1, <2>2
<1> QED BY <1>5, <1>7, <1>8, <1>9, <1>10 DEF n, p

LEMMA StepBlockSoFar == Shape /\ Watched /\ BlockSoFar /\ [Next]_vars => BlockSoFar'
<1> SUFFICES ASSUME Shape, Watched, BlockSoFar, [Next]_vars, pc' \in {"similar", "parent", "topup"}
             PROVE  BlockSoFar'
  BY DEF BlockSoFar
<1>1. CASE UNCHANGED vars
  BY <1>1 DEF vars, BlockSoFar, Clean, NextTo
<1>2. CASE Edit
  <2>1. shown \subseteq shown' /\ UNCHANGED <<call, category, pc, cards>>
    BY <1>2 DEF Edit, request
  <2>2. \A q, p : NextTo(q, p) => NextTo(q, p)'
    BY <2>1 DEF NextTo
  <2> QED BY <2>1, <2>2 DEF BlockSoFar, Clean
<1>3. CASE ReadProduct /\ pc' = "similar"
  <2>1. /\ pc = "product" /\ shelf[call.product] # Hidden /\ category' = shelf[call.product]
        /\ UNCHANGED <<shown, call>>
    BY <1>3 DEF ReadProduct, Answer, World
  <2>2. call.product \in Products /\ shelf[call.product] \in Categories
    BY <2>1 DEF Shape, TypeOK, AskedFor
  <2>3. <<call.product, shelf[call.product]>> \in shown
    BY <2>1, <2>2 DEF Watched, Placed, Listed
  <2> QED BY <1>3, <2>1, <2>3 DEF BlockSoFar
<1>4. CASE ReadSimilar /\ pc' = "parent"
  <2>1. pc = "similar" /\ call' = call /\ category' = category /\ shown' = shown
    BY <1>4 DEF ReadSimilar, request, World
  <2>2. Clean(cards)'
    BY <1>4, <2>1, SimilarCollects DEF Clean, NextTo
  <2> QED BY <1>4, <2>1, <2>2 DEF BlockSoFar
<1>5. CASE ResolveParent /\ pc' = "topup"
  <2>1. /\ pc = "parent" /\ category \in DOMAIN tree /\ category' = tree[category]
        /\ category' # NoParent /\ UNCHANGED <<tree, shown, call, cards>>
    BY <1>5 DEF ResolveParent, Answer, GoTo, World
  <2>2. Clean(cards)'
    BY <2>1 DEF BlockSoFar, Clean, NextTo
  <2>3. category \in Categories /\ category' \in Categories
    BY <2>1, TreeTypes DEF Shape, TypeOK
  <2>4. <<call.product, category>> \in shown /\ <<category, category'>> \in shown
    BY <2>1, <2>3 DEF BlockSoFar, Watched, Placed
  <2> QED BY <1>5, <2>1, <2>2, <2>3, <2>4 DEF BlockSoFar
<1> QED BY <1>1, <1>2, <1>3, <1>4, <1>5, BlockSteps

LEMMA BlockInvariant == Spec => []BlockSoFar
<1>1. Init => BlockSoFar
  BY DEF Init, BlockSoFar
<1> QED BY <1>1, StepBlockSoFar, ShapeInvariant, WatchedInvariant, PTL DEF Spec

(* A block of similar products is without repetition, without the product  *)
(* itself, within the limit, and of its category or the parent of that, as *)
(* B2B had them while the request ran.                                     *)
THEOREM BlocksAreClean == Spec => []BlockIsClean
<1>1. Init => BlockIsClean
  BY DEF Init, BlockIsClean, Answered
<1>2. Shape /\ Watched /\ BlockSoFar /\ BlockIsClean /\ [Next]_vars => BlockIsClean'
  <2> DEFINE IsClean(block) ==
                /\ IsInjective(block) /\ ~ Contains(block, call'.product)
                /\ Len(block) <= call'.limit
                /\ \A p \in ToSet(block) : NextTo(p, call.product)'
  <2>5. ASSUME BlockIsClean, UNCHANGED vars PROVE BlockIsClean'
    <3>1. /\ UNCHANGED <<call, pc, answer, shown>>
          /\ Answered({"similar"})' = Answered({"similar"})
      BY <2>5 DEF vars, Answered
    <3>2. \A p, q : NextTo(p, q)' = NextTo(p, q)
      BY <3>1 DEF NextTo
    <3> QED BY <2>5, <3>1, <3>2 DEF BlockIsClean
  <2>6. (Answered({"similar"})' => IsClean(answer'.body)) => BlockIsClean'
    BY DEF BlockIsClean
  <2> SUFFICES ASSUME Shape, Watched, BlockSoFar, BlockIsClean, [Next]_vars, Answered({"similar"})',
                      ~ UNCHANGED vars
               PROVE  IsClean(answer'.body)
    BY <2>5, <2>6
  <2>1. /\ call' = call
        /\ ReadSimilar \/ ResolveParent \/ TopUp \/ (Abort /\ pc \in {"parent", "topup"})
    BY AnswerSteps DEF Navigation
  <2>2. shown' = shown
    BY <2>1 DEF ReadSimilar, ResolveParent, TopUp, Abort, World
  <2>3. answer'.body = cards'
    BY <2>1 DEF Answered, ReadSimilar, ResolveParent, TopUp, Abort, Answer, GoTo
  <2>4. Clean(cards') /\ Len(cards') <= call.limit /\ cards' \in Seq(Products)
    <3>1. CASE ReadSimilar
      BY <3>1, SimilarCollects
    <3>2. CASE TopUp
      BY <3>2, TopUpCollects
    <3>3. CASE ResolveParent \/ (Abort /\ pc \in {"parent", "topup"})
      <4>1. cards' = cards /\ pc \in {"parent", "topup"}
        BY <3>3 DEF ResolveParent, Abort
      <4> QED BY <4>1 DEF BlockSoFar, Shape, AskedFor
    <3> QED BY <2>1, <3>1, <3>2, <3>3
  <2> QED BY <2>1, <2>2, <2>3, <2>4, ContainsElement DEF Clean, NextTo
<1> QED BY <1>1, <1>2, ShapeInvariant, WatchedInvariant, BlockInvariant, PTL DEF Spec

(* While B2B does not change, the category is the one of the product, then *)
(* its parent; what has been collected is all its category has to offer.   *)
Others(p, c) == {q \in Products \ {p} : shelf[q] = c}

Fresh ==
    edits = 0 /\ pc \in {"similar", "parent", "topup"} =>
        LET home == shelf[call.product]
        IN  /\ home \in DOMAIN tree
            /\ pc \in {"similar", "parent"} => category = home
            /\ pc = "topup" => category = tree[home]
            /\ pc \in {"parent", "topup"} /\ call.limit < MaxSimilar =>
                  ToSet(cards) = Others(call.product, home)

LEMMA StepFresh == Shape /\ Watched /\ Fresh /\ [Next]_vars => Fresh'
<1> SUFFICES ASSUME Shape, Watched, Fresh, [Next]_vars, pc' \in {"similar", "parent", "topup"}, edits' = 0
             PROVE  Fresh'
  BY DEF Fresh
<1>1. CASE UNCHANGED vars
  BY <1>1 DEF vars, Fresh, Others
<1>2. CASE Edit
  <2>1. edits \in Nat /\ edits' = edits + 1
    BY <1>2, Numbers DEF Edit, Shape, TypeOK
  <2> QED BY <2>1
<1>3. CASE ReadProduct /\ pc' = "similar"
  <2>1. /\ pc = "product" /\ shelf[call.product] # Hidden /\ category' = shelf[call.product]
        /\ UNCHANGED <<tree, shelf, call>>
    BY <1>3 DEF ReadProduct, Answer, World
  <2>2. call.product \in Products /\ shelf[call.product] \in DOMAIN tree
    BY <2>1 DEF Shape, AskedFor, Sound
  <2> QED BY <1>3, <2>1, <2>2 DEF Fresh
<1>4. CASE ReadSimilar /\ pc' = "parent"
  <2>1. /\ pc = "similar" /\ Len(cards') < call.limit
        /\ UNCHANGED <<tree, shelf, call, category, edits>>
    BY <1>4 DEF ReadSimilar, Answer, GoTo, World, request
  <2>2. category = shelf[call.product] /\ shelf[call.product] \in DOMAIN tree
    BY <2>1 DEF Fresh
  <2>3. call.limit < MaxSimilar => ToSet(cards') = Others(call.product, shelf[call.product])
    BY <1>4, <2>1, SimilarCollects DEF Others
  <2> QED BY <1>4, <2>1, <2>2, <2>3 DEF Fresh, Others
<1>5. CASE ResolveParent /\ pc' = "topup"
  <2>1. /\ pc = "parent" /\ category \in DOMAIN tree /\ category' = tree[category]
        /\ UNCHANGED <<tree, shelf, call, cards, edits>>
    BY <1>5 DEF ResolveParent, Answer, GoTo, World
  <2>2. /\ category = shelf[call.product] /\ shelf[call.product] \in DOMAIN tree
        /\ call.limit < MaxSimilar => ToSet(cards) = Others(call.product, shelf[call.product])
    BY <2>1 DEF Fresh
  <2> QED BY <1>5, <2>1, <2>2 DEF Fresh, Others
<1> QED BY <1>1, <1>2, <1>3, <1>4, <1>5, BlockSteps

LEMMA FreshInvariant == Spec => []Fresh
<1>1. Init => Fresh
  BY DEF Init, Fresh
<1> QED BY <1>1, StepFresh, ShapeInvariant, WatchedInvariant, PTL DEF Spec

(* A block of some of the others is as long as it can be when it is full   *)
(* or holds them all.                                                      *)
LEMMA FullBlock ==
    ASSUME NEW block \in Seq(Products), IsInjective(block), NEW limit \in Nat, NEW others \in SUBSET Products,
           ToSet(block) \subseteq others, Len(block) <= limit,
           Len(block) < limit => ToSet(block) = others
    PROVE  /\ Len(block) = Min({limit, Cardinality(others)})
           /\ Len(block) <= Cardinality(others)
<1>1. IsFiniteSet(Products)
  BY CatalogAssumption, LenOfInjective DEF Products
<1>2. IsFiniteSet(others) /\ Cardinality(others) \in Nat
  BY <1>1, FS_Subset, FS_CardinalityType
<1>3. Cardinality(ToSet(block)) = Len(block) /\ Len(block) \in Nat
  BY LenOfInjective
<1>4. Len(block) <= Cardinality(others)
  BY <1>2, <1>3, FS_Subset
<1>5. Len(block) < limit => Len(block) = Cardinality(others)
  BY <1>3
<1>6. Min({limit, Cardinality(others)}) = IF limit <= Cardinality(others) THEN limit ELSE Cardinality(others)
  BY <1>2, MinOfTwo
<1> QED BY <1>2, <1>3, <1>4, <1>5, <1>6

(* Each handler that answers with the block answers with a full one, while *)
(* B2B does not change: whatever the category and its parent have.         *)
THEOREM BlocksAreFull == Spec => BlockIsFull
<1>1. Shape /\ Watched /\ BlockSoFar /\ Fresh /\ [Next]_vars =>
         [(ReadSimilar \/ ResolveParent \/ TopUp) /\ pc' = "idle" =>
             LET home == shelf[call.product]
                 places == {home, tree[home]} \cap Categories
                 others == {p \in Products \ {call.product} : shelf[p] \in places}
                 siblings == {p \in others : shelf[p] = home}
             IN  edits = 0 /\ call.limit < MaxSimilar =>
                     /\ Len(cards') = Min({call.limit, Cardinality(others)})
                     /\ \A i \in DOMAIN cards' :
                           shelf[cards'[i]] = home <=> i <= Cardinality(siblings)]_vars
  <2> DEFINE home == shelf[call.product]
             places == {home, tree[home]} \cap Categories
             others == {p \in Products \ {call.product} : shelf[p] \in places}
             siblings == {p \in others : shelf[p] = home}
             InOrder == \A i \in DOMAIN cards' : shelf[cards'[i]] = home <=> i <= Cardinality(siblings)
  <2> SUFFICES ASSUME Shape, Watched, BlockSoFar, Fresh, ReadSimilar \/ ResolveParent \/ TopUp, pc' = "idle",
                      edits = 0, call.limit < MaxSimilar
               PROVE  Len(cards') = Min({call.limit, Cardinality(others)}) /\ InOrder
    OBVIOUS
  <2>1. /\ pc \in {"similar", "parent", "topup"}
        /\ call.limit \in Nat /\ call.product \in Products /\ category \in Categories
    BY Numbers DEF ReadSimilar, ResolveParent, TopUp, Shape, AskedFor
  <2>2. home \in DOMAIN tree /\ DOMAIN tree \subseteq Categories /\ home \in places
    BY <2>1, TreeTypes DEF Fresh, Shape, TypeOK
  <2>3. /\ others \in SUBSET Products /\ Others(call.product, home) \subseteq others
        /\ siblings = Others(call.product, home) /\ siblings \in SUBSET Products
    BY <2>2 DEF Others
  <2>7. ASSUME cards' \in Seq(Products), IsInjective(cards'), ToSet(cards') \subseteq siblings PROVE InOrder
    <3>1. Len(cards') = Cardinality(ToSet(cards')) /\ Len(cards') \in Nat
      BY <2>7, LenOfInjective
    <3>2. IsFiniteSet(siblings) /\ Cardinality(siblings) \in Nat
      <4>1. IsFiniteSet(Products)
        BY CatalogAssumption, LenOfInjective DEF Products
      <4> QED BY <2>3, <4>1, FS_Subset, FS_CardinalityType
    <3>3. Len(cards') <= Cardinality(siblings)
      BY <2>7, <3>1, <3>2, FS_Subset
    <3>4. ASSUME NEW i \in DOMAIN cards' PROVE shelf[cards'[i]] = home /\ i <= Cardinality(siblings)
      <4>1. i \in 1 .. Len(cards')
        BY <2>7, <3>4
      <4>2. cards'[i] \in siblings
        BY <2>7, <4>1, ElementsOfSeq
      <4> QED BY <3>1, <3>2, <3>3, <4>1, <4>2
    <3> QED BY <3>4
  <2>4. CASE ReadSimilar
    <3>1. pc = "similar" /\ ~ (Len(cards') < call.limit)
      BY <2>1, <2>4 DEF ReadSimilar, GoTo, Fresh
    <3>2. /\ cards' \in Seq(Products) /\ IsInjective(cards') /\ Len(cards') <= call.limit
          /\ ToSet(cards') \subseteq Others(call.product, home)
      BY <2>4, <3>1, SimilarCollects DEF Clean, Others
    <3>3. InOrder
      BY <2>3, <2>7, <3>2
    <3> HIDE DEF others, InOrder
    <3> QED BY <2>1, <2>3, <3>1, <3>2, <3>3, FullBlock
  <2>5. CASE ResolveParent
    <3>1. /\ pc = "parent" /\ cards' = cards /\ category = home /\ tree[home] = NoParent
          /\ ToSet(cards) = Others(call.product, home)
      BY <2>2, <2>5 DEF ResolveParent, GoTo, Fresh
    <3>2. others = Others(call.product, home)
      <4>1. places = {home}
        BY <2>2, <3>1, CatalogAssumption
      <4> QED BY <4>1 DEF Others
    <3>3. cards \in Seq(Products) /\ IsInjective(cards) /\ Len(cards) <= call.limit
      BY <3>1 DEF Shape, AskedFor, BlockSoFar, Clean
    <3>4. InOrder
      BY <2>3, <2>7, <3>1, <3>3
    <3> HIDE DEF others, InOrder
    <3> QED BY <2>1, <2>3, <3>1, <3>2, <3>3, <3>4, FullBlock
  <2>6. CASE TopUp
    <3>1. pc = "topup" /\ category = tree[home] /\ ToSet(cards) = Others(call.product, home)
      BY <2>6 DEF TopUp, Fresh
    <3>2. others = Others(call.product, home) \cup Others(call.product, category)
      <4>1. places = {home, category}
        BY <2>1, <2>2, <3>1
      <4> QED BY <4>1 DEF Others
    <3>3. /\ cards' \in Seq(Products) /\ IsInjective(cards') /\ Len(cards') <= call.limit
          /\ ToSet(cards') \subseteq others
      BY <2>6, <3>1, <3>2, TopUpCollects DEF Clean, Others
    <3>4. ASSUME Len(cards') < call.limit PROVE ToSet(cards') = others
      <4>1. CASE home = category
        BY <2>6, <3>1, <3>2, <3>3, <3>4, <4>1, TopUpCollects
      <4>2. CASE home # category
        <5>1. (\A q \in ToSet(cards) : shelf[q] # category) /\ shelf[call.product] # category
          BY <3>1, <4>2 DEF Others
        <5> QED BY <2>6, <3>1, <3>2, <3>4, <5>1, TopUpCollects DEF Others
      <4> QED BY <4>1, <4>2
    <3>5. InOrder
      <4>1. cards \in Seq(Products) /\ IsInjective(cards)
        BY <3>1 DEF Shape, BlockSoFar, Clean
      <4>2. Len(cards) = Cardinality(siblings) /\ Len(cards) \in Nat
        <5>1. ToSet(cards) = siblings
          BY <2>3, <3>1
        <5>2. Cardinality(ToSet(cards)) = Len(cards) /\ Len(cards) \in Nat
          BY <4>1, LenOfInjective
        <5> HIDE DEF siblings
        <5> QED BY <5>1, <5>2
      <4>3. ASSUME NEW i \in DOMAIN cards' PROVE shelf[cards'[i]] = home <=> i <= Cardinality(siblings)
        <5>1. i \in 1 .. Len(cards') /\ cards'[i] \in others
          BY <3>3, <4>3, ElementsOfSeq
        <5>2. CASE i <= Len(cards)
          <6>1. cards'[i] = cards[i] /\ i \in 1 .. Len(cards)
            BY <2>6, <4>2, <5>1, <5>2, TopUpCollects
          <6>2. cards'[i] \in siblings
            BY <2>3, <3>1, <4>1, <6>1, ElementsOfSeq
          <6> QED BY <4>2, <5>2, <6>2
        <5>3. CASE ~ (i <= Len(cards))
          <6>1. cards'[i] \notin siblings
            BY <2>3, <2>6, <3>1, <5>1, <5>3, TopUpCollects
          <6> QED BY <4>2, <5>1, <5>3, <6>1
        <5> QED BY <5>2, <5>3
      <4> QED BY <4>3
    <3> HIDE DEF others, InOrder
    <3> QED BY <2>1, <2>3, <3>3, <3>4, <3>5, FullBlock
  <2> QED BY <2>4, <2>5, <2>6
<1> QED BY <1>1, ShapeInvariant, WatchedInvariant, BlockInvariant, FreshInvariant, PTL DEF Spec, BlockIsFull

-----------------------------------------------------------------------------
(* The counters.                                                           *)

(* Division with remainder, and the remainder of the next number.          *)
LEMMA Division ==
    ASSUME NEW d \in Nat \ {0}, NEW n \in Nat
    PROVE  \E q \in Nat, r \in 0 .. d - 1 : n = d * q + r
<1> DEFINE S == {m \in Nat : \E q \in Nat, r \in 0 .. d - 1 : m = d * q + r}
<1>1. 0 \in S
  <2>1. 0 \in Nat /\ 0 \in 0 .. d - 1 /\ 0 = d * 0 + 0
    OBVIOUS
  <2> QED BY <2>1
<1>2. ASSUME NEW m \in Nat, m \in S PROVE m + 1 \in S
  <2>1. PICK q \in Nat, r \in 0 .. d - 1 : m = d * q + r
    BY <1>2
  <2>2. CASE r = d - 1
    <3>1. m + 1 = d * (q + 1) + 0 /\ q + 1 \in Nat /\ 0 \in 0 .. d - 1
      BY <2>1, <2>2
    <3>2. \E p \in Nat, t \in 0 .. d - 1 : m + 1 = d * p + t
      BY <3>1, Zenon
    <3> QED BY <3>2
  <2>3. CASE r # d - 1
    <3>1. m + 1 = d * q + (r + 1) /\ r + 1 \in 0 .. d - 1
      BY <2>1, <2>3
    <3> QED BY <3>1
  <2> QED BY <2>2, <2>3
<1>3. Nat \subseteq S
  <2> HIDE DEF S
  <2> QED BY <1>1, <1>2, Upwards
<1> QED BY <1>3

LEMMA Remainder ==
    ASSUME NEW d \in Nat \ {0}, NEW q \in Nat, NEW r \in 0 .. d - 1
    PROVE  (d * q + r) % d = r
  OBVIOUS

LEMMA NextRemainder ==
    ASSUME NEW d \in Nat \ {0}, NEW n \in Nat
    PROVE  /\ n % d \in 0 .. d - 1
           /\ (n + 1) % d = IF n % d = d - 1 THEN 0 ELSE (n % d) + 1
<1>1. PICK q \in Nat, r \in 0 .. d - 1 : n = d * q + r
  BY Division
<1>2. n % d = r
  BY <1>1, Remainder
<1>3. CASE r = d - 1
  <2>1. n + 1 = d * (q + 1) + 0 /\ q + 1 \in Nat /\ 0 \in 0 .. d - 1
    BY <1>1, <1>3
  <2>2. (n + 1) % d = 0
    BY <2>1, Remainder
  <2> QED BY <1>2, <1>3, <2>2
<1>4. CASE r # d - 1
  <2>1. n + 1 = d * q + (r + 1) /\ r + 1 \in 0 .. d - 1
    BY <1>1, <1>4
  <2>2. (n + 1) % d = r + 1
    BY <2>1, Remainder
  <2> QED BY <1>2, <1>4, <2>2
<1> QED BY <1>3, <1>4

(* A page, and the one after it, make the page of both.                    *)
LEMMA PagesJoin ==
    ASSUME NEW S, NEW s \in Seq(S), NEW a \in Nat, NEW b \in Nat, a <= Len(s)
    PROVE  Page(s, a, 0) \o Page(s, b, a) = Page(s, a + b, 0)
<1> DEFINE p == Page(s, a, 0)  q == Page(s, b, a)  w == Page(s, a + b, 0)
           end == IF a + b <= Len(s) THEN a + b ELSE Len(s)
<1>1. 0 \in Nat /\ a + b \in Nat /\ Len(s) \in Nat /\ 0 + a = a /\ 0 + (a + b) = a + b
  OBVIOUS
<1>2. p \in Seq(S) /\ Len(p) = a /\ \A i \in 1 .. a : p[i] = s[i]
  <2>1. /\ p \in Seq(S)
        /\ Len(p) = IF 0 <= (IF 0 + a <= Len(s) THEN 0 + a ELSE Len(s))
                    THEN (IF 0 + a <= Len(s) THEN 0 + a ELSE Len(s)) - 0 ELSE 0
        /\ \A i \in 1 .. Len(p) : p[i] = s[0 + i]
    BY <1>1, PageIsPiece
  <2> HIDE DEF p
  <2> QED BY <1>1, <2>1
<1>3. q \in Seq(S) /\ Len(q) = end - a /\ \A i \in 1 .. end - a : q[i] = s[a + i]
  <2>1. /\ q \in Seq(S)
        /\ Len(q) = IF a <= end THEN end - a ELSE 0
        /\ \A i \in 1 .. Len(q) : q[i] = s[a + i]
    BY <1>1, PageIsPiece
  <2> HIDE DEF q
  <2> QED BY <1>1, <2>1
<1>4. w \in Seq(S) /\ Len(w) = end /\ \A i \in 1 .. end : w[i] = s[i]
  <2>1. /\ w \in Seq(S)
        /\ Len(w) = IF 0 <= (IF 0 + (a + b) <= Len(s) THEN 0 + (a + b) ELSE Len(s))
                    THEN (IF 0 + (a + b) <= Len(s) THEN 0 + (a + b) ELSE Len(s)) - 0 ELSE 0
        /\ \A i \in 1 .. Len(w) : w[i] = s[0 + i]
    BY <1>1, PageIsPiece
  <2> HIDE DEF w
  <2> QED BY <1>1, <2>1
<1> HIDE DEF p, q, w
<1>5. /\ p \o q \in Seq(S) /\ Len(p \o q) = end
      /\ \A i \in 1 .. end : (p \o q)[i] = IF i <= a THEN p[i] ELSE q[i - a]
  <2>1. /\ p \o q \in Seq(S) /\ Len(p \o q) = Len(p) + Len(q)
        /\ \A i \in 1 .. Len(p) + Len(q) : (p \o q)[i] = IF i <= Len(p) THEN p[i] ELSE q[i - Len(p)]
    BY <1>2, <1>3, ConcatProperties
  <2>2. Len(p) + Len(q) = end
    BY <1>1, <1>2, <1>3
  <2> QED BY <1>2, <2>1, <2>2
<1>6. ASSUME NEW i \in 1 .. end PROVE (p \o q)[i] = w[i]
  <2>1. CASE i <= a
    BY <1>2, <1>4, <1>5, <2>1
  <2>2. CASE ~ (i <= a)
    <3>1. i - a \in 1 .. end - a /\ a + (i - a) = i
      BY <1>1, <2>2
    <3>2. q[i - a] = s[i]
      BY <1>3, <3>1
    <3> QED BY <1>4, <1>5, <2>2, <3>2
  <2> QED BY <2>1, <2>2
<1>7. p \o q = w
  BY <1>1, <1>4, <1>5, <1>6, SeqEqual
<1> QED BY <1>7 DEF p, q, w

(* A page that ends with the sequence is the page of any larger limit.     *)
LEMMA PageToEnd ==
    ASSUME NEW S, NEW s \in Seq(S), NEW limit \in Nat
    PROVE  Page(s, Min({limit, Len(s)}), 0) = Page(s, limit, 0)
<1>1. Len(s) \in Nat /\ 0 + limit = limit /\ 0 + Min({limit, Len(s)}) = Min({limit, Len(s)})
      /\ Min({Min({limit, Len(s)}), Len(s)}) = Min({limit, Len(s)})
  <2>1. Len(s) \in Nat
    OBVIOUS
  <2>2. Min({limit, Len(s)}) = IF limit <= Len(s) THEN limit ELSE Len(s)
    BY <2>1, MinOfTwo
  <2>3. Min({limit, Len(s)}) \in Nat
    BY <2>1, <2>2
  <2>4. Min({Min({limit, Len(s)}), Len(s)}) = IF Min({limit, Len(s)}) <= Len(s) THEN Min({limit, Len(s)}) ELSE Len(s)
    BY <2>1, <2>3, MinOfTwo
  <2> QED BY <2>1, <2>2, <2>3, <2>4
<1> QED BY <1>1 DEF Page

(* Where the page that row n is on ends, counting rows from 0.             *)
EndOf(n) == n - (n % PageSize) + PageSize

LEMMA PagesEnd ==
    ASSUME NEW n \in Nat
    PROVE  /\ EndOf(0) = PageSize
           /\ EndOf(n) \in Nat /\ n < EndOf(n) /\ PageSize <= EndOf(n)
           /\ (n + 1) % PageSize = 0 => EndOf(n) = n + 1 /\ EndOf(n + 1) = n + 1 + PageSize
           /\ (n + 1) % PageSize # 0 => EndOf(n + 1) = EndOf(n)
<1>1. PageSize \in Nat \ {0}
  BY Numbers
<1>2. PICK q \in Nat, r \in 0 .. PageSize - 1 : n = PageSize * q + r
  BY <1>1, Division
<1>3. n % PageSize = r
  BY <1>1, <1>2, Remainder
<1>4. r <= n
  BY <1>1, <1>2
<1>5. EndOf(n) \in Nat /\ n < EndOf(n) /\ PageSize <= EndOf(n)
  BY <1>1, <1>3, <1>4 DEF EndOf
<1>6. 0 % PageSize = 0
  <2>1. 0 = PageSize * 0 + 0 /\ 0 \in Nat /\ 0 \in 0 .. PageSize - 1
    BY <1>1
  <2> QED BY <1>1, <2>1, Remainder
<1>7. (n + 1) % PageSize = IF r = PageSize - 1 THEN 0 ELSE r + 1
  BY <1>1, <1>3, NextRemainder
<1>8. CASE r = PageSize - 1
  <2>1. (n + 1) % PageSize = 0 /\ EndOf(n) = n + 1
    BY <1>1, <1>3, <1>7, <1>8 DEF EndOf
  <2>2. EndOf(n + 1) = n + 1 + PageSize
    BY <1>1, <2>1 DEF EndOf
  <2> QED BY <1>1, <1>5, <1>6, <2>1, <2>2 DEF EndOf
<1>9. CASE r # PageSize - 1
  <2>1. (n + 1) % PageSize = r + 1 /\ r + 1 # 0
    BY <1>7, <1>9
  <2>2. EndOf(n + 1) = EndOf(n)
    BY <1>1, <1>3, <2>1 DEF EndOf
  <2> QED BY <1>1, <1>5, <1>6, <2>1, <2>2 DEF EndOf
<1> QED BY <1>8, <1>9

(* A scan of a listing of so many rows.  The first page is full, the       *)
(* others are asked for as much as is left of the scan; while B2B does not *)
(* change, each holds the rows at its offset.                              *)
ScanOf(total) ==
    /\ pages \in [Offsets(total) -> PageOf]
    /\ PageSize < Target(total) /\ Len(cards) = PageSize
    /\ \A o \in Offsets(total) :
          /\ pages[o].limit = Min({PageSize, Target(total) - o})
          /\ Len(pages[o].items) <= pages[o].limit
          /\ \A q \in ToSet(pages[o].items) : <<q, call.target>> \in shown
    /\ edits = 0 =>
          /\ total = Len(Listing(call.target))
          /\ cards = Page(Listing(call.target), PageSize, 0)
          /\ \A o \in Offsets(total) :
                pages[o].got => pages[o].items = Page(Listing(call.target), pages[o].limit, o)

(* What a scan has so far, and what it has when all pages are joined.      *)
Counting ==
    /\ pc \in {"pages", "batch"} => \A q \in ToSet(cards) : <<q, call.target>> \in shown
    /\ pc = "pages" => \E total \in Nat : ScanOf(total)
    /\ pc = "batch" => /\ Len(cards) <= ScanLimit
                       /\ edits = 0 => cards = Page(Listing(call.target), ScanLimit, 0)

(* The pages up to an offset, joined, are no longer than the page there    *)
(* reaches or the scan goes; they are its first rows while B2B does not    *)
(* change.                                                                 *)
LEMMA PagesJoined ==
    ASSUME cards \in Seq(Products), NEW total \in Nat, ScanOf(total),
           \A q \in ToSet(cards) : <<q, call.target>> \in shown,
           edits = 0 => \A o \in DOMAIN pages : pages[o].got
    PROVE  \A n \in Nat :
              /\ Joined[n] \in Seq(Products)
              /\ Len(Joined[n]) <= Min({EndOf(n), Target(total)})
              /\ \A q \in ToSet(Joined[n]) : <<q, call.target>> \in shown
              /\ edits = 0 => Joined[n] = Page(Listing(call.target), Min({EndOf(n), Target(total)}), 0)
<1> DEFINE joined == Joined
           all == Listing(call.target)
           last == Target(total)
           reach(n) == Min({EndOf(n), last})
           Good(n) == /\ joined[n] \in Seq(Products)
                      /\ Len(joined[n]) <= reach(n)
                      /\ \A q \in ToSet(joined[n]) : <<q, call.target>> \in shown
                      /\ edits = 0 => joined[n] = Page(all, reach(n), 0)
           So == {n \in Nat : Good(n)}
<1>1. \A o \in DOMAIN pages : pages[o].items \in Seq(Products)
  BY DEF ScanOf, PageOf
<1>2. joined[0] = cards
  BY <1>1, JoinedSteps
<1>3. \A n \in Nat : joined[n + 1] = IF n + 1 \in DOMAIN pages THEN joined[n] \o pages[n + 1].items ELSE joined[n]
  BY <1>1, JoinedSteps
<1>4. DOMAIN pages = Offsets(total)
  BY DEF ScanOf
<1>5. last \in Nat /\ (last = IF ScanLimit <= total THEN ScanLimit ELSE total) /\ PageSize < last
      /\ PageSize \in Nat /\ PageSize >= 1
  BY TargetOfScan, Numbers DEF ScanOf
<1>6. all \in Seq(Products) /\ Len(all) \in Nat
  BY ListingOfCategory
<1>7. \A n \in Nat : reach(n) = (IF EndOf(n) <= last THEN EndOf(n) ELSE last) /\ EndOf(n) \in Nat /\ reach(n) \in Nat
  <2> TAKE n \in Nat
  <2>1. EndOf(n) \in Nat
    BY PagesEnd
  <2>2. reach(n) = IF EndOf(n) <= last THEN EndOf(n) ELSE last
    BY <1>5, <2>1, MinOfTwo
  <2> QED BY <1>5, <2>1, <2>2
<1> HIDE DEF joined, all, last, reach
<1>8. 0 \in So
  <2>1. EndOf(0) = PageSize /\ reach(0) = PageSize
    <3>1. 0 \in Nat /\ EndOf(0) = PageSize
      BY PagesEnd
    <3>2. reach(0) = IF EndOf(0) <= last THEN EndOf(0) ELSE last
      BY <1>7, <3>1
    <3> QED BY <1>5, <3>1, <3>2
  <2>2. edits = 0 => cards = Page(all, PageSize, 0)
    BY DEF ScanOf, all
  <2>3. Len(cards) = PageSize
    BY DEF ScanOf
  <2> QED BY <1>2, <1>5, <2>1, <2>2, <2>3
<1>9. ASSUME NEW n \in Nat, n \in So PROVE n + 1 \in So
  <2>1. Good(n) /\ n + 1 \in Nat /\ Len(joined[n]) \in Nat
    BY <1>9
  <2> DEFINE m == n + 1
  <2>0. /\ reach(n) = IF EndOf(n) <= last THEN EndOf(n) ELSE last
        /\ reach(m) = IF EndOf(m) <= last THEN EndOf(m) ELSE last
        /\ EndOf(m) \in Nat
    <3>1. m \in Nat
      BY <2>1
    <3> HIDE DEF m
    <3> QED BY <1>7, <3>1
  <2>2. joined[n + 1] = IF n + 1 \in Offsets(total) THEN joined[n] \o pages[n + 1].items ELSE joined[n]
    BY <1>3, <1>4
  <2>3. CASE n + 1 \in Offsets(total)
    <3> DEFINE items == pages[n + 1].items  limit == pages[n + 1].limit
    <3>1. (n + 1) % PageSize = 0 /\ n + 1 < last
      BY <1>5, <2>3, OffsetsOfScan DEF Offsets, last
    <3>2. EndOf(n) = n + 1 /\ EndOf(n + 1) = n + 1 + PageSize
      BY <3>1, PagesEnd
    <3>3. reach(n) = n + 1 /\ (reach(n + 1) = IF n + 1 + PageSize <= last THEN n + 1 + PageSize ELSE last)
      BY <1>5, <2>0, <3>1, <3>2
    <3>4. /\ limit = Min({PageSize, last - (n + 1)})
          /\ Len(items) <= limit
          /\ \A q \in ToSet(items) : <<q, call.target>> \in shown
          /\ edits = 0 => items = Page(all, limit, n + 1) /\ total = Len(all)
      BY <1>4, <2>3 DEF ScanOf, last, all
    <3>5. limit = IF PageSize <= last - (n + 1) THEN PageSize ELSE last - (n + 1)
      <4>1. last - (n + 1) \in Nat
        BY <1>5, <3>1
      <4> QED BY <1>5, <3>4, <4>1, MinOfTwo
    <3>6. items \in Seq(Products)
      BY <1>1, <1>4, <2>3
    <3>7. joined[n + 1] = joined[n] \o items
      BY <2>2, <2>3
    <3> HIDE DEF items, limit
    <3>8. /\ joined[n + 1] \in Seq(Products) /\ Len(joined[n + 1]) = Len(joined[n]) + Len(items)
          /\ ToSet(joined[n + 1]) = ToSet(joined[n]) \cup ToSet(items)
      BY <2>1, <3>6, <3>7, ConcatOfInjectives
    <3>9. limit \in Nat /\ n + 1 + limit = reach(n + 1) /\ Len(items) \in Nat
      BY <1>5, <3>1, <3>3, <3>5, <3>6
    <3>10. Len(joined[n + 1]) <= reach(n + 1)
      BY <2>1, <3>3, <3>4, <3>8, <3>9
    <3>11. ASSUME edits = 0 PROVE joined[n + 1] = Page(all, reach(n + 1), 0)
      <4>1. joined[n] = Page(all, n + 1, 0) /\ items = Page(all, limit, n + 1) /\ total = Len(all)
        BY <2>1, <3>3, <3>4, <3>11
      <4>2. n + 1 <= Len(all)
        BY <1>5, <3>1, <4>1, Numbers
      <4>3. Page(all, n + 1, 0) \o Page(all, limit, n + 1) = Page(all, n + 1 + limit, 0)
        BY <1>6, <2>1, <3>9, <4>2, PagesJoin
      <4> QED BY <3>7, <3>9, <4>1, <4>3
    <3> QED BY <2>1, <3>4, <3>8, <3>10, <3>11
  <2>4. CASE n + 1 \notin Offsets(total)
    <3>1. reach(n + 1) = reach(n)
      <4>1. CASE (n + 1) % PageSize # 0
        BY <1>7, <2>1, <4>1, PagesEnd
      <4>2. CASE (n + 1) % PageSize = 0
        <5>1. EndOf(n) = n + 1 /\ EndOf(n + 1) = n + 1 + PageSize /\ PageSize <= EndOf(n)
          BY <4>2, PagesEnd
        <5>2. ~ (n + 1 < last)
          <6>1. n + 1 \notin PageSize .. last - 1
            BY <2>4, <4>2 DEF Offsets, last
          <6> QED BY <1>5, <5>1, <6>1
        <5> QED BY <1>5, <2>0, <5>1, <5>2
      <4> QED BY <4>1, <4>2
    <3> QED BY <2>1, <2>2, <2>4, <3>1
  <2> QED BY <2>3, <2>4
<1>10. Nat \subseteq So
  <2> HIDE DEF So
  <2> QED BY <1>8, <1>9, Upwards
<1> QED BY <1>10 DEF joined, all, last, reach

(* The steps after which a scan has its first page.                        *)
LEMMA ScanSteps ==
    ASSUME [Next]_vars, pc' \in {"pages", "batch"}
    PROVE  \/ UNCHANGED vars
           \/ Edit
           \/ FirstPage
           \/ (\E o \in DOMAIN pages : NextPage(o)) /\ pc' = "pages"
           \/ JoinPages
<1>1. ASSUME NEW step, NEW what, Begin(step, what), step \notin {"pages", "batch"} PROVE FALSE
  BY <1>1 DEF Begin
<1>2. CASE ReadProduct
  BY <1>2 DEF ReadProduct, Answer, GoTo
<1>3. CASE ReadSimilar \/ ResolveParent \/ TopUp
  BY <1>3 DEF ReadSimilar, ResolveParent, TopUp, Answer, GoTo
<1>4. CASE ReadListing \/ ReadCategories \/ ReadCards
  BY <1>4 DEF ReadListing, ReadCategories, ReadCards, Answer
<1>5. CASE \E o \in DOMAIN pages : NextPage(o)
  BY <1>5 DEF NextPage
<1>6. CASE Abort \/ Leave
  BY <1>6 DEF Abort, Leave, Answer
<1>7. CASE GetCategories \/ GetCategoryTree
  BY <1>1, <1>7 DEF GetCategories, GetCategoryTree
<1>8. CASE \E c \in Categories : GetCategoryDetail(c) \/ BreadcrumbsOfCategory(c) \/ GetFacets(c)
  BY <1>1, <1>8 DEF GetCategoryDetail, BreadcrumbsOfCategory, GetFacets
<1>9. CASE \E c \in Categories, n \in Limits, o \in 0 .. 1 : GetProducts(c, n, o)
  BY <1>1, <1>9 DEF GetProducts
<1>10. ASSUME NEW p \in Products,
              \/ BreadcrumbsOfProduct(p) \/ GetProduct(p)
              \/ \E n \in Limits : GetSimilarProducts(p, n)
       PROVE  FALSE
  <2>1. \E what : Begin("product", what)
    BY <1>10 DEF BreadcrumbsOfProduct, GetProduct, GetSimilarProducts
  <2> QED BY <1>1, <2>1
<1> QED
  BY <1>2, <1>3, <1>4, <1>5, <1>6, <1>7, <1>8, <1>9, <1>10 DEF Next, CallFails, BodyUnreadable

(* The rows of a page are listed in the category of the scan.              *)
LEMMA PageIsListed ==
    ASSUME Shape, Watched, pc \in {"page", "pages"}, NEW limit \in Nat, NEW offset \in Nat
    PROVE  LET page == Page(Listing(call.target), limit, offset)
           IN  /\ page \in Seq(Products) /\ Len(page) <= limit
               /\ \A q \in ToSet(page) : <<q, call.target>> \in shown
<1> DEFINE all == Listing(call.target)  page == Page(all, limit, offset)
           end == IF offset + limit <= Len(all) THEN offset + limit ELSE Len(all)
<1>1. /\ all \in Seq(Products) /\ Len(all) \in Nat
      /\ ToSet(all) = {p \in Products : shelf[p] = call.target}
  BY ListingOfCategory
<1> HIDE DEF all
<1>2. /\ page \in Seq(Products) /\ ToSet(page) \subseteq ToSet(all)
      /\ Len(page) = IF offset <= end THEN end - offset ELSE 0
  BY <1>1, PageIsPiece
<1>3. end \in Nat /\ end <= offset + limit
  BY <1>1
<1> HIDE DEF page, end
<1>4. Len(page) <= limit
  BY <1>2, <1>3
<1>5. call.target \in Categories /\ Listed(shelf) \subseteq shown
  BY DEF Shape, AskedFor, Watched, Placed
<1>6. \A q \in ToSet(page) : <<q, call.target>> \in shown
  BY <1>1, <1>2, <1>5 DEF Listed
<1> QED BY <1>2, <1>4, <1>6 DEF page, all

LEMMA FirstPageCounts ==
    ASSUME Shape, Watched, FirstPage
    PROVE  Counting'
<1> SUFFICES ASSUME NEW total \in Nat, total = Len(Listing(call.target)) PROVE Counting'
  BY ListingOfCategory
<1>1. /\ pc = "page" /\ cards' = Page(Listing(call.target), PageSize, 0)
      /\ UNCHANGED <<tree, shelf, edits, shown, call>>
      /\ \/ pc' = "batch" /\ Len(cards') >= Target(total)
         \/ /\ pc' = "pages" /\ ~ (Len(cards') >= Target(total))
            /\ pages' = [o \in Offsets(total) |->
                            [limit |-> Min({PageSize, Target(total) - o}), items |-> <<>>, got |-> FALSE]]
  BY DEF FirstPage, GoTo, World
<1> DEFINE all == Listing(call.target)
<1>2. Listing(call.target)' = all
  BY <1>1 DEF Listing
<1>3. all \in Seq(Products) /\ total \in Nat /\ total = Len(all)
  BY ListingOfCategory
<1>4. /\ cards' \in Seq(Products) /\ Len(cards') <= PageSize /\ \A q \in ToSet(cards') : <<q, call.target>> \in shown
  BY <1>1, PageIsListed, Numbers
<1>5. Len(cards') = IF PageSize <= total THEN PageSize ELSE total
  BY <1>1, <1>3, PageFromStart, Numbers
<1>6. /\ Target(total) \in Nat /\ Target(total) = IF ScanLimit <= total THEN ScanLimit ELSE total
      /\ PageSize \in Nat /\ ScanLimit \in Nat /\ PageSize <= ScanLimit
  BY <1>3, TargetOfScan, Numbers
<1> HIDE DEF all
<1>7. CASE pc' = "batch"
  <2>1. Len(cards') <= ScanLimit
    BY <1>3, <1>5, <1>6
  <2>2. Page(all, PageSize, 0) = Page(all, ScanLimit, 0)
    <3>1. PageSize = ScanLimit \/ total <= PageSize
      BY <1>1, <1>3, <1>5, <1>6, <1>7
    <3>2. CASE total <= PageSize
      BY <1>3, <1>6, <3>2, PageFromStart
    <3> QED BY <3>1, <3>2
  <2> QED BY <1>1, <1>2, <1>4, <1>7, <2>1, <2>2 DEF Counting, all
<1>8. CASE pc' = "pages"
  <2>1. /\ PageSize < Target(total) /\ Len(cards') = PageSize
        /\ pages' = [o \in Offsets(total) |->
                        [limit |-> Min({PageSize, Target(total) - o}), items |-> <<>>, got |-> FALSE]]
    BY <1>1, <1>3, <1>5, <1>6, <1>8
  <2>2. ASSUME NEW o \in Offsets(total)
        PROVE  /\ pages'[o] \in PageOf /\ pages'[o].limit = Min({PageSize, Target(total) - o})
               /\ pages'[o].items = <<>> /\ pages'[o].got = FALSE /\ 0 <= pages'[o].limit
    <3>1. Min({PageSize, Target(total) - o}) \in 0 .. PageSize /\ <<>> \in Seq(Products)
      BY <1>3, OffsetsOfScan
    <3> DEFINE limit == Min({PageSize, Target(total) - o})
    <3>2. limit \in 0 .. PageSize /\ 0 <= limit
      BY <1>6, <3>1
    <3>3. pages'[o] = [limit |-> limit, items |-> <<>>, got |-> FALSE]
      BY <2>1
    <3> HIDE DEF limit
    <3>4. pages'[o] \in PageOf /\ pages'[o].limit = limit /\ pages'[o].items = <<>> /\ pages'[o].got = FALSE
      BY <3>1, <3>2, <3>3 DEF PageOf
    <3> QED BY <3>2, <3>4 DEF limit
  <2>3. pages' \in [Offsets(total) -> PageOf]
    BY <2>1, <2>2
  <2>4. Len(<<>>) = 0 /\ ToSet(<<>>) = {}
    BY DEF ToSet
  <2>5. ScanOf(total)'
    BY <1>1, <1>2, <1>3, <2>1, <2>2, <2>3, <2>4 DEF ScanOf, Offsets, Target, PageOf, all
  <2> QED BY <1>1, <1>3, <1>4, <1>8, <2>5 DEF Counting
<1> QED BY <1>1, <1>7, <1>8

LEMMA NextPageCounts ==
    ASSUME Shape, Watched, Counting, NEW o \in DOMAIN pages, NextPage(o)
    PROVE  Counting'
<1> DEFINE items == Page(Listing(call.target), pages[o].limit, o)
<1>1. /\ pc = "pages" /\ pc' = "pages" /\ UNCHANGED <<shelf, edits, shown, call, cards>>
      /\ pages' = [pages EXCEPT ![o].got = TRUE, ![o].items = items]
  BY DEF NextPage, World, request
<1>2. PICK total \in Nat : ScanOf(total)
  BY <1>1 DEF Counting
<1>3. /\ pages \in [Offsets(total) -> PageOf] /\ o \in Offsets(total) /\ pages[o] \in PageOf
      /\ o \in Nat /\ pages[o].limit \in Nat
  <2>1. pages \in [Offsets(total) -> PageOf] /\ o \in Offsets(total) /\ pages[o] \in PageOf
    BY <1>2 DEF ScanOf
  <2>2. pages[o].limit \in 0 .. PageSize
    BY <2>1 DEF PageOf
  <2>3. o \in Nat
    BY <2>1, OffsetsOfScan
  <2> QED BY <2>1, <2>2, <2>3, Numbers
<1>4. items \in Seq(Products) /\ Len(items) <= pages[o].limit /\ \A q \in ToSet(items) : <<q, call.target>> \in shown
  BY <1>1, <1>3, PageIsListed
<1>5. Listing(call.target)' = Listing(call.target)
  BY <1>1 DEF Listing
<1> HIDE DEF items
<1> DEFINE row == [pages[o] EXCEPT !.got = TRUE, !.items = items]
<1>6. pages' = [pages EXCEPT ![o] = row] /\ row \in PageOf
  BY <1>1, <1>3, <1>4 DEF PageOf
<1>7. row.limit = pages[o].limit /\ row.items = items /\ row.got = TRUE
  BY <1>3 DEF PageOf
<1> HIDE DEF row
<1>8. /\ pages' \in [Offsets(total) -> PageOf] /\ pages'[o] = row
      /\ \A r \in Offsets(total) : r # o => pages'[r] = pages[r]
  BY <1>3, <1>6
<1>9. \A r \in Offsets(total) :
         /\ pages'[r].limit = Min({PageSize, Target(total) - r})
         /\ Len(pages'[r].items) <= pages'[r].limit
         /\ \A q \in ToSet(pages'[r].items) : <<q, call.target>> \in shown
  <2> TAKE r \in Offsets(total)
  <2>1. CASE r = o
    BY <1>2, <1>4, <1>7, <1>8, <2>1 DEF ScanOf
  <2>2. CASE r # o
    BY <1>2, <1>8, <2>2 DEF ScanOf
  <2> QED BY <2>1, <2>2
<1>10. ASSUME edits = 0
       PROVE  \A r \in Offsets(total) :
                 pages'[r].got => pages'[r].items = Page(Listing(call.target), pages'[r].limit, r)
  <2> TAKE r \in Offsets(total)
  <2>1. CASE r = o
    BY <1>7, <1>8, <2>1 DEF items
  <2>2. CASE r # o
    BY <1>2, <1>8, <1>10, <2>2 DEF ScanOf
  <2> QED BY <2>1, <2>2
<1>11. ScanOf(total)'
  BY <1>1, <1>2, <1>5, <1>8, <1>9, <1>10 DEF ScanOf, Offsets, Target, PageOf
<1> QED BY <1>1, <1>2, <1>11 DEF Counting

LEMMA JoinPagesCounts ==
    ASSUME Shape, Watched, Counting, JoinPages
    PROVE  Counting'
<1>1. /\ pc = "pages" /\ pc' = "batch" /\ UNCHANGED <<shelf, edits, shown, call, pages>>
      /\ cards' = Joined[ScanLimit] /\ \A o \in DOMAIN pages : pages[o].got
  BY DEF JoinPages, World, request, GoTo
<1>2. PICK total \in Nat : ScanOf(total)
  BY <1>1 DEF Counting
<1> DEFINE all == Listing(call.target)
<1>3. all \in Seq(Products) /\ Len(all) \in Nat
  BY ListingOfCategory
<1>4. Listing(call.target)' = all
  BY <1>1 DEF Listing
<1>5. /\ EndOf(ScanLimit) \in Nat /\ ScanLimit < EndOf(ScanLimit) /\ ScanLimit \in Nat
      /\ Target(total) \in Nat /\ Target(total) = IF ScanLimit <= total THEN ScanLimit ELSE total
  BY PagesEnd, TargetOfScan, Numbers
<1>6. Min({EndOf(ScanLimit), Target(total)}) = Target(total)
  BY <1>5, MinOfTwo
<1>7. /\ Joined[ScanLimit] \in Seq(Products)
      /\ Len(Joined[ScanLimit]) <= Min({EndOf(ScanLimit), Target(total)})
      /\ \A q \in ToSet(Joined[ScanLimit]) : <<q, call.target>> \in shown
      /\ edits = 0 => Joined[ScanLimit] = Page(Listing(call.target), Min({EndOf(ScanLimit), Target(total)}), 0)
  BY <1>1, <1>2, <1>5, PagesJoined DEF Shape, Counting
<1> HIDE DEF all
<1>8. Len(cards') <= ScanLimit
  <2>1. Len(cards') \in Nat /\ Len(cards') <= Target(total)
    BY <1>1, <1>6, <1>7
  <2> QED BY <1>5, <2>1
<1>9. ASSUME edits = 0 PROVE cards' = Page(all, ScanLimit, 0)
  <2>1. total = Len(all)
    BY <1>2, <1>9 DEF ScanOf, all
  <2>2. cards' = Page(all, Min({ScanLimit, Len(all)}), 0)
    BY <1>1, <1>6, <1>7, <1>9, <2>1 DEF Target, all
  <2> QED BY <1>3, <1>5, <2>2, PageToEnd
<1> QED BY <1>1, <1>4, <1>7, <1>8, <1>9 DEF Counting

LEMMA StepCounting == Shape /\ Watched /\ Counting /\ [Next]_vars => Counting'
<1> SUFFICES ASSUME Shape, Watched, Counting, [Next]_vars, pc' \in {"pages", "batch"} PROVE Counting'
  BY DEF Counting
<1>1. CASE UNCHANGED vars
  <2>1. Listing(call.target)' = Listing(call.target)
    BY <1>1 DEF vars, Listing
  <2>2. \A total \in Nat : ScanOf(total) => ScanOf(total)'
    BY <1>1, <2>1 DEF vars, ScanOf, Offsets, Target, PageOf
  <2> QED BY <1>1, <2>1, <2>2 DEF vars, Counting
<1>2. CASE Edit
  <2>1. edits \in Nat /\ edits' = edits + 1 /\ shown \subseteq shown' /\ UNCHANGED <<call, pc, cards, pages>>
    BY <1>2, Numbers DEF Edit, Shape, TypeOK, request
  <2>2. edits' # 0
    BY <2>1
  <2>3. \A total \in Nat : ScanOf(total) => ScanOf(total)'
    BY <2>1, <2>2 DEF ScanOf, Offsets, Target, PageOf
  <2> QED BY <2>1, <2>2, <2>3 DEF Counting
<1> QED BY <1>1, <1>2, ScanSteps, FirstPageCounts, NextPageCounts, JoinPagesCounts

LEMMA CountingInvariant == Spec => []Counting
<1>1. Init => Counting
  BY DEF Init, Counting
<1> QED BY <1>1, StepCounting, ShapeInvariant, WatchedInvariant, PTL DEF Spec

(* The counters are of the selection, for any sizes of page, scan and      *)
(* listing: while B2B does not change, of each of its first products once. *)
THEOREM CountersCountTheSelection == Spec => []CountersAreTrue
<1>1. Init => CountersAreTrue
  BY DEF Init, CountersAreTrue, Answered
<1>2. Shape /\ Counting /\ CountersAreTrue /\ [Next]_vars => CountersAreTrue'
  <2> SUFFICES ASSUME Shape, Counting, CountersAreTrue, [Next]_vars, ~ UNCHANGED vars, Answered({"facets"})'
               PROVE  LET counted == answer'.body.counted
                      IN  /\ Len(counted) <= ScanLimit
                          /\ \A p \in ToSet(counted) : <<p, call'.target>> \in shown'
                          /\ edits' = 0 => /\ counted = Page(Listing(call.target)', ScanLimit, 0)
                                           /\ answer'.body.out = {}
    <3>1. CASE UNCHANGED vars
      <4>1. Listing(call.target)' = Listing(call.target)
        BY <3>1 DEF vars, Listing
      <4> QED BY <3>1, <4>1 DEF vars, CountersAreTrue, Answered
    <3> QED BY <3>1 DEF CountersAreTrue
  <2>1. ReadCards
    BY AnswerSteps DEF Navigation
  <2>2. /\ pc = "batch" /\ UNCHANGED <<shelf, edits, shown, call>>
        /\ \E out \in SUBSET {p \in ToSet(cards) : shelf[p] = Hidden} :
              answer'.body = [counted |-> cards, out |-> out]
    BY <2>1 DEF ReadCards, Answer, World, request
  <2>3. Listing(call.target)' = Listing(call.target)
    BY <2>2 DEF Listing
  <2>4. PICK out \in SUBSET {p \in ToSet(cards) : shelf[p] = Hidden} :
           answer'.body = [counted |-> cards, out |-> out]
    BY <2>2
  <2>5. ASSUME edits = 0 PROVE out = {}
    <3> DEFINE all == Listing(call.target)
    <3>1. cards = Page(all, ScanLimit, 0)
      BY <2>2, <2>5 DEF Counting
    <3>2. all \in Seq(Products) /\ ToSet(all) = {p \in Products : shelf[p] = call.target}
      BY ListingOfCategory
    <3> HIDE DEF all
    <3>3. ToSet(cards) \subseteq ToSet(all)
      BY <3>1, <3>2, PageFromStart, Numbers
    <3>4. call.target # Hidden
      BY <2>2, CatalogAssumption DEF Shape, AskedFor
    <3> QED BY <3>2, <3>3, <3>4
  <2> QED BY <2>2, <2>3, <2>4, <2>5 DEF Counting
<1> QED BY <1>1, <1>2, ShapeInvariant, CountingInvariant, PTL DEF Spec

-----------------------------------------------------------------------------
(* The hierarchy.                                                          *)

(* One step of a walk from a category towards its root.                    *)
Further(t, w) == IF t[Head(w)] \in DOMAIN t \ ToSet(w) THEN <<t[Head(w)]>> \o w ELSE w

(* The recursive definition of Walk.                                       *)
LEMMA WalkSteps ==
    ASSUME NEW t, NEW c \in DOMAIN t
    PROVE  /\ Walk(t, c)[0] = <<c>>
           /\ \A i \in Nat : Walk(t, c)[i + 1] = Further(t, Walk(t, c)[i])
<1> DEFINE X == Seq(DOMAIN t)
           first == <<c>>
           step == [n \in Nat |-> [x \in X |-> Further(t, x)]]
           Grown(g) == [n \in Nat |-> IF n = 0 THEN first
                          ELSE IF t[Head(g[n - 1])] \in DOMAIN t \ ToSet(g[n - 1])
                               THEN <<t[Head(g[n - 1])]>> \o g[n - 1] ELSE g[n - 1]]
<1>1. first \in X /\ step \in StepsOn(X)
  <2>1. ASSUME NEW x \in X PROVE Further(t, x) \in X
    <3>1. CASE t[Head(x)] \in DOMAIN t \ ToSet(x)
      <4>1. <<t[Head(x)]>> \in X
        BY <3>1
      <4>2. <<t[Head(x)]>> \o x \in X
        BY <4>1, ConcatProperties
      <4> QED BY <3>1, <4>2 DEF Further
    <3>2. CASE t[Head(x)] \notin DOMAIN t \ ToSet(x)
      BY <3>2 DEF Further
    <3> QED BY <3>1, <3>2
  <2> HIDE DEF X
  <2>2. step \in StepsOn(X)
    BY <2>1 DEF StepsOn
  <2> QED BY <2>2 DEF X
<1>2. PICK f \in [Nat -> X] : Follows(f, first, step)
  <2> HIDE DEF step, X, first
  <2> QED BY <1>1, Recursion
<1>3. f = Grown(f)
  <2>1. ASSUME NEW n \in Nat PROVE f[n] = Grown(f)[n]
    <3>1. CASE n = 0
      BY <1>2, <3>1 DEF Follows
    <3>2. CASE n # 0
      <4>1. f[n - 1] \in X
        BY <3>2
      <4>2. f[n] = step[n][f[n - 1]]
        BY <1>2, <3>2 DEF Follows
      <4> HIDE DEF X
      <4>3. f[n] = Further(t, f[n - 1])
        BY <4>1, <4>2
      <4> QED BY <3>2, <4>3 DEF Further
    <3> QED BY <3>1, <3>2
  <2>2. f = [n \in Nat |-> f[n]] /\ Grown(f) = [n \in Nat |-> Grown(f)[n]]
    OBVIOUS
  <2> HIDE DEF Grown
  <2> QED BY <2>1, <2>2
<1> DEFINE k == Walk(t, c)
<1>4. k = CHOOSE g : g = Grown(g)
  BY DEF Walk
<1>5. k = Grown(k)
  <2> HIDE DEF k, Grown
  <2> QED BY <1>3, <1>4
<1> HIDE DEF k
<1>6. k[0] = <<c>>
  BY <1>5
<1>7. ASSUME NEW n \in Nat PROVE k[n + 1] = Further(t, k[n])
  <2>1. n + 1 \in Nat /\ n + 1 # 0 /\ (n + 1) - 1 = n
    OBVIOUS
  <2>2. k[n + 1] = IF t[Head(k[n])] \in DOMAIN t \ ToSet(k[n]) THEN <<t[Head(k[n])]>> \o k[n] ELSE k[n]
    BY <1>5, <2>1
  <2> QED BY <2>2 DEF Further
<1> QED BY <1>6, <1>7 DEF k

(* Part of a way: from some category down to c, every one under the one    *)
(* before it.                                                              *)
Climbs(t, c, w) ==
    /\ w \in Seq(DOMAIN t) /\ Len(w) >= 1 /\ w[Len(w)] = c
    /\ \A i \in 2 .. Len(w) : t[w[i]] = w[i - 1]

LEMMA FurtherClimbs ==
    ASSUME NEW t, NEW c, NEW w, Climbs(t, c, w), IsInjective(w)
    PROVE  /\ Climbs(t, c, Further(t, w)) /\ IsInjective(Further(t, w))
           /\ Len(Further(t, w)) = Len(w) + 1 \/ Further(t, w) = w
<1>1. CASE t[Head(w)] \notin DOMAIN t \ ToSet(w)
  BY <1>1 DEF Further
<1>2. CASE t[Head(w)] \in DOMAIN t \ ToSet(w)
  <2> DEFINE up == t[Head(w)]  one == <<up>>  longer == one \o w  n == Len(w)
  <2>1. w \in Seq(DOMAIN t) /\ n \in Nat /\ n >= 1 /\ w[n] = c /\ Head(w) = w[1]
    BY DEF Climbs
  <2>2. one \in Seq(DOMAIN t) /\ Len(one) = 1 /\ one[1] = up /\ ToSet(one) = {up} /\ IsInjective(one)
    BY <1>2 DEF ToSet, IsInjective
  <2>3. Further(t, w) = longer
    BY <1>2 DEF Further
  <2>4. up \notin ToSet(w) /\ up = t[w[1]]
    BY <1>2, <2>1
  <2> HIDE DEF up, one
  <2>5. /\ longer \in Seq(DOMAIN t) /\ Len(longer) = Len(one) + n
        /\ \A i \in 1 .. Len(one) + n : longer[i] = IF i <= Len(one) THEN one[i] ELSE w[i - Len(one)]
    BY <2>1, <2>2, ConcatProperties
  <2>6. IsInjective(longer)
    BY <2>1, <2>2, <2>4, ConcatOfInjectives
  <2> HIDE DEF longer
  <2>7. Len(longer) = n + 1 /\ longer[1] = up /\ \A i \in 2 .. n + 1 : longer[i] = w[i - 1]
    <3>1. Len(longer) = n + 1 /\ longer[1] = up
      BY <2>1, <2>2, <2>5
    <3>2. ASSUME NEW i \in 2 .. n + 1 PROVE longer[i] = w[i - 1]
      <4>1. i \in 1 .. Len(one) + n /\ ~ (i <= Len(one)) /\ i - Len(one) = i - 1
        BY <2>1, <2>2
      <4> QED BY <2>5, <4>1
    <3> QED BY <3>1, <3>2
  <2> HIDE DEF n
  <2>8. ASSUME NEW i \in 2 .. n + 1 PROVE t[longer[i]] = longer[i - 1]
    <3>1. CASE i = 2
      BY <2>1, <2>4, <2>7, <3>1
    <3>2. CASE i # 2
      <4>1. i - 1 \in 2 .. n /\ i - 1 \in 2 .. n + 1
        BY <2>1, <3>2
      <4>2. t[w[i - 1]] = w[i - 1 - 1]
        BY <4>1 DEF Climbs, n
      <4> QED BY <2>7, <4>1, <4>2
    <3> QED BY <3>1, <3>2
  <2>9. longer[n + 1] = c
    <3>1. n + 1 \in 2 .. n + 1 /\ (n + 1) - 1 = n
      BY <2>1
    <3> QED BY <2>1, <2>7, <3>1
  <2> QED BY <2>1, <2>3, <2>5, <2>6, <2>7, <2>8, <2>9 DEF Climbs, n
<1> QED BY <1>1, <1>2

(* A walk climbs until it can go no further.                               *)
LEMMA WalkClimbs ==
    ASSUME NEW t, NEW c \in DOMAIN t
    PROVE  \A n \in Nat : /\ Climbs(t, c, Walk(t, c)[n]) /\ IsInjective(Walk(t, c)[n])
                          /\ Len(Walk(t, c)[n]) = n + 1 \/ Further(t, Walk(t, c)[n]) = Walk(t, c)[n]
<1> DEFINE walk == Walk(t, c)
           Good(n) == /\ Climbs(t, c, walk[n]) /\ IsInjective(walk[n])
                      /\ Len(walk[n]) = n + 1 \/ Further(t, walk[n]) = walk[n]
           So == {n \in Nat : Good(n)}
<1>1. walk[0] = <<c>> /\ \A n \in Nat : walk[n + 1] = Further(t, walk[n])
  BY WalkSteps
<1> HIDE DEF walk
<1>2. 0 \in So
  <2>1. <<c>> \in Seq(DOMAIN t) /\ Len(<<c>>) = 1 /\ <<c>>[1] = c /\ IsInjective(<<c>>)
    BY DEF IsInjective
  <2>2. \A i : i \notin 2 .. 1
    OBVIOUS
  <2>3. Climbs(t, c, <<c>>)
    BY <2>1, <2>2 DEF Climbs
  <2> QED BY <1>1, <2>1, <2>3
<1>3. ASSUME NEW n \in Nat, n \in So PROVE n + 1 \in So
  <2>1. Climbs(t, c, walk[n]) /\ IsInjective(walk[n]) /\ (Len(walk[n]) = n + 1 \/ Further(t, walk[n]) = walk[n])
    BY <1>3
  <2>2. walk[n + 1] = Further(t, walk[n])
    BY <1>1
  <2>3. /\ Climbs(t, c, walk[n + 1]) /\ IsInjective(walk[n + 1])
        /\ Len(walk[n + 1]) = Len(walk[n]) + 1 \/ walk[n + 1] = walk[n]
    BY <2>1, <2>2, FurtherClimbs
  <2>4. CASE Further(t, walk[n]) = walk[n]
    BY <2>2, <2>3, <2>4
  <2>5. CASE Len(walk[n]) = n + 1 /\ walk[n + 1] # walk[n]
    <3>1. Len(walk[n + 1]) = (n + 1) + 1
      BY <2>3, <2>5
    <3> QED BY <2>3, <3>1
  <2> QED BY <2>1, <2>2, <2>4, <2>5
<1>4. Nat \subseteq So
  <2> HIDE DEF So
  <2> QED BY <1>2, <1>3, Upwards
<1> QED BY <1>4 DEF walk

LEMMA FiniteTree ==
    ASSUME NEW t \in Trees
    PROVE  /\ IsFiniteSet(DOMAIN t) /\ Cardinality(DOMAIN t) \in Nat /\ DOMAIN t \subseteq Categories
           /\ NoParent \notin DOMAIN t /\ \A c \in DOMAIN t : t[c] \in Categories \cup {NoParent}
<1>1. DOMAIN t \subseteq Categories /\ t \in [DOMAIN t -> Categories \cup {NoParent}]
  BY TreeTypes
<1>2. IsFiniteSet(DOMAIN t)
  BY <1>1, CatalogAssumption, FS_Subset
<1> QED BY <1>1, <1>2, CatalogAssumption, FS_CardinalityType

(* In as many steps as there are categories a walk has gone as far as it   *)
(* can: a longer chain would hold a category twice.                        *)
LEMMA ChainEnds ==
    ASSUME NEW t \in Trees, NEW c \in DOMAIN t
    PROVE  LET chain == Chain(t, c)
           IN  /\ Climbs(t, c, chain) /\ IsInjective(chain)
               /\ Len(chain) \in 1 .. Cardinality(DOMAIN t)
               /\ t[chain[1]] \in DOMAIN t => t[chain[1]] \in ToSet(chain)
               /\ Head(chain) = chain[1] /\ Last(chain) = c
<1> DEFINE chain == Chain(t, c)  size == Cardinality(DOMAIN t)
<1>1. size \in Nat /\ IsFiniteSet(DOMAIN t)
  BY FiniteTree
<1>2. chain = Walk(t, c)[size]
  BY DEF Chain
<1>3. Climbs(t, c, chain) /\ IsInjective(chain) /\ (Len(chain) = size + 1 \/ Further(t, chain) = chain)
  BY <1>1, <1>2, WalkClimbs
<1> HIDE DEF chain
<1>4. chain \in Seq(DOMAIN t) /\ Len(chain) \in Nat /\ Len(chain) >= 1 /\ chain[Len(chain)] = c
  BY <1>3 DEF Climbs
<1>5. Len(chain) <= size
  <2>1. ToSet(chain) \subseteq DOMAIN t /\ Cardinality(ToSet(chain)) = Len(chain)
    BY <1>3, <1>4, ElementsOfSeq, LenOfInjective
  <2> QED BY <1>1, <2>1, FS_Subset
<1>6. Further(t, chain) = chain /\ Head(chain) = chain[1]
  BY <1>1, <1>3, <1>4, <1>5
<1>7. ASSUME t[chain[1]] \in DOMAIN t, t[chain[1]] \notin ToSet(chain) PROVE FALSE
  <2> DEFINE up == t[chain[1]]
  <2>1. Further(t, chain) = <<up>> \o chain
    BY <1>6, <1>7 DEF Further
  <2>2. <<up>> \in Seq(DOMAIN t) /\ Len(<<up>>) = 1
    BY <1>7
  <2> HIDE DEF up
  <2>3. Len(<<up>> \o chain) = 1 + Len(chain)
    BY <1>4, <2>2, ConcatProperties
  <2> QED BY <1>4, <1>6, <2>1, <2>3
<1>8. Last(chain) = c
  BY <1>4 DEF Last
<1> QED BY <1>1, <1>3, <1>4, <1>5, <1>6, <1>7, <1>8 DEF chain

LEMMA WayMembers ==
    ASSUME tree \in Trees, NEW c \in DOMAIN tree, NEW w
    PROVE  w \in Ways(c) <=> /\ Climbs(tree, c, w) /\ tree[w[1]] = NoParent
                             /\ Len(w) \in 1 .. Cardinality(DOMAIN tree)
<1> DEFINE size == Cardinality(DOMAIN tree)
<1>1. size \in Nat
  BY FiniteTree
<1> HIDE DEF size
<1>2. ASSUME NEW n \in 1 .. size, w \in [1 .. n -> DOMAIN tree]
      PROVE  w \in Seq(DOMAIN tree) /\ Len(w) = n /\ Len(w) >= 1
  BY <1>1, <1>2
<1>3. ASSUME w \in Seq(DOMAIN tree), Len(w) \in 1 .. size
      PROVE  \E n \in 1 .. size : w \in [1 .. n -> DOMAIN tree]
  BY <1>3
<1>4. ASSUME w \in Ways(c) PROVE \E n \in 1 .. size : w \in [1 .. n -> DOMAIN tree]
  BY <1>4 DEF Ways, size
<1>5. w \in Ways(c) <=> /\ \E n \in 1 .. size : w \in [1 .. n -> DOMAIN tree]
                        /\ tree[Head(w)] = NoParent /\ Last(w) = c
                        /\ \A i \in 2 .. Len(w) : tree[w[i]] = w[i - 1]
  BY DEF Ways, size
<1>6. w \in Seq(DOMAIN tree) /\ Len(w) >= 1 => Head(w) = w[1] /\ Last(w) = w[Len(w)]
  BY DEF Last
<1> QED BY <1>2, <1>3, <1>4, <1>5, <1>6 DEF Climbs, size

(* Every way to a category goes through its chain only, from the end.      *)
LEMMA WaysFollowChains ==
    ASSUME tree \in Trees, NEW c \in DOMAIN tree, NEW w \in Ways(c)
    PROVE  \A k \in Nat : k < Len(w) => w[Len(w) - k] \in ToSet(Chain(tree, c))
<1> DEFINE chain == Chain(tree, c)
           So == {k \in Nat : k < Len(w) => w[Len(w) - k] \in ToSet(chain)}
<1>1. /\ Climbs(tree, c, chain) /\ (tree[chain[1]] \in DOMAIN tree => tree[chain[1]] \in ToSet(chain))
  BY ChainEnds
<1> HIDE DEF chain
<1>2. /\ chain \in Seq(DOMAIN tree) /\ Len(chain) \in Nat /\ Len(chain) >= 1 /\ chain[Len(chain)] = c
      /\ \A i \in 2 .. Len(chain) : tree[chain[i]] = chain[i - 1]
  BY <1>1 DEF Climbs
<1>3. \A x : x \in ToSet(chain) <=> \E i \in 1 .. Len(chain) : chain[i] = x
  BY <1>2, ElementsOfSeq
<1>4. /\ w \in Seq(DOMAIN tree) /\ Len(w) \in Nat /\ w[Len(w)] = c
      /\ \A i \in 2 .. Len(w) : tree[w[i]] = w[i - 1]
  BY WayMembers DEF Climbs
<1>5. 0 \in So
  <2>1. Len(w) - 0 = Len(w) /\ c \in ToSet(chain)
    BY <1>2, <1>3, <1>4
  <2> QED BY <1>4, <2>1
<1>6. ASSUME NEW k \in Nat, k \in So PROVE k + 1 \in So
  <2> SUFFICES ASSUME k + 1 < Len(w) PROVE w[Len(w) - (k + 1)] \in ToSet(chain)
    OBVIOUS
  <2> DEFINE i == Len(w) - k
  <2>1. i \in 2 .. Len(w) /\ i - 1 = Len(w) - (k + 1) /\ i - 1 \in 1 .. Len(w)
    BY <1>4
  <2>2. w[i] \in ToSet(chain)
    BY <1>4, <1>6
  <2>3. tree[w[i]] = w[i - 1] /\ w[i - 1] \in DOMAIN tree
    BY <1>4, <2>1
  <2> HIDE DEF i
  <2>4. PICK j \in 1 .. Len(chain) : chain[j] = w[i]
    BY <1>3, <2>2
  <2>5. CASE j = 1
    BY <1>1, <2>1, <2>3, <2>4, <2>5
  <2>6. CASE j # 1
    <3>1. j \in 2 .. Len(chain) /\ j - 1 \in 1 .. Len(chain)
      BY <1>2, <2>6
    <3>2. chain[j - 1] = w[i - 1]
      BY <1>2, <2>3, <2>4, <3>1
    <3> QED BY <1>3, <2>1, <3>1, <3>2
  <2> QED BY <2>5, <2>6
<1>7. Nat \subseteq So
  <2> HIDE DEF So
  <2> QED BY <1>5, <1>6, Upwards
<1> QED BY <1>7 DEF chain

(* No way leads to a category whose chain does not start at a root.        *)
LEMMA NoWay ==
    ASSUME tree \in Trees, NEW c \in DOMAIN tree, Broken(tree, c)
    PROVE  Ways(c) = {}
<1> SUFFICES ASSUME NEW w \in Ways(c) PROVE FALSE
  OBVIOUS
<1> DEFINE chain == Chain(tree, c)
<1>1. Climbs(tree, c, chain) /\ Head(chain) = chain[1]
  BY ChainEnds
<1>2. tree[chain[1]] # NoParent
  BY <1>1 DEF Broken
<1>3. w \in Seq(DOMAIN tree) /\ Len(w) \in Nat /\ Len(w) >= 1 /\ tree[w[1]] = NoParent
  BY WayMembers DEF Climbs
<1>4. w[1] \in ToSet(chain)
  <2>1. Len(w) - 1 \in Nat /\ Len(w) - 1 < Len(w) /\ Len(w) - (Len(w) - 1) = 1
    BY <1>3
  <2> HIDE DEF chain
  <2>2. \A k \in Nat : k < Len(w) => w[Len(w) - k] \in ToSet(chain)
    BY WaysFollowChains DEF chain
  <2>3. w[Len(w) - (Len(w) - 1)] \in ToSet(chain)
    BY <2>1, <2>2
  <2> QED BY <2>1, <2>3
<1> HIDE DEF chain
<1>5. chain \in Seq(DOMAIN tree) /\ Len(chain) \in Nat /\ \A i \in 2 .. Len(chain) : tree[chain[i]] = chain[i - 1]
  BY <1>1 DEF Climbs
<1>6. PICK j \in 1 .. Len(chain) : chain[j] = w[1]
  BY <1>4, <1>5, ElementsOfSeq
<1>7. j # 1
  BY <1>2, <1>3, <1>6
<1>8. j \in 2 .. Len(chain) /\ j - 1 \in 1 .. Len(chain)
  BY <1>5, <1>7
<1>9. NoParent \in DOMAIN tree
  BY <1>3, <1>5, <1>6, <1>8
<1> QED BY <1>9, FiniteTree

(* A chain that starts at a root is the one way to its category.           *)
LEMMA OneWay ==
    ASSUME tree \in Trees, NEW c \in DOMAIN tree, ~ Broken(tree, c)
    PROVE  Ways(c) = {Chain(tree, c)}
<1> DEFINE chain == Chain(tree, c)
<1>1. /\ Climbs(tree, c, chain) /\ Head(chain) = chain[1]
      /\ Len(chain) \in 1 .. Cardinality(DOMAIN tree)
  BY ChainEnds
<1>2. tree[chain[1]] = NoParent
  BY <1>1 DEF Broken
<1>3. chain \in Ways(c)
  BY <1>1, <1>2, WayMembers
<1> HIDE DEF chain
<1>4. /\ chain \in Seq(DOMAIN tree) /\ Len(chain) \in Nat /\ Len(chain) >= 1 /\ chain[Len(chain)] = c
      /\ \A i \in 2 .. Len(chain) : tree[chain[i]] = chain[i - 1]
  BY <1>1 DEF Climbs
<1>5. ASSUME NEW w \in Ways(c) PROVE w = chain
  <2> DEFINE n == Len(chain)  m == Len(w)
             So == {k \in Nat : k < m => k < n /\ w[m - k] = chain[n - k]}
  <2>1. /\ w \in Seq(DOMAIN tree) /\ m \in Nat /\ m >= 1 /\ w[m] = c /\ tree[w[1]] = NoParent
        /\ \A i \in 2 .. m : tree[w[i]] = w[i - 1]
    BY WayMembers DEF Climbs
  <2>2. n \in Nat /\ n >= 1 /\ chain[n] = c /\ \A i \in 2 .. n : tree[chain[i]] = chain[i - 1]
    BY <1>4
  <2>3. (\A i \in 1 .. m : w[i] \in DOMAIN tree) /\ (\A i \in 1 .. n : chain[i] \in DOMAIN tree)
    BY <1>4, <2>1
  <2> HIDE DEF n, m
  <2>4. 0 \in So
    <3>1. m - 0 = m /\ n - 0 = n
      BY <2>1, <2>2
    <3> QED BY <2>1, <2>2, <3>1
  <2>5. ASSUME NEW k \in Nat, k \in So PROVE k + 1 \in So
    <3> SUFFICES ASSUME k + 1 < m PROVE k + 1 < n /\ w[m - (k + 1)] = chain[n - (k + 1)]
      OBVIOUS
    <3> DEFINE i == m - k  j == n - k
    <3>1. k < n /\ w[i] = chain[j]
      BY <2>1, <2>5
    <3>2. i \in 2 .. m /\ i - 1 = m - (k + 1) /\ i - 1 \in 1 .. m
      BY <2>1
    <3>3. j \in 1 .. n /\ j - 1 = n - (k + 1)
      BY <2>2, <3>1
    <3> HIDE DEF i, j
    <3>4. tree[chain[j]] = w[i - 1] /\ w[i - 1] \in DOMAIN tree
      BY <2>1, <2>3, <3>1, <3>2
    <3>5. j # 1
      BY <1>2, <3>4, FiniteTree
    <3>6. j \in 2 .. n /\ k + 1 < n
      BY <2>2, <3>3, <3>5 DEF j
    <3>7. chain[j - 1] = w[i - 1]
      BY <2>2, <3>4, <3>6
    <3> QED BY <3>2, <3>3, <3>6, <3>7
  <2>6. Nat \subseteq So
    <3> HIDE DEF So
    <3> QED BY <2>4, <2>5, Upwards
  <2>7. m <= n
    <3>1. m - 1 \in Nat /\ m - 1 < m
      BY <2>1
    <3>2. m - 1 < n
      BY <2>6, <3>1
    <3> QED BY <2>1, <2>2, <3>2
  <2>8. \A i \in 1 .. m : w[i] = chain[n - m + i]
    <3> TAKE i \in 1 .. m
    <3>1. m - i \in Nat /\ m - i < m /\ m - (m - i) = i /\ n - (m - i) = n - m + i
      BY <2>1, <2>2
    <3>2. w[m - (m - i)] = chain[n - (m - i)]
      BY <2>6, <3>1
    <3> QED BY <3>1, <3>2
  <2>9. m = n
    <3>1. SUFFICES ASSUME m < n PROVE FALSE
      BY <2>1, <2>2, <2>7
    <3>2. n - m + 1 \in 2 .. n /\ (n - m + 1) - 1 \in 1 .. n /\ 1 \in 1 .. m
      BY <2>1, <2>2, <3>1
    <3>3. w[1] = chain[n - m + 1]
      BY <2>8, <3>2
    <3>4. tree[chain[n - m + 1]] = chain[(n - m + 1) - 1]
      BY <2>2, <3>2
    <3>5. NoParent \in DOMAIN tree
      BY <2>1, <2>3, <3>2, <3>3, <3>4
    <3> QED BY <3>5, FiniteTree
  <2>10. \A i \in 1 .. m : w[i] = chain[i]
    <3>1. \A i \in 1 .. m : n - m + i = i
      BY <2>1, <2>9
    <3> QED BY <2>8, <3>1
  <2> QED BY <1>4, <2>1, <2>9, <2>10, SeqEqual DEF m, n
<1> QED BY <1>3, <1>5 DEF chain

(* The ref of a category that is not broken is true.                       *)
LEMMA RefIsTrue ==
    ASSUME tree \in Trees, NEW c \in DOMAIN tree, ~ Broken(tree, c)
    PROVE  Ref(Chain(tree, c)).id = c /\ IsTrueRef(Ref(Chain(tree, c)))
<1>1. Last(Chain(tree, c)) = c
  BY ChainEnds
<1> QED BY <1>1, OneWay DEF Ref, IsTrueRef

(* The start of a way is the way of the category it ends with: every step  *)
(* of the breadcrumbs is a true ref.                                       *)
LEMMA CrumbsAreTrue ==
    ASSUME tree \in Trees, NEW c \in DOMAIN tree, ~ Broken(tree, c)
    PROVE  LET crumbs == Crumbs(Chain(tree, c))
           IN  /\ DOMAIN crumbs = DOMAIN Chain(tree, c)
               /\ \A j \in DOMAIN crumbs : /\ IsTrueRef(crumbs[j]) /\ crumbs[j].level = j - 1
                                            /\ crumbs[j].id = Chain(tree, c)[j]
<1> DEFINE chain == Chain(tree, c)  crumbs == Crumbs(chain)
<1>1. /\ Climbs(tree, c, chain) /\ Head(chain) = chain[1]
      /\ Len(chain) \in 1 .. Cardinality(DOMAIN tree)
  BY ChainEnds
<1>2. tree[chain[1]] = NoParent
  BY <1>1 DEF Broken
<1> HIDE DEF chain
<1>3. /\ chain \in Seq(DOMAIN tree) /\ Len(chain) \in Nat /\ DOMAIN chain = 1 .. Len(chain)
      /\ \A i \in 2 .. Len(chain) : tree[chain[i]] = chain[i - 1]
      /\ \A i \in 1 .. Len(chain) : chain[i] \in DOMAIN tree
  BY <1>1 DEF Climbs
<1>4. ASSUME NEW j \in 1 .. Len(chain)
      PROVE  IsTrueRef(crumbs[j]) /\ crumbs[j].level = j - 1 /\ crumbs[j].id = chain[j]
  <2> DEFINE way == SubSeq(chain, 1, j)
  <2>1. /\ way \in Seq(DOMAIN tree) /\ Len(way) = j /\ \A i \in 1 .. j : way[i] = chain[i]
    <3>1. 1 \in Int /\ j \in Int /\ (\A i \in 1 .. j : chain[i] \in DOMAIN tree) /\ j - 1 + 1 = j /\ 1 <= j
      BY <1>3
    <3>2. /\ way \in Seq(DOMAIN tree) /\ Len(way) = IF 1 <= j THEN j - 1 + 1 ELSE 0
          /\ \A i \in 1 .. j - 1 + 1 : way[i] = chain[1 + i - 1]
      BY <3>1, SubSeqProperties
    <3>3. \A i \in 1 .. j : 1 + i - 1 = i
      OBVIOUS
    <3> HIDE DEF way
    <3> QED BY <3>1, <3>2, <3>3
  <2> HIDE DEF way
  <2>2. /\ crumbs[j] = Ref(way)
    BY <1>3 DEF Crumbs, way
  <2>3. chain[j] \in DOMAIN tree /\ way[j] = chain[j] /\ way[1] = chain[1] /\ Last(way) = chain[j]
    BY <1>3, <2>1 DEF Last
  <2>4. Climbs(tree, chain[j], way)
    <3>1. \A i \in 2 .. j : i \in 2 .. Len(chain) /\ i \in 1 .. j /\ i - 1 \in 1 .. j
      BY <1>3
    <3>2. \A i \in 2 .. j : tree[way[i]] = way[i - 1]
      BY <1>3, <2>1, <3>1
    <3> QED BY <2>1, <2>3, <3>2 DEF Climbs
  <2>5. way \in Ways(chain[j])
    <3>1. Len(way) \in 1 .. Cardinality(DOMAIN tree)
      BY <1>1, <2>1, FiniteTree
    <3> QED BY <1>2, <2>3, <2>4, <3>1, WayMembers
  <2>6. Ways(chain[j]) = {way}
    <3>1. ~ Broken(tree, chain[j])
      BY <2>3, <2>5, NoWay
    <3>2. Ways(chain[j]) = {Chain(tree, chain[j])}
      BY <2>3, <3>1, OneWay
    <3> QED BY <2>5, <3>2
  <2> QED BY <2>1, <2>2, <2>3, <2>6 DEF Ref, IsTrueRef
<1>5. DOMAIN crumbs = DOMAIN chain
  BY DEF Crumbs
<1> QED BY <1>3, <1>4, <1>5 DEF chain

(* The recursive definition of Below: level by level.                      *)
LEMMA BelowSteps ==
    ASSUME NEW t
    PROVE  /\ Below(Nested(t))[0] = Nested(t).roots
           /\ \A i \in Nat : Below(Nested(t))[i + 1] = UNION {Nested(t).children[d] : d \in Below(Nested(t))[i]}
<1> DEFINE nested == Nested(t)
           X == SUBSET DOMAIN t
           under(x) == UNION {nested.children[d] : d \in x}
           step == [n \in Nat |-> [x \in X |-> under(x)]]
           Grown(g) == [n \in Nat |-> IF n = 0 THEN nested.roots ELSE under(g[n - 1])]
<1>1. nested.roots \in X /\ \A d \in DOMAIN t : nested.children[d] \in X
  BY DEF Nested
<1> HIDE DEF nested
<1>2. \A x \in X : under(x) \in X
  BY <1>1
<1> HIDE DEF under
<1>3. step \in StepsOn(X)
  BY <1>2 DEF StepsOn
<1>4. PICK f \in [Nat -> X] : Follows(f, nested.roots, step)
  <2> HIDE DEF step, X
  <2> QED BY <1>1, <1>3, Recursion
<1>5. f = Grown(f)
  <2>1. ASSUME NEW n \in Nat PROVE f[n] = Grown(f)[n]
    <3>1. CASE n = 0
      BY <1>4, <3>1 DEF Follows
    <3>2. CASE n # 0
      <4>1. f[n - 1] \in X
        BY <3>2
      <4>2. f[n] = step[n][f[n - 1]]
        BY <1>4, <3>2 DEF Follows
      <4> HIDE DEF X
      <4> QED BY <3>2, <4>1, <4>2
    <3> QED BY <3>1, <3>2
  <2>2. f = [n \in Nat |-> f[n]] /\ Grown(f) = [n \in Nat |-> Grown(f)[n]]
    OBVIOUS
  <2> HIDE DEF Grown
  <2> QED BY <2>1, <2>2
<1> DEFINE b == Below(nested)
<1>6. b = CHOOSE g : g = Grown(g)
  BY DEF Below, under
<1>7. b = Grown(b)
  <2> HIDE DEF b, Grown
  <2> QED BY <1>5, <1>6
<1> HIDE DEF b
<1>8. b[0] = nested.roots
  BY <1>7
<1>9. ASSUME NEW n \in Nat PROVE b[n + 1] = under(b[n])
  <2>1. n + 1 \in Nat /\ n + 1 # 0 /\ (n + 1) - 1 = n
    OBVIOUS
  <2> QED BY <1>7, <2>1
<1> QED BY <1>8, <1>9 DEF b, under, nested

(* In the nested tree, each category of a way is below the one before it,  *)
(* so that the category is found as far down as its way is long.           *)
LEMMA TreeHoldsAll ==
    ASSUME tree \in Trees, NEW c \in DOMAIN tree, ~ Broken(tree, c)
    PROVE  Reached(Nested(tree), c)
<1> DEFINE chain == Chain(tree, c)  nested == Nested(tree)
           So == {k \in Nat : k < Len(chain) => chain[k + 1] \in Below(nested)[k]}
<1>1. Climbs(tree, c, chain) /\ Head(chain) = chain[1] /\ chain \in Ways(c)
  BY ChainEnds, OneWay
<1>2. tree[chain[1]] = NoParent
  BY <1>1 DEF Broken
<1> HIDE DEF chain
<1>3. /\ chain \in Seq(DOMAIN tree) /\ Len(chain) \in Nat /\ Len(chain) >= 1 /\ chain[Len(chain)] = c
      /\ \A i \in 2 .. Len(chain) : tree[chain[i]] = chain[i - 1]
  BY <1>1 DEF Climbs
<1>4. \A i \in 1 .. Len(chain) : chain[i] \in DOMAIN tree
  BY <1>3
<1>5. 0 \in So
  <2>1. chain[0 + 1] \in nested.roots
    BY <1>2, <1>3, <1>4 DEF Nested
  <2> QED BY <2>1, BelowSteps
<1>6. ASSUME NEW k \in Nat, k \in So PROVE k + 1 \in So
  <2> SUFFICES ASSUME k + 1 < Len(chain) PROVE chain[(k + 1) + 1] \in Below(nested)[k + 1]
    OBVIOUS
  <2>1. k + 1 \in 1 .. Len(chain) /\ k + 2 \in 2 .. Len(chain) /\ k + 2 \in 1 .. Len(chain)
        /\ (k + 1) + 1 = k + 2 /\ (k + 2) - 1 = k + 1 /\ k < Len(chain)
    BY <1>3
  <2>2. chain[k + 1] \in Below(nested)[k] /\ chain[k + 1] \in DOMAIN tree /\ chain[k + 2] \in DOMAIN tree
    BY <1>4, <1>6, <2>1
  <2>3. tree[chain[k + 2]] = chain[k + 1]
    BY <1>3, <2>1
  <2>4. chain[k + 2] \in nested.children[chain[k + 1]]
    BY <2>2, <2>3 DEF Nested
  <2>5. Below(nested)[k + 1] = UNION {nested.children[d] : d \in Below(nested)[k]}
    BY BelowSteps
  <2> HIDE DEF nested
  <2> QED BY <2>1, <2>2, <2>4, <2>5
<1>7. Nat \subseteq So
  <2> HIDE DEF So
  <2> QED BY <1>5, <1>6, Upwards
<1>8. Len(chain) - 1 \in Nat /\ Len(chain) - 1 < Len(chain) /\ (Len(chain) - 1) + 1 = Len(chain)
  BY <1>3
<1>9. c \in Below(nested)[Len(chain) - 1]
  <2>1. chain[(Len(chain) - 1) + 1] \in Below(nested)[Len(chain) - 1]
    BY <1>7, <1>8
  <2> QED BY <1>3, <1>8, <2>1
<1> QED BY <1>1, <1>9 DEF Reached

(* A hierarchy is shown or refused by the handler that has read it.        *)
LEMMA NavigationSteps ==
    ASSUME Shape, [Next]_vars, pc' = "idle", call'.op \in Navigation, answer'.code \in {200, 422}
    PROVE  UNCHANGED vars \/ ReadCategories
<1>1. ASSUME answer'.code = 200 PROVE UNCHANGED vars \/ ReadCategories
  <2>1. Answered(Navigation)'
    BY <1>1 DEF Answered, Navigation
  <2> QED BY <2>1, AnswerSteps DEF Navigation
<1>2. ASSUME answer'.code = 422 PROVE UNCHANGED vars \/ ReadCategories
  <2>1. ASSUME NEW step, NEW what, Begin(step, what), step # "idle" PROVE FALSE
    BY <2>1 DEF Begin
  <2>2. CASE ReadProduct
    BY <1>2, <2>2 DEF ReadProduct, Answer, GoTo
  <2>3. CASE ReadListing
    BY <1>2, <2>3 DEF ReadListing, Answer
  <2>4. CASE ReadSimilar \/ ResolveParent \/ TopUp
    BY <1>2, <2>4 DEF ReadSimilar, ResolveParent, TopUp, Answer, GoTo
  <2>5. CASE FirstPage \/ (\E o \in DOMAIN pages : NextPage(o)) \/ JoinPages
    BY <2>5 DEF FirstPage, NextPage, JoinPages, GoTo
  <2>6. CASE ReadCards \/ Abort
    BY <1>2, <2>6 DEF ReadCards, Abort, Answer
  <2>7. CASE Leave
    BY <1>2, <2>7 DEF Leave
  <2>8. CASE Edit
    BY <2>8 DEF Edit
  <2>9. CASE GetCategories \/ GetCategoryTree
    BY <2>1, <2>9 DEF GetCategories, GetCategoryTree
  <2>10. CASE \E c \in Categories : GetCategoryDetail(c) \/ BreadcrumbsOfCategory(c) \/ GetFacets(c)
    BY <2>1, <2>10 DEF GetCategoryDetail, BreadcrumbsOfCategory, GetFacets
  <2>11. CASE \E c \in Categories, n \in Limits, o \in 0 .. 1 : GetProducts(c, n, o)
    BY <2>1, <2>11 DEF GetProducts
  <2>12. ASSUME NEW p \in Products,
                \/ BreadcrumbsOfProduct(p) \/ GetProduct(p)
                \/ \E n \in Limits : GetSimilarProducts(p, n)
         PROVE  FALSE
    <3>1. CASE BreadcrumbsOfProduct(p)
      BY <2>1, <3>1 DEF BreadcrumbsOfProduct
    <3>2. CASE GetProduct(p)
      BY <2>1, <3>2 DEF GetProduct
    <3>3. CASE \E n \in Limits : GetSimilarProducts(p, n)
      BY <2>1, <3>3 DEF GetSimilarProducts
    <3> QED BY <2>12, <3>1, <3>2, <3>3
  <2> QED
    BY <2>2, <2>3, <2>4, <2>5, <2>6, <2>7, <2>8, <2>9, <2>10, <2>11, <2>12 DEF Next, CallFails, BodyUnreadable
<1> QED BY <1>1, <1>2

(* The category a request of the hierarchy is about.                       *)
Sought == IF "target" \in DOMAIN call THEN call.target ELSE category

LEMMA HierarchyRead ==
    ASSUME Shape, ReadCategories
    PROVE  /\ tree \in Trees /\ UNCHANGED <<tree, call, category>>
           /\ \/ /\ call.op \in {"list", "tree"} /\ answer'.code = 422
                 /\ \E c \in DOMAIN tree : Broken(tree, c)
              \/ /\ call.op \in {"list", "tree"} /\ answer'.code = 200
                 /\ \A c \in DOMAIN tree : ~ Broken(tree, c)
                 /\ answer'.body = IF call.op = "tree" THEN Nested(tree)
                                   ELSE {Ref(Chain(tree, c)) : c \in DOMAIN tree}
              \/ call.op \in {"detail", "breadcrumbs"} /\ answer'.code = 404
              \/ /\ call.op \in {"detail", "breadcrumbs"} /\ answer'.code = 422
                 /\ Sought \in DOMAIN tree /\ Broken(tree, Sought)
              \/ /\ call.op \in {"detail", "breadcrumbs"} /\ answer'.code = 200
                 /\ Sought \in DOMAIN tree /\ ~ Broken(tree, Sought)
                 /\ answer'.body = IF call.op = "detail" THEN Ref(Chain(tree, Sought))
                                   ELSE Crumbs(Chain(tree, Sought))
<1>1. tree \in Trees /\ UNCHANGED <<tree, call, category>>
  BY DEF Shape, TypeOK, ReadCategories, World
<1>2. CASE call.op \in {"list", "tree"}
  BY <1>1, <1>2 DEF ReadCategories, Answer
<1>3. CASE call.op \in {"detail", "breadcrumbs"}
  BY <1>1, <1>3 DEF ReadCategories, Answer, Sought
<1> QED BY <1>1, <1>2, <1>3 DEF ReadCategories

(* A hierarchy is refused when, and only when, there is no way to a        *)
(* category that was asked for, whatever B2B has: orphans, cycles, depth.  *)
THEOREM BrokenHierarchiesAreRefused == Spec => []BrokenIsRefused
<1>1. Init => BrokenIsRefused
  BY DEF Init, BrokenIsRefused
<1>2. Shape /\ BrokenIsRefused /\ [Next]_vars => BrokenIsRefused'
  <2> SUFFICES ASSUME Shape, BrokenIsRefused, [Next]_vars, pc' = "idle", call'.op \in Navigation,
                      answer'.code \in {200, 422}
               PROVE  BrokenIsRefused'
    BY DEF BrokenIsRefused, Navigation
  <2>1. CASE UNCHANGED vars
    <3>1. \A c : Ways(c)' = Ways(c)
      BY <2>1 DEF vars, Ways
    <3> QED BY <2>1, <3>1 DEF vars, BrokenIsRefused
  <2>2. CASE ReadCategories
    <3>1. tree \in Trees /\ UNCHANGED <<tree, call, category>>
      BY <2>2, HierarchyRead
    <3>2. \A c : Ways(c)' = Ways(c)
      BY <3>1 DEF Ways
    <3>3. \A c \in DOMAIN tree : Broken(tree, c) <=> Ways(c) = {}
      BY <3>1, NoWay, OneWay
    <3>4. CASE call.op \in {"list", "tree"}
      <4>1. (answer'.code = 422) <=> \E c \in DOMAIN tree : Broken(tree, c)
        BY <2>2, <3>4, HierarchyRead
      <4> QED BY <3>1, <3>2, <3>3, <3>4, <4>1 DEF BrokenIsRefused
    <3>5. CASE call.op \in {"detail", "breadcrumbs"}
      <4>1. Sought \in DOMAIN tree /\ ((answer'.code = 422) <=> Broken(tree, Sought))
        BY <2>2, <3>5, HierarchyRead
      <4> QED BY <3>1, <3>2, <3>3, <3>5, <4>1 DEF BrokenIsRefused, Sought
    <3> QED BY <3>1, <3>4, <3>5 DEF Navigation
  <2> QED BY <2>1, <2>2, NavigationSteps
<1> QED BY <1>1, <1>2, ShapeInvariant, PTL DEF Spec

(* The list, the detail, the breadcrumbs and the tree show the ways from   *)
(* the roots, for every hierarchy that is not refused: no category is      *)
(* lost, and each has its one path and level.                              *)
THEOREM PathsOfCategories == Spec => []PathsAreTrue
<1>1. Init => PathsAreTrue
  BY DEF Init, PathsAreTrue, Answered
<1>2. Shape /\ PathsAreTrue /\ [Next]_vars => PathsAreTrue'
  <2> SUFFICES ASSUME Shape, PathsAreTrue, [Next]_vars, Answered(Navigation)' PROVE PathsAreTrue'
    BY DEF PathsAreTrue, Answered, Navigation
  <2>1. CASE UNCHANGED vars
    <3>1. \A c : Ways(c)' = Ways(c)
      BY <2>1 DEF vars, Ways
    <3>2. /\ \A r : IsTrueRef(r)' <=> IsTrueRef(r)
          /\ \A nested, c : Reached(nested, c)' <=> Reached(nested, c)
      BY <3>1 DEF IsTrueRef, Reached
    <3> QED BY <2>1, <3>1, <3>2 DEF vars, PathsAreTrue, Answered
  <2>2. CASE ReadCategories
    <3>1. tree \in Trees /\ UNCHANGED <<tree, call, category>>
      BY <2>2, HierarchyRead
    <3>2. /\ \A c : Ways(c)' = Ways(c)
          /\ \A r : IsTrueRef(r)' <=> IsTrueRef(r)
          /\ \A nested, c : Reached(nested, c)' <=> Reached(nested, c)
      BY <3>1 DEF Ways, IsTrueRef, Reached
    <3>3. ASSUME Answered({"list"})'
          PROVE  (\A r \in answer'.body : IsTrueRef(r)) /\ {r.id : r \in answer'.body} = DOMAIN tree
      <4>1. /\ answer'.body = {Ref(Chain(tree, c)) : c \in DOMAIN tree}
            /\ \A c \in DOMAIN tree : ~ Broken(tree, c)
        BY <2>2, <3>1, <3>3, HierarchyRead DEF Answered
      <4>2. \A c \in DOMAIN tree : Ref(Chain(tree, c)).id = c /\ IsTrueRef(Ref(Chain(tree, c)))
        BY <3>1, <4>1, RefIsTrue
      <4> QED BY <4>1, <4>2
    <3>4. ASSUME Answered({"detail"})' PROVE IsTrueRef(answer'.body)
      <4>1. answer'.body = Ref(Chain(tree, Sought)) /\ Sought \in DOMAIN tree /\ ~ Broken(tree, Sought)
        BY <2>2, <3>1, <3>4, HierarchyRead DEF Answered
      <4> QED BY <3>1, <4>1, RefIsTrue
    <3>5. ASSUME Answered({"breadcrumbs"})'
          PROVE  /\ \A i \in DOMAIN answer'.body : IsTrueRef(answer'.body[i]) /\ answer'.body[i].level = i - 1
                 /\ \E w \in Ways(Sought) : w = [i \in DOMAIN answer'.body |-> answer'.body[i].id]
      <4> DEFINE chain == Chain(tree, Sought)
      <4>1. answer'.body = Crumbs(chain) /\ Sought \in DOMAIN tree /\ ~ Broken(tree, Sought)
        BY <2>2, <3>1, <3>5, HierarchyRead DEF Answered
      <4>2. /\ DOMAIN Crumbs(chain) = DOMAIN chain
            /\ \A j \in DOMAIN Crumbs(chain) : /\ IsTrueRef(Crumbs(chain)[j]) /\ Crumbs(chain)[j].level = j - 1
                                                /\ Crumbs(chain)[j].id = chain[j]
        BY <3>1, <4>1, CrumbsAreTrue
      <4>3. chain \in Ways(Sought) /\ chain \in Seq(DOMAIN tree)
        BY <3>1, <4>1, OneWay, ChainEnds DEF Climbs
      <4> HIDE DEF chain
      <4>4. chain = [i \in DOMAIN chain |-> chain[i]]
        BY <4>3
      <4>5. chain = [i \in DOMAIN answer'.body |-> answer'.body[i].id]
        BY <4>1, <4>2, <4>4
      <4> QED BY <4>1, <4>2, <4>3, <4>5
    <3>6. ASSUME Answered({"tree"})' PROVE \A c \in DOMAIN tree : Reached(answer'.body, c)
      <4>1. answer'.body = Nested(tree) /\ \A c \in DOMAIN tree : ~ Broken(tree, c)
        BY <2>2, <3>1, <3>6, HierarchyRead DEF Answered
      <4> QED BY <3>1, <4>1, TreeHoldsAll
    <3>7. Sought' = Sought
      BY <3>1 DEF Sought
    <3> QED BY <3>1, <3>2, <3>3, <3>4, <3>5, <3>6, <3>7 DEF PathsAreTrue, Sought
  <2>3. pc' = "idle" /\ call'.op \in Navigation /\ answer'.code \in {200, 422}
    BY DEF Answered
  <2> QED BY <2>1, <2>2, <2>3, NavigationSteps
<1> QED BY <1>1, <1>2, ShapeInvariant, PTL DEF Spec

=============================================================================
