--------------------------- MODULE SequenceLemmas ---------------------------
(***************************************************************************)
(* What the proofs need of natural numbers and sequences and the library   *)
(* does not state: induction over a set of numbers, the first of several   *)
(* positions, sequences with an element taken out, and sets put in order.  *)
(***************************************************************************)
EXTENDS Ordering, SequencesExt, SequenceTheorems, FiniteSetTheorems, WellFoundedInduction,
        TLAPS

\* Induction, over a set instead of a predicate: a property P is put as the set
\* {n \in Nat : P(n)}.
LEMMA SetInduction ==
    ASSUME NEW S, 0 \in S, \A n \in Nat : n \in S => n + 1 \in S
    PROVE  \A n \in Nat : n \in S
<1> SUFFICES ASSUME NEW m \in Nat, m \notin S
             PROVE  FALSE
  OBVIOUS
<1> DEFINE T == {n \in Nat : n \notin S}
           less == {pair \in Nat \X Nat : pair[1] < pair[2]}
<1>1. IsWellFoundedOn(less, Nat)
  <2>1. OpToRel(<, Nat) = less
    BY DEF OpToRel
  <2> HIDE DEF less
  <2> QED BY <2>1, NatLessThanWellFounded, Zenon
<1>2. T \subseteq Nat /\ T # {}
  OBVIOUS
<1>3. PICK x \in T : \A y \in T : ~(<<y, x>> \in less)
  <2> HIDE DEF T, less
  <2> QED BY <1>1, <1>2, WFMin
<1>4. x \in Nat \ {0} /\ x - 1 \in T
  OBVIOUS
<1>5. <<x - 1, x>> \in less
  BY <1>4
<1> QED
  BY <1>3, <1>4, <1>5

\* The first of several positions (of a receiver chain, an archived session, a
\* sender key state): there is one.
LEMMA MinInSet ==
    ASSUME NEW S \in SUBSET Nat, S # {}
    PROVE  Min(S) \in S /\ \A y \in S : Min(S) =< y
<1> DEFINE less == {pair \in Nat \X Nat : pair[1] < pair[2]}
<1>1. IsWellFoundedOn(less, Nat)
  <2>1. OpToRel(<, Nat) = less
    BY DEF OpToRel
  <2> HIDE DEF less
  <2> QED BY <2>1, NatLessThanWellFounded, Zenon
<1> HIDE DEF less
<1>2. PICK x \in S : \A y \in S : ~(<<y, x>> \in less)
  BY <1>1, WFMin
<1>3. ASSUME NEW y \in S
      PROVE  x =< y
  <2>1. y < x => <<y, x>> \in less
    BY DEF less
  <2> QED BY <2>1, <1>2
<1> QED
  BY <1>3 DEF Min

\* Taking an element out (a skipped message key, an archived session) leaves the
\* others in their order.
LEMMA RemoveAtProperties ==
    ASSUME NEW S, NEW s \in Seq(S), NEW i \in 1 .. Len(s)
    PROVE  /\ RemoveAt(s, i) \in Seq(S)
           /\ Len(RemoveAt(s, i)) = Len(s) - 1
           /\ \A j \in 1 .. Len(s) - 1 :
                 RemoveAt(s, i)[j] = IF j < i THEN s[j] ELSE s[j + 1]
<1> DEFINE left == SubSeq(s, 1, i - 1)
           right == SubSeq(s, i + 1, Len(s))
<1>1. Len(s) \in Nat /\ \A j \in 1 .. Len(s) : s[j] \in S
  OBVIOUS
<1>2. /\ left \in Seq(S) /\ Len(left) = i - 1
      /\ \A j \in 1 .. i - 1 : left[j] = s[j]
  <2>1. \A j \in 1 .. i - 1 : s[j] \in S
    BY <1>1
  <2> QED BY <2>1, <1>1, SubSeqProperties
<1>3. /\ right \in Seq(S) /\ Len(right) = Len(s) - i
      /\ \A j \in 1 .. Len(s) - i : right[j] = s[i + j]
  <2>1. \A j \in i + 1 .. Len(s) : s[j] \in S
    BY <1>1
  <2>2. /\ right \in Seq(S)
        /\ Len(right) = IF i + 1 <= Len(s) THEN Len(s) - (i + 1) + 1 ELSE 0
        /\ \A j \in 1 .. Len(s) - (i + 1) + 1 : right[j] = s[(i + 1) + j - 1]
    <3>1. i + 1 \in Int /\ Len(s) \in Int
      BY <1>1
    <3> HIDE DEF right
    <3> QED BY <2>1, <3>1, SubSeqProperties DEF right
  <2> HIDE DEF right
  <2> QED BY <2>2, <1>1
<1>4. RemoveAt(s, i) = left \o right
  BY DEF RemoveAt
<1> HIDE DEF left, right
<1>5. /\ left \o right \in Seq(S)
      /\ Len(left \o right) = Len(left) + Len(right)
      /\ \A j \in 1 .. Len(left) + Len(right) :
            (left \o right)[j] = IF j <= Len(left) THEN left[j] ELSE right[j - Len(left)]
  BY <1>2, <1>3, ConcatProperties
<1>6. ASSUME NEW j \in 1 .. Len(s) - 1
      PROVE  (left \o right)[j] = IF j < i THEN s[j] ELSE s[j + 1]
  <2>1. CASE j < i
    BY <2>1, <1>1, <1>2, <1>3, <1>5
  <2>2. CASE ~(j < i)
    <3>1. j - Len(left) \in 1 .. Len(s) - i /\ ~(j <= Len(left))
      BY <2>2, <1>1, <1>2
    <3>2. (left \o right)[j] = right[j - Len(left)]
      BY <3>1, <1>1, <1>2, <1>3, <1>5
    <3> QED BY <3>1, <3>2, <2>2, <1>1, <1>2, <1>3
  <2> QED BY <2>1, <2>2
<1> QED
  BY <1>1, <1>2, <1>3, <1>4, <1>5, <1>6

\* RemoveFirst takes out one element that equals e, if there is one.
LEMMA RemoveFirstProperties ==
    ASSUME NEW S, NEW s \in Seq(S), NEW e, \E i \in 1 .. Len(s) : s[i] = e
    PROVE  \E i \in 1 .. Len(s) : s[i] = e /\ RemoveFirst(s, e) = RemoveAt(s, i)
<1> DEFINE I == {i \in 1 .. Len(s) : s[i] = e}
<1>1. I \in SUBSET Nat /\ I # {}
  OBVIOUS
<1>2. Min(I) \in I
  <2> HIDE DEF I
  <2> QED BY <1>1, MinInSet
<1>3. RemoveFirst(s, e) = RemoveAt(s, Min(I))
  BY <1>1 DEF RemoveFirst, SelectInSeq
<1> HIDE DEF I
<1>4. RemoveFirst(s, e) = RemoveAt(s, Min(I)) /\ Min(I) \in 1 .. Len(s) /\ s[Min(I)] = e
  BY <1>2, <1>3 DEF I
<1> QED
  BY <1>4

\* The library's IsPrefix, element by element.
LEMMA PrefixPointwise ==
    ASSUME NEW S, NEW a \in Seq(S), NEW b \in Seq(S)
    PROVE  IsPrefix(a, b) <=> Len(a) <= Len(b) /\ \A i \in 1 .. Len(a) : a[i] = b[i]
<1>1. /\ Len(a) \in Nat /\ Len(b) \in Nat
      /\ \A i \in 1 .. Len(a) : a[i] \in S
      /\ \A i \in 1 .. Len(b) : b[i] \in S
  OBVIOUS
<1> SUFFICES ASSUME Len(a) <= Len(b)
             PROVE  SubSeq(a, 1, Len(a)) = SubSeq(b, 1, Len(a))
                       <=> \A i \in 1 .. Len(a) : a[i] = b[i]
  BY DEF IsPrefix
<1> DEFINE x == SubSeq(a, 1, Len(a))
           y == SubSeq(b, 1, Len(a))
<1>2. 1 \in Int /\ Len(a) \in Int /\ (\A i \in 1 .. Len(a) : a[i] \in S /\ b[i] \in S)
  BY <1>1
<1>3. /\ x \in Seq(S)
      /\ Len(x) = IF 1 <= Len(a) THEN Len(a) - 1 + 1 ELSE 0
      /\ \A i \in 1 .. Len(a) - 1 + 1 : x[i] = a[1 + i - 1]
  <2> HIDE DEF x
  <2> QED BY <1>2, SubSeqProperties DEF x
<1>4. /\ y \in Seq(S)
      /\ Len(y) = IF 1 <= Len(a) THEN Len(a) - 1 + 1 ELSE 0
      /\ \A i \in 1 .. Len(a) - 1 + 1 : y[i] = b[1 + i - 1]
  <2> HIDE DEF y
  <2> QED BY <1>2, SubSeqProperties DEF y
<1> HIDE DEF x, y
<1>5. Len(x) = Len(a) /\ (\A i \in 1 .. Len(a) : x[i] = a[i])
  BY <1>1, <1>3
<1>6. Len(y) = Len(a) /\ (\A i \in 1 .. Len(a) : y[i] = b[i])
  BY <1>1, <1>4
<1>7. (\A i \in 1 .. Len(a) : x[i] = y[i]) => x = y
  BY <1>3, <1>4, <1>5, <1>6, SeqEqual
<1>8. x = y <=> \A i \in 1 .. Len(a) : a[i] = b[i]
  BY <1>5, <1>6, <1>7
<1> QED
  BY <1>8 DEF x, y

\* Prefixes are shorter and agree on the elements they have.
LEMMA PrefixProperties ==
    ASSUME NEW S, NEW a \in Seq(S), NEW b \in Seq(S)
    PROVE  /\ IsPrefix(a, a)
           /\ IsPrefix(a, b) => Len(a) <= Len(b)
           /\ IsPrefix(a, b) /\ Len(a) = Len(b) => a = b
           /\ IsStrictPrefix(a, b) => Len(a) < Len(b)
           /\ IsPrefix(a, b) /\ Len(a) >= 1 =>
                 /\ a[1] = b[1]
                 /\ Len(a) \in DOMAIN b /\ a[Len(a)] = b[Len(a)]
<1>1. IsPrefix(a, a)
  BY PrefixPointwise
<1>2. IsPrefix(a, b) => Len(a) <= Len(b) /\ \A i \in 1 .. Len(a) : a[i] = b[i]
  BY PrefixPointwise
<1>3. ASSUME IsPrefix(a, b), Len(a) = Len(b)
      PROVE  a = b
  BY <1>2, <1>3, SeqEqual
<1>4. IsStrictPrefix(a, b) => Len(a) < Len(b)
  BY <1>2, <1>3 DEF IsStrictPrefix
<1>5. ASSUME IsPrefix(a, b), Len(a) >= 1
      PROVE  a[1] = b[1] /\ Len(a) \in DOMAIN b /\ a[Len(a)] = b[Len(a)]
  <2>1. 1 \in 1 .. Len(a) /\ Len(a) \in 1 .. Len(a) /\ Len(a) \in 1 .. Len(b)
    BY <1>2, <1>5
  <2> QED BY <2>1, <1>2, <1>5
<1> QED
  BY <1>1, <1>2, <1>3, <1>4, <1>5

LEMMA PrefixTransitive ==
    ASSUME NEW S, NEW a \in Seq(S), NEW b \in Seq(S), NEW c \in Seq(S),
           IsPrefix(a, b), IsPrefix(b, c)
    PROVE  IsPrefix(a, c)
<1>1. Len(a) <= Len(b) /\ \A i \in 1 .. Len(a) : a[i] = b[i]
  BY PrefixPointwise
<1>2. Len(b) <= Len(c) /\ \A i \in 1 .. Len(b) : b[i] = c[i]
  BY PrefixPointwise
<1>3. Len(a) <= Len(c) /\ \A i \in 1 .. Len(a) : a[i] = c[i]
  BY <1>1, <1>2
<1> QED
  BY <1>3, PrefixPointwise

\* Of two prefixes of one sequence, one is a prefix of the other.
LEMMA PrefixesComparable ==
    ASSUME NEW S, NEW a \in Seq(S), NEW b \in Seq(S), NEW c \in Seq(S),
           IsPrefix(a, c), IsPrefix(b, c)
    PROVE  IsPrefix(a, b) \/ IsPrefix(b, a)
<1>1. Len(a) <= Len(c) /\ \A i \in 1 .. Len(a) : a[i] = c[i]
  BY PrefixPointwise
<1>2. Len(b) <= Len(c) /\ \A i \in 1 .. Len(b) : b[i] = c[i]
  BY PrefixPointwise
<1>3. \/ Len(a) <= Len(b) /\ \A i \in 1 .. Len(a) : a[i] = b[i]
      \/ Len(b) <= Len(a) /\ \A i \in 1 .. Len(b) : b[i] = a[i]
  BY <1>1, <1>2
<1> QED
  BY <1>3, PrefixPointwise

LEMMA PrefixOfAppend ==
    ASSUME NEW S, NEW a \in Seq(S), NEW e \in S
    PROVE  /\ Append(a, e) \in Seq(S)
           /\ Len(Append(a, e)) = Len(a) + 1
           /\ Append(a, e)[Len(a) + 1] = e
           /\ \A i \in 1 .. Len(a) : Append(a, e)[i] = a[i]
           /\ IsStrictPrefix(a, Append(a, e))
<1>1. /\ Append(a, e) \in Seq(S)
      /\ Len(Append(a, e)) = Len(a) + 1
      /\ Append(a, e)[Len(a) + 1] = e
      /\ \A i \in 1 .. Len(a) : Append(a, e)[i] = a[i]
  BY AppendProperties
<1>2. Len(a) <= Len(Append(a, e)) /\ Len(a) # Len(Append(a, e))
  BY <1>1
<1>3. IsPrefix(a, Append(a, e))
  BY <1>1, <1>2, PrefixPointwise
<1> QED
  BY <1>1, <1>2, <1>3 DEF IsStrictPrefix

-----------------------------------------------------------------------------
(* Positions in order                                                      *)

\* A finite set of numbers can be listed in order: its least element first.
LEMMA OrderExists ==
    \A n \in Nat : \A S \in SUBSET Nat :
        IsFiniteSet(S) /\ Cardinality(S) = n =>
            \E q \in [1 .. n -> S] : \A i, j \in 1 .. n : i < j => q[i] < q[j]
<1> DEFINE Listed(n) == \A S \in SUBSET Nat :
               IsFiniteSet(S) /\ Cardinality(S) = n =>
                   \E q \in [1 .. n -> S] : \A i, j \in 1 .. n : i < j => q[i] < q[j]
           D == {n \in Nat : Listed(n)}
<1>1. 0 \in D
  <2> SUFFICES ASSUME NEW S \in SUBSET Nat, IsFiniteSet(S), Cardinality(S) = 0
               PROVE  \E q \in [1 .. 0 -> S] : \A i, j \in 1 .. 0 : i < j => q[i] < q[j]
    OBVIOUS
  <2> DEFINE q == [i \in 1 .. 0 |-> 0]
  <2>1. \A i \in 1 .. 0 : FALSE
    OBVIOUS
  <2>2. q \in [1 .. 0 -> S]
    BY <2>1
  <2> HIDE DEF q
  <2> QED BY <2>1, <2>2
<1>2. ASSUME NEW n \in Nat, n \in D
      PROVE  n + 1 \in D
  <2> SUFFICES ASSUME NEW S \in SUBSET Nat, IsFiniteSet(S), Cardinality(S) = n + 1
               PROVE  \E q \in [1 .. n + 1 -> S] :
                          \A i, j \in 1 .. n + 1 : i < j => q[i] < q[j]
    OBVIOUS
  <2>1. S # {}
    BY FS_EmptySet
  <2>2. Min(S) \in S /\ \A y \in S : Min(S) =< y
    BY <2>1, MinInSet
  <2> DEFINE least == Min(S)
             rest == S \ {least}
  <2> HIDE DEF least
  <2>3. least \in S /\ \A y \in S : least =< y
    BY <2>2 DEF least
  <2>4. IsFiniteSet(rest) /\ Cardinality(rest) = n /\ rest \in SUBSET Nat
    <3>1. IsFiniteSet(rest) /\ Cardinality(rest) = Cardinality(S) - 1
      BY <2>3, FS_RemoveElement
    <3>2. rest \in SUBSET Nat
      OBVIOUS
    <3> HIDE DEF rest
    <3>3. Cardinality(S) - 1 = n
      OBVIOUS
    <3> QED BY <3>1, <3>2, <3>3
  <2>5. PICK q \in [1 .. n -> rest] : \A i, j \in 1 .. n : i < j => q[i] < q[j]
    <3>1. Listed(n)
      BY <1>2
    <3> HIDE DEF rest
    <3> QED BY <3>1, <2>4
  <2> DEFINE longer == [i \in 1 .. n + 1 |-> IF i = 1 THEN least ELSE q[i - 1]]
  <2>6. \A i \in 1 .. n + 1 : i # 1 => i - 1 \in 1 .. n /\ q[i - 1] \in rest
    OBVIOUS
  <2>7. longer \in [1 .. n + 1 -> S]
    BY <2>3, <2>6
  <2>8. ASSUME NEW i \in 1 .. n + 1, NEW j \in 1 .. n + 1, i < j
        PROVE  longer[i] < longer[j]
    <3>1. j # 1 /\ q[j - 1] \in rest /\ longer[j] = q[j - 1]
      BY <2>6, <2>8
    <3>2. CASE i = 1
      <4>1. longer[i] = least /\ q[j - 1] \in Nat /\ least \in Nat
            /\ least =< q[j - 1] /\ q[j - 1] # least
        BY <3>1, <3>2, <2>3
      <4> QED BY <4>1, <3>1
    <3>3. CASE i # 1
      <4>1. longer[i] = q[i - 1] /\ i - 1 \in 1 .. n /\ j - 1 \in 1 .. n /\ i - 1 < j - 1
        BY <3>3, <2>6, <2>8
      <4> QED BY <4>1, <3>1, <2>5
    <3> QED BY <3>2, <3>3
  <2> QED BY <2>7, <2>8
<1>3. \A n \in Nat : n \in D
  <2> HIDE DEF D
  <2> QED BY <1>1, <1>2, SetInduction
<1> QED BY <1>3

\* InOrder: the groups of a message, the blocks of an account.
LEMMA InOrderProperties ==
    ASSUME NEW S \in SUBSET Nat, IsFiniteSet(S)
    PROVE  /\ Cardinality(S) \in Nat
           /\ InOrder(S) \in [1 .. Cardinality(S) -> S]
           /\ \A i, j \in 1 .. Cardinality(S) : i < j => InOrder(S)[i] < InOrder(S)[j]
<1>1. Cardinality(S) \in Nat
  BY FS_CardinalityType
<1>2. \E q \in [1 .. Cardinality(S) -> S] :
          \A i, j \in 1 .. Cardinality(S) : i < j => q[i] < q[j]
  BY <1>1, OrderExists
<1>3. \E q \in [1 .. Cardinality(S) -> S] : \A i, j \in DOMAIN q : i < j => q[i] < q[j]
  BY <1>2
<1> DEFINE P(q) == \A i, j \in DOMAIN q : i < j => q[i] < q[j]
<1>4. InOrder(S) = CHOOSE q \in [1 .. Cardinality(S) -> S] : P(q)
  BY DEF InOrder
<1>5. InOrder(S) \in [1 .. Cardinality(S) -> S] /\ P(InOrder(S))
  <2> HIDE DEF P
  <2>1. \E q \in [1 .. Cardinality(S) -> S] : P(q)
    BY <1>3 DEF P
  <2> QED BY <2>1, <1>4
<1> QED BY <1>1, <1>5

\* of positions in a sequence there is a first one in the order
LEMMA InOrderOfPositions ==
    ASSUME NEW n \in Nat, NEW S \in SUBSET (1 .. n)
    PROVE  /\ S \in SUBSET Nat /\ IsFiniteSet(S)
           /\ S # {} => InOrder(S)[1] \in S
<1>1. S \in SUBSET Nat
  OBVIOUS
<1>2. IsFiniteSet(S)
  <2>1. IsFiniteSet(1 .. n)
    BY FS_Interval
  <2> QED BY <2>1, FS_Subset
<1>3. ASSUME S # {}
      PROVE  InOrder(S)[1] \in S
  <2>1. Cardinality(S) # 0
    BY <1>2, <1>3, FS_EmptySet
  <2>2. Cardinality(S) \in Nat /\ InOrder(S) \in [1 .. Cardinality(S) -> S]
    BY <1>1, <1>2, InOrderProperties
  <2>3. 1 \in 1 .. Cardinality(S)
    BY <2>1, <2>2
  <2> QED BY <2>2, <2>3
<1> QED BY <1>1, <1>2, <1>3

\* the order leaves none out
LEMMA InOrderOnto ==
    ASSUME NEW S \in SUBSET Nat, IsFiniteSet(S), NEW x \in S
    PROVE  \E i \in 1 .. Cardinality(S) : InOrder(S)[i] = x
<1> DEFINE n == Cardinality(S)
           q == InOrder(S)
<1>1. n \in Nat /\ q \in [1 .. n -> S] /\ \A i, j \in 1 .. n : i < j => q[i] < q[j]
  BY InOrderProperties
<1> HIDE DEF n, q
<1>2. \A i, j \in 1 .. n : q[i] = q[j] => i = j
  <2> SUFFICES ASSUME NEW i \in 1 .. n, NEW j \in 1 .. n, q[i] = q[j], i # j
               PROVE  FALSE
    OBVIOUS
  <2>1. i < j \/ j < i
    BY <1>1
  <2>2. q[i] \in Nat /\ q[j] \in Nat
    BY <1>1
  <2> QED BY <1>1, <2>1, <2>2
<1>3. q \in Injection(1 .. n, S)
  BY <1>1, <1>2 DEF Injection, IsInjective
<1>4. Cardinality(1 .. n) = n
  BY <1>1, FS_Interval
<1>5. q \in Surjection(1 .. n, S)
  BY <1>3, <1>4, FS_Injection DEF n
<1> QED BY <1>5 DEF Surjection, n, q

\* and there is one order only
Enumerates(q, n, S) ==
    /\ q \in [1 .. n -> S]
    /\ \A i, j \in 1 .. n : i < j => q[i] < q[j]
    /\ \A x \in S : \E i \in 1 .. n : q[i] = x

LEMMA OrderUnique ==
    ASSUME NEW S \in SUBSET Nat, NEW m \in Nat, NEW n \in Nat, NEW q, NEW r,
           Enumerates(q, m, S), Enumerates(r, n, S)
    PROVE  m = n /\ q = r
<1>0. /\ q \in [1 .. m -> S] /\ r \in [1 .. n -> S]
      /\ \A i, j \in 1 .. m : i < j => q[i] < q[j]
      /\ \A x \in S : \E i \in 1 .. m : q[i] = x
      /\ \A i, j \in 1 .. n : i < j => r[i] < r[j]
      /\ \A x \in S : \E i \in 1 .. n : r[i] = x
  BY DEF Enumerates
<1> DEFINE D == {k \in Nat : (k \in 1 .. m) # (k \in 1 .. n) \/ (k \in 1 .. m /\ q[k] # r[k])}
<1>1. D = {}
  <2> SUFFICES ASSUME D # {} PROVE FALSE
    OBVIOUS
  <2>0. Min(D) \in D /\ \A y \in D : Min(D) =< y
    <3>1. D \in SUBSET Nat
      OBVIOUS
    <3> HIDE DEF D
    <3> QED BY <1>0, <3>1, MinInSet
  <2> PICK k \in D : \A y \in D : k =< y
    BY <1>0, <2>0
  <2>1. \A j \in Nat : j < k => (j \in 1 .. m <=> j \in 1 .. n) /\ (j \in 1 .. m => q[j] = r[j])
    OBVIOUS
  <2>2. k \in Nat
    OBVIOUS
  <2>3. CASE k \in 1 .. m /\ k \notin 1 .. n
    <3>1. PICK j \in 1 .. n : r[j] = q[k]
      BY <1>0, <2>3
    <3>2. j < k /\ j \in 1 .. m
      BY <1>0, <2>1, <2>2, <2>3
    <3>3. q[j] = r[j]
      BY <1>0, <2>1, <2>2, <3>2
    <3>4. q[j] < q[k] /\ q[j] \in Nat
      BY <1>0, <2>3, <3>2
    <3> QED BY <1>0, <3>1, <3>3, <3>4
  <2>4. CASE k \in 1 .. n /\ k \notin 1 .. m
    <3>1. PICK j \in 1 .. m : q[j] = r[k]
      BY <1>0, <2>4
    <3>2. j < k /\ j \in 1 .. n
      BY <1>0, <2>1, <2>2, <2>4
    <3>3. q[j] = r[j]
      BY <1>0, <2>1, <2>2, <3>2
    <3>4. r[j] < r[k] /\ r[j] \in Nat
      BY <1>0, <2>4, <3>2
    <3> QED BY <1>0, <3>1, <3>3, <3>4
  <2>5. CASE k \in 1 .. m /\ k \in 1 .. n /\ q[k] # r[k]
    <3>1. q[k] \in S /\ r[k] \in S /\ q[k] \in Nat /\ r[k] \in Nat
      BY <1>0, <2>5
    <3>2. CASE q[k] < r[k]
      <4>1. PICK j \in 1 .. n : r[j] = q[k]
        BY <1>0, <3>1
      <4>2. j < k
        BY <1>0, <3>1, <3>2, <4>1, <2>5
      <4>3. j \in 1 .. m /\ q[j] = r[j] /\ q[j] < q[k]
        BY <1>0, <2>1, <2>5, <4>2
      <4> QED BY <1>0, <3>1, <4>1, <4>3
    <3>3. CASE r[k] < q[k]
      <4>1. PICK j \in 1 .. m : q[j] = r[k]
        BY <1>0, <3>1
      <4>2. j < k
        BY <1>0, <3>1, <3>3, <4>1, <2>5
      <4>3. j \in 1 .. n /\ q[j] = r[j] /\ r[j] < r[k]
        BY <1>0, <2>1, <2>5, <4>2
      <4> QED BY <1>0, <3>1, <4>1, <4>3
    <3> QED BY <1>0, <2>5, <3>1, <3>2, <3>3
  <2> QED BY <1>0, <2>3, <2>4, <2>5
<1>2. \A k \in Nat : (k \in 1 .. m <=> k \in 1 .. n) /\ (k \in 1 .. m => q[k] = r[k])
  BY <1>1
<1>3. m = n
  <2>1. m > n => FALSE
    BY <1>2
  <2>2. n > m => FALSE
    BY <1>2
  <2> QED BY <1>0, <2>1, <2>2
<1> QED BY <1>0, <1>2, <1>3

-----------------------------------------------------------------------------
(* Sequences put together                                                  *)

\* FlattenSeq: the sequences are appended one after the other.
LEMMA FlattenSteps ==
    ASSUME NEW T, NEW seqs \in Seq(Seq(T)), Len(seqs) # 0
    PROVE  \E f \in [1 .. Len(seqs) -> Seq(T)] :
              /\ f[1] = seqs[1]
              /\ \A i \in 2 .. Len(seqs) : f[i] = f[i - 1] \o seqs[i]
              /\ FlattenSeq(seqs) = f[Len(seqs)]
<1> DEFINE n == Len(seqs)
           Steps(f, k) == \A i \in 1 .. k : f[i] = IF i = 1 THEN seqs[i] ELSE f[i - 1] \o seqs[i]
           Good(k) == k = 0 \/ k > n \/ \E f \in [1 .. k -> Seq(T)] : Steps(f, k)
           D == {k \in Nat : Good(k)}
<1>1. n \in Nat \ {0} /\ \A i \in 1 .. n : seqs[i] \in Seq(T)
  OBVIOUS
<1>2. 0 \in D
  OBVIOUS
<1>3. ASSUME NEW k \in Nat, k \in D
      PROVE  k + 1 \in D
  <2>1. CASE k + 1 > n
    BY <2>1
  <2>2. CASE k = 0 /\ 1 <= n
    <3> DEFINE f == [i \in 1 .. 1 |-> seqs[i]]
    <3>1. f \in [1 .. 1 -> Seq(T)]
      BY <1>1, <2>2
    <3>2. Steps(f, 1)
      OBVIOUS
    <3> HIDE DEF f, Steps
    <3>3. Good(1)
      BY <3>1, <3>2
    <3>4. k + 1 = 1
      BY <2>2
    <3> HIDE DEF Good
    <3> QED BY <3>3, <3>4
  <2>3. CASE k # 0 /\ k + 1 <= n
    <3>0. \E f \in [1 .. k -> Seq(T)] : Steps(f, k)
      <4> HIDE DEF Steps
      <4>1. Good(k)
        BY <1>3
      <4>2. ~(k > n)
        BY <1>1, <2>3
      <4> QED BY <4>1, <4>2, <2>3
    <3>1. PICK f \in [1 .. k -> Seq(T)] : Steps(f, k)
      BY <3>0
    <3> DEFINE g == [i \in 1 .. k + 1 |-> IF i = k + 1 THEN f[k] \o seqs[k + 1] ELSE f[i]]
    <3>2. f[k] \in Seq(T) /\ seqs[k + 1] \in Seq(T)
      BY <1>1, <2>3
    <3>3. f[k] \o seqs[k + 1] \in Seq(T)
      BY <3>2, ConcatProperties
    <3>4. g \in [1 .. k + 1 -> Seq(T)]
      BY <3>3
    <3>5. Steps(g, k + 1)
      <4> SUFFICES ASSUME NEW i \in 1 .. k + 1
                   PROVE  g[i] = IF i = 1 THEN seqs[i] ELSE g[i - 1] \o seqs[i]
        OBVIOUS
      <4>1. CASE i = k + 1
        <5>1. i # 1 /\ i - 1 = k /\ k \in 1 .. k + 1 /\ k # k + 1
          BY <4>1, <2>3
        <5>2. g[i] = f[k] \o seqs[k + 1] /\ g[i - 1] = f[k]
          BY <4>1, <5>1
        <5> HIDE DEF g
        <5> QED BY <4>1, <5>1, <5>2
      <4>2. CASE i # k + 1
        <5>1. i \in 1 .. k /\ g[i] = f[i]
          BY <4>2
        <5>2. i # 1 => i - 1 \in 1 .. k + 1 /\ i - 1 # k + 1 /\ g[i - 1] = f[i - 1]
          BY <4>2
        <5>3. f[i] = IF i = 1 THEN seqs[i] ELSE f[i - 1] \o seqs[i]
          BY <3>1, <5>1
        <5> HIDE DEF g
        <5> QED BY <5>1, <5>2, <5>3
      <4> QED BY <4>1, <4>2
    <3> HIDE DEF g, Steps
    <3> QED BY <3>4, <3>5
  <2>4. k = 0 => 1 <= n
    BY <1>1
  <2> HIDE DEF D
  <2> QED BY <1>1, <2>1, <2>2, <2>3, <2>4
<1>4. n \in D
  <2>1. \A k \in Nat : k \in D
    <3> HIDE DEF D
    <3> QED BY <1>2, <1>3, SetInduction
  <2> QED BY <1>1, <2>1
<1>5. PICK f \in [1 .. n -> Seq(T)] : Steps(f, n)
  BY <1>1, <1>4
<1> DEFINE Equation(h) == h = [i \in 1 .. n |-> IF i = 1 THEN seqs[i] ELSE h[i - 1] \o seqs[i]]
           flatten == CHOOSE h : Equation(h)
<1>6. Equation(f)
  BY <1>5
<1>7. Equation(flatten)
  <2> HIDE DEF Equation
  <2> QED BY <1>6
<1>8. FlattenSeq(seqs) = flatten[n]
  BY <1>1 DEF FlattenSeq
<1> HIDE DEF flatten
<1>9. \A i \in 1 .. n : flatten[i] = IF i = 1 THEN seqs[i] ELSE flatten[i - 1] \o seqs[i]
  BY <1>7
<1>10. \A i \in 1 .. n : flatten[i] = f[i]
  <2> DEFINE E == {k \in Nat : k \in 1 .. n => flatten[k] = f[k]}
  <2>1. 0 \in E
    OBVIOUS
  <2>2. ASSUME NEW k \in Nat, k \in E
        PROVE  k + 1 \in E
    <3> SUFFICES ASSUME k + 1 \in 1 .. n PROVE flatten[k + 1] = f[k + 1]
      OBVIOUS
    <3>1. flatten[k + 1] = IF k + 1 = 1 THEN seqs[k + 1] ELSE flatten[(k + 1) - 1] \o seqs[k + 1]
      BY <1>9
    <3>2. f[k + 1] = IF k + 1 = 1 THEN seqs[k + 1] ELSE f[(k + 1) - 1] \o seqs[k + 1]
      BY <1>5
    <3>3. (k + 1) - 1 = k /\ (k + 1 # 1 => k \in 1 .. n)
      OBVIOUS
    <3>4. k + 1 # 1 => flatten[k] = f[k]
      BY <2>2, <3>3
    <3> QED BY <3>1, <3>2, <3>3, <3>4
  <2>3. \A k \in Nat : k \in E
    <3> HIDE DEF E
    <3> QED BY <2>1, <2>2, SetInduction
  <2> QED BY <2>3
<1>11. f[1] = seqs[1] /\ \A i \in 2 .. n : f[i] = f[i - 1] \o seqs[i]
  <2>1. f[1] = seqs[1]
    <3>1. 1 \in 1 .. n
      BY <1>1
    <3>2. f[1] = IF 1 = 1 THEN seqs[1] ELSE f[1 - 1] \o seqs[1]
      BY <3>1, <1>5
    <3> QED BY <3>2
  <2>2. ASSUME NEW i \in 2 .. n
        PROVE  f[i] = f[i - 1] \o seqs[i]
    <3>1. i \in 1 .. n /\ i # 1
      OBVIOUS
    <3> QED BY <3>1, <1>5
  <2> QED BY <2>1, <2>2
<1>12. n \in 1 .. n
  BY <1>1
<1>13. FlattenSeq(seqs) = f[n]
  BY <1>8, <1>10, <1>12
<1> HIDE DEF Steps
<1> QED BY <1>11, <1>13

LEMMA AsSequence ==
    ASSUME NEW S, NEW n \in Nat, NEW f \in [1 .. n -> S]
    PROVE  f \in Seq(S) /\ Len(f) = n
  OBVIOUS

\* Lists of positions that follow each other, put together, are the positions in
\* order; what is read at them, put together, is read in that order.
ListsFollow(P, m, N, S) ==
    /\ P \in [1 .. m -> Seq(1 .. N)]
    /\ \A i \in 1 .. m : \A j, k \in 1 .. Len(P[i]) : j < k => P[i][j] < P[i][k]
    /\ \A i, j \in 1 .. m : i < j =>
          \A k \in 1 .. Len(P[i]), l \in 1 .. Len(P[j]) : P[i][k] < P[j][l]
    /\ S = {x \in 1 .. N : \E i \in 1 .. m : \E j \in 1 .. Len(P[i]) : P[i][j] = x}

InLists(at, P, m) == [i \in 1 .. m |-> [j \in 1 .. Len(P[i]) |-> at[P[i][j]]]]
ReadInOrder(at, S) == [j \in 1 .. Cardinality(S) |-> at[InOrder(S)[j]]]

LEMMA FlattenInOrder ==
    ASSUME NEW N \in Nat, NEW m \in Nat \ {0}, NEW P, NEW S, ListsFollow(P, m, N, S), NEW at
    PROVE  FlattenSeq(InLists(at, P, m)) = ReadInOrder(at, S)
<1> SUFFICES ASSUME
           P \in [1 .. m -> Seq(1 .. N)],
           \A i \in 1 .. m : \A j, k \in 1 .. Len(P[i]) : j < k => P[i][j] < P[i][k],
           \A i, j \in 1 .. m : i < j =>
              \A k \in 1 .. Len(P[i]), l \in 1 .. Len(P[j]) : P[i][k] < P[j][l],
           S = {x \in 1 .. N : \E i \in 1 .. m : \E j \in 1 .. Len(P[i]) : P[i][j] = x}
             PROVE  FlattenSeq([i \in 1 .. m |-> [j \in 1 .. Len(P[i]) |-> at[P[i][j]]]])
                      = [j \in 1 .. Cardinality(S) |-> at[InOrder(S)[j]]]
  BY DEF ListsFollow, InLists, ReadInOrder
<1> DEFINE T == {at[x] : x \in 1 .. N}
<1>0. \A x \in 1 .. N : at[x] \in T
  OBVIOUS
<1> HIDE DEF T
<1> DEFINE seqs == [i \in 1 .. m |-> [j \in 1 .. Len(P[i]) |-> at[P[i][j]]]]
           Upto(k) == {x \in 1 .. N : \E i \in 1 .. k : \E j \in 1 .. Len(P[i]) : P[i][j] = x}
<1>1. \A i \in 1 .. m : P[i] \in Seq(1 .. N) /\ Len(P[i]) \in Nat
  OBVIOUS
<1>2. \A i \in 1 .. m : \A j \in 1 .. Len(P[i]) : P[i][j] \in 1 .. N
  BY <1>1
<1>3. /\ seqs \in Seq(Seq(T)) /\ Len(seqs) = m
      /\ \A i \in 1 .. m :
            /\ seqs[i] \in Seq(T) /\ Len(seqs[i]) = Len(P[i])
            /\ \A j \in 1 .. Len(P[i]) : seqs[i][j] = at[P[i][j]]
  <2>1. ASSUME NEW i \in 1 .. m
        PROVE  /\ seqs[i] \in Seq(T) /\ Len(seqs[i]) = Len(P[i])
               /\ \A j \in 1 .. Len(P[i]) : seqs[i][j] = at[P[i][j]]
    <3>1. seqs[i] = [j \in 1 .. Len(P[i]) |-> at[P[i][j]]]
      OBVIOUS
    <3>2. seqs[i] \in [1 .. Len(P[i]) -> T]
      BY <1>0, <1>2, <3>1
    <3>3. Len(P[i]) \in Nat
      BY <1>1
    <3>4. seqs[i] \in Seq(T) /\ Len(seqs[i]) = Len(P[i])
      <4> DEFINE size == Len(P[i])
      <4> HIDE DEF size, seqs
      <4>1. size \in Nat /\ seqs[i] \in [1 .. size -> T]
        BY <3>2, <3>3 DEF size
      <4>2. seqs[i] \in Seq(T) /\ Len(seqs[i]) = size
        BY <4>1, AsSequence
      <4> QED BY <4>2 DEF size
    <3> QED BY <3>1, <3>4
  <2>2. seqs \in [1 .. m -> Seq(T)]
    BY <2>1
  <2> HIDE DEF seqs
  <2> QED BY <2>1, <2>2
<1> HIDE DEF seqs
<1>4. PICK f \in [1 .. m -> Seq(T)] :
         /\ f[1] = seqs[1]
         /\ \A i \in 2 .. m : f[i] = f[i - 1] \o seqs[i]
         /\ FlattenSeq(seqs) = f[m]
  <2>1. Len(seqs) # 0
    BY <1>3
  <2>2. \E f \in [1 .. Len(seqs) -> Seq(T)] :
              /\ f[1] = seqs[1]
              /\ \A i \in 2 .. Len(seqs) : f[i] = f[i - 1] \o seqs[i]
              /\ FlattenSeq(seqs) = f[Len(seqs)]
    BY <1>3, <2>1, FlattenSteps
  <2> QED BY <1>3, <2>2
<1> DEFINE Lists(q, c, k) ==
               /\ \A i \in 1 .. c : q[i] \in Upto(k)
               /\ \A i, j \in 1 .. c : i < j => q[i] < q[j]
               /\ \A x \in Upto(k) : \E i \in 1 .. c : q[i] = x
               /\ Len(f[k]) = c /\ \A i \in 1 .. c : f[k][i] = at[q[i]]
           Listed(k) == \E c \in Nat : \E q \in [1 .. c -> 1 .. N] : Lists(q, c, k)
           E == {k \in Nat : k \in 1 .. m => Listed(k)}
<1>5. 0 \in E
  OBVIOUS
<1>6. ASSUME NEW k \in Nat, k \in E
      PROVE  k + 1 \in E
  <2>0. k \in 1 .. m => Listed(k)
    <3> HIDE DEF Listed
    <3> QED BY <1>6
  <2> SUFFICES ASSUME k + 1 \in 1 .. m PROVE Listed(k + 1)
    <3> HIDE DEF Listed
    <3> QED OBVIOUS
  <2>1. CASE k = 0
    <3> DEFINE c == Len(P[1])
               q == P[1]
    <3>0. 1 \in 1 .. m
      OBVIOUS
    <3>1. c \in Nat /\ q \in [1 .. c -> 1 .. N]
      BY <1>1, <3>0
    <3>2. \A x : x \in Upto(1) <=> \E j \in 1 .. c : q[j] = x
      <4>1. \A i \in 1 .. 1 : i = 1
        OBVIOUS
      <4> QED BY <3>1, <4>1
    <3>3. \A i, j \in 1 .. c : i < j => q[i] < q[j]
      BY <3>0
    <3>4. Len(f[1]) = c /\ \A i \in 1 .. c : f[1][i] = at[q[i]]
      BY <1>3, <1>4, <3>0
    <3>5. Lists(q, c, 1)
      <4> HIDE DEF c, q, Upto
      <4> QED BY <3>2, <3>3, <3>4
    <3> HIDE DEF c, q, Lists
    <3>6. Listed(1)
      BY <3>1, <3>5
    <3>7. k + 1 = 1
      BY <2>1
    <3> HIDE DEF Listed
    <3> QED BY <3>6, <3>7
  <2>2. CASE k # 0
    <3>1. k \in 1 .. m /\ k + 1 \in 2 .. m /\ (k + 1) - 1 = k
      BY <2>2
    <3>2. PICK c \in Nat : \E q \in [1 .. c -> 1 .. N] : Lists(q, c, k)
      BY <1>6, <3>1
    <3>3. PICK q \in [1 .. c -> 1 .. N] : Lists(q, c, k)
      BY <3>2
    <3> DEFINE p == P[k + 1]
               l == Len(p)
               r == [i \in 1 .. c + l |-> IF i <= c THEN q[i] ELSE p[i - c]]
    <3>4. l \in Nat /\ \A i \in 1 .. l : p[i] \in 1 .. N
      BY <1>1, <1>2
    <3>5. \A i, j \in 1 .. l : i < j => p[i] < p[j]
      OBVIOUS
    <3>6. \A x : x \in Upto(k + 1) <=> x \in Upto(k) \/ \E j \in 1 .. l : p[j] = x
      <4>1. /\ \A i \in 1 .. k : i \in 1 .. k + 1
            /\ \A i \in 1 .. k + 1 : i \in 1 .. k \/ i = k + 1
            /\ k + 1 \in 1 .. k + 1
        OBVIOUS
      <4>2. ASSUME NEW x \in Upto(k + 1)
            PROVE  x \in Upto(k) \/ \E j \in 1 .. l : p[j] = x
        BY <4>1
      <4>3. ASSUME NEW x \in Upto(k)
            PROVE  x \in Upto(k + 1)
        BY <4>1
      <4>4. ASSUME NEW j \in 1 .. l
            PROVE  p[j] \in Upto(k + 1)
        BY <3>4, <4>1
      <4> QED BY <4>2, <4>3, <4>4
    <3>7. \A x \in Upto(k) : \A j \in 1 .. l : x < p[j]
      <4> SUFFICES ASSUME NEW x \in Upto(k), NEW j \in 1 .. l
                   PROVE  x < p[j]
        OBVIOUS
      <4>1. PICK i \in 1 .. k : \E h \in 1 .. Len(P[i]) : P[i][h] = x
        OBVIOUS
      <4>2. PICK h \in 1 .. Len(P[i]) : P[i][h] = x
        BY <4>1
      <4>3. i \in 1 .. m /\ k + 1 \in 1 .. m /\ i < k + 1
        BY <3>1
      <4>4. \A y \in 1 .. Len(P[i]), z \in 1 .. Len(P[k + 1]) : P[i][y] < P[k + 1][z]
        <5> HIDE DEF Upto, l, p
        <5> QED BY <4>3
      <4> HIDE DEF Upto
      <4> QED BY <4>2, <4>4
    <3>8. f[k + 1] = f[k] \o seqs[k + 1] /\ f[k] \in Seq(T) /\ seqs[k + 1] \in Seq(T)
      BY <1>3, <1>4, <3>1
    <3>9. Len(seqs[k + 1]) = l /\ \A j \in 1 .. l : seqs[k + 1][j] = at[p[j]]
      BY <1>3
    <3> HIDE DEF Upto, p, l
    <3>10. /\ Len(f[k]) = c
           /\ \A i \in 1 .. c : f[k][i] = at[q[i]] /\ q[i] \in Upto(k)
           /\ \A i, j \in 1 .. c : i < j => q[i] < q[j]
           /\ \A x \in Upto(k) : \E i \in 1 .. c : q[i] = x
      BY <3>3
    <3> HIDE DEF Lists
    <3>11. /\ \A i \in 1 .. c : i \in 1 .. c + l /\ i <= c /\ r[i] = q[i]
           /\ \A j \in 1 .. l : c + j \in 1 .. c + l /\ ~(c + j <= c) /\ r[c + j] = p[j]
           /\ \A i \in 1 .. c + l : i \in 1 .. c \/ \E j \in 1 .. l : i = c + j
      <4>1. \A j \in 1 .. l : c + j \in 1 .. c + l /\ ~(c + j <= c) /\ (c + j) - c = j
        BY <3>4
      <4>2. \A i \in 1 .. c : i \in 1 .. c + l /\ i <= c
        BY <3>4
      <4>3. \A i \in 1 .. c + l : i \in 1 .. c \/ (i - c \in 1 .. l /\ i = c + (i - c))
        BY <3>4
      <4> QED BY <4>1, <4>2, <4>3
    <3>12. r \in [1 .. c + l -> 1 .. N] /\ c + l \in Nat
      <4>1. \A i \in 1 .. c + l : ~(i <= c) => i - c \in 1 .. l
        BY <3>4
      <4>2. \A i \in 1 .. c + l : i <= c => i \in 1 .. c
        BY <3>4
      <4> QED BY <3>4, <4>1, <4>2
    <3>13. \A i \in 1 .. c + l : r[i] \in Upto(k + 1)
      <4> HIDE DEF r
      <4> SUFFICES ASSUME NEW i \in 1 .. c + l
                   PROVE  r[i] \in Upto(k + 1)
        OBVIOUS
      <4>1. CASE i \in 1 .. c
        <5>1. r[i] = q[i] /\ q[i] \in Upto(k)
          BY <3>10, <3>11, <4>1
        <5> QED BY <3>6, <5>1
      <4>2. CASE i \notin 1 .. c
        <5>1. PICK j \in 1 .. l : i = c + j
          BY <3>11, <4>2
        <5>2. r[i] = p[j]
          BY <3>11, <5>1
        <5> QED BY <3>6, <5>2
      <4> QED BY <4>1, <4>2
    <3>14. ASSUME NEW i \in 1 .. c + l, NEW j \in 1 .. c + l, i < j
           PROVE  r[i] < r[j]
      <4> HIDE DEF r
      <4>1. CASE i \in 1 .. c /\ j \in 1 .. c
        BY <3>10, <3>11, <3>14, <4>1
      <4>2. CASE i \in 1 .. c /\ j \notin 1 .. c
        <5>1. PICK y \in 1 .. l : j = c + y
          BY <3>11, <4>2
        <5>2. r[j] = p[y]
          BY <3>11, <5>1
        <5>3. r[i] = q[i] /\ q[i] \in Upto(k)
          BY <3>10, <3>11, <4>2
        <5> QED BY <3>7, <5>2, <5>3
      <4>3. CASE i \notin 1 .. c
        <5>1. PICK x \in 1 .. l : i = c + x
          BY <3>11, <4>3
        <5>2. j \notin 1 .. c
          BY <3>4, <3>14, <4>3
        <5>3. PICK y \in 1 .. l : j = c + y
          BY <3>11, <5>2
        <5>4. x < y
          BY <3>4, <3>14, <5>1, <5>3
        <5> QED BY <3>5, <3>11, <5>1, <5>3, <5>4
      <4> QED BY <4>1, <4>2, <4>3
    <3>15. \A x \in Upto(k + 1) : \E i \in 1 .. c + l : r[i] = x
      <4> SUFFICES ASSUME NEW x \in Upto(k + 1)
                   PROVE  \E i \in 1 .. c + l : r[i] = x
        OBVIOUS
      <4> HIDE DEF r
      <4>1. CASE x \in Upto(k)
        <5>1. PICK i \in 1 .. c : q[i] = x
          BY <3>10, <4>1
        <5> QED BY <3>11, <5>1
      <4>2. CASE \E j \in 1 .. l : p[j] = x
        <5>1. PICK j \in 1 .. l : p[j] = x
          BY <4>2
        <5>2. c + j \in 1 .. c + l /\ r[c + j] = x
          BY <3>11, <5>1
        <5> QED BY <5>2
      <4> QED BY <3>6, <4>1, <4>2
    <3>16. /\ Len(f[k + 1]) = c + l
           /\ \A i \in 1 .. c + l :
                 f[k + 1][i] = IF i <= c THEN f[k][i] ELSE seqs[k + 1][i - c]
      <4> DEFINE a == f[k]
                 b == seqs[k + 1]
      <4>1. a \in Seq(T) /\ b \in Seq(T) /\ Len(a) = c /\ Len(b) = l /\ f[k + 1] = a \o b
        BY <3>8, <3>9, <3>10
      <4> HIDE DEF a, b
      <4>2. /\ Len(a \o b) = Len(a) + Len(b)
            /\ \A i \in 1 .. Len(a) + Len(b) :
                  (a \o b)[i] = IF i <= Len(a) THEN a[i] ELSE b[i - Len(a)]
        BY <4>1, ConcatProperties
      <4>3. /\ Len(f[k + 1]) = c + l
            /\ \A i \in 1 .. c + l : f[k + 1][i] = IF i <= c THEN a[i] ELSE b[i - c]
        BY <4>1, <4>2
      <4> QED BY <4>3 DEF a, b
    <3>17. \A i \in 1 .. c + l : f[k + 1][i] = at[r[i]]
      <4> SUFFICES ASSUME NEW i \in 1 .. c + l PROVE f[k + 1][i] = at[r[i]]
        OBVIOUS
      <4> HIDE DEF r
      <4>1. CASE i \in 1 .. c
        BY <3>10, <3>11, <3>16, <4>1
      <4>2. CASE i \notin 1 .. c
        <5>1. PICK j \in 1 .. l : i = c + j
          BY <3>11, <4>2
        <5>2. ~(i <= c) /\ i - c = j
          BY <3>4, <3>11, <5>1
        <5>3. f[k + 1][i] = seqs[k + 1][j]
          BY <3>16, <5>2
        <5> QED BY <3>9, <3>11, <5>1, <5>3
      <4> QED BY <4>1, <4>2
    <3>18. Lists(r, c + l, k + 1)
      <4> HIDE DEF r
      <4> QED BY <3>13, <3>14, <3>15, <3>16, <3>17 DEF Lists
    <3> HIDE DEF r
    <3> QED BY <3>12, <3>18
  <2> QED BY <2>1, <2>2
<1>7. m \in E
  <2>1. \A k \in Nat : k \in E
    <3> HIDE DEF E
    <3> QED BY <1>5, <1>6, SetInduction
  <2> QED BY <2>1
<1>8. PICK c \in Nat : \E q \in [1 .. c -> 1 .. N] : Lists(q, c, m)
  <2>1. m \in 1 .. m
    OBVIOUS
  <2>2. Listed(m)
    <3> HIDE DEF Listed
    <3> QED BY <1>7, <2>1
  <2> HIDE DEF Lists
  <2> QED BY <2>2
<1>9. PICK q \in [1 .. c -> 1 .. N] : Lists(q, c, m)
  BY <1>8
<1>10. S = Upto(m)
  OBVIOUS
<1> HIDE DEF Upto
<1>11. /\ q \in [1 .. c -> S] /\ \A i, j \in 1 .. c : i < j => q[i] < q[j]
       /\ \A x \in S : \E i \in 1 .. c : q[i] = x
       /\ Len(f[m]) = c /\ \A i \in 1 .. c : f[m][i] = at[q[i]]
  BY <1>9, <1>10
<1> HIDE DEF Lists
<1>12. S \in SUBSET (1 .. N) /\ S \in SUBSET Nat /\ IsFiniteSet(S)
  <2>1. S \in SUBSET (1 .. N)
    OBVIOUS
  <2> QED BY <2>1, InOrderOfPositions
<1>13. c = Cardinality(S) /\ q = InOrder(S)
  <2> DEFINE n == Cardinality(S)
             r == InOrder(S)
  <2>1. n \in Nat /\ r \in [1 .. n -> S] /\ \A i, j \in 1 .. n : i < j => r[i] < r[j]
    BY <1>12, InOrderProperties
  <2>2. \A x \in S : \E i \in 1 .. n : r[i] = x
    BY <1>12, InOrderOnto
  <2> HIDE DEF n, r
  <2>3. c = n /\ q = r
    <3>1. Enumerates(q, c, S) /\ Enumerates(r, n, S)
      BY <1>11, <2>1, <2>2 DEF Enumerates
    <3> QED BY <1>12, <2>1, <3>1, OrderUnique
  <2> QED BY <2>3 DEF n, r
<1>14. f[m] = [j \in 1 .. c |-> at[q[j]]]
  <2> DEFINE g == f[m]
  <2>1. g \in Seq(T) /\ Len(g) = c /\ \A i \in 1 .. c : g[i] = at[q[i]]
    <3>1. m \in 1 .. m
      OBVIOUS
    <3> QED BY <1>11, <3>1
  <2> HIDE DEF g
  <2>2. g = [j \in 1 .. c |-> g[j]]
    BY <2>1
  <2>3. [j \in 1 .. c |-> g[j]] = [j \in 1 .. c |-> at[q[j]]]
    BY <2>1
  <2> QED BY <2>2, <2>3 DEF g
<1> QED BY <1>4, <1>13, <1>14 DEF seqs

=============================================================================
