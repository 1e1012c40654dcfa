------------------------ MODULE GroupMessagingProofs ------------------------
(***************************************************************************)
(* Theorems about GroupMessaging, for any number of devices, groups, sends *)
(* and messages and any limits.                                            *)
(***************************************************************************)
EXTENDS GroupMessaging, SequenceLemmas, FiniteSetTheorems

-----------------------------------------------------------------------------
(* The operations of a sender key record                                   *)

\* No message key is kept twice, and the kept ones lie before the chain key.
SkippedBehind(s) ==
    /\ \A i, j \in DOMAIN s.skipped : s.skipped[i] = s.skipped[j] => i = j
    /\ \A i \in DOMAIN s.skipped : s.skipped[i] < s.iteration

\* The key of that iteration cannot be derived from the state any more.
Spent(s, iteration) == iteration < s.iteration /\ ~Contains(s.skipped, iteration)

-----------------------------------------------------------------------------
(* One state                                                               *)

LEMMA StateFields ==
    ASSUME NEW s \in SenderKeyState
    PROVE  /\ s.chain \in Chain /\ s.iteration \in Iteration /\ s.iteration \in Nat
           /\ s.skipped \in Seq(Iteration)
           /\ Len(s.skipped) \in Nat /\ DOMAIN s.skipped = 1 .. Len(s.skipped)
           /\ \A i \in 1 .. Len(s.skipped) : s.skipped[i] \in Iteration
<1>1. s.chain \in Chain /\ s.iteration \in Iteration /\ s.skipped \in Seq(Iteration)
  BY DEF SenderKeyState
<1> QED
  BY <1>1, SenderKeyLimits DEF Iteration

LEMMA NewStateProperties ==
    ASSUME NEW chain \in Chain, NEW iteration \in Iteration
    PROVE  /\ NewState(chain, iteration) \in SenderKeyState
           /\ NewState(chain, iteration).chain = chain
           /\ NewState(chain, iteration).iteration = iteration
           /\ NewState(chain, iteration).skipped = <<>>
           /\ SkippedBehind(NewState(chain, iteration))
  BY DEF NewState, SenderKeyState, SkippedBehind

\* add_sender_message_key: what is kept was kept before or is one of the skipped
\* iterations, and there is never more than the limit.
LEMMA SkipIterationsProperties ==
    ASSUME NEW skipped \in Seq(Iteration), NEW from \in Iteration, NEW to \in Iteration,
           from <= to
    PROVE  /\ SkipIterations(skipped, from, to) \in Seq(Iteration)
           /\ Len(SkipIterations(skipped, from, to)) <= MAX_MESSAGE_KEYS
           /\ \A i \in DOMAIN SkipIterations(skipped, from, to) :
                 \/ SkipIterations(skipped, from, to)[i] \in from .. to - 1
                 \/ \E j \in DOMAIN skipped : SkipIterations(skipped, from, to)[i] = skipped[j]
           /\ (/\ \A i, j \in DOMAIN skipped : skipped[i] = skipped[j] => i = j
               /\ \A i \in DOMAIN skipped : skipped[i] < from)
              => \A i, j \in DOMAIN SkipIterations(skipped, from, to) :
                    SkipIterations(skipped, from, to)[i] = SkipIterations(skipped, from, to)[j]
                        => i = j
<1> DEFINE more == [i \in 1 .. to - from |-> from + i - 1]
           kept == skipped \o more
           cut == Len(kept) - MAX_MESSAGE_KEYS
<1>0. /\ from \in Nat /\ to \in Nat /\ to - from \in Nat
      /\ MAX_MESSAGE_KEYS \in Nat \ {0} /\ MAX_ITERATION \in Nat
  BY SenderKeyLimits DEF Iteration
<1>1. \A i \in 1 .. to - from : from + i - 1 \in Iteration
  BY <1>0 DEF Iteration
<1>2. more \in Seq(Iteration) /\ Len(more) = to - from
  <2>1. more \in [1 .. to - from -> Iteration]
    BY <1>1
  <2>2. ASSUME NEW k \in Nat, NEW f \in [1 .. k -> Iteration]
        PROVE  f \in Seq(Iteration) /\ Len(f) = k
    OBVIOUS
  <2> HIDE DEF more
  <2> QED BY <2>1, <2>2, <1>0
<1>3. \A i \in 1 .. to - from : more[i] = from + i - 1
  OBVIOUS
<1> HIDE DEF more
<1>4. /\ kept \in Seq(Iteration) /\ Len(kept) = Len(skipped) + (to - from)
      /\ \A i \in 1 .. Len(kept) :
            kept[i] = IF i <= Len(skipped) THEN skipped[i] ELSE more[i - Len(skipped)]
  BY <1>2, ConcatProperties
<1>5. Len(skipped) \in Nat /\ DOMAIN skipped = 1 .. Len(skipped)
  OBVIOUS
<1>6. \A i \in 1 .. Len(kept) :
         \/ i <= Len(skipped) /\ kept[i] = skipped[i]
         \/ i > Len(skipped) /\ kept[i] = from + (i - Len(skipped)) - 1
  <2> SUFFICES ASSUME NEW i \in 1 .. Len(kept), i > Len(skipped)
               PROVE  kept[i] = from + (i - Len(skipped)) - 1
    BY <1>4, <1>5
  <2>1. i - Len(skipped) \in 1 .. to - from
    BY <1>0, <1>4, <1>5
  <2> QED BY <2>1, <1>3, <1>4, <1>5
<1>7. Len(kept) \in Nat /\ \A i \in 1 .. Len(kept) : kept[i] \in Iteration
  BY <1>4
<1> HIDE DEF kept
<1> DEFINE r == SkipIterations(skipped, from, to)
<1>8. \E n \in Nat :
         /\ r \in Seq(Iteration) /\ Len(r) <= MAX_MESSAGE_KEYS /\ Len(r) + n = Len(kept)
         /\ \A i \in 1 .. Len(r) : r[i] = kept[i + n]
  <2>1. CASE Len(kept) > MAX_MESSAGE_KEYS
    <3> DEFINE last == SubSeq(kept, cut + 1, Len(kept))
    <3>1. r = last
      BY <2>1 DEF SkipIterations, kept, more
    <3>2. cut + 1 \in Int /\ Len(kept) \in Int /\ cut \in Nat
      BY <2>1, <1>0, <1>7
    <3>3. \A i \in cut + 1 .. Len(kept) : kept[i] \in Iteration
      BY <3>2, <1>7
    <3> HIDE DEF cut, r
    <3>4. /\ last \in Seq(Iteration)
          /\ Len(last) = IF cut + 1 <= Len(kept) THEN Len(kept) - (cut + 1) + 1 ELSE 0
          /\ \A i \in 1 .. Len(kept) - (cut + 1) + 1 : last[i] = kept[(cut + 1) + i - 1]
      BY <3>2, <3>3, SubSeqProperties
    <3> HIDE DEF last
    <3>5. Len(last) = MAX_MESSAGE_KEYS /\ Len(last) + cut = Len(kept)
      BY <3>2, <3>4, <2>1, <1>0, <1>7 DEF cut
    <3>6. \A i \in 1 .. Len(last) : last[i] = kept[i + cut]
      BY <3>2, <3>4, <3>5, <1>0, <1>7
    <3>7. /\ r \in Seq(Iteration) /\ Len(r) <= MAX_MESSAGE_KEYS /\ Len(r) + cut = Len(kept)
          /\ \A i \in 1 .. Len(r) : r[i] = kept[i + cut]
      BY <3>1, <3>4, <3>5, <3>6, <1>0
    <3> QED BY <3>2, <3>7, Zenon
  <2>2. CASE ~(Len(kept) > MAX_MESSAGE_KEYS)
    <3>1. r = kept
      BY <2>2 DEF SkipIterations, kept, more
    <3> HIDE DEF r
    <3>2. /\ r \in Seq(Iteration) /\ Len(r) <= MAX_MESSAGE_KEYS /\ Len(r) + 0 = Len(kept)
          /\ \A i \in 1 .. Len(r) : r[i] = kept[i + 0]
      BY <3>1, <2>2, <1>0, <1>4, <1>7
    <3>3. 0 \in Nat
      OBVIOUS
    <3> QED BY <3>2, <3>3, Zenon
  <2> QED BY <2>1, <2>2
<1> HIDE DEF r
<1>9. PICK n \in Nat :
         /\ r \in Seq(Iteration) /\ Len(r) <= MAX_MESSAGE_KEYS /\ Len(r) + n = Len(kept)
         /\ \A i \in 1 .. Len(r) : r[i] = kept[i + n]
  BY <1>8
<1>10. Len(r) \in Nat /\ DOMAIN r = 1 .. Len(r)
  BY <1>9
<1>11. ASSUME NEW i \in DOMAIN r
       PROVE  i + n \in 1 .. Len(kept) /\ r[i] = kept[i + n]
  BY <1>7, <1>9, <1>10
<1>12. ASSUME NEW i \in DOMAIN r
       PROVE  r[i] \in from .. to - 1 \/ \E j \in DOMAIN skipped : r[i] = skipped[j]
  <2>1. CASE i + n <= Len(skipped)
    BY <2>1, <1>5, <1>6, <1>11, <1>10
  <2>2. CASE i + n > Len(skipped)
    <3>1. r[i] = from + ((i + n) - Len(skipped)) - 1
      BY <2>2, <1>6, <1>11
    <3>2. (i + n) - Len(skipped) \in 1 .. to - from
      BY <2>2, <1>0, <1>4, <1>5, <1>11, <1>10
    <3> QED BY <3>1, <3>2, <1>0
  <2> QED BY <2>1, <2>2, <1>5, <1>10
<1>13. ASSUME \A i, j \in DOMAIN skipped : skipped[i] = skipped[j] => i = j,
              \A i \in DOMAIN skipped : skipped[i] < from,
              NEW i \in DOMAIN r, NEW j \in DOMAIN r, r[i] = r[j]
       PROVE  i = j
  <2>1. /\ i + n \in 1 .. Len(kept) /\ r[i] = kept[i + n]
        /\ j + n \in 1 .. Len(kept) /\ r[j] = kept[j + n]
    BY <1>11
  <2>2. \A k \in 1 .. Len(skipped) : skipped[k] \in Nat /\ skipped[k] < from
    <3>1. \A k \in 1 .. Len(skipped) : skipped[k] \in Iteration
      OBVIOUS
    <3> QED BY <3>1, <1>0, <1>13, <1>5 DEF Iteration
  <2>3. ASSUME NEW a \in 1 .. Len(kept), NEW b \in 1 .. Len(kept), kept[a] = kept[b]
        PROVE  a = b
    <3>1. CASE a <= Len(skipped) /\ b <= Len(skipped)
      BY <3>1, <2>3, <1>13, <1>5, <1>6
    <3>2. CASE a > Len(skipped) /\ b > Len(skipped)
      BY <3>2, <2>3, <1>0, <1>5, <1>6
    <3>3. CASE a <= Len(skipped) /\ b > Len(skipped)
      BY <3>3, <2>2, <2>3, <1>0, <1>5, <1>6
    <3>4. CASE a > Len(skipped) /\ b <= Len(skipped)
      BY <3>4, <2>2, <2>3, <1>0, <1>5, <1>6
    <3> QED BY <3>1, <3>2, <3>3, <3>4, <1>5
  <2>4. i + n = j + n
    BY <2>1, <2>3, <1>13
  <2> QED BY <2>4, <1>10
<1> QED
  BY <1>9, <1>12, <1>13 DEF r

\* remove_sender_message_key: the key of that iteration is gone, the others stay.
LEMMA RemoveSkippedProperties ==
    ASSUME NEW skipped \in Seq(Iteration), NEW iteration, Contains(skipped, iteration)
    PROVE  /\ RemoveFirst(skipped, iteration) \in Seq(Iteration)
           /\ Len(RemoveFirst(skipped, iteration)) = Len(skipped) - 1
           /\ \A i \in DOMAIN RemoveFirst(skipped, iteration) :
                 \E j \in DOMAIN skipped : RemoveFirst(skipped, iteration)[i] = skipped[j]
           /\ (\A i, j \in DOMAIN skipped : skipped[i] = skipped[j] => i = j)
              => /\ ~Contains(RemoveFirst(skipped, iteration), iteration)
                 /\ \A i, j \in DOMAIN RemoveFirst(skipped, iteration) :
                       RemoveFirst(skipped, iteration)[i] = RemoveFirst(skipped, iteration)[j]
                           => i = j
<1> DEFINE r == RemoveFirst(skipped, iteration)
<1>1. Len(skipped) \in Nat /\ DOMAIN skipped = 1 .. Len(skipped)
  OBVIOUS
<1>2. PICK k \in 1 .. Len(skipped) : skipped[k] = iteration /\ r = RemoveAt(skipped, k)
  BY RemoveFirstProperties DEF Contains
<1> HIDE DEF r
<1>3. /\ r \in Seq(Iteration) /\ Len(r) = Len(skipped) - 1
      /\ \A j \in 1 .. Len(skipped) - 1 : r[j] = IF j < k THEN skipped[j] ELSE skipped[j + 1]
  BY <1>2, RemoveAtProperties
<1>4. DOMAIN r = 1 .. Len(skipped) - 1
  BY <1>3
<1>5. ASSUME NEW i \in DOMAIN r
      PROVE  \E j \in 1 .. Len(skipped) : /\ r[i] = skipped[j] /\ j # k
                                          /\ j = IF i < k THEN i ELSE i + 1
  BY <1>1, <1>3, <1>4
<1>6. ASSUME \A i, j \in DOMAIN skipped : skipped[i] = skipped[j] => i = j
      PROVE  /\ ~Contains(r, iteration)
             /\ \A i, j \in DOMAIN r : r[i] = r[j] => i = j
  <2>1. ASSUME NEW i \in DOMAIN r
        PROVE  r[i] # iteration
    BY <1>1, <1>2, <1>5, <1>6
  <2>2. DOMAIN r = 1 .. Len(r)
    BY <1>3
  <2>3. ASSUME NEW i \in DOMAIN r, NEW j \in DOMAIN r, r[i] = r[j]
        PROVE  i = j
    <3>1. PICK a \in 1 .. Len(skipped) : r[i] = skipped[a] /\ a = IF i < k THEN i ELSE i + 1
      BY <1>5
    <3>2. PICK b \in 1 .. Len(skipped) : r[j] = skipped[b] /\ b = IF j < k THEN j ELSE j + 1
      BY <1>5
    <3>3. a = b
      BY <3>1, <3>2, <2>3, <1>1, <1>6
    <3>4. i \in Int /\ j \in Int /\ k \in Int
      BY <1>1, <1>4
    <3> QED BY <3>1, <3>2, <3>3, <3>4
  <2> QED BY <2>1, <2>2, <2>3 DEF Contains
<1> QED
  BY <1>1, <1>3, <1>5, <1>6 DEF r

\* get_sender_key: a state stays a state of its chain and within its limit; the key
\* it gives is spent, and so is every key that was.
LEMMA TakeSenderKeyProperties ==
    ASSUME NEW s \in SenderKeyState, NEW iteration \in Iteration,
           SenderKeyVerdict(s, iteration) = "ok"
    PROVE  /\ TakeSenderKey(s, iteration) \in SenderKeyState
           /\ TakeSenderKey(s, iteration).chain = s.chain
           /\ TakeSenderKey(s, iteration).iteration >= s.iteration
           /\ Len(s.skipped) <= MAX_MESSAGE_KEYS
                 => Len(TakeSenderKey(s, iteration).skipped) <= MAX_MESSAGE_KEYS
           /\ SkippedBehind(s)
              => /\ SkippedBehind(TakeSenderKey(s, iteration))
                 /\ Spent(TakeSenderKey(s, iteration), iteration)
                 /\ \A n \in Iteration : Spent(s, n) => Spent(TakeSenderKey(s, iteration), n)
<1> DEFINE t == TakeSenderKey(s, iteration)
<1>1. /\ s.chain \in Chain /\ s.iteration \in Iteration /\ s.iteration \in Nat
      /\ s.skipped \in Seq(Iteration)
      /\ Len(s.skipped) \in Nat /\ DOMAIN s.skipped = 1 .. Len(s.skipped)
      /\ \A i \in 1 .. Len(s.skipped) : s.skipped[i] \in Iteration
  BY StateFields
<1>2. /\ iteration \in Nat /\ MAX_MESSAGE_KEYS \in Nat /\ MAX_ITERATION \in Nat
      /\ \A n \in Iteration : n \in Nat /\ n <= MAX_ITERATION
  BY SenderKeyLimits DEF Iteration
<1>3. CASE s.iteration > iteration
  <2> DEFINE r == RemoveFirst(s.skipped, iteration)
  <2>1. Contains(s.skipped, iteration)
    BY <1>3 DEF SenderKeyVerdict
  <2>2. t = [s EXCEPT !.skipped = r]
    BY <1>3 DEF TakeSenderKey
  <2>3. /\ r \in Seq(Iteration) /\ Len(r) = Len(s.skipped) - 1
        /\ \A i \in DOMAIN r : \E j \in DOMAIN s.skipped : r[i] = s.skipped[j]
        /\ (\A i, j \in DOMAIN s.skipped : s.skipped[i] = s.skipped[j] => i = j)
           => ~Contains(r, iteration) /\ \A i, j \in DOMAIN r : r[i] = r[j] => i = j
    BY <1>1, <2>1, RemoveSkippedProperties
  <2> HIDE DEF r, t
  <2>4. /\ t \in SenderKeyState /\ t.chain = s.chain /\ t.iteration = s.iteration
        /\ t.skipped = r
    BY <2>2, <2>3 DEF SenderKeyState
  <2>5. Len(r) \in Nat /\ DOMAIN r = 1 .. Len(r)
    BY <2>3
  <2>6. ASSUME NEW n \in Iteration, Spent(s, n)
        PROVE  Spent(t, n)
    <3>1. n < s.iteration /\ \A j \in DOMAIN s.skipped : s.skipped[j] # n
      BY <2>6, <1>1 DEF Spent, Contains
    <3>2. \A i \in DOMAIN r : r[i] # n
      BY <2>3, <3>1
    <3> QED BY <3>1, <3>2, <2>4, <2>5 DEF Spent, Contains
  <2>7. ASSUME SkippedBehind(s)
        PROVE  SkippedBehind(t) /\ Spent(t, iteration)
    <3>1. \A i \in DOMAIN r : r[i] < s.iteration
      BY <2>3, <2>7 DEF SkippedBehind
    <3> QED BY <3>1, <2>3, <2>4, <2>7, <1>1, <1>2, <1>3 DEF SkippedBehind, Spent
  <2> QED BY <2>3, <2>4, <2>6, <2>7, <1>1, <1>2 DEF t
<1>4. CASE ~(s.iteration > iteration)
  <2> DEFINE r == SkipIterations(s.skipped, s.iteration, iteration)
  <2>1. iteration < MAX_ITERATION
    <3>1. CanAdvance(iteration)
      BY <1>4 DEF SenderKeyVerdict
    <3> QED BY <3>1 DEF CanAdvance
  <2>2. t = [s EXCEPT !.skipped = r, !.iteration = iteration + 1]
    BY <1>4 DEF TakeSenderKey
  <2>3. /\ r \in Seq(Iteration) /\ Len(r) <= MAX_MESSAGE_KEYS
        /\ \A i \in DOMAIN r : \/ r[i] \in s.iteration .. iteration - 1
                               \/ \E j \in DOMAIN s.skipped : r[i] = s.skipped[j]
        /\ (/\ \A i, j \in DOMAIN s.skipped : s.skipped[i] = s.skipped[j] => i = j
            /\ \A i \in DOMAIN s.skipped : s.skipped[i] < s.iteration)
           => \A i, j \in DOMAIN r : r[i] = r[j] => i = j
    <3>1. s.iteration <= iteration
      BY <1>1, <1>2, <1>4
    <3> QED BY <3>1, <1>1, SkipIterationsProperties
  <2>4. iteration + 1 \in Iteration
    BY <2>1, <1>2 DEF Iteration
  <2> HIDE DEF r, t
  <2>5. /\ t \in SenderKeyState /\ t.chain = s.chain /\ t.iteration = iteration + 1
        /\ t.skipped = r
    BY <2>2, <2>3, <2>4 DEF SenderKeyState
  <2>6. Len(r) \in Nat /\ DOMAIN r = 1 .. Len(r)
    BY <2>3
  <2>7. ASSUME NEW n \in Iteration, Spent(s, n)
        PROVE  Spent(t, n)
    <3>1. n < s.iteration /\ \A j \in DOMAIN s.skipped : s.skipped[j] # n
      BY <2>7, <1>1 DEF Spent, Contains
    <3>2. n < iteration + 1
      <4>1. n \in Nat /\ iteration \in Nat /\ s.iteration \in Nat /\ n < s.iteration
        BY <3>1, <1>1, <1>2
      <4> QED BY <4>1, <1>4
    <3>3. \A i \in DOMAIN r : r[i] # n
      BY <3>1, <2>3, <1>1, <1>2
    <3> QED BY <3>2, <3>3, <2>5, <2>6 DEF Spent, Contains
  <2>8. ASSUME SkippedBehind(s)
        PROVE  SkippedBehind(t) /\ Spent(t, iteration)
    <3>1. \A i \in DOMAIN r : r[i] < iteration /\ r[i] # iteration /\ r[i] < iteration + 1
      <4> SUFFICES ASSUME NEW i \in DOMAIN r
                   PROVE  r[i] < iteration /\ r[i] # iteration /\ r[i] < iteration + 1
        OBVIOUS
      <4>1. CASE r[i] \in s.iteration .. iteration - 1
        BY <4>1, <1>1, <1>2
      <4>2. CASE \E j \in DOMAIN s.skipped : r[i] = s.skipped[j]
        <5>1. PICK j \in DOMAIN s.skipped : r[i] = s.skipped[j]
          BY <4>2
        <5>2. s.skipped[j] < s.iteration /\ s.skipped[j] \in Nat
          BY <2>8, <1>1, <1>2 DEF SkippedBehind
        <5> QED BY <5>1, <5>2, <1>1, <1>2, <1>4
      <4> QED BY <4>1, <4>2, <2>3
    <3> QED BY <3>1, <2>3, <2>5, <2>6, <2>8, <1>2 DEF SkippedBehind, Spent, Contains
  <2> QED BY <2>3, <2>5, <2>7, <2>8, <1>1, <1>2, <1>4 DEF t
<1> QED
  BY <1>3, <1>4

\* A key that is kept afterwards was kept before or could be derived.
LEMMA TakeSenderKeyOrigin ==
    ASSUME NEW s \in SenderKeyState, NEW iteration \in Iteration,
           SenderKeyVerdict(s, iteration) = "ok",
           NEW i \in DOMAIN TakeSenderKey(s, iteration).skipped
    PROVE  \/ s.iteration <= TakeSenderKey(s, iteration).skipped[i]
           \/ \E j \in DOMAIN s.skipped : TakeSenderKey(s, iteration).skipped[i] = s.skipped[j]
<1>1. s.iteration \in Iteration /\ s.iteration \in Nat /\ s.skipped \in Seq(Iteration)
  BY StateFields
<1>2. iteration \in Nat
  BY SenderKeyLimits DEF Iteration
<1>3. CASE s.iteration > iteration
  <2>1. Contains(s.skipped, iteration)
    BY <1>3 DEF SenderKeyVerdict
  <2>2. TakeSenderKey(s, iteration).skipped = RemoveFirst(s.skipped, iteration)
    BY <1>3 DEF TakeSenderKey, SenderKeyState
  <2> QED BY <1>1, <2>1, <2>2, RemoveSkippedProperties
<1>4. CASE ~(s.iteration > iteration)
  <2> DEFINE r == SkipIterations(s.skipped, s.iteration, iteration)
  <2>1. TakeSenderKey(s, iteration).skipped = r
    BY <1>4 DEF TakeSenderKey, SenderKeyState
  <2>2. s.iteration <= iteration
    BY <1>1, <1>2, <1>4
  <2>3. \/ r[i] \in s.iteration .. iteration - 1
        \/ \E j \in DOMAIN s.skipped : r[i] = s.skipped[j]
    BY <1>1, <2>1, <2>2, SkipIterationsProperties
  <2> HIDE DEF r
  <2> QED BY <1>1, <1>2, <2>1, <2>3
<1> QED
  BY <1>3, <1>4

-----------------------------------------------------------------------------
(* The record                                                              *)

LEMMA RecordFields ==
    ASSUME NEW r \in SenderKeyRecord
    PROVE  /\ Len(r) \in Nat /\ DOMAIN r = 1 .. Len(r)
           /\ \A i \in 1 .. Len(r) : r[i] \in SenderKeyState
  BY DEF SenderKeyRecord

\* remove_states_with_chain_id leaves the states of the other ids, and only those.
LEMMA WithoutIdProperties ==
    ASSUME NEW r \in SenderKeyRecord, NEW id
    PROVE  /\ WithoutId(r, id) \in SenderKeyRecord
           /\ \A i \in DOMAIN WithoutId(r, id) : \E k \in DOMAIN r :
                 WithoutId(r, id)[i] = r[k] /\ r[k].chain.id # id
           /\ \A k \in DOMAIN r : r[k].chain.id # id =>
                 \E i \in DOMAIN WithoutId(r, id) : WithoutId(r, id)[i] = r[k]
           /\ ChainIdsDistinct(r) => ChainIdsDistinct(WithoutId(r, id))
<1> DEFINE Filtered(last, n) == IF r[n].chain.id = id THEN last ELSE Append(last, r[n])
           IsKept(g, m) == g = [n \in 0 .. m |-> IF n = 0 THEN <<>> ELSE Filtered(g[n - 1], n)]
           kept[n \in 0 .. Len(r)] == IF n = 0 THEN <<>> ELSE Filtered(kept[n - 1], n)
           T == {n \in Nat : \E g : IsKept(g, n)}
<1>1. /\ Len(r) \in Nat /\ DOMAIN r = 1 .. Len(r)
      /\ \A i \in 1 .. Len(r) : r[i] \in SenderKeyState
  BY RecordFields
<1>2. \A n \in Nat : n \in T
  <2>1. 0 \in T
    <3>1. IsKept([n \in 0 .. 0 |-> <<>>], 0)
      OBVIOUS
    <3> QED BY <3>1
  <2>2. ASSUME NEW n \in Nat, n \in T
        PROVE  n + 1 \in T
    <3>1. PICK g : IsKept(g, n)
      BY <2>2
    <3> DEFINE h == [i \in 0 .. n + 1 |-> IF i = n + 1 THEN Filtered(g[n], n + 1) ELSE g[i]]
    <3> HIDE DEF Filtered
    <3>2. ASSUME NEW i \in 0 .. n + 1
          PROVE  h[i] = IF i = 0 THEN <<>> ELSE Filtered(h[i - 1], i)
      <4>1. CASE i = n + 1
        BY <4>1
      <4>2. CASE i \in 1 .. n
        <5>1. i - 1 \in 0 .. n /\ i \in 0 .. n /\ i # 0 /\ i # n + 1 /\ i - 1 # n + 1
          BY <4>2
        <5>2. h[i] = g[i] /\ h[i - 1] = g[i - 1] /\ g[i] = Filtered(g[i - 1], i)
          BY <5>1, <3>1
        <5> QED BY <5>1, <5>2
      <4>3. CASE i = 0
        BY <4>3, <3>1
      <4> QED BY <4>1, <4>2, <4>3
    <3>3. IsKept(h, n + 1)
      BY <3>2
    <3> HIDE DEF h, IsKept
    <3> QED BY <3>3
  <2> HIDE DEF T
  <2> QED BY <2>1, <2>2, SetInduction
<1>3. IsKept(kept, Len(r))
  <2> DEFINE Kept == CHOOSE g : IsKept(g, Len(r))
  <2>1. \E g : IsKept(g, Len(r))
    BY <1>1, <1>2
  <2>2. kept = Kept
    OBVIOUS
  <2> HIDE DEF kept, IsKept
  <2> QED BY <2>1, <2>2
<1>4. \A n \in 0 .. Len(r) : kept[n] = IF n = 0 THEN <<>> ELSE Filtered(kept[n - 1], n)
  <2> HIDE DEF Filtered, kept
  <2> QED BY <1>3
<1>5. WithoutId(r, id) = kept[Len(r)]
  BY DEF WithoutId
<1> HIDE DEF kept
<1> DEFINE Filters(w, n) ==
              /\ w \in SenderKeyRecord
              /\ \A i \in DOMAIN w : \E k \in 1 .. n : w[i] = r[k] /\ r[k].chain.id # id
              /\ \A k \in 1 .. n : r[k].chain.id # id => \E i \in DOMAIN w : w[i] = r[k]
              /\ ChainIdsDistinct(r) => ChainIdsDistinct(w)
           U == {n \in Nat : n <= Len(r) => Filters(kept[n], n)}
<1>6. 0 \in U
  <2>1. kept[0] = <<>>
    BY <1>1, <1>4
  <2>2. Filters(<<>>, 0)
    BY DEF SenderKeyRecord, ChainIdsDistinct
  <2> HIDE DEF Filters
  <2> QED BY <2>1, <2>2
<1>7. ASSUME NEW n \in Nat, n \in U
      PROVE  n + 1 \in U
  <2> SUFFICES ASSUME n + 1 <= Len(r)
               PROVE  Filters(kept[n + 1], n + 1)
    OBVIOUS
  <2> DEFINE w == kept[n]
             new == r[n + 1]
  <2>1. Filters(w, n)
    <3> HIDE DEF Filters
    <3> QED BY <1>1, <1>7
  <2>2. kept[n + 1] = Filtered(w, n + 1)
    <3> HIDE DEF Filtered
    <3>1. n + 1 \in 0 .. Len(r) /\ n + 1 # 0 /\ (n + 1) - 1 = n
      BY <1>1
    <3> QED BY <3>1, <1>4
  <2> HIDE DEF w
  <2>3. Len(w) \in Nat /\ DOMAIN w = 1 .. Len(w) /\ w \in Seq(SenderKeyState)
    BY <2>1, RecordFields DEF SenderKeyRecord
  <2>4. n + 1 \in 1 .. Len(r) /\ new \in SenderKeyState
    BY <1>1
  <2>5. CASE new.chain.id = id
    <3>1. kept[n + 1] = w
      BY <2>2, <2>5
    <3>2. Filters(w, n + 1)
      BY <2>1, <2>5
    <3> HIDE DEF Filters
    <3> QED BY <3>1, <3>2
  <2>6. CASE new.chain.id # id
    <3> DEFINE v == Append(w, new)
    <3>1. kept[n + 1] = v
      BY <2>2, <2>6
    <3>2. /\ v \in Seq(SenderKeyState) /\ Len(v) = Len(w) + 1 /\ v[Len(w) + 1] = new
          /\ \A i \in 1 .. Len(w) : v[i] = w[i]
      BY <2>3, <2>4, AppendProperties
    <3> HIDE DEF v, new
    <3>3. DOMAIN v = 1 .. Len(w) + 1
      BY <3>2, <2>3
    <3>4. ASSUME NEW i \in DOMAIN v
          PROVE  \/ i = Len(w) + 1 /\ v[i] = new
                 \/ /\ i \in DOMAIN w
                    /\ \E k \in 1 .. n : v[i] = r[k] /\ r[k].chain.id # id
      BY <2>1, <2>3, <3>2, <3>3
    <3>5. ASSUME NEW i \in DOMAIN v
          PROVE  \E k \in 1 .. n + 1 : v[i] = r[k] /\ r[k].chain.id # id
      BY <3>4, <2>6 DEF new
    <3>6. ASSUME NEW k \in 1 .. n + 1, r[k].chain.id # id
          PROVE  \E i \in DOMAIN v : v[i] = r[k]
      <4>1. CASE k = n + 1
        BY <4>1, <3>2, <3>3, <2>3 DEF new
      <4>2. CASE k \in 1 .. n
        <5>1. PICK i \in DOMAIN w : w[i] = r[k]
          BY <4>2, <3>6, <2>1
        <5> QED BY <5>1, <3>2, <3>3, <2>3
      <4> QED BY <4>1, <4>2
    <3>7. ASSUME ChainIdsDistinct(r)
          PROVE  ChainIdsDistinct(v)
      <4>1. ASSUME NEW i \in DOMAIN w
            PROVE  v[i].chain.id # new.chain.id
        <5>1. PICK k \in 1 .. n : w[i] = r[k]
          BY <2>1
        <5>2. k \in DOMAIN r /\ n + 1 \in DOMAIN r /\ k # n + 1
          BY <1>1, <2>4
        <5> QED BY <5>1, <5>2, <3>2, <3>7, <2>3 DEF ChainIdsDistinct, new
      <4>2. ASSUME NEW i \in DOMAIN w, NEW j \in DOMAIN w, v[i].chain.id = v[j].chain.id
            PROVE  i = j
        BY <4>2, <2>1, <2>3, <3>2, <3>7 DEF ChainIdsDistinct
      <4> QED BY <4>1, <4>2, <3>2, <3>4 DEF ChainIdsDistinct
    <3>8. Filters(v, n + 1)
      BY <3>2, <3>5, <3>6, <3>7 DEF SenderKeyRecord
    <3> HIDE DEF Filters
    <3> QED BY <3>1, <3>8
  <2> QED BY <2>5, <2>6
<1>8. \A n \in Nat : n \in U
  <2> HIDE DEF U
  <2> QED BY <1>6, <1>7, SetInduction
<1>9. Filters(kept[Len(r)], Len(r))
  <2> HIDE DEF Filters
  <2> QED BY <1>1, <1>8
<1> QED
  BY <1>1, <1>5, <1>9

LEMMA MakeRoomProperties ==
    ASSUME NEW r \in SenderKeyRecord
    PROVE  /\ MakeRoom(r) \in SenderKeyRecord
           /\ Len(MakeRoom(r)) <= MAX_SENDER_KEY_STATES - 1 /\ Len(MakeRoom(r)) <= Len(r)
           /\ Len(r) < MAX_SENDER_KEY_STATES => Len(MakeRoom(r)) = Len(r)
           /\ \A i \in 1 .. Len(MakeRoom(r)) : MakeRoom(r)[i] = r[i]
<1> DEFINE n == IF Len(r) < MAX_SENDER_KEY_STATES THEN Len(r) ELSE MAX_SENDER_KEY_STATES - 1
           room == SubSeq(r, 1, n)
<1>1. Len(r) \in Nat /\ \A i \in 1 .. Len(r) : r[i] \in SenderKeyState
  BY RecordFields
<1>2. /\ MAX_SENDER_KEY_STATES \in Nat \ {0} /\ n \in Nat /\ n <= Len(r)
      /\ n <= MAX_SENDER_KEY_STATES - 1
      /\ Len(r) < MAX_SENDER_KEY_STATES => n = Len(r)
  BY <1>1, SenderKeyLimits
<1>3. MakeRoom(r) = room
  BY DEF MakeRoom
<1> HIDE DEF n
<1>4. /\ room \in Seq(SenderKeyState)
      /\ Len(room) = IF 1 <= n THEN n - 1 + 1 ELSE 0
      /\ \A i \in 1 .. n - 1 + 1 : room[i] = r[1 + i - 1]
  <2>1. 1 \in Int /\ n \in Int /\ \A i \in 1 .. n : r[i] \in SenderKeyState
    BY <1>1, <1>2
  <2> QED BY <2>1, SubSeqProperties
<1> HIDE DEF room
<1>5. Len(room) = n /\ \A i \in 1 .. n : room[i] = r[i]
  BY <1>2, <1>4
<1> QED
  BY <1>2, <1>3, <1>4, <1>5 DEF SenderKeyRecord

LEMMA StateForProperties ==
    ASSUME NEW r \in SenderKeyRecord, NEW chain \in Chain, NEW iteration \in Iteration
    PROVE  /\ StateFor(r, chain, iteration) \in SenderKeyState
           /\ StateFor(r, chain, iteration).chain = chain
           /\ \/ /\ \A i \in DOMAIN r : r[i].chain # chain
                 /\ StateFor(r, chain, iteration) = NewState(chain, iteration)
              \/ \E i \in DOMAIN r : StateFor(r, chain, iteration) = r[i]
<1>1. /\ Len(r) \in Nat /\ DOMAIN r = 1 .. Len(r)
      /\ \A i \in 1 .. Len(r) : r[i] \in SenderKeyState
  BY RecordFields
<1>2. CASE StatesOf(r, chain) = {}
  <2>1. StateFor(r, chain, iteration) = NewState(chain, iteration)
    BY <1>2 DEF StateFor
  <2>2. \A i \in DOMAIN r : r[i].chain # chain
    BY <1>2 DEF StatesOf
  <2> QED BY <2>1, <2>2, NewStateProperties
<1>3. CASE StatesOf(r, chain) # {}
  <2>1. StatesOf(r, chain) \in SUBSET Nat
    BY <1>1 DEF StatesOf
  <2>2. Min(StatesOf(r, chain)) \in StatesOf(r, chain)
    BY <1>3, <2>1, MinInSet
  <2>3. StateFor(r, chain, iteration) = r[Min(StatesOf(r, chain))]
    BY <1>3 DEF StateFor
  <2>4. PICK i \in DOMAIN r : StateFor(r, chain, iteration) = r[i] /\ r[i].chain = chain
    BY <2>2, <2>3 DEF StatesOf
  <2> QED BY <2>4, <1>1
<1> QED
  BY <1>2, <1>3

\* add_sender_key_state: the state of the chain comes first, kept as it was if it was
\* known; the states behind it are states of other ids, all of them if they fit.
LEMMA AddSenderKeyStateProperties ==
    ASSUME NEW r \in SenderKeyRecord, NEW chain \in Chain, NEW iteration \in Iteration
    PROVE  LET a == AddSenderKeyState(r, chain, iteration)
           IN  /\ a \in SenderKeyRecord
               /\ Len(a) >= 1 /\ Len(a) <= MAX_SENDER_KEY_STATES
               /\ a[1].chain = chain
               /\ \/ /\ \A i \in DOMAIN r : r[i].chain # chain
                     /\ a[1] = NewState(chain, iteration)
                  \/ \E k \in DOMAIN r : a[1] = r[k]
               /\ \A i \in 2 .. Len(a) : \E k \in DOMAIN r :
                     a[i] = r[k] /\ r[k].chain.id # chain.id
               /\ ChainIdsDistinct(r) => ChainIdsDistinct(a)
               /\ Len(WithoutId(r, chain.id)) < MAX_SENDER_KEY_STATES =>
                     \A k \in DOMAIN r : r[k].chain.id # chain.id =>
                         \E i \in DOMAIN a : a[i] = r[k]
<1> DEFINE first == StateFor(r, chain, iteration)
           others == WithoutId(r, chain.id)
           room == MakeRoom(others)
           a == AddSenderKeyState(r, chain, iteration)
<1>1. /\ first \in SenderKeyState /\ first.chain = chain
      /\ \/ /\ \A i \in DOMAIN r : r[i].chain # chain
            /\ first = NewState(chain, iteration)
         \/ \E k \in DOMAIN r : first = r[k]
  BY StateForProperties
<1>2. /\ others \in SenderKeyRecord
      /\ \A i \in DOMAIN others : \E k \in DOMAIN r :
            others[i] = r[k] /\ r[k].chain.id # chain.id
      /\ \A k \in DOMAIN r : r[k].chain.id # chain.id => \E i \in DOMAIN others : others[i] = r[k]
      /\ ChainIdsDistinct(r) => ChainIdsDistinct(others)
  BY WithoutIdProperties
<1> HIDE DEF others
<1>3. /\ room \in SenderKeyRecord
      /\ Len(room) <= MAX_SENDER_KEY_STATES - 1 /\ Len(room) <= Len(others)
      /\ Len(others) < MAX_SENDER_KEY_STATES => Len(room) = Len(others)
      /\ \A i \in 1 .. Len(room) : room[i] = others[i]
  BY <1>2, MakeRoomProperties
<1>4. /\ Len(others) \in Nat /\ DOMAIN others = 1 .. Len(others)
      /\ Len(room) \in Nat /\ DOMAIN room = 1 .. Len(room)
      /\ MAX_SENDER_KEY_STATES \in Nat
  BY <1>2, <1>3, RecordFields, SenderKeyLimits
<1>5. a = << first >> \o room
  BY DEF AddSenderKeyState, others
<1> HIDE DEF first, room, a
<1>6. /\ a \in Seq(SenderKeyState) /\ Len(a) = 1 + Len(room) /\ a[1] = first
      /\ \A i \in 2 .. Len(a) : a[i] = room[i - 1]
  <2> DEFINE one == << first >>
  <2>1. one \in Seq(SenderKeyState) /\ Len(one) = 1 /\ one[1] = first
    BY <1>1
  <2> HIDE DEF one
  <2>2. /\ one \o room \in Seq(SenderKeyState) /\ Len(one \o room) = Len(one) + Len(room)
        /\ \A i \in 1 .. Len(one) + Len(room) :
              (one \o room)[i] = IF i <= Len(one) THEN one[i] ELSE room[i - Len(one)]
    BY <2>1, <1>3, ConcatProperties DEF SenderKeyRecord
  <2>3. a = one \o room
    BY <1>5 DEF one
  <2> QED BY <2>1, <2>2, <2>3, <1>4
<1>7. DOMAIN a = 1 .. 1 + Len(room)
  BY <1>6
<1>8. ASSUME NEW i \in 2 .. Len(a)
      PROVE  /\ i - 1 \in DOMAIN others /\ a[i] = others[i - 1]
             /\ \E k \in DOMAIN r : a[i] = r[k] /\ r[k].chain.id # chain.id
  <2>1. i - 1 \in 1 .. Len(room) /\ i - 1 \in DOMAIN others
    <3>1. i \in 2 .. 1 + Len(room)
      BY <1>6
    <3>2. Len(room) \in Nat /\ Len(others) \in Nat /\ Len(room) <= Len(others)
      BY <1>3, <1>4
    <3>3. i \in Nat /\ i - 1 \in 1 .. Len(room)
      BY <3>1, <3>2
    <3> QED BY <3>2, <3>3, <1>4
  <2>2. a[i] = others[i - 1]
    BY <2>1, <1>3, <1>6
  <2> QED BY <2>1, <2>2, <1>2
<1>9. ASSUME ChainIdsDistinct(r)
      PROVE  ChainIdsDistinct(a)
  <2>1. ASSUME NEW i \in DOMAIN a, NEW j \in DOMAIN a, a[i].chain.id = a[j].chain.id
        PROVE  i = j
    <3>1. CASE i \in 2 .. Len(a) /\ j \in 2 .. Len(a)
      <4>1. i - 1 \in DOMAIN others /\ a[i] = others[i - 1]
        BY <3>1, <1>8
      <4>2. j - 1 \in DOMAIN others /\ a[j] = others[j - 1]
        BY <3>1, <1>8
      <4>3. i - 1 = j - 1
        BY <4>1, <4>2, <2>1, <1>9, <1>2 DEF ChainIdsDistinct
      <4> QED BY <4>3, <3>1
    <3>2. \A k \in 2 .. Len(a) : a[k].chain.id # chain.id
      BY <1>8
    <3> QED BY <3>1, <3>2, <2>1, <1>1, <1>4, <1>6, <1>7
  <2> QED BY <2>1 DEF ChainIdsDistinct
<1>10. ASSUME Len(others) < MAX_SENDER_KEY_STATES, NEW k \in DOMAIN r, r[k].chain.id # chain.id
       PROVE  \E i \in DOMAIN a : a[i] = r[k]
  <2>1. PICK j \in DOMAIN others : others[j] = r[k]
    BY <1>2, <1>10
  <2>2. j + 1 \in 2 .. Len(a) /\ j + 1 \in DOMAIN a /\ (j + 1) - 1 = j
    BY <1>3, <1>4, <1>6, <1>7, <1>10
  <2>3. a[j + 1] = others[j]
    BY <2>2, <1>8
  <2> QED BY <2>1, <2>2, <2>3
<1> QED
  BY <1>1, <1>3, <1>4, <1>6, <1>7, <1>8, <1>9, <1>10 DEF SenderKeyRecord, a, others

\* group_decrypt finds the first state of the id, and it is one of the message's chain.
LEMMA GroupDecryptProperties ==
    ASSUME NEW r \in SenderKeyRecord, NEW m \in KeyMessage, GroupVerdict(r, m) = "ok"
    PROVE  \E i \in DOMAIN r :
              /\ r[i].chain = m.chain
              /\ SenderKeyVerdict(r[i], m.iteration) = "ok"
              /\ GroupDecrypt(r, m) = [r EXCEPT ![i] = TakeSenderKey(r[i], m.iteration)]
              /\ GroupDecrypt(r, m) \in SenderKeyRecord
              /\ Len(GroupDecrypt(r, m)) = Len(r)
              /\ \A j \in DOMAIN r :
                    GroupDecrypt(r, m)[j] = IF j = i THEN TakeSenderKey(r[i], m.iteration)
                                            ELSE r[j]
<1> DEFINE I == StateIndices(r, m.chain.id)
           i == Min(I)
           t == TakeSenderKey(r[i], m.iteration)
<1>1. /\ Len(r) \in Nat /\ DOMAIN r = 1 .. Len(r)
      /\ \A j \in 1 .. Len(r) : r[j] \in SenderKeyState
  BY RecordFields
<1>2. I # {} /\ r[i].chain = m.chain /\ SenderKeyVerdict(r[i], m.iteration) = "ok"
  BY DEF GroupVerdict
<1>3. i \in DOMAIN r
  <2>1. I \in SUBSET Nat /\ I \subseteq DOMAIN r
    BY <1>1 DEF StateIndices
  <2> HIDE DEF I
  <2> QED BY <2>1, <1>2, MinInSet
<1>4. GroupDecrypt(r, m) = [r EXCEPT ![i] = t]
  BY DEF GroupDecrypt
<1> HIDE DEF i
<1>5. t \in SenderKeyState
  <2>1. m.iteration \in Iteration
    BY DEF KeyMessage
  <2> QED BY <2>1, <1>1, <1>2, <1>3, TakeSenderKeyProperties
<1> HIDE DEF t
<1>6. /\ [r EXCEPT ![i] = t] \in Seq(SenderKeyState)
      /\ Len([r EXCEPT ![i] = t]) = Len(r)
      /\ \A j \in DOMAIN r : [r EXCEPT ![i] = t][j] = IF j = i THEN t ELSE r[j]
  BY <1>1, <1>3, <1>5 DEF SenderKeyRecord
<1> QED
  BY <1>2, <1>3, <1>4, <1>6 DEF SenderKeyRecord, t

\* group_encrypt moves the chain of the first state on by one.
LEMMA GroupEncryptProperties ==
    ASSUME NEW r \in SenderKeyRecord, CanGroupEncrypt(r)
    PROVE  /\ GroupEncrypt(r) \in SenderKeyRecord
           /\ Len(GroupEncrypt(r)) = Len(r) /\ Len(r) >= 1
           /\ r[1] \in SenderKeyState
           /\ KeyMessageOf(r) \in KeyMessage
           /\ KeyMessageOf(r).chain = r[1].chain
           /\ KeyMessageOf(r).iteration = r[1].iteration
           /\ GroupEncrypt(r)[1].chain = r[1].chain
           /\ GroupEncrypt(r)[1].skipped = r[1].skipped
           /\ GroupEncrypt(r)[1].iteration = r[1].iteration + 1
           /\ \A i \in 2 .. Len(r) : GroupEncrypt(r)[i] = r[i]
<1>1. /\ Len(r) \in Nat /\ DOMAIN r = 1 .. Len(r) /\ r # <<>>
      /\ \A i \in 1 .. Len(r) : r[i] \in SenderKeyState
  BY RecordFields DEF CanGroupEncrypt
<1>2. Len(r) >= 1 /\ 1 \in DOMAIN r /\ Head(r) = r[1] /\ r[1] \in SenderKeyState
  BY <1>1 DEF SenderKeyRecord
<1>3. r[1].iteration + 1 \in Iteration
  BY <1>2, StateFields, SenderKeyLimits DEF CanGroupEncrypt, CanAdvance, Iteration
<1> DEFINE s == [r[1] EXCEPT !.iteration = r[1].iteration + 1]
<1>4. GroupEncrypt(r) = [r EXCEPT ![1] = s]
  BY <1>2 DEF GroupEncrypt
<1>5. /\ s \in SenderKeyState /\ s.chain = r[1].chain /\ s.skipped = r[1].skipped
      /\ s.iteration = r[1].iteration + 1
  <2>1. r[1] \in SenderKeyState
    BY <1>2
  <2> HIDE DEF CanGroupEncrypt
  <2> QED BY <2>1, <1>3 DEF SenderKeyState
<1> HIDE DEF s
<1>6. /\ [r EXCEPT ![1] = s] \in Seq(SenderKeyState) /\ Len([r EXCEPT ![1] = s]) = Len(r)
      /\ [r EXCEPT ![1] = s][1] = s
      /\ \A i \in 2 .. Len(r) : [r EXCEPT ![1] = s][i] = r[i]
  BY <1>1, <1>2, <1>5 DEF SenderKeyRecord
<1>7. /\ KeyMessageOf(r) \in KeyMessage /\ KeyMessageOf(r).chain = r[1].chain
      /\ KeyMessageOf(r).iteration = r[1].iteration
  BY <1>2, StateFields DEF KeyMessageOf, KeyMessage
<1> QED
  BY <1>2, <1>4, <1>5, <1>6, <1>7 DEF SenderKeyRecord

-----------------------------------------------------------------------------
(* The inductive invariants                                                *)

\* A page and the oldest loaded entry lie within the history, and what has been
\* read are messages.  The record a group_encrypt has loaded can be encrypted with.
PagesWithin ==
    \A d \in Device, g \in Group :
        /\ page[d][g].next >= 1 /\ page[d][g].last <= Len(log[g])
        /\ oldest[d][g] >= 1 /\ oldest[d][g] <= Len(log[g]) + 1
        /\ read[d][g] \subseteq Entries(g, "message")
CallsLoaded ==
    \A t \in Send : At(t, "encrypting") =>
        CanGroupEncrypt(task[t].loaded) /\ task[t].key = KeyMessageOf(task[t].loaded)
Positions == PagesWithin /\ CallsLoaded

\* The sender's record of a group holds at most one state, without skipped keys.
SenderState(r) == Len(r) <= 1 /\ \A k \in DOMAIN r : r[k].skipped = <<>>
OneSenderState ==
    /\ \A g \in Group : SenderState(record[g])
    /\ \A t \in Send : SenderState(task[t].loaded)

\* the sends whose key is a chain's
Keyed(t) == task[t].step \in {"store", "fetch", "wrap", "encrypting", "send"}

\* the chains of a group that the sender, some of its sends or the history hold
KeyChains(g, T) == {task[t].key.chain : t \in {u \in T : Keyed(u) /\ task[u].group = g}}
RecordChains(g) == {record[g][k].chain : k \in DOMAIN record[g]}
LoadedChains(g) ==
    UNION {{task[t].loaded[k].chain : k \in DOMAIN task[t].loaded} :
              t \in {u \in Send : task[u].group = g}}
LogChains(g) == {log[g][i].body.chain : i \in DOMAIN log[g]}
Chains(g, T) == KeyChains(g, T) \cup RecordChains(g) \cup LoadedChains(g) \cup LogChains(g)

\* Every chain was generated, and one that is not stored yet is nowhere else.
ChainsGenerated ==
    \A g \in Group : \A c \in Chains(g, Send) : c.signingKey <= chains
ChainsFresh ==
    \A t \in Send : At(t, "store") =>
        \A g \in Group : \A c \in Chains(g, Send \ {t}) :
            c.signingKey # task[t].key.chain.signingKey

\* One group_encrypt of a group at a time.
EncryptAlone ==
    \A t, u \in Send :
        At(t, "encrypting") /\ At(u, "encrypting") /\ task[t].group = task[u].group => t = u

\* The record, and the one a group_encrypt has loaded, are past the message.
Ahead(r, m) == \A k \in DOMAIN r : r[k].chain = m.chain => m.iteration < r[k].iteration
SenderAhead(g, m) ==
    /\ Ahead(record[g], m)
    /\ \A t \in Send : At(t, "encrypting") /\ task[t].group = g => Ahead(task[t].loaded, m)

\* The messages sent, and those about to be, are all different and all behind.
MessagesBehind ==
    \A g \in Group :
        /\ \A i \in Entries(g, "message") : SenderAhead(g, log[g][i].body)
        /\ \A t \in Send : At(t, "send") /\ task[t].group = g => SenderAhead(g, task[t].key)
MessagesDiffer ==
    /\ SenderKeysUnique
    /\ \A t \in Send : At(t, "send") =>
          \A i \in Entries(task[t].group, "message") : log[task[t].group][i].body # task[t].key
    /\ \A t, u \in Send :
          At(t, "send") /\ At(u, "send") /\ task[t].group = task[u].group
              /\ task[t].key = task[u].key => t = u

SenderInv ==
    /\ OneSenderState /\ ChainsGenerated /\ ChainsFresh
    /\ EncryptAlone /\ MessagesBehind /\ MessagesDiffer

\* Each state a device holds comes from a distribution made for it, from which all
\* the keys it can still derive follow.
ComesFrom(history, d, g, s) ==
    \E j \in DOMAIN history[g] :
        /\ history[g][j].type = "key"
        /\ d \in history[g][j].to
        /\ history[g][j].body.chain = s.chain
        /\ history[g][j].body.iteration <= s.iteration
        /\ \A i \in DOMAIN s.skipped : history[g][j].body.iteration <= s.skipped[i]
RecordSound(history, d, g, r) ==
    /\ SenderKeyRecordWithinLimits(r)
    /\ ChainIdsDistinct(r)
    /\ \A k \in DOMAIN r : SkippedBehind(r[k]) /\ ComesFrom(history, d, g, r[k])
ReceiverInv == \A d \in Device, g \in Group : RecordSound(log, d, g, received[d][g])

\* What a device has read follows from a distribution made for it.
ReadFromKey ==
    \A d \in Device, g \in Group : \A i \in read[d][g] :
        \E j \in Entries(g, "key") :
            /\ d \in log[g][j].to
            /\ log[g][j].body.chain = log[g][i].body.chain
            /\ log[g][j].body.iteration <= log[g][i].body.iteration

\* As many chains as sends: while the record is empty each send has made at most
\* one, and afterwards none is made.
NothingYet ==
    \A g \in Group : record[g] = <<>> =>
        /\ log[g] = <<>>
        /\ \A t \in Send : task[t].group = g =>
              task[t].loaded = <<>> /\ task[t].step \in {"idle", "create", "store", "encrypt"}
ChainPerSend ==
    \A g \in Group : \E f \in [Send -> Chain] :
        \A c \in Chains(g, Send) : \E t \in Send : c = f[t]
IdsAreKeys == \A g \in Group : \A c \in Chains(g, Send) : c.id = c.signingKey

\* At most as many sends overlap as a receiver keeps states, and no chain id comes twice.
FewSends ==
    ~ReuseIds /\ IsFiniteSet(Send) /\ Cardinality(Send) <= MAX_SENDER_KEY_STATES
ChainsInv == NothingYet /\ ChainPerSend /\ (~ReuseIds => IdsAreKeys)

\* The state of the chain of a message that was read stays, and its key is spent.
SpentIn(r, m) == \E k \in DOMAIN r : r[k].chain = m.chain /\ Spent(r[k], m.iteration)
ReadIsSpent ==
    \A d \in Device, g \in Group : \A i \in read[d][g] : SpentIn(received[d][g], log[g][i].body)

\* Under one send at a time: what is distributed is where the record stands, and so
\* past every message, and messages follow the distributions they need.
KeysInOrder ==
    /\ \A t \in Send : task[t].step \in {"fetch", "wrap"} =>
          \A i \in Entries(task[t].group, "message") :
              log[task[t].group][i].body.chain = task[t].key.chain =>
                  log[task[t].group][i].body.iteration < task[t].key.iteration
    /\ \A g \in Group : \A j \in Entries(g, "key"), i \in Entries(g, "message") :
          /\ log[g][j].body.chain = log[g][i].body.chain
          /\ log[g][j].body.iteration <= log[g][i].body.iteration
          => j < i

OneSend == \A t, u \in Send : t = u
OneGroup == \A g, h \in Group : g = h

\* Then, if nothing emitted is lost: what is noted as distributed is in the history,
\* and so is the key of the message that is being sent.
KeyOut(g, m) ==
    \E j \in Entries(g, "key") :
        log[g][j].body.chain = m.chain /\ log[g][j].body.iteration <= m.iteration
Distributing(t) == task[t].step \in {"create", "store", "fetch", "wrap"}
Encrypting(t) == task[t].step \in {"encrypt", "encrypting", "send"}
KeyFirst ==
    /\ \A t \in Send : Distributing(t) => ~distributed
    /\ \A t \in Send : task[t].step \in {"fetch", "wrap"} =>
          /\ record[task[t].group] # <<>>
          /\ task[t].key = KeyMessageOf(record[task[t].group])
    /\ \A t \in Send : At(t, "encrypting") => task[t].loaded = record[task[t].group]
    /\ \A t \in Send : task[t].step \in {"encrypting", "send"} =>
          KeyOut(task[t].group, task[t].key)
    /\ \A g \in Group : distributed \/ (\E t \in Send : Encrypting(t)) =>
          record[g] # <<>> /\ KeyOut(g, KeyMessageOf(record[g]))
    /\ KeyBeforeMessage

-----------------------------------------------------------------------------
(* What the actions do to the state                                        *)

LEMMA TaskFields ==
    ASSUME TypeOK, NEW t \in Send
    PROVE  /\ task[t] \in SendState
           /\ task[t].step \in Step /\ task[t].group \in Group
           /\ task[t].key \in KeyMessage /\ task[t].loaded \in SenderKeyRecord
           /\ task[t].targets \in SUBSET Device /\ task[t].borrowed \in SUBSET Device
           /\ task[t].wrapped \in SUBSET Device
           /\ record[task[t].group] \in SenderKeyRecord
  BY DEF TypeOK, SendState

LEMMA NoKeyType == NoKeyMessage \in KeyMessage
<1>1. (CHOOSE id \in ChainId : TRUE) \in ChainId
  BY GroupAssumption
<1>2. 0 \in Iteration
  BY SenderKeyLimits DEF Iteration
<1> QED
  BY <1>1, <1>2 DEF NoKeyMessage, KeyMessage, Chain

LEMMA IdleSendType ==
    ASSUME TypeOK
    PROVE  /\ IdleSend \in SendState /\ IdleSend.step = "idle" /\ IdleSend.group = open
           /\ IdleSend.loaded = <<>> /\ IdleSend.key = NoKeyMessage
<1>1. open \in Group
  BY DEF TypeOK
<1>2. <<>> \in SenderKeyRecord
  BY DEF SenderKeyRecord
<1> QED
  BY <1>1, <1>2, NoKeyType DEF IdleSend, SendState, Step

LEMMA IdleSendIn ==
    ASSUME TypeOK, NEW g \in Group
    PROVE  /\ [IdleSend EXCEPT !.group = g] \in SendState
           /\ [IdleSend EXCEPT !.group = g].step = "idle"
           /\ [IdleSend EXCEPT !.group = g].group = g
           /\ [IdleSend EXCEPT !.group = g].loaded = <<>>
  BY IdleSendType DEF SendState

\* A send changes its own state only.
LEMMA TaskUpdate ==
    ASSUME TypeOK, NEW t \in Send, NEW x \in SendState, task' = [task EXCEPT ![t] = x]
    PROVE  /\ task' \in [Send -> SendState] /\ task'[t] = x
           /\ \A u \in Send : u # t => task'[u] = task[u]
  BY DEF TypeOK

LEMMA GiveUpEffect ==
    ASSUME TypeOK, NEW t \in Send, GiveUp(t)
    PROVE  /\ task' \in [Send -> SendState]
           /\ task'[t].step = "idle" /\ task'[t].loaded = <<>>
           /\ task'[t].group = open
           /\ \A u \in Send : u # t => task'[u] = task[u]
<1>1. task' = [task EXCEPT ![t] = IdleSend]
  BY DEF GiveUp
<1> QED
  BY <1>1, IdleSendType, TaskUpdate

LEMMA StartSendEffect ==
    ASSUME TypeOK, NEW t \in Send, StartSend(t)
    PROVE  /\ task' \in [Send -> SendState]
           /\ task'[t].step = (IF distributed THEN "encrypt" ELSE "create")
           /\ task'[t].group = open /\ task'[t].loaded = <<>>
           /\ task[t].step = "idle"
           /\ \A u \in Send : u # t => task'[u] = task[u]
<1> DEFINE x == [IdleSend EXCEPT !.step = IF distributed THEN "encrypt" ELSE "create"]
<1>3. /\ x \in SendState /\ x.loaded = <<>> /\ x.group = open
      /\ x.step = (IF distributed THEN "encrypt" ELSE "create")
  BY IdleSendType DEF SendState, Step
<1>4. task' = [task EXCEPT ![t] = x] /\ task[t].step = "idle"
  BY DEF StartSend, At
<1> HIDE DEF x
<1> QED
  BY <1>3, <1>4, TaskUpdate

LEMMA CreateKeyEffect ==
    ASSUME TypeOK, NEW t \in Send, CreateKey(t)
    PROVE  /\ task' \in [Send -> SendState] /\ chains' \in Nat
           /\ task[t].step = "create"
           /\ task'[t].group = task[t].group /\ task'[t].loaded = task[t].loaded
           /\ \A u \in Send : u # t => task'[u] = task[u]
           /\ \/ /\ record[task[t].group] # <<>> /\ task'[t].step = "fetch" /\ chains' = chains
                 /\ task'[t].key = KeyMessageOf(record[task[t].group])
              \/ /\ record[task[t].group] = <<>> /\ task'[t].step = "store"
                 /\ chains' = chains + 1
                 /\ task'[t].key.chain.signingKey = chains + 1
                 /\ ~ReuseIds => task'[t].key.chain.id = chains + 1
<1> DEFINE own == record[task[t].group]
<1>1. /\ task[t] \in SendState /\ task[t].step = "create" /\ own \in SenderKeyRecord
      /\ chains \in Nat
  BY TaskFields DEF CreateKey, At, TypeOK
<1>2. CASE own # <<>>
  <2> DEFINE x == [task[t] EXCEPT !.step = "fetch", !.key = KeyMessageOf(own)]
  <2>1. task' = [task EXCEPT ![t] = x] /\ chains' = chains
    BY <1>2 DEF CreateKey, DistributionOf, TypeOK
  <2>2. KeyMessageOf(own) \in KeyMessage
    <3>1. Head(own) \in SenderKeyState
      BY <1>1, <1>2 DEF SenderKeyRecord
    <3> QED BY <3>1, StateFields DEF KeyMessageOf, KeyMessage
  <2>3. /\ x \in SendState /\ x.step = "fetch" /\ x.key = KeyMessageOf(own)
        /\ x.group = task[t].group /\ x.loaded = task[t].loaded
    BY <1>1, <2>2 DEF SendState, Step
  <2> HIDE DEF x
  <2> QED BY <1>1, <1>2, <2>1, <2>3, TaskUpdate
<1>3. CASE own = <<>>
  <2>1. PICK id \in {i \in ChainId : ReuseIds \/ i = chains + 1} :
           /\ task' = [task EXCEPT
                 ![t].step = "store",
                 ![t].key = [chain |-> [id |-> id, signingKey |-> chains + 1],
                             iteration |-> 0]]
           /\ chains' = chains + 1
    BY <1>3 DEF CreateKey
  <2> DEFINE key == [chain |-> [id |-> id, signingKey |-> chains + 1], iteration |-> 0]
             x == [task[t] EXCEPT !.step = "store", !.key = key]
  <2>2. task' = [task EXCEPT ![t] = x]
    BY <2>1 DEF TypeOK
  <2>3. key \in KeyMessage
    BY <1>1, SenderKeyLimits DEF KeyMessage, Chain, Iteration
  <2>4. /\ key.chain.signingKey = chains + 1
        /\ ~ReuseIds => key.chain.id = chains + 1
    OBVIOUS
  <2> HIDE DEF key
  <2>5. /\ x \in SendState /\ x.step = "store" /\ x.key = key
        /\ x.group = task[t].group /\ x.loaded = task[t].loaded
    BY <1>1, <2>3 DEF SendState, Step
  <2> HIDE DEF x
  <2>6. /\ task' \in [Send -> SendState] /\ task'[t] = x
        /\ \A u \in Send : u # t => task'[u] = task[u]
    BY <2>2, <2>5, TaskUpdate
  <2>7. chains' = chains + 1 /\ chains' \in Nat
    BY <1>1, <2>1
  <2> QED BY <1>1, <1>3, <2>4, <2>5, <2>6, <2>7
<1> QED
  BY <1>2, <1>3

LEMMA StoreKeyEffect ==
    ASSUME TypeOK, NEW t \in Send, StoreKey(t)
    PROVE  /\ task' \in [Send -> SendState] /\ record' \in [Group -> SenderKeyRecord]
           /\ task[t].step = "store" /\ task'[t].step = "fetch"
           /\ task'[t].group = task[t].group /\ task'[t].loaded = task[t].loaded
           /\ task'[t].key = task[t].key
           /\ \A u \in Send : u # t => task'[u] = task[u]
           /\ \A g \in Group : g # task[t].group => record'[g] = record[g]
           /\ LET r == record'[task[t].group]
              IN  DOMAIN r = {1} /\ Len(r) = 1 /\ r # <<>>
                  /\ r[1] = NewState(task[t].key.chain, task[t].key.iteration)
<1> DEFINE x == [task[t] EXCEPT !.step = "fetch"]
           k == task[t].key
           r == AddSenderKeyState(<<>>, k.chain, k.iteration)
<1>1. /\ task[t] \in SendState /\ task[t].step = "store" /\ task[t].group \in Group
      /\ k \in KeyMessage
  BY TaskFields DEF StoreKey, At
<1>2. task' = [task EXCEPT ![t] = x]
  BY <1>1 DEF StoreKey, GoTo, TypeOK
<1>3. /\ x \in SendState /\ x.step = "fetch" /\ x.key = task[t].key
      /\ x.group = task[t].group /\ x.loaded = task[t].loaded
  BY <1>1 DEF SendState, Step
<1>4. record' = [record EXCEPT ![task[t].group] = r]
  BY DEF StoreKey
<1>5. /\ r \in SenderKeyRecord /\ Len(r) >= 1
      /\ \/ r[1] = NewState(k.chain, k.iteration)
         \/ \E i \in DOMAIN <<>> : r[1] = <<>>[i]
      /\ \A i \in 2 .. Len(r) : \E j \in DOMAIN <<>> :
            r[i] = <<>>[j] /\ <<>>[j].chain.id # k.chain.id
  <2>1. <<>> \in SenderKeyRecord /\ k.chain \in Chain /\ k.iteration \in Iteration
    BY <1>1 DEF SenderKeyRecord, KeyMessage
  <2> QED BY <2>1, AddSenderKeyStateProperties
<1> HIDE DEF r, x
<1>6. DOMAIN <<>> = {}
  OBVIOUS
<1>7. Len(r) = 1 /\ r[1] = NewState(k.chain, k.iteration) /\ DOMAIN r = {1} /\ r # <<>>
  <2>1. Len(r) \in Nat /\ DOMAIN r = 1 .. Len(r)
    BY <1>5, RecordFields
  <2>2. Len(r) = 1
    <3>1. 2 \notin 2 .. Len(r)
      BY <1>5, <1>6
    <3> QED BY <3>1, <2>1, <1>5
  <2> QED BY <2>1, <2>2, <1>5, <1>6
<1>8. record' \in [Group -> SenderKeyRecord] /\ record'[task[t].group] = r
  BY <1>1, <1>4, <1>5 DEF TypeOK
<1>9. \A g \in Group : g # task[t].group => record'[g] = record[g]
  BY <1>4 DEF TypeOK
<1> QED
  BY <1>1, <1>2, <1>3, <1>7, <1>8, <1>9, TaskUpdate

LEMMA FetchBundlesEffect ==
    ASSUME TypeOK, NEW t \in Send, FetchBundles(t)
    PROVE  /\ task' \in [Send -> SendState]
           /\ task[t].step = "fetch"
           /\ \A u \in Send : u # t => task'[u] = task[u]
           /\ \/ /\ task'[t].step = "idle" /\ task'[t].loaded = <<>>
                 /\ task'[t].group = open
              \/ /\ task'[t].step = "wrap" /\ task'[t].group = task[t].group
                 /\ task'[t].loaded = task[t].loaded /\ task'[t].key = task[t].key
<1>1. /\ task[t] \in SendState /\ task[t].step = "fetch" /\ listed \in SUBSET Device
  BY TaskFields DEF FetchBundles, At, TypeOK
<1>2. CASE GiveUp(t)
  BY <1>1, <1>2, GiveUpEffect
<1>3. CASE ~GiveUp(t)
  <2> DEFINE x == [task[t] EXCEPT !.step = "wrap", !.targets = listed]
  <2>1. task' = [task EXCEPT ![t] = x]
    BY <1>1, <1>3 DEF FetchBundles, TypeOK
  <2>2. /\ x \in SendState /\ x.step = "wrap" /\ x.key = task[t].key
        /\ x.group = task[t].group /\ x.loaded = task[t].loaded
    BY <1>1 DEF SendState, Step
  <2> HIDE DEF x
  <2> QED BY <1>1, <2>1, <2>2, TaskUpdate
<1> QED
  BY <1>2, <1>3

LEMMA BeginWrapEffect ==
    ASSUME TypeOK, NEW t \in Send, BeginWrap(t)
    PROVE  /\ task' \in [Send -> SendState]
           /\ task[t].step = "wrap"
           /\ \A u \in Send : u # t => task'[u] = task[u]
           /\ \/ /\ task'[t].step = "idle" /\ task'[t].loaded = <<>>
                 /\ task'[t].group = open
              \/ /\ task'[t].step = "wrap" /\ task'[t].group = task[t].group
                 /\ task'[t].loaded = task[t].loaded /\ task'[t].key = task[t].key
<1>1. task[t] \in SendState /\ task[t].step = "wrap" /\ task[t].targets \in SUBSET Device
  BY TaskFields DEF BeginWrap, At
<1>2. CASE GiveUp(t)
  BY <1>1, <1>2, GiveUpEffect
<1>3. CASE ~GiveUp(t)
  <2>1. PICK d \in task[t].targets : task' = [task EXCEPT ![t].borrowed = {d}]
    BY <1>3 DEF BeginWrap
  <2> DEFINE x == [task[t] EXCEPT !.borrowed = {d}]
  <2>2. task' = [task EXCEPT ![t] = x]
    BY <1>1, <2>1 DEF TypeOK
  <2>3. /\ x \in SendState /\ x.step = "wrap" /\ x.key = task[t].key
        /\ x.group = task[t].group /\ x.loaded = task[t].loaded
    BY <1>1 DEF SendState, Step
  <2> HIDE DEF x
  <2> QED BY <1>1, <2>2, <2>3, TaskUpdate
<1> QED
  BY <1>2, <1>3

LEMMA EndWrapEffect ==
    ASSUME TypeOK, NEW t \in Send, EndWrap(t)
    PROVE  /\ task' \in [Send -> SendState]
           /\ task[t].step = "wrap" /\ task'[t].step = "wrap"
           /\ \A u \in Send : u # t => task'[u] = task[u]
           /\ task'[t].group = task[t].group
           /\ task'[t].loaded = task[t].loaded /\ task'[t].key = task[t].key
<1> DEFINE x == [task[t] EXCEPT !.targets = @ \ task[t].borrowed,
                                !.wrapped = @ \cup task[t].borrowed,
                                !.borrowed = {}]
<1>1. /\ task[t] \in SendState /\ task[t].step = "wrap" /\ task[t].targets \in SUBSET Device
      /\ task[t].borrowed \in SUBSET Device /\ task[t].wrapped \in SUBSET Device
  BY TaskFields DEF EndWrap, At
<1>2. task' = [task EXCEPT ![t] = x]
  BY <1>1 DEF EndWrap, TypeOK
<1>3. /\ x \in SendState /\ x.step = "wrap" /\ x.key = task[t].key
      /\ x.group = task[t].group /\ x.loaded = task[t].loaded
  BY <1>1 DEF SendState, Step
<1> HIDE DEF x
<1> QED
  BY <1>1, <1>2, <1>3, TaskUpdate

LEMMA AppendEntryEffect ==
    ASSUME TypeOK, NEW t \in Send, NEW type \in {"key", "message"}, NEW to \in SUBSET Device,
           AppendEntry(t, type, to)
    PROVE  LET g == task[t].group
               n == Len(log[g]) + 1
           IN  /\ log' \in [Group -> Seq(Entry)]
               /\ \A h \in Group : h # g => log'[h] = log[h]
               /\ Len(log'[g]) = n
               /\ \A i \in 1 .. Len(log[g]) : log'[g][i] = log[g][i]
               /\ log'[g][n].type = type /\ log'[g][n].body = task[t].key
               /\ log'[g][n].to = to
<1> DEFINE g == task[t].group
           e == [type |-> type, group |-> g, body |-> task[t].key, to |-> to]
<1>1. /\ g \in Group /\ log[g] \in Seq(Entry) /\ e \in Entry
      /\ e.type = type /\ e.body = task[t].key /\ e.to = to
  BY TaskFields DEF TypeOK, Entry
<1>2. log' = [log EXCEPT ![g] = Append(log[g], e)]
  BY <1>1 DEF AppendEntry
<1> HIDE DEF e
<1>3. /\ Append(log[g], e) \in Seq(Entry) /\ Len(Append(log[g], e)) = Len(log[g]) + 1
      /\ \A i \in 1 .. Len(log[g]) : Append(log[g], e)[i] = log[g][i]
      /\ Append(log[g], e)[Len(log[g]) + 1] = e
  BY <1>1, AppendProperties
<1>4. /\ log' \in [Group -> Seq(Entry)] /\ log'[g] = Append(log[g], e)
      /\ \A h \in Group : h # g => log'[h] = log[h]
  BY <1>1, <1>2, <1>3 DEF TypeOK
<1> QED
  BY <1>1, <1>3, <1>4

LEMMA EmitKeyEffect ==
    ASSUME TypeOK, NEW t \in Send, EmitKey(t)
    PROVE  /\ task' \in [Send -> SendState]
           /\ task[t].step = "wrap" /\ task'[t].step = "encrypt"
           /\ \A u \in Send : u # t => task'[u] = task[u]
           /\ task'[t].group = task[t].group /\ task'[t].loaded = task[t].loaded
           /\ log' = log \/ AppendEntry(t, "key", task[t].wrapped)
<1> DEFINE x == [task[t] EXCEPT !.step = "encrypt"]
<1>1. task[t] \in SendState /\ task[t].step = "wrap"
  BY TaskFields DEF EmitKey, At
<1>2. task' = [task EXCEPT ![t] = x]
  BY <1>1 DEF EmitKey, GoTo, TypeOK
<1>3. /\ x \in SendState /\ x.step = "encrypt"
      /\ x.group = task[t].group /\ x.loaded = task[t].loaded
  BY <1>1 DEF SendState, Step
<1>4. log' = log \/ AppendEntry(t, "key", task[t].wrapped)
  BY DEF EmitKey
<1> HIDE DEF x
<1> QED
  BY <1>1, <1>2, <1>3, <1>4, TaskUpdate

LEMMA BeginEncryptEffect ==
    ASSUME TypeOK, NEW t \in Send, BeginEncrypt(t)
    PROVE  /\ task' \in [Send -> SendState]
           /\ task[t].step = "encrypt"
           /\ \A u \in Send : u # t => task'[u] = task[u]
           /\ \/ /\ task'[t].step = "idle" /\ task'[t].loaded = <<>>
                 /\ task'[t].group = open
              \/ /\ task'[t].step = "encrypting" /\ task'[t].group = task[t].group
                 /\ task'[t].loaded = record[task[t].group]
                 /\ CanGroupEncrypt(record[task[t].group])
                 /\ task'[t].key = KeyMessageOf(record[task[t].group])
                 /\ ~GroupCipherBorrowed(t)
<1> DEFINE own == record[task[t].group]
<1>1. task[t] \in SendState /\ task[t].step = "encrypt" /\ own \in SenderKeyRecord
  BY TaskFields DEF BeginEncrypt, At
<1>2. CASE GroupCipherBorrowed(t) \/ ~CanGroupEncrypt(own)
  <2>1. GiveUp(t)
    BY <1>2 DEF BeginEncrypt
  <2> QED BY <1>1, <2>1, GiveUpEffect
<1>3. CASE ~(GroupCipherBorrowed(t) \/ ~CanGroupEncrypt(own))
  <2> DEFINE x == [task[t] EXCEPT !.step = "encrypting", !.loaded = own,
                                  !.key = KeyMessageOf(own)]
  <2>1. task' = [task EXCEPT ![t] = x]
    BY <1>1, <1>3 DEF BeginEncrypt, TypeOK
  <2>2. KeyMessageOf(own) \in KeyMessage
    BY <1>1, <1>3, GroupEncryptProperties
  <2>3. /\ x \in SendState /\ x.step = "encrypting" /\ x.key = KeyMessageOf(own)
        /\ x.group = task[t].group /\ x.loaded = own
    BY <1>1, <2>2 DEF SendState, Step
  <2> HIDE DEF x
  <2> QED BY <1>1, <1>3, <2>1, <2>3, TaskUpdate
<1> QED
  BY <1>2, <1>3

LEMMA EndEncryptEffect ==
    ASSUME TypeOK, Positions, NEW t \in Send, EndEncrypt(t)
    PROVE  /\ task' \in [Send -> SendState] /\ record' \in [Group -> SenderKeyRecord]
           /\ task[t].step = "encrypting" /\ task'[t].step = "send"
           /\ \A u \in Send : u # t => task'[u] = task[u]
           /\ task'[t].group = task[t].group /\ task'[t].loaded = <<>>
           /\ task'[t].key = task[t].key
           /\ CanGroupEncrypt(task[t].loaded)
           /\ task[t].key = KeyMessageOf(task[t].loaded)
           /\ record'[task[t].group] = GroupEncrypt(task[t].loaded)
           /\ \A g \in Group : g # task[t].group => record'[g] = record[g]
<1> DEFINE x == [task[t] EXCEPT !.step = "send", !.loaded = <<>>]
           r == GroupEncrypt(task[t].loaded)
<1>1. /\ task[t] \in SendState /\ task[t].step = "encrypting" /\ task[t].group \in Group
      /\ task[t].loaded \in SenderKeyRecord
      /\ CanGroupEncrypt(task[t].loaded) /\ task[t].key = KeyMessageOf(task[t].loaded)
  BY TaskFields DEF EndEncrypt, At, Positions, CallsLoaded
<1>2. task' = [task EXCEPT ![t] = x] /\ record' = [record EXCEPT ![task[t].group] = r]
  BY <1>1 DEF EndEncrypt, TypeOK
<1>6. <<>> \in SenderKeyRecord
  BY DEF SenderKeyRecord
<1>3. /\ x \in SendState /\ x.step = "send" /\ x.key = task[t].key
      /\ x.group = task[t].group /\ x.loaded = <<>>
  BY <1>1, <1>6 DEF SendState, Step
<1>4. r \in SenderKeyRecord
  BY <1>1, GroupEncryptProperties
<1> HIDE DEF x, r
<1>5. /\ record' \in [Group -> SenderKeyRecord] /\ record'[task[t].group] = r
      /\ \A g \in Group : g # task[t].group => record'[g] = record[g]
  BY <1>1, <1>2, <1>4 DEF TypeOK
<1> QED
  BY <1>1, <1>2, <1>3, <1>5, TaskUpdate DEF r

LEMMA EmitMessageEffect ==
    ASSUME TypeOK, NEW t \in Send, EmitMessage(t)
    PROVE  /\ task' \in [Send -> SendState]
           /\ task[t].step = "send" /\ task'[t].step = "idle" /\ task'[t].loaded = <<>>
           /\ task'[t].group = open
           /\ \A u \in Send : u # t => task'[u] = task[u]
           /\ log' = log \/ AppendEntry(t, "message", {})
  BY GiveUpEffect DEF EmitMessage, At

LEMMA OpenConversationEffect ==
    ASSUME TypeOK, NEW g \in Group, OpenConversation(g)
    PROVE  /\ task' \in [Send -> SendState]
           /\ \A t \in Send : \/ task'[t] = task[t] /\ task[t].step # "idle"
                              \/ /\ task'[t].step = "idle" /\ task'[t].loaded = <<>>
                                 /\ task[t].step = "idle" /\ task'[t].group = g
<1> DEFINE idle == [IdleSend EXCEPT !.group = g]
<1>1. /\ idle \in SendState /\ idle.step = "idle" /\ idle.loaded = <<>> /\ idle.group = g
  BY IdleSendIn
<1>2. task' = [t \in Send |-> IF At(t, "idle") THEN idle ELSE task[t]]
  BY DEF OpenConversation
<1> HIDE DEF idle
<1> QED
  BY <1>1, <1>2 DEF At, TypeOK

-----------------------------------------------------------------------------
(* What the receivers' actions do                                          *)

LEMMA TwoLevelUpdate ==
    ASSUME NEW D, NEW G, NEW S, NEW f \in [D -> [G -> S]], NEW d \in D, NEW g \in G,
           NEW x \in S
    PROVE  /\ [f EXCEPT ![d][g] = x] \in [D -> [G -> S]]
           /\ [f EXCEPT ![d][g] = x][d][g] = x
           /\ \A e \in D, h \in G : e # d \/ h # g => [f EXCEPT ![d][g] = x][e][h] = f[e][h]
<1> DEFINE y == [f[d] EXCEPT ![g] = x]
<1>1. y \in [G -> S] /\ y[g] = x /\ \A h \in G : h # g => y[h] = f[d][h]
  OBVIOUS
<1>2. [f EXCEPT ![d][g] = x] = [f EXCEPT ![d] = y]
  OBVIOUS
<1> HIDE DEF y
<1> QED
  BY <1>1, <1>2

\* An entry is passed over, gives the device a key, or is decrypted.
OnlyAt(d, g) ==
    \A e \in Device, h \in Group : e # d \/ h # g =>
        /\ received'[e][h] = received[e][h]
        /\ read'[e][h] = read[e][h] /\ reread'[e][h] = reread[e][h]
NothingTaken(d, g) ==
    /\ received'[d][g] = received[d][g]
    /\ read'[d][g] = read[d][g] /\ reread'[d][g] = reread[d][g]
KeyTaken(d, g, i) ==
    /\ i \in Entries(g, "key") /\ d \in log[g][i].to
    /\ received'[d][g] = AddSenderKeyState(received[d][g], log[g][i].body.chain,
                                           log[g][i].body.iteration)
    /\ read'[d][g] = read[d][g] /\ reread'[d][g] = reread[d][g]
Decrypted(d, g, i) ==
    /\ i \in Entries(g, "message")
    /\ GroupVerdict(received[d][g], log[g][i].body) = "ok"
    /\ received'[d][g] = GroupDecrypt(received[d][g], log[g][i].body)
    /\ read'[d][g] = read[d][g] \cup {i}
    /\ reread'[d][g] = IF i \in read[d][g] THEN reread[d][g] \cup {i} ELSE reread[d][g]

LEMMA ProcessEntryEffect ==
    ASSUME TypeOK, NEW d \in Device, NEW g \in Group, NEW i \in DOMAIN log[g],
           ProcessEntry(d, g, i)
    PROVE  /\ received' \in [Device -> [Group -> SenderKeyRecord]]
           /\ handled' \in [Device -> [Group -> SUBSET Nat]]
           /\ read' \in [Device -> [Group -> SUBSET Nat]]
           /\ reread' \in [Device -> [Group -> SUBSET Nat]]
           /\ OnlyAt(d, g)
           /\ NothingTaken(d, g) \/ KeyTaken(d, g, i) \/ Decrypted(d, g, i)
<1> DEFINE e == log[g][i]
           r == received[d][g]
<1>1. /\ e \in Entry /\ e.body \in KeyMessage
      /\ e.body.chain \in Chain /\ e.body.iteration \in Iteration
      /\ r \in SenderKeyRecord /\ i \in Nat
      /\ read[d][g] \in SUBSET Nat /\ reread[d][g] \in SUBSET Nat
      /\ handled[d][g] \in SUBSET Nat
  <2>1. log[g] \in Seq(Entry)
    BY DEF TypeOK
  <2>2. e \in Entry /\ i \in Nat
    BY <2>1
  <2>3. e.body \in KeyMessage /\ e.body.chain \in Chain /\ e.body.iteration \in Iteration
    BY <2>2 DEF Entry, KeyMessage
  <2>4. /\ r \in SenderKeyRecord /\ read[d][g] \in SUBSET Nat /\ reread[d][g] \in SUBSET Nat
        /\ handled[d][g] \in SUBSET Nat
    BY DEF TypeOK
  <2> QED BY <2>2, <2>3, <2>4
<1>2. CASE ProcessKey(d, g, i)
  <2> DEFINE a == AddSenderKeyState(r, e.body.chain, e.body.iteration)
  <2>1. /\ e.type = "key" /\ handled' = [handled EXCEPT ![d][g] = handled[d][g] \cup {i}]
        /\ read' = read /\ reread' = reread
    BY <1>2 DEF ProcessKey
  <2>2. a \in SenderKeyRecord
    BY <1>1, AddSenderKeyStateProperties
  <2>3. handled' \in [Device -> [Group -> SUBSET Nat]]
    <3>1. handled[d][g] \cup {i} \in SUBSET Nat
      BY <1>1
    <3> QED BY <2>1, <3>1, TwoLevelUpdate DEF TypeOK
  <2>4. \/ received' = received
        \/ received' = [received EXCEPT ![d][g] = r]
        \/ d \in e.to /\ received' = [received EXCEPT ![d][g] = a]
    BY <1>2 DEF ProcessKey
  <2>5. i \in Entries(g, "key")
    BY <2>1 DEF Entries
  <2> HIDE DEF a
  <2>6. CASE received' = received
    BY <2>1, <2>3, <2>6 DEF TypeOK, OnlyAt, NothingTaken
  <2>7. CASE received' = [received EXCEPT ![d][g] = r]
    <3> HIDE DEF r
    <3>1. /\ received' \in [Device -> [Group -> SenderKeyRecord]] /\ received'[d][g] = r
          /\ \A b \in Device, h \in Group : b # d \/ h # g => received'[b][h] = received[b][h]
      BY <1>1, <2>7, TwoLevelUpdate DEF TypeOK
    <3> QED BY <2>1, <2>3, <3>1 DEF TypeOK, r, OnlyAt, NothingTaken
  <2>8. CASE d \in e.to /\ received' = [received EXCEPT ![d][g] = a]
    <3>1. /\ received' \in [Device -> [Group -> SenderKeyRecord]] /\ received'[d][g] = a
          /\ \A b \in Device, h \in Group : b # d \/ h # g => received'[b][h] = received[b][h]
      BY <2>2, <2>8, TwoLevelUpdate DEF TypeOK
    <3> QED BY <2>1, <2>3, <2>5, <2>8, <3>1 DEF TypeOK, a, OnlyAt, KeyTaken
  <2> QED BY <2>4, <2>6, <2>7, <2>8
<1>3. CASE ProcessMessage(d, g, i)
  <2> DEFINE m == GroupDecrypt(r, e.body)
             again == IF i \in read[d][g] THEN reread[d][g] \cup {i} ELSE reread[d][g]
  <2>1. /\ e.type = "message" /\ GroupVerdict(r, e.body) = "ok"
        /\ received' = [received EXCEPT ![d][g] = m]
        /\ read' = [read EXCEPT ![d][g] = read[d][g] \cup {i}]
        /\ reread' = [reread EXCEPT ![d][g] = again]
        /\ handled' = handled
    BY <1>3 DEF ProcessMessage
  <2>2. m \in SenderKeyRecord
    BY <1>1, <2>1, GroupDecryptProperties
  <2>3. again \in SUBSET Nat /\ read[d][g] \cup {i} \in SUBSET Nat
    BY <1>1
  <2>4. i \in Entries(g, "message")
    BY <2>1 DEF Entries
  <2> HIDE DEF m, again
  <2>5. /\ received' \in [Device -> [Group -> SenderKeyRecord]] /\ received'[d][g] = m
        /\ \A b \in Device, h \in Group : b # d \/ h # g => received'[b][h] = received[b][h]
    BY <2>1, <2>2, TwoLevelUpdate DEF TypeOK
  <2>6. /\ read' \in [Device -> [Group -> SUBSET Nat]]
        /\ read'[d][g] = read[d][g] \cup {i}
        /\ \A b \in Device, h \in Group : b # d \/ h # g => read'[b][h] = read[b][h]
    BY <2>1, <2>3, TwoLevelUpdate DEF TypeOK
  <2>7. /\ reread' \in [Device -> [Group -> SUBSET Nat]] /\ reread'[d][g] = again
        /\ \A b \in Device, h \in Group : b # d \/ h # g => reread'[b][h] = reread[b][h]
    BY <2>1, <2>3, TwoLevelUpdate DEF TypeOK
  <2>8. handled' \in [Device -> [Group -> SUBSET Nat]]
    BY <2>1 DEF TypeOK
  <2>9. received'[d][g] = GroupDecrypt(r, e.body)
    BY <2>5 DEF m
  <2>10. reread'[d][g] = IF i \in read[d][g] THEN reread[d][g] \cup {i} ELSE reread[d][g]
    BY <2>7 DEF again
  <2> HIDE DEF r, e
  <2> QED BY <2>1, <2>4, <2>5, <2>6, <2>7, <2>8, <2>9, <2>10
           DEF r, e, OnlyAt, Decrypted
<1>4. CASE PassOver(d, g, i)
  BY <1>4 DEF PassOver, TypeOK, OnlyAt, NothingTaken
<1> QED
  BY <1>2, <1>3, <1>4 DEF ProcessEntry

\* The actions that process an entry, and what they leave alone.
LEMMA ReceiverStep ==
    ASSUME TypeOK, Positions, NEW d \in Device, NEW g \in Group,
           LoadLatest(d, g) \/ LoadOlder(d, g) \/ ProcessPage(d, g) \/ ProcessLive(d, g)
    PROVE  /\ senderVars' = senderVars /\ listed' = listed /\ log' = log
           /\ \/ UNCHANGED <<received, read, reread, handled, countVars>>
              \/ \E i \in DOMAIN log[g] : ProcessEntry(d, g, i)
           /\ page' \in [Device -> [Group -> [next : Nat, last : Nat]]]
           /\ oldest' \in [Device -> [Group -> Nat]]
           /\ \A e \in Device, h \in Group :
                 /\ page'[e][h].next >= 1 /\ page'[e][h].last <= Len(log[h])
                 /\ oldest'[e][h] >= 1 /\ oldest'[e][h] <= Len(log[h]) + 1
<1>0. /\ log[g] \in Seq(Entry) /\ Len(log[g]) \in Nat /\ DOMAIN log[g] = 1 .. Len(log[g])
      /\ PageSize \in Nat \ {0}
      /\ page[d][g] \in [next : Nat, last : Nat] /\ oldest[d][g] \in Nat
      /\ page[d][g].next >= 1 /\ page[d][g].last <= Len(log[g])
      /\ oldest[d][g] >= 1 /\ oldest[d][g] <= Len(log[g]) + 1
  BY GroupAssumption DEF TypeOK, Positions, PagesWithin
<1>1. ASSUME NEW first \in Nat, NEW last \in Nat,
             page' = [page EXCEPT ![d][g] = [next |-> first, last |-> last]],
             oldest' = [oldest EXCEPT ![d][g] = first],
             first >= 1, first <= Len(log[g]) + 1, last <= Len(log[g])
      PROVE  /\ page' \in [Device -> [Group -> [next : Nat, last : Nat]]]
             /\ oldest' \in [Device -> [Group -> Nat]]
             /\ \A e \in Device, h \in Group :
                   /\ page'[e][h].next >= 1 /\ page'[e][h].last <= Len(log[h])
                   /\ oldest'[e][h] >= 1 /\ oldest'[e][h] <= Len(log[h]) + 1
  <2> DEFINE p == [next |-> first, last |-> last]
  <2>1. p \in [next : Nat, last : Nat] /\ p.next = first /\ p.last = last
    OBVIOUS
  <2> HIDE DEF p
  <2>2. /\ page' \in [Device -> [Group -> [next : Nat, last : Nat]]] /\ page'[d][g] = p
        /\ \A b \in Device, h \in Group : b # d \/ h # g => page'[b][h] = page[b][h]
    BY <1>1, <2>1, TwoLevelUpdate DEF TypeOK, p
  <2>3. /\ oldest' \in [Device -> [Group -> Nat]] /\ oldest'[d][g] = first
        /\ \A b \in Device, h \in Group : b # d \/ h # g => oldest'[b][h] = oldest[b][h]
    BY <1>1, TwoLevelUpdate DEF TypeOK
  <2> QED BY <1>1, <2>1, <2>2, <2>3 DEF Positions, PagesWithin
<1>2. CASE LoadLatest(d, g)
  <2> DEFINE first == IF Len(log[g]) <= PageSize THEN 1 ELSE Len(log[g]) - PageSize + 1
  <2>1. /\ first \in Nat /\ first >= 1 /\ first <= Len(log[g]) + 1
        /\ page' = [page EXCEPT ![d][g] = [next |-> first, last |-> Len(log[g])]]
        /\ oldest' = [oldest EXCEPT ![d][g] = first]
    BY <1>0, <1>2 DEF LoadLatest
  <2> HIDE DEF first
  <2>2. /\ UNCHANGED <<received, read, reread, handled, countVars>>
        /\ senderVars' = senderVars /\ listed' = listed /\ log' = log
    BY <1>2 DEF LoadLatest
  <2>3. Len(log[g]) \in Nat /\ Len(log[g]) <= Len(log[g])
    BY <1>0
  <2>4. /\ page' \in [Device -> [Group -> [next : Nat, last : Nat]]]
        /\ oldest' \in [Device -> [Group -> Nat]]
        /\ \A e \in Device, h \in Group :
              /\ page'[e][h].next >= 1 /\ page'[e][h].last <= Len(log[h])
              /\ oldest'[e][h] >= 1 /\ oldest'[e][h] <= Len(log[h]) + 1
    BY <1>1, <2>1, <2>3
  <2> QED BY <2>2, <2>4
<1>3. CASE LoadOlder(d, g)
  <2> DEFINE last == oldest[d][g] - 1
             first == IF last <= PageSize THEN 1 ELSE last - PageSize + 1
  <2>1. /\ last \in Nat /\ first \in Nat /\ first >= 1 /\ first <= Len(log[g]) + 1
        /\ last <= Len(log[g])
    BY <1>0, <1>3 DEF LoadOlder
  <2>2. /\ page' = [page EXCEPT ![d][g] = [next |-> first, last |-> last]]
        /\ oldest' = [oldest EXCEPT ![d][g] = first]
    BY <1>3 DEF LoadOlder
  <2> HIDE DEF first, last
  <2>3. /\ UNCHANGED <<received, read, reread, handled, countVars>>
        /\ senderVars' = senderVars /\ listed' = listed /\ log' = log
    BY <1>3 DEF LoadOlder
  <2> QED BY <1>1, <2>1, <2>2, <2>3
<1>4. CASE ProcessPage(d, g)
  <2> DEFINE p == [page[d][g] EXCEPT !.next = @ + 1]
  <2>1. page[d][g].next \in DOMAIN log[g] /\ ProcessEntry(d, g, page[d][g].next)
    BY <1>0, <1>4 DEF ProcessPage, PageLoaded
  <2>2. p \in [next : Nat, last : Nat] /\ p.next >= 1 /\ p.last = page[d][g].last
    BY <1>0
  <2>3. page' = [page EXCEPT ![d][g] = p]
    BY <1>4 DEF ProcessPage
  <2>4. senderVars' = senderVars /\ listed' = listed /\ log' = log /\ oldest' = oldest
    BY <1>4 DEF ProcessPage
  <2> HIDE DEF p
  <2>5. /\ page' \in [Device -> [Group -> [next : Nat, last : Nat]]] /\ page'[d][g] = p
        /\ \A b \in Device, h \in Group : b # d \/ h # g => page'[b][h] = page[b][h]
    BY <2>2, <2>3, TwoLevelUpdate DEF TypeOK
  <2>6. \A e \in Device, h \in Group :
           page'[e][h].next >= 1 /\ page'[e][h].last <= Len(log[h])
    BY <1>0, <2>2, <2>5 DEF Positions, PagesWithin
  <2> QED BY <2>1, <2>4, <2>5, <2>6 DEF TypeOK, Positions, PagesWithin
<1>5. CASE ProcessLive(d, g)
  <2>1. Len(log[g]) \in DOMAIN log[g]
    BY <1>0, <1>5 DEF ProcessLive
  <2>2. /\ ProcessEntry(d, g, Len(log[g])) /\ page' = page /\ oldest' = oldest
        /\ senderVars' = senderVars /\ listed' = listed /\ log' = log
    BY <1>5 DEF ProcessLive
  <2> QED BY <2>1, <2>2 DEF TypeOK, Positions, PagesWithin
<1> QED
  BY <1>2, <1>3, <1>4, <1>5

-----------------------------------------------------------------------------
(* Types                                                                   *)

\* The history of a group only grows.
LEMMA LogGrows ==
    ASSUME TypeOK, NEW t \in Send, NEW type \in {"key", "message"}, NEW to \in SUBSET Device,
           log' = log \/ AppendEntry(t, type, to)
    PROVE  /\ log' \in [Group -> Seq(Entry)]
           /\ \A g \in Group :
                 /\ Len(log[g]) \in Nat /\ Len(log'[g]) \in Nat /\ Len(log[g]) <= Len(log'[g])
                 /\ DOMAIN log[g] = 1 .. Len(log[g]) /\ DOMAIN log'[g] = 1 .. Len(log'[g])
                 /\ \A i \in 1 .. Len(log[g]) : log'[g][i] = log[g][i]
<1>1. \A g \in Group : Len(log[g]) \in Nat /\ DOMAIN log[g] = 1 .. Len(log[g])
  BY DEF TypeOK
<1>2. CASE log' = log
  BY <1>1, <1>2 DEF TypeOK
<1>3. CASE AppendEntry(t, type, to)
  <2>1. /\ log' \in [Group -> Seq(Entry)] /\ task[t].group \in Group
        /\ Len(log'[task[t].group]) = Len(log[task[t].group]) + 1
        /\ \A h \in Group : h # task[t].group => log'[h] = log[h]
        /\ \A i \in 1 .. Len(log[task[t].group]) :
              log'[task[t].group][i] = log[task[t].group][i]
    BY <1>3, AppendEntryEffect, TaskFields
  <2>2. \A g \in Group : Len(log'[g]) \in Nat /\ DOMAIN log'[g] = 1 .. Len(log'[g])
    BY <2>1
  <2>3. \A g \in Group : Len(log[g]) <= Len(log'[g])
    BY <1>1, <2>1
  <2> QED BY <1>1, <2>1, <2>2, <2>3
<1> QED
  BY <1>2, <1>3

\* The counters that bound the runs stay natural numbers.
LEMMA CountsType ==
    ASSUME TypeOK, UNCHANGED countVars \/ \E kind \in Failure : Fails(kind)
    PROVE  texts' \in Nat /\ opens' \in Nat /\ failures' \in Nat
<1>1. CASE UNCHANGED countVars
  BY <1>1 DEF countVars, TypeOK
<1>2. CASE \E kind \in Failure : Fails(kind)
  BY <1>2 DEF Fails, TypeOK
<1> QED
  BY <1>1, <1>2

LEMMA ProcessEntryCounts ==
    ASSUME NEW d \in Device, NEW g \in Group, NEW i, ProcessEntry(d, g, i)
    PROVE  UNCHANGED countVars \/ \E kind \in Failure : Fails(kind)
<1>1. CASE ProcessKey(d, g, i)
  <2>1. UNCHANGED countVars \/ Fails("unwrap")
    BY <1>1, Zenon DEF ProcessKey
  <2>2. Fails("unwrap") => "unwrap" \in Failure
    BY DEF Fails
  <2> QED BY <2>1, <2>2
<1>2. CASE ProcessMessage(d, g, i)
  BY <1>2 DEF ProcessMessage
<1>3. CASE PassOver(d, g, i)
  BY <1>3 DEF PassOver
<1> QED
  BY <1>1, <1>2, <1>3 DEF ProcessEntry

LEMMA PagesStay ==
    ASSUME TypeOK, PagesWithin, page' = page, oldest' = oldest, read' = read,
           \A g \in Group :
              /\ Len(log[g]) \in Nat /\ Len(log'[g]) \in Nat /\ Len(log[g]) <= Len(log'[g])
              /\ DOMAIN log[g] = 1 .. Len(log[g]) /\ DOMAIN log'[g] = 1 .. Len(log'[g])
              /\ \A i \in 1 .. Len(log[g]) : log'[g][i] = log[g][i]
    PROVE  PagesWithin'
<1> SUFFICES ASSUME NEW d \in Device, NEW g \in Group
             PROVE  /\ page[d][g].next >= 1 /\ page[d][g].last <= Len(log'[g])
                    /\ oldest[d][g] >= 1 /\ oldest[d][g] <= Len(log'[g]) + 1
                    /\ \A i \in read[d][g] : i \in Entries(g, "message")'
  BY DEF PagesWithin
<1>1. /\ page[d][g].next >= 1 /\ page[d][g].last <= Len(log[g])
      /\ oldest[d][g] >= 1 /\ oldest[d][g] <= Len(log[g]) + 1
      /\ page[d][g].last \in Nat /\ oldest[d][g] \in Nat
      /\ \A i \in read[d][g] : i \in DOMAIN log[g] /\ log[g][i].type = "message"
  BY DEF PagesWithin, Entries, TypeOK
<1>2. page[d][g].last <= Len(log'[g]) /\ oldest[d][g] <= Len(log'[g]) + 1
  BY <1>1
<1>3. \A i \in read[d][g] : i \in DOMAIN log'[g] /\ log'[g][i].type = "message"
  BY <1>1
<1> QED
  BY <1>1, <1>2, <1>3 DEF Entries

LEMMA GroupInitType == Init => TypeOK /\ Positions
<1> SUFFICES ASSUME Init
             PROVE  TypeOK /\ Positions
  OBVIOUS
<1>1. IdleSend \in SendState /\ IdleSend.step = "idle"
  <2>1. <<>> \in SenderKeyRecord
    BY DEF SenderKeyRecord
  <2> QED BY <2>1, NoKeyType DEF Init, IdleSend, SendState, Step
<1>2. TypeOK
  <2>1. <<>> \in SenderKeyRecord /\ <<>> \in Seq(Entry)
    BY DEF SenderKeyRecord
  <2>2. [next |-> 1, last |-> 0] \in [next : Nat, last : Nat]
    OBVIOUS
  <2> QED BY <1>1, <2>1, <2>2, GroupAssumption DEF Init, TypeOK, EachGroup
<1>3. Positions
  <2>1. CallsLoaded
    BY <1>1 DEF Init, CallsLoaded, At
  <2>2. PagesWithin
    <3>1. Len(<<>>) = 0
      OBVIOUS
    <3> QED BY <3>1 DEF Init, PagesWithin, EachGroup
  <2> QED BY <2>1, <2>2 DEF Positions
<1> QED
  BY <1>2, <1>3

LEMMA GroupStepType == TypeOK /\ Positions /\ [Next]_vars => TypeOK' /\ Positions'
<1> SUFFICES ASSUME TypeOK, Positions, [Next]_vars
             PROVE  TypeOK' /\ Positions'
  OBVIOUS
<1> USE DEF Positions
<1>0. \A g \in Group :
         /\ Len(log[g]) \in Nat /\ Len(log[g]) <= Len(log[g])
         /\ DOMAIN log[g] = 1 .. Len(log[g])
  BY DEF TypeOK
<1>1. ASSUME NEW t \in Send, StartSend(t)
      PROVE  TypeOK' /\ Positions'
  <2>1. /\ task' \in [Send -> SendState] /\ task'[t].step # "encrypting"
        /\ \A u \in Send : u # t => task'[u] = task[u]
    BY <1>1, StartSendEffect
  <2>2. /\ UNCHANGED <<open, distributed, record, chains, listed, log, receiverVars,
                       opens, failures>>
        /\ texts' = texts + 1
    BY <1>1 DEF StartSend
  <2>3. CallsLoaded'
    BY <2>1 DEF CallsLoaded, At
  <2>4. PagesWithin'
    BY <1>0, <2>2, PagesStay DEF receiverVars
  <2> QED BY <2>1, <2>2, <2>3, <2>4 DEF TypeOK, receiverVars
<1>2. ASSUME NEW t \in Send, CreateKey(t)
      PROVE  TypeOK' /\ Positions'
  <2>1. /\ task' \in [Send -> SendState] /\ chains' \in Nat
        /\ task'[t].step # "encrypting"
        /\ \A u \in Send : u # t => task'[u] = task[u]
    <3> HIDE DEF Positions
    <3> QED BY <1>2, CreateKeyEffect
  <2>2. UNCHANGED <<open, distributed, record, listed, log, receiverVars, countVars>>
    BY <1>2 DEF CreateKey
  <2>3. CallsLoaded'
    BY <2>1 DEF CallsLoaded, At
  <2>4. PagesWithin'
    BY <1>0, <2>2, PagesStay DEF receiverVars
  <2> QED BY <2>1, <2>2, <2>3, <2>4 DEF TypeOK, receiverVars, countVars
<1>3. ASSUME NEW t \in Send, StoreKey(t)
      PROVE  TypeOK' /\ Positions'
  <2>1. /\ task' \in [Send -> SendState] /\ record' \in [Group -> SenderKeyRecord]
        /\ task'[t].step # "encrypting"
        /\ \A u \in Send : u # t => task'[u] = task[u]
    BY <1>3, StoreKeyEffect
  <2>2. UNCHANGED <<open, distributed, chains, listed, log, receiverVars, countVars>>
    BY <1>3 DEF StoreKey
  <2>3. CallsLoaded'
    BY <2>1 DEF CallsLoaded, At
  <2>4. PagesWithin'
    BY <1>0, <2>2, PagesStay DEF receiverVars
  <2> QED BY <2>1, <2>2, <2>3, <2>4 DEF TypeOK, receiverVars, countVars
<1>4. ASSUME NEW t \in Send, FetchBundles(t) \/ BeginWrap(t) \/ EndWrap(t)
      PROVE  TypeOK' /\ Positions'
  <2>1. /\ task' \in [Send -> SendState] /\ task'[t].step # "encrypting"
        /\ \A u \in Send : u # t => task'[u] = task[u]
    BY <1>4, FetchBundlesEffect, BeginWrapEffect, EndWrapEffect
  <2>2. UNCHANGED <<open, distributed, record, chains, listed, log, receiverVars>>
    BY <1>4 DEF FetchBundles, BeginWrap, EndWrap
  <2>5. texts' \in Nat /\ opens' \in Nat /\ failures' \in Nat
    <3>1. UNCHANGED countVars \/ Fails("fetch")
      <4>1. FetchBundles(t) => UNCHANGED countVars \/ Fails("fetch")
        BY Zenon DEF FetchBundles
      <4>2. BeginWrap(t) \/ EndWrap(t) => UNCHANGED countVars
        BY DEF BeginWrap, EndWrap
      <4> QED BY <1>4, <4>1, <4>2
    <3>2. Fails("fetch") => "fetch" \in Failure
      BY DEF Fails
    <3> QED BY <3>1, <3>2, CountsType
  <2>3. CallsLoaded'
    BY <2>1 DEF CallsLoaded, At
  <2>4. PagesWithin'
    BY <1>0, <2>2, PagesStay DEF receiverVars
  <2> QED BY <2>1, <2>2, <2>3, <2>4, <2>5 DEF TypeOK, receiverVars
<1>5. ASSUME NEW t \in Send, EmitKey(t) \/ EmitMessage(t)
      PROVE  TypeOK' /\ Positions'
  <2>1. /\ task' \in [Send -> SendState] /\ task'[t].step # "encrypting"
        /\ \A u \in Send : u # t => task'[u] = task[u]
        /\ \/ log' = log
           \/ AppendEntry(t, "key", task[t].wrapped)
           \/ AppendEntry(t, "message", {})
    BY <1>5, EmitKeyEffect, EmitMessageEffect
  <2>2. UNCHANGED <<open, record, chains, listed, receiverVars>> /\ distributed' \in BOOLEAN
    BY <1>5 DEF EmitKey, EmitMessage, TypeOK
  <2>6. texts' \in Nat /\ opens' \in Nat /\ failures' \in Nat
    <3>1. UNCHANGED countVars \/ Fails("drop")
      BY <1>5, Zenon DEF EmitKey, EmitMessage
    <3>2. Fails("drop") => "drop" \in Failure
      BY DEF Fails
    <3> QED BY <3>1, <3>2, CountsType
  <2>3. CallsLoaded'
    BY <2>1 DEF CallsLoaded, At
  <2>4. /\ log' \in [Group -> Seq(Entry)]
        /\ \A g \in Group :
              /\ Len(log[g]) \in Nat /\ Len(log'[g]) \in Nat /\ Len(log[g]) <= Len(log'[g])
              /\ DOMAIN log[g] = 1 .. Len(log[g]) /\ DOMAIN log'[g] = 1 .. Len(log'[g])
              /\ \A i \in 1 .. Len(log[g]) : log'[g][i] = log[g][i]
    <3>1. task[t].wrapped \in SUBSET Device /\ {} \in SUBSET Device
      BY TaskFields
    <3> QED BY <2>1, <3>1, LogGrows
  <2>5. PagesWithin'
    BY <2>2, <2>4, PagesStay DEF receiverVars
  <2> QED BY <2>1, <2>2, <2>3, <2>4, <2>5, <2>6 DEF TypeOK, receiverVars
<1>6. ASSUME NEW t \in Send, BeginEncrypt(t)
      PROVE  TypeOK' /\ Positions'
  <2>1. /\ task' \in [Send -> SendState]
        /\ \A u \in Send : u # t => task'[u] = task[u]
        /\ \/ task'[t].step = "idle"
           \/ /\ CanGroupEncrypt(task'[t].loaded)
              /\ task'[t].key = KeyMessageOf(task'[t].loaded)
    BY <1>6, BeginEncryptEffect
  <2>2. UNCHANGED <<open, distributed, record, chains, listed, log, receiverVars, countVars>>
    BY <1>6 DEF BeginEncrypt
  <2>3. CallsLoaded'
    BY <2>1 DEF CallsLoaded, At
  <2>4. PagesWithin'
    BY <1>0, <2>2, PagesStay DEF receiverVars
  <2> QED BY <2>1, <2>2, <2>3, <2>4 DEF TypeOK, receiverVars, countVars
<1>7. ASSUME NEW t \in Send, EndEncrypt(t)
      PROVE  TypeOK' /\ Positions'
  <2>1. /\ task' \in [Send -> SendState] /\ record' \in [Group -> SenderKeyRecord]
        /\ task'[t].step # "encrypting"
        /\ \A u \in Send : u # t => task'[u] = task[u]
    BY <1>7, EndEncryptEffect
  <2>2. UNCHANGED <<open, distributed, chains, listed, log, receiverVars, countVars>>
    BY <1>7 DEF EndEncrypt
  <2>3. CallsLoaded'
    BY <2>1 DEF CallsLoaded, At
  <2>4. PagesWithin'
    BY <1>0, <2>2, PagesStay DEF receiverVars
  <2> QED BY <2>1, <2>2, <2>3, <2>4 DEF TypeOK, receiverVars, countVars
<1>8. ASSUME NEW g \in Group, OpenConversation(g)
      PROVE  TypeOK' /\ Positions'
  <2>1. /\ task' \in [Send -> SendState]
        /\ \A t \in Send : task'[t] = task[t] \/ task'[t].step = "idle"
    BY <1>8, OpenConversationEffect
  <2>2. /\ UNCHANGED <<record, chains, listed, log, receiverVars, texts, failures>>
        /\ open' \in Group /\ distributed' \in BOOLEAN /\ opens' \in Nat
    <3>1. /\ UNCHANGED <<record, chains, listed, log, receiverVars, texts, failures>>
          /\ open' = g /\ distributed' = FALSE /\ opens' = opens + 1
      BY <1>8 DEF OpenConversation
    <3>2. opens' \in Nat
      BY <3>1 DEF TypeOK
    <3>3. distributed' \in BOOLEAN
      BY <3>1, Zenon
    <3> QED BY <3>1, <3>2, <3>3, Zenon
  <2>3. CallsLoaded'
    BY <2>1 DEF CallsLoaded, At
  <2>4. PagesWithin'
    BY <1>0, <2>2, PagesStay DEF receiverVars
  <2> QED BY <2>1, <2>2, <2>3, <2>4 DEF TypeOK, receiverVars
<1>9. ASSUME NEW d \in Device, LinkDevice(d)
      PROVE  TypeOK' /\ Positions'
  <2>1. UNCHANGED <<senderVars, log, receiverVars, countVars>> /\ listed' \in SUBSET Device
    BY <1>9 DEF LinkDevice, TypeOK
  <2>2. CallsLoaded'
    BY <2>1 DEF CallsLoaded, At, senderVars
  <2>3. PagesWithin'
    BY <1>0, <2>1, PagesStay DEF receiverVars
  <2> QED BY <2>1, <2>2, <2>3 DEF TypeOK, senderVars, receiverVars, countVars
<1>10. ASSUME NEW d \in Device, NEW g \in Group,
              LoadLatest(d, g) \/ LoadOlder(d, g) \/ ProcessPage(d, g) \/ ProcessLive(d, g)
       PROVE  TypeOK' /\ Positions'
  <2>1. /\ senderVars' = senderVars /\ listed' = listed /\ log' = log
        /\ \/ UNCHANGED <<received, read, reread, handled, countVars>>
           \/ \E i \in DOMAIN log[g] : ProcessEntry(d, g, i)
        /\ page' \in [Device -> [Group -> [next : Nat, last : Nat]]]
        /\ oldest' \in [Device -> [Group -> Nat]]
        /\ \A e \in Device, h \in Group :
              /\ page'[e][h].next >= 1 /\ page'[e][h].last <= Len(log[h])
              /\ oldest'[e][h] >= 1 /\ oldest'[e][h] <= Len(log[h]) + 1
    <3> HIDE DEF Positions
    <3> QED BY <1>10, ReceiverStep
  <2>2. /\ received' \in [Device -> [Group -> SenderKeyRecord]]
        /\ handled' \in [Device -> [Group -> SUBSET Nat]]
        /\ read' \in [Device -> [Group -> SUBSET Nat]]
        /\ reread' \in [Device -> [Group -> SUBSET Nat]]
        /\ \A e \in Device, h \in Group :
              read'[e][h] \subseteq read[e][h] \cup Entries(h, "message")
        /\ texts' \in Nat /\ opens' \in Nat /\ failures' \in Nat
    <3> HIDE DEF Positions
    <3>1. CASE UNCHANGED <<received, read, reread, handled, countVars>>
      BY <3>1 DEF TypeOK, countVars
    <3>2. CASE \E i \in DOMAIN log[g] : ProcessEntry(d, g, i)
      <4>1. PICK i \in DOMAIN log[g] : ProcessEntry(d, g, i)
        BY <3>2
      <4>2. /\ received' \in [Device -> [Group -> SenderKeyRecord]]
            /\ handled' \in [Device -> [Group -> SUBSET Nat]]
            /\ read' \in [Device -> [Group -> SUBSET Nat]]
            /\ reread' \in [Device -> [Group -> SUBSET Nat]]
            /\ OnlyAt(d, g)
            /\ NothingTaken(d, g) \/ KeyTaken(d, g, i) \/ Decrypted(d, g, i)
        BY <4>1, ProcessEntryEffect
      <4>4. \A e \in Device, h \in Group :
               read'[e][h] \subseteq read[e][h] \cup Entries(h, "message")
        BY <4>2 DEF OnlyAt, NothingTaken, KeyTaken, Decrypted
      <4>3. texts' \in Nat /\ opens' \in Nat /\ failures' \in Nat
        BY <4>1, ProcessEntryCounts, CountsType
      <4> QED BY <4>2, <4>3, <4>4
    <3> QED BY <2>1, <3>1, <3>2
  <2>3. CallsLoaded'
    BY <2>1 DEF CallsLoaded, At, senderVars
  <2>4. PagesWithin'
    BY <2>1, <2>2 DEF PagesWithin, Entries
  <2> QED BY <2>1, <2>2, <2>3, <2>4 DEF TypeOK, senderVars
<1>11. CASE UNCHANGED vars
  BY <1>11 DEF vars, senderVars, receiverVars, countVars, TypeOK, PagesWithin, CallsLoaded,
               At, Entries
<1> QED
  BY <1>1, <1>2, <1>3, <1>4, <1>5, <1>6, <1>7, <1>8, <1>9, <1>10, <1>11 DEF Next, SendStep

\* Every variable keeps its type, and no page or decrypted message lies outside the
\* history: through the overlapping sends, the user's moves and the pages processed.
THEOREM GroupTypeCorrect == Spec => [](TypeOK /\ Positions)
<1>1. TypeOK /\ Positions /\ [Next]_vars => (TypeOK /\ Positions)'
  BY GroupStepType
<1> QED
  BY GroupInitType, <1>1, PTL DEF Spec

-----------------------------------------------------------------------------
(* The steps of the sender, as the invariants see them                     *)

\* The send makes, loads and encrypts nothing in this step.
CalmSend(t) ==
    \/ task'[t] = task[t]
    \/ /\ task'[t].step \in {"idle", "create", "encrypt"}
       /\ \/ task'[t].loaded = <<>>
          \/ task'[t].loaded = task[t].loaded /\ task'[t].group = task[t].group
    \/ /\ task[t].step \in {"fetch", "wrap"} /\ task'[t].step = "wrap"
       /\ task'[t].group = task[t].group /\ task'[t].key = task[t].key
       /\ task'[t].loaded = task[t].loaded
QuietStep == UNCHANGED <<record, chains, log>> /\ \A t \in Send : CalmSend(t)

Only(t) ==
    /\ task'[t].group = task[t].group
    /\ \A u \in Send : u # t => task'[u] = task[u]

KeyCreated(t) ==
    /\ Only(t) /\ task'[t].loaded = task[t].loaded
    /\ record[task[t].group] = <<>> /\ task[t].step = "create" /\ task'[t].step = "store"
    /\ chains' = chains + 1
    /\ task'[t].key.chain.signingKey = chains + 1
    /\ ~ReuseIds => task'[t].key.chain.id = chains + 1
    /\ record' = record /\ log' = log
KeyLoaded(t) ==
    /\ Only(t) /\ task'[t].loaded = task[t].loaded
    /\ record[task[t].group] # <<>> /\ task[t].step = "create" /\ task'[t].step = "fetch"
    /\ task'[t].key = KeyMessageOf(record[task[t].group])
    /\ record' = record /\ log' = log /\ chains' = chains
KeyStored(t) ==
    /\ Only(t) /\ task'[t].loaded = task[t].loaded /\ task'[t].key = task[t].key
    /\ task[t].step = "store" /\ task'[t].step = "fetch"
    /\ DOMAIN record'[task[t].group] = {1} /\ Len(record'[task[t].group]) = 1
    /\ record'[task[t].group] # <<>>
    /\ record'[task[t].group][1] = NewState(task[t].key.chain, task[t].key.iteration)
    /\ \A g \in Group : g # task[t].group => record'[g] = record[g]
    /\ log' = log /\ chains' = chains

\* An entry is appended to the history of a group.
Appended(g, type, body) ==
    /\ log' \in [Group -> Seq(Entry)]
    /\ \A h \in Group : h # g => log'[h] = log[h]
    /\ Len(log'[g]) = Len(log[g]) + 1
    /\ DOMAIN log[g] = 1 .. Len(log[g]) /\ DOMAIN log'[g] = 1 .. Len(log[g]) + 1
    /\ \A i \in 1 .. Len(log[g]) : log'[g][i] = log[g][i]
    /\ log'[g][Len(log[g]) + 1].type = type /\ log'[g][Len(log[g]) + 1].body = body
KeySent(t) ==
    /\ Only(t) /\ task'[t].loaded = task[t].loaded
    /\ task[t].step = "wrap" /\ task'[t].step = "encrypt"
    /\ Appended(task[t].group, "key", task[t].key)
    /\ record' = record /\ chains' = chains
EncryptBegun(t) ==
    /\ Only(t)
    /\ task[t].step = "encrypt" /\ task'[t].step = "encrypting"
    /\ task'[t].loaded = record[task[t].group] /\ record[task[t].group] # <<>>
    /\ task'[t].key = KeyMessageOf(record[task[t].group])
    /\ \A u \in Send : ~(At(u, "encrypting") /\ task[u].group = task[t].group)
    /\ record' = record /\ log' = log /\ chains' = chains
EncryptEnded(t) ==
    /\ Only(t) /\ task'[t].key = task[t].key
    /\ task[t].step = "encrypting" /\ task'[t].step = "send" /\ task'[t].loaded = <<>>
    /\ CanGroupEncrypt(task[t].loaded) /\ task[t].key = KeyMessageOf(task[t].loaded)
    /\ record'[task[t].group] = GroupEncrypt(task[t].loaded)
    /\ \A g \in Group : g # task[t].group => record'[g] = record[g]
    /\ log' = log /\ chains' = chains
MessageSent(t) ==
    /\ \A u \in Send : u # t => task'[u] = task[u]
    /\ task[t].step = "send" /\ task'[t].step = "idle" /\ task'[t].loaded = <<>>
    /\ Appended(task[t].group, "message", task[t].key)
    /\ record' = record /\ chains' = chains

LEMMA AppendedEntry ==
    ASSUME TypeOK, NEW t \in Send, NEW type \in {"key", "message"}, NEW to \in SUBSET Device,
           AppendEntry(t, type, to)
    PROVE  Appended(task[t].group, type, task[t].key)
<1> DEFINE g == task[t].group
           n == Len(log[g]) + 1
<1>1. /\ log' \in [Group -> Seq(Entry)]
      /\ \A h \in Group : h # g => log'[h] = log[h]
      /\ Len(log'[g]) = n
      /\ \A i \in 1 .. Len(log[g]) : log'[g][i] = log[g][i]
      /\ log'[g][n].type = type /\ log'[g][n].body = task[t].key
  BY AppendEntryEffect
<1>2. g \in Group
  BY TaskFields
<1>3. log[g] \in Seq(Entry) /\ log'[g] \in Seq(Entry)
  BY <1>1, <1>2 DEF TypeOK
<1>4. DOMAIN log[g] = 1 .. Len(log[g]) /\ DOMAIN log'[g] = 1 .. n
  BY <1>1, <1>3
<1> QED
  BY <1>1, <1>4 DEF Appended

SenderStep(t) ==
    \/ KeyCreated(t) \/ KeyLoaded(t) \/ KeyStored(t) \/ KeySent(t)
    \/ EncryptBegun(t) \/ EncryptEnded(t) \/ MessageSent(t)

LEMMA StepKinds ==
    ASSUME TypeOK, Positions, [Next]_vars
    PROVE  QuietStep \/ \E t \in Send : SenderStep(t)
<1>1. ASSUME NEW t \in Send, StartSend(t)
      PROVE  QuietStep
  <2>1. UNCHANGED <<record, chains, log>>
    BY <1>1 DEF StartSend
  <2>2. \A u \in Send : u # t => CalmSend(u)
    BY <1>1, StartSendEffect DEF CalmSend
  <2>3. CalmSend(t)
    BY <1>1, StartSendEffect DEF CalmSend
  <2> QED BY <2>1, <2>2, <2>3 DEF QuietStep
<1>2. ASSUME NEW t \in Send, CreateKey(t)
      PROVE  SenderStep(t)
  <2>1. record' = record /\ log' = log
    BY <1>2 DEF CreateKey
  <2> QED BY <1>2, <2>1, CreateKeyEffect DEF SenderStep, KeyCreated, KeyLoaded, Only
<1>3. ASSUME NEW t \in Send, StoreKey(t)
      PROVE  SenderStep(t)
  <2>1. chains' = chains /\ log' = log
    BY <1>3 DEF StoreKey
  <2> QED BY <1>3, <2>1, StoreKeyEffect DEF SenderStep, KeyStored, Only
<1>4. ASSUME NEW t \in Send, FetchBundles(t) \/ BeginWrap(t) \/ EndWrap(t)
      PROVE  QuietStep
  <2>1. UNCHANGED <<record, chains, log>>
    BY <1>4 DEF FetchBundles, BeginWrap, EndWrap
  <2>2. \A u \in Send : u # t => CalmSend(u)
    BY <1>4, FetchBundlesEffect, BeginWrapEffect, EndWrapEffect DEF CalmSend
  <2>3. CalmSend(t)
    BY <1>4, FetchBundlesEffect, BeginWrapEffect, EndWrapEffect DEF CalmSend
  <2> QED BY <2>1, <2>2, <2>3 DEF QuietStep
<1>5. ASSUME NEW t \in Send, EmitKey(t)
      PROVE  QuietStep \/ SenderStep(t)
  <2>1. record' = record /\ chains' = chains
    BY <1>5 DEF EmitKey
  <2>2. /\ task[t].step = "wrap" /\ task'[t].step = "encrypt"
        /\ \A u \in Send : u # t => task'[u] = task[u]
        /\ task'[t].group = task[t].group /\ task'[t].loaded = task[t].loaded
        /\ log' = log \/ AppendEntry(t, "key", task[t].wrapped)
    BY <1>5, EmitKeyEffect
  <2>3. CASE log' = log
    BY <2>1, <2>2, <2>3 DEF QuietStep, CalmSend
  <2>4. CASE AppendEntry(t, "key", task[t].wrapped)
    <3>1. Appended(task[t].group, "key", task[t].key)
      BY <2>4, AppendedEntry, TaskFields
    <3> QED BY <2>1, <2>2, <3>1 DEF SenderStep, KeySent, Only
  <2> QED BY <2>2, <2>3, <2>4
<1>6. ASSUME NEW t \in Send, BeginEncrypt(t)
      PROVE  QuietStep \/ SenderStep(t)
  <2>1. UNCHANGED <<record, chains, log>>
    BY <1>6 DEF BeginEncrypt
  <2>2. /\ task[t].step = "encrypt"
        /\ \A u \in Send : u # t => task'[u] = task[u]
        /\ \/ task'[t].step = "idle" /\ task'[t].loaded = <<>>
           \/ /\ task'[t].step = "encrypting" /\ task'[t].group = task[t].group
              /\ task'[t].loaded = record[task[t].group]
              /\ record[task[t].group] # <<>>
              /\ task'[t].key = KeyMessageOf(record[task[t].group])
              /\ ~GroupCipherBorrowed(t)
    BY <1>6, BeginEncryptEffect DEF CanGroupEncrypt
  <2>3. CASE task'[t].step = "idle" /\ task'[t].loaded = <<>>
    BY <2>1, <2>2, <2>3 DEF QuietStep, CalmSend
  <2>4. CASE task'[t].step # "idle"
    BY <2>1, <2>2, <2>4 DEF SenderStep, EncryptBegun, Only, GroupCipherBorrowed
  <2> QED BY <2>2, <2>3, <2>4
<1>7. ASSUME NEW t \in Send, EndEncrypt(t)
      PROVE  SenderStep(t)
  <2>1. chains' = chains /\ log' = log
    BY <1>7 DEF EndEncrypt
  <2> QED BY <1>7, <2>1, EndEncryptEffect DEF SenderStep, EncryptEnded, Only
<1>8. ASSUME NEW t \in Send, EmitMessage(t)
      PROVE  QuietStep \/ SenderStep(t)
  <2>1. record' = record /\ chains' = chains
    BY <1>8 DEF EmitMessage
  <2>2. /\ task[t].step = "send" /\ task'[t].step = "idle" /\ task'[t].loaded = <<>>
        /\ \A u \in Send : u # t => task'[u] = task[u]
        /\ log' = log \/ AppendEntry(t, "message", {})
    BY <1>8, EmitMessageEffect
  <2>3. CASE log' = log
    BY <2>1, <2>2, <2>3 DEF QuietStep, CalmSend
  <2>4. CASE AppendEntry(t, "message", {})
    <3>1. Appended(task[t].group, "message", task[t].key)
      BY <2>4, AppendedEntry
    <3> QED BY <2>1, <2>2, <3>1 DEF SenderStep, MessageSent
  <2> QED BY <2>2, <2>3, <2>4
<1>9. ASSUME NEW g \in Group, OpenConversation(g)
      PROVE  QuietStep
  <2>1. UNCHANGED <<record, chains, log>>
    BY <1>9 DEF OpenConversation
  <2> QED BY <1>9, <2>1, OpenConversationEffect DEF QuietStep, CalmSend
<1>10. ASSUME NEW d \in Device, LinkDevice(d)
       PROVE  QuietStep
  BY <1>10 DEF LinkDevice, senderVars, QuietStep, CalmSend
<1>11. ASSUME NEW d \in Device, NEW g \in Group,
              LoadLatest(d, g) \/ LoadOlder(d, g) \/ ProcessPage(d, g) \/ ProcessLive(d, g)
       PROVE  QuietStep
  <2>1. senderVars' = senderVars /\ log' = log
    BY <1>11, ReceiverStep
  <2> QED BY <2>1 DEF senderVars, QuietStep, CalmSend
<1>12. CASE UNCHANGED vars
  BY <1>12 DEF vars, senderVars, QuietStep, CalmSend
<1> QED
  BY <1>1, <1>2, <1>3, <1>4, <1>5, <1>6, <1>7, <1>8, <1>9, <1>10, <1>11, <1>12
     DEF Next, SendStep

-----------------------------------------------------------------------------
(* The sender's record                                                     *)

\* A record of at most one state.
LEMMA OnlyState ==
    ASSUME NEW r \in SenderKeyRecord, Len(r) <= 1, r # <<>>
    PROVE  /\ DOMAIN r = {1} /\ Len(r) = 1 /\ r[1] \in SenderKeyState
           /\ KeyMessageOf(r).chain = r[1].chain
           /\ KeyMessageOf(r).iteration = r[1].iteration
<1>1. Len(r) \in Nat /\ DOMAIN r = 1 .. Len(r) /\ \A i \in 1 .. Len(r) : r[i] \in SenderKeyState
  BY RecordFields
<1>2. Len(r) # 0
  BY DEF SenderKeyRecord
<1>3. Len(r) = 1
  BY <1>1, <1>2
<1>4. 1 .. 1 = {1}
  OBVIOUS
<1>5. Head(r) = r[1]
  BY <1>3 DEF SenderKeyRecord
<1> QED
  BY <1>1, <1>3, <1>4, <1>5 DEF KeyMessageOf

LEMMA OneSenderStateStep ==
    ASSUME TypeOK, Positions, OneSenderState, [Next]_vars
    PROVE  OneSenderState'
<1>1. DOMAIN <<>> = {} /\ Len(<<>>) = 0 /\ SenderState(<<>>)
  BY DEF SenderState
<1>2. CASE QuietStep
  <2>1. \A g \in Group : SenderState(record'[g])
    BY <1>2 DEF QuietStep, OneSenderState
  <2>2. ASSUME NEW t \in Send
        PROVE  SenderState(task'[t].loaded)
    <3>1. task'[t].loaded = task[t].loaded \/ task'[t].loaded = <<>>
      BY <1>2 DEF QuietStep, CalmSend
    <3> QED BY <1>1, <3>1 DEF OneSenderState
  <2> QED BY <2>1, <2>2 DEF OneSenderState
<1>3. ASSUME NEW t \in Send, SenderStep(t)
      PROVE  OneSenderState'
  <2> DEFINE g == task[t].group
  <2>0. /\ g \in Group /\ SenderState(record[g]) /\ SenderState(task[t].loaded)
        /\ task[t].loaded \in SenderKeyRecord
        /\ task[t].key.chain \in Chain /\ task[t].key.iteration \in Iteration
    BY TaskFields DEF OneSenderState, KeyMessage
  <2>1. \A u \in Send : u # t => task'[u] = task[u]
    BY <1>3 DEF SenderStep, KeyCreated, KeyLoaded, KeyStored, KeySent, EncryptBegun,
                EncryptEnded, MessageSent, Only
  <2>2. SenderState(task'[t].loaded)
    BY <1>1, <1>3, <2>0 DEF SenderStep, KeyCreated, KeyLoaded, KeyStored, KeySent,
                EncryptBegun, EncryptEnded, MessageSent, Only
  <2>3. ASSUME NEW h \in Group
        PROVE  SenderState(record'[h])
    <3>1. CASE KeyStored(t)
      <4>1. CASE h = g
        <5>1. NewState(task[t].key.chain, task[t].key.iteration).skipped = <<>>
          BY <2>0, NewStateProperties
        <5>2. /\ DOMAIN record'[h] = {1} /\ Len(record'[h]) = 1
              /\ record'[h][1] = NewState(task[t].key.chain, task[t].key.iteration)
          BY <3>1, <4>1 DEF KeyStored
        <5> QED BY <5>1, <5>2 DEF SenderState
      <4> QED BY <3>1, <4>1 DEF KeyStored, OneSenderState
    <3>2. CASE EncryptEnded(t)
      <4>1. CASE h = g
        <5> DEFINE r == task[t].loaded
        <5>1. record'[h] = GroupEncrypt(r) /\ CanGroupEncrypt(r)
          BY <3>2, <4>1 DEF EncryptEnded
        <5>2. /\ Len(GroupEncrypt(r)) = Len(r) /\ Len(r) >= 1
              /\ GroupEncrypt(r)[1].skipped = r[1].skipped
              /\ GroupEncrypt(r) \in SenderKeyRecord
          BY <2>0, <5>1, GroupEncryptProperties
        <5>3. Len(r) = 1 /\ DOMAIN r = {1} /\ DOMAIN GroupEncrypt(r) = {1}
          <6>1. Len(r) <= 1 /\ r # <<>>
            BY <2>0, <5>1 DEF SenderState, CanGroupEncrypt
          <6>2. Len(r) = 1 /\ DOMAIN r = {1}
            BY <2>0, <6>1, OnlyState
          <6>3. DOMAIN GroupEncrypt(r) = 1 .. 1
            BY <5>2, <6>2, RecordFields
          <6> QED BY <6>2, <6>3
        <5> QED BY <2>0, <5>1, <5>2, <5>3 DEF SenderState
      <4> QED BY <3>2, <4>1 DEF EncryptEnded, OneSenderState
    <3>3. CASE record' = record
      BY <3>3 DEF OneSenderState
    <3> QED BY <1>3, <3>1, <3>2, <3>3 DEF SenderStep, KeyCreated, KeyLoaded, KeySent,
               EncryptBegun, MessageSent
  <2> QED BY <2>1, <2>2, <2>3 DEF OneSenderState
<1> QED
  BY <1>2, <1>3, StepKinds

-----------------------------------------------------------------------------
(* The chains                                                              *)

LEMMA ChainsTyped ==
    ASSUME TypeOK, NEW g \in Group, NEW c \in Chains(g, Send)
    PROVE  c \in Chain /\ c.signingKey \in Nat
<1>1. CASE c \in KeyChains(g, Send)
  BY <1>1, TaskFields DEF KeyChains, KeyMessage, Chain
<1>2. CASE c \in RecordChains(g)
  <2>1. record[g] \in SenderKeyRecord
    BY DEF TypeOK
  <2> QED BY <1>2, <2>1, RecordFields, StateFields DEF RecordChains, Chain
<1>3. CASE c \in LoadedChains(g)
  <2>1. PICK t \in Send : \E k \in DOMAIN task[t].loaded : c = task[t].loaded[k].chain
    BY <1>3 DEF LoadedChains
  <2> QED BY <2>1, TaskFields, RecordFields, StateFields DEF Chain
<1>4. CASE c \in LogChains(g)
  <2>1. log[g] \in Seq(Entry)
    BY DEF TypeOK
  <2>2. PICK i \in DOMAIN log[g] : c = log[g][i].body.chain
    BY <1>4 DEF LogChains
  <2>3. log[g][i] \in Entry
    BY <2>1, <2>2
  <2> QED BY <2>2, <2>3 DEF Entry, KeyMessage, Chain
<1> QED
  BY <1>1, <1>2, <1>3, <1>4 DEF Chains

\* No step brings a chain to a group but the one that creates it.  T are the sends
\* whose keys count; the one that moves is among them, or creates a chain.
LEMMA ChainsQuiet ==
    ASSUME TypeOK, QuietStep, NEW T \in SUBSET Send, NEW g \in Group, NEW c,
           c \in Chains(g, T)'
    PROVE  c \in Chains(g, T)
<1>1. CASE c \in KeyChains(g, T)'
  <2>1. PICK t \in T : Keyed(t)' /\ task'[t].group = g /\ c = task'[t].key.chain
    BY <1>1 DEF KeyChains
  <2>2. CalmSend(t)
    BY DEF QuietStep
  <2>3. Keyed(t) /\ task[t].group = g /\ c = task[t].key.chain
    BY <2>1, <2>2 DEF Keyed, CalmSend
  <2> QED BY <2>3 DEF Chains, KeyChains
<1>2. CASE c \in RecordChains(g)' \/ c \in LogChains(g)'
  BY <1>2 DEF QuietStep, RecordChains, LogChains, Chains
<1>3. CASE c \in LoadedChains(g)'
  <2>1. PICK t \in Send : /\ task'[t].group = g
                          /\ \E k \in DOMAIN task'[t].loaded : c = task'[t].loaded[k].chain
    BY <1>3 DEF LoadedChains
  <2>2. CalmSend(t) /\ task'[t].loaded # <<>>
    BY <2>1 DEF QuietStep
  <2>3. task[t].group = g /\ task[t].loaded = task'[t].loaded
    BY <2>1, <2>2 DEF CalmSend
  <2> QED BY <2>1, <2>3 DEF Chains, LoadedChains
<1> QED
  BY <1>1, <1>2, <1>3 DEF Chains

LEMMA ChainsStep ==
    ASSUME TypeOK, Positions, OneSenderState, NEW t \in Send, SenderStep(t),
           NEW T \in SUBSET Send, t \in T \/ KeyCreated(t),
           NEW g \in Group, NEW c, c \in Chains(g, T)'
    PROVE  \/ c \in Chains(g, T)
           \/ t \in T /\ KeyCreated(t) /\ g = task[t].group /\ c = task'[t].key.chain
<1> DEFINE own == record[task[t].group]
<1>0. /\ task[t].group \in Group /\ task[t].loaded \in SenderKeyRecord
      /\ own \in SenderKeyRecord /\ SenderState(own) /\ SenderState(task[t].loaded)
      /\ task[t].key.chain \in Chain /\ task[t].key.iteration \in Iteration
  BY TaskFields DEF OneSenderState, KeyMessage
<1>1. own # <<>> => KeyMessageOf(own).chain \in RecordChains(task[t].group)
  BY <1>0, OnlyState DEF RecordChains, SenderState
<1>2. Keyed(t) => task[t].key.chain \in KeyChains(task[t].group, {t})
  BY DEF KeyChains
<1>3. \A u \in Send : u # t => task'[u] = task[u]
  BY DEF SenderStep, KeyCreated, KeyLoaded, KeyStored, KeySent, EncryptBegun,
         EncryptEnded, MessageSent, Only
<1>4. CASE c \in KeyChains(g, T)'
  <2>1. PICK u \in T : Keyed(u)' /\ task'[u].group = g /\ c = task'[u].key.chain
    BY <1>4 DEF KeyChains
  <2>2. CASE u # t
    <3>1. Keyed(u) /\ task[u].group = g /\ c = task[u].key.chain
      BY <1>3, <2>1, <2>2 DEF Keyed
    <3> QED BY <3>1 DEF Chains, KeyChains
  <2>3. CASE u = t
    <3>1. CASE KeyCreated(t)
      BY <2>1, <2>3, <3>1 DEF KeyCreated, Only
    <3>2. CASE KeyLoaded(t) \/ EncryptBegun(t)
      <4>1. task[t].group = g /\ c = KeyMessageOf(own).chain /\ own # <<>>
        BY <2>1, <2>3, <3>2 DEF KeyLoaded, EncryptBegun, Only
      <4> QED BY <1>1, <4>1 DEF Chains
    <3>3. CASE KeyStored(t) \/ EncryptEnded(t)
      <4>1. Keyed(t) /\ task[t].group = g /\ c = task[t].key.chain
        BY <2>1, <2>3, <3>3 DEF KeyStored, EncryptEnded, Only, Keyed
      <4> QED BY <2>1, <2>3, <4>1 DEF Chains, KeyChains
    <3>4. CASE KeySent(t) \/ MessageSent(t)
      BY <2>1, <2>3, <3>4 DEF KeySent, MessageSent, Keyed
    <3> QED BY <3>1, <3>2, <3>3, <3>4 DEF SenderStep
  <2> QED BY <2>2, <2>3
<1>5. CASE c \in RecordChains(g)'
  <2>1. PICK k \in DOMAIN record'[g] : c = record'[g][k].chain
    BY <1>5 DEF RecordChains
  <2>2. CASE record'[g] = record[g]
    BY <2>1, <2>2 DEF RecordChains, Chains
  <2>3. CASE KeyStored(t) /\ g = task[t].group
    <3>1. c = task[t].key.chain /\ Keyed(t)
      BY <1>0, <2>1, <2>3, NewStateProperties DEF KeyStored, Keyed
    <3>2. t \in T
      BY <2>3 DEF KeyStored, KeyCreated
    <3> QED BY <2>3, <3>1, <3>2 DEF Chains, KeyChains
  <2>4. CASE EncryptEnded(t) /\ g = task[t].group
    <3> DEFINE r == task[t].loaded
    <3>1. record'[g] = GroupEncrypt(r) /\ CanGroupEncrypt(r) /\ r # <<>>
      BY <2>4 DEF EncryptEnded, CanGroupEncrypt
    <3>2. GroupEncrypt(r)[1].chain = r[1].chain /\ Len(GroupEncrypt(r)) = Len(r)
          /\ GroupEncrypt(r) \in SenderKeyRecord
      BY <1>0, <3>1, GroupEncryptProperties
    <3>3. DOMAIN r = {1} /\ DOMAIN GroupEncrypt(r) = {1}
      <4>1. DOMAIN r = {1} /\ Len(r) = 1
        BY <1>0, <3>1, OnlyState DEF SenderState
      <4>2. DOMAIN GroupEncrypt(r) = 1 .. 1
        BY <3>2, <4>1, RecordFields
      <4> QED BY <4>1, <4>2
    <3>4. c = r[1].chain
      BY <2>1, <3>1, <3>2, <3>3
    <3> QED BY <2>4, <3>3, <3>4 DEF Chains, LoadedChains
  <2> QED BY <2>2, <2>3, <2>4 DEF SenderStep, KeyCreated, KeyLoaded, KeyStored, KeySent,
             EncryptBegun, EncryptEnded, MessageSent
<1>6. CASE c \in LoadedChains(g)'
  <2>1. PICK u \in Send : /\ task'[u].group = g
                          /\ \E k \in DOMAIN task'[u].loaded : c = task'[u].loaded[k].chain
    BY <1>6 DEF LoadedChains
  <2>2. CASE task'[u].loaded = task[u].loaded /\ task'[u].group = task[u].group
    BY <2>1, <2>2 DEF LoadedChains, Chains
  <2>3. CASE u = t /\ EncryptBegun(t)
    BY <2>1, <2>3 DEF EncryptBegun, Only, RecordChains, Chains
  <2>4. CASE task'[u].loaded = <<>>
    BY <2>1, <2>4
  <2> QED BY <1>3, <2>2, <2>3, <2>4 DEF SenderStep, KeyCreated, KeyLoaded, KeyStored,
             KeySent, EncryptBegun, EncryptEnded, MessageSent, Only
<1>7. CASE c \in LogChains(g)'
  <2>1. PICK i \in DOMAIN log'[g] : c = log'[g][i].body.chain
    BY <1>7 DEF LogChains
  <2>2. CASE log'[g] = log[g]
    BY <2>1, <2>2 DEF LogChains, Chains
  <2>3. CASE /\ g = task[t].group /\ Keyed(t) /\ ~KeyCreated(t)
             /\ Appended(g, "key", task[t].key) \/ Appended(g, "message", task[t].key)
    <3>1. CASE i = Len(log[g]) + 1
      <4>1. c = task[t].key.chain /\ t \in T
        BY <2>1, <2>3, <3>1 DEF Appended
      <4> QED BY <2>3, <4>1 DEF Chains, KeyChains
    <3>2. CASE i # Len(log[g]) + 1
      <4>1. Len(log[g]) \in Nat
        BY DEF TypeOK
      <4>3. /\ DOMAIN log[g] = 1 .. Len(log[g]) /\ i \in 1 .. Len(log[g]) + 1
            /\ \A k \in 1 .. Len(log[g]) : log'[g][k] = log[g][k]
        BY <2>1, <2>3 DEF Appended
      <4>4. i \in 1 .. Len(log[g])
        BY <3>2, <4>1, <4>3
      <4>2. i \in DOMAIN log[g] /\ c = log[g][i].body.chain
        BY <2>1, <4>3, <4>4
      <4> QED BY <4>2 DEF LogChains, Chains
    <3> QED BY <3>1, <3>2
  <2>4. CASE KeySent(t) \/ MessageSent(t)
    <3>1. Keyed(t) /\ ~KeyCreated(t)
      BY <2>4 DEF KeySent, MessageSent, Keyed, KeyCreated
    <3>2. \/ Appended(task[t].group, "key", task[t].key)
          \/ Appended(task[t].group, "message", task[t].key)
      BY <2>4 DEF KeySent, MessageSent
    <3> QED BY <2>2, <2>3, <3>1, <3>2 DEF Appended
  <2> QED BY <2>2, <2>4 DEF SenderStep, KeyCreated, KeyLoaded, KeyStored, EncryptBegun,
             EncryptEnded
<1> QED
  BY <1>4, <1>5, <1>6, <1>7 DEF Chains

LEMMA ChainsKept ==
    ASSUME TypeOK, Positions, OneSenderState, ChainsGenerated, ChainsFresh, [Next]_vars
    PROVE  ChainsGenerated' /\ ChainsFresh'
<1>1. CASE QuietStep
  <2>1. ChainsGenerated'
    <3> SUFFICES ASSUME NEW g \in Group, NEW c, c \in Chains(g, Send)'
                 PROVE  c.signingKey <= chains'
      BY DEF ChainsGenerated
    <3>1. c \in Chains(g, Send)
      BY <1>1, ChainsQuiet
    <3> QED BY <1>1, <3>1 DEF ChainsGenerated, QuietStep
  <2>2. ChainsFresh'
    <3> SUFFICES ASSUME NEW t \in Send, task'[t].step = "store",
                        NEW g \in Group, NEW c, c \in Chains(g, Send \ {t})'
                 PROVE  c.signingKey # task'[t].key.chain.signingKey
      BY DEF ChainsFresh, At
    <3>1. task'[t] = task[t]
      BY <1>1 DEF QuietStep, CalmSend
    <3>2. c \in Chains(g, Send \ {t})
      BY <1>1, ChainsQuiet
    <3> QED BY <3>1, <3>2 DEF ChainsFresh, At
  <2> QED BY <2>1, <2>2
<1>2. ASSUME NEW t \in Send, SenderStep(t)
      PROVE  ChainsGenerated' /\ ChainsFresh'
  <2>0. chains \in Nat
    BY DEF TypeOK
  <2>1. /\ \A u \in Send : u # t => task'[u] = task[u]
        /\ IF KeyCreated(t) THEN chains' = chains + 1 ELSE chains' = chains
    BY <1>2 DEF SenderStep, KeyCreated, KeyLoaded, KeyStored, KeySent, EncryptBegun,
                EncryptEnded, MessageSent, Only
  <2>2. \A g \in Group : \A c \in Chains(g, Send) :
           c.signingKey \in Nat /\ c.signingKey <= chains
    BY ChainsTyped DEF ChainsGenerated
  <2>3. KeyCreated(t) => task'[t].key.chain.signingKey = chains + 1
    BY DEF KeyCreated
  <2>4. ChainsGenerated'
    <3> SUFFICES ASSUME NEW g \in Group, NEW c, c \in Chains(g, Send)'
                 PROVE  c.signingKey <= chains'
      BY DEF ChainsGenerated
    <3>1. \/ c \in Chains(g, Send)
          \/ KeyCreated(t) /\ c = task'[t].key.chain
      BY <1>2, ChainsStep
    <3> QED BY <2>0, <2>1, <2>2, <2>3, <3>1
  <2>5. ChainsFresh'
    <3> SUFFICES ASSUME NEW u \in Send, task'[u].step = "store",
                        NEW g \in Group, NEW c, c \in Chains(g, Send \ {u})'
                 PROVE  c.signingKey # task'[u].key.chain.signingKey
      BY DEF ChainsFresh, At
    <3>1. CASE u = t
      <4>1. KeyCreated(t)
        BY <1>2, <3>1 DEF SenderStep, KeyLoaded, KeyStored, KeySent, EncryptBegun,
                          EncryptEnded, MessageSent
      <4>2. c \in Chains(g, Send \ {t})
        BY <1>2, <3>1, <4>1, ChainsStep
      <4>3. c \in Chains(g, Send)
        BY <4>2 DEF Chains, KeyChains
      <4> QED BY <2>0, <2>2, <2>3, <3>1, <4>1, <4>3
    <3>2. CASE u # t
      <4>1. task'[u] = task[u] /\ task[u].group \in Group
        BY <2>1, <3>2, TaskFields
      <4>2. \/ c \in Chains(g, Send \ {u})
            \/ KeyCreated(t) /\ c = task'[t].key.chain
        BY <1>2, <3>2, ChainsStep
      <4>3. CASE c \in Chains(g, Send \ {u})
        BY <4>1, <4>3 DEF ChainsFresh, At
      <4>4. CASE KeyCreated(t) /\ c = task'[t].key.chain
        <5>1. task[u].key.chain \in Chains(task[u].group, Send)
          BY <4>1 DEF Chains, KeyChains, Keyed
        <5> QED BY <2>0, <2>2, <2>3, <4>1, <4>4, <5>1
      <4> QED BY <4>2, <4>3, <4>4
    <3> QED BY <3>1, <3>2
  <2> QED BY <2>4, <2>5
<1> QED
  BY <1>1, <1>2, StepKinds

-----------------------------------------------------------------------------
(* The messages                                                            *)

LEMMA EncryptAloneStep ==
    ASSUME TypeOK, Positions, EncryptAlone, [Next]_vars
    PROVE  EncryptAlone'
<1> SUFFICES ASSUME NEW t \in Send, NEW u \in Send, t # u,
                    task'[t].step = "encrypting", task'[u].step = "encrypting",
                    task'[t].group = task'[u].group
             PROVE  FALSE
  BY DEF EncryptAlone, At
<1>1. CASE QuietStep
  <2>1. task'[t] = task[t] /\ task'[u] = task[u]
    BY <1>1 DEF QuietStep, CalmSend
  <2> QED BY <2>1 DEF EncryptAlone, At
<1>2. ASSUME NEW s \in Send, SenderStep(s)
      PROVE  FALSE
  <2>1. \A v \in Send : v # s => task'[v] = task[v]
    BY <1>2 DEF SenderStep, KeyCreated, KeyLoaded, KeyStored, KeySent, EncryptBegun,
                EncryptEnded, MessageSent, Only
  <2>2. CASE s # t /\ s # u
    BY <2>1, <2>2 DEF EncryptAlone, At
  <2>3. CASE s = t \/ s = u
    <3>1. EncryptBegun(s)
      BY <1>2, <2>3 DEF SenderStep, KeyCreated, KeyLoaded, KeyStored, KeySent,
                        EncryptEnded, MessageSent
    <3> QED BY <2>1, <2>3, <3>1 DEF EncryptBegun, Only, At
  <2> QED BY <2>2, <2>3
<1> QED
  BY <1>1, <1>2, StepKinds

\* The entries of a history after one was appended.
LEMMA EntriesAfter ==
    ASSUME TypeOK, NEW h \in Group, NEW type, NEW body, Appended(h, type, body),
           NEW g \in Group, NEW any, NEW i, i \in Entries(g, any)'
    PROVE  \/ i \in Entries(g, any) /\ log'[g][i] = log[g][i]
           \/ /\ g = h /\ any = type /\ i = Len(log[h]) + 1
              /\ log'[g][i].body = body
<1>1. i \in DOMAIN log'[g] /\ log'[g][i].type = any
  BY DEF Entries
<1>2. CASE g # h
  BY <1>1, <1>2 DEF Appended, Entries
<1>3. CASE g = h
  <2>1. Len(log[g]) \in Nat
    BY DEF TypeOK
  <2>2. /\ DOMAIN log[g] = 1 .. Len(log[g]) /\ i \in 1 .. Len(log[g]) + 1
        /\ \A k \in 1 .. Len(log[g]) : log'[g][k] = log[g][k]
        /\ log'[g][Len(log[g]) + 1].type = type /\ log'[g][Len(log[g]) + 1].body = body
    BY <1>1, <1>3 DEF Appended
  <2>3. CASE i = Len(log[g]) + 1
    BY <1>1, <1>3, <2>2, <2>3
  <2>4. CASE i # Len(log[g]) + 1
    <3>1. i \in 1 .. Len(log[g])
      BY <2>1, <2>2, <2>4
    <3> QED BY <1>1, <2>2, <3>1 DEF Entries
  <2> QED BY <2>3, <2>4
<1> QED
  BY <1>2, <1>3

LEMMA EntryFields ==
    ASSUME TypeOK, NEW g \in Group, NEW i \in DOMAIN log[g]
    PROVE  /\ log[g][i] \in Entry /\ log[g][i].body \in KeyMessage
           /\ log[g][i].body.chain \in Chain /\ log[g][i].body.iteration \in Iteration
           /\ log[g][i].body.iteration \in Nat /\ i \in Nat \ {0}
           /\ log[g][i].body.chain \in LogChains(g)
<1>1. log[g] \in Seq(Entry)
  BY DEF TypeOK
<1>2. log[g][i] \in Entry /\ i \in Nat \ {0}
  BY <1>1
<1>3. log[g][i].body \in KeyMessage
  BY <1>2 DEF Entry
<1>4. log[g][i].body.chain \in Chain /\ log[g][i].body.iteration \in Iteration
  BY <1>3 DEF KeyMessage
<1>5. log[g][i].body.iteration \in Nat
  BY <1>4, SenderKeyLimits DEF Iteration
<1> QED
  BY <1>2, <1>3, <1>4, <1>5 DEF LogChains

\* No step takes the record, or the one in use, back to a message: a new chain is not
\* the message's.
AheadAfter(g, m) ==
    /\ Ahead(record'[g], m)
    /\ \A t \in Send : task'[t].step = "encrypting" /\ task'[t].group = g =>
          Ahead(task'[t].loaded, m)

LEMMA SenderStaysAhead ==
    ASSUME TypeOK, Positions, OneSenderState, ChainsFresh, NEW g \in Group,
           NEW m \in KeyMessage, SenderAhead(g, m),
           \/ QuietStep
           \/ \E t \in Send : SenderStep(t) /\ m.chain \in Chains(g, Send \ {t})
           \/ \E t \in Send : SenderStep(t) /\ ~KeyStored(t)
    PROVE  AheadAfter(g, m)
<1>1. CASE QuietStep
  <2>1. Ahead(record'[g], m)
    BY <1>1 DEF QuietStep, SenderAhead
  <2>2. ASSUME NEW u \in Send, task'[u].step = "encrypting", task'[u].group = g
        PROVE  Ahead(task'[u].loaded, m)
    <3>1. task'[u] = task[u]
      BY <1>1, <2>2 DEF QuietStep, CalmSend
    <3> QED BY <2>2, <3>1 DEF SenderAhead, At
  <2> QED BY <2>1, <2>2 DEF AheadAfter
<1>2. ASSUME NEW t \in Send, SenderStep(t),
             m.chain \in Chains(g, Send \ {t}) \/ ~KeyStored(t)
      PROVE  AheadAfter(g, m)
  <2>0. /\ task[t].group \in Group /\ task[t].loaded \in SenderKeyRecord
        /\ task[t].key.chain \in Chain /\ task[t].key.iteration \in Iteration
        /\ m.iteration \in Nat
    BY TaskFields, SenderKeyLimits DEF KeyMessage, Iteration
  <2>1. \A v \in Send : v # t => task'[v] = task[v]
    BY <1>2 DEF SenderStep, KeyCreated, KeyLoaded, KeyStored, KeySent, EncryptBegun,
                EncryptEnded, MessageSent, Only
  <2>2. Ahead(record'[g], m)
    <3>1. CASE KeyStored(t) /\ g = task[t].group
      <4>1. At(t, "store") /\ m.chain \in Chains(g, Send \ {t})
        BY <1>2, <3>1 DEF KeyStored, At
      <4>2. m.chain # task[t].key.chain
        BY <4>1 DEF ChainsFresh
      <4>3. DOMAIN record'[g] = {1} /\ record'[g][1].chain = task[t].key.chain
        BY <2>0, <3>1, NewStateProperties DEF KeyStored
      <4> QED BY <4>2, <4>3 DEF Ahead
    <3>2. CASE EncryptEnded(t) /\ g = task[t].group
      <4> DEFINE r == task[t].loaded
      <4>1. record'[g] = GroupEncrypt(r) /\ CanGroupEncrypt(r) /\ r # <<>>
        BY <3>2 DEF EncryptEnded, CanGroupEncrypt
      <4>2. /\ GroupEncrypt(r)[1].chain = r[1].chain
            /\ GroupEncrypt(r)[1].iteration = r[1].iteration + 1
            /\ Len(GroupEncrypt(r)) = Len(r) /\ GroupEncrypt(r) \in SenderKeyRecord
        BY <2>0, <4>1, GroupEncryptProperties
      <4>3. DOMAIN r = {1} /\ Len(r) = 1 /\ r[1] \in SenderKeyState
        BY <2>0, <4>1, OnlyState DEF OneSenderState, SenderState
      <4>4. DOMAIN GroupEncrypt(r) = 1 .. 1 /\ r[1].iteration \in Nat
        BY <4>2, <4>3, RecordFields, StateFields
      <4>5. r[1].chain = m.chain => m.iteration < r[1].iteration
        BY <3>2, <4>3 DEF SenderAhead, Ahead, EncryptEnded, At
      <4>6. \A k \in 1 .. 1 : k = 1
        OBVIOUS
      <4> QED BY <2>0, <4>1, <4>2, <4>4, <4>5, <4>6 DEF Ahead
    <3>3. CASE record'[g] = record[g]
      BY <3>3 DEF SenderAhead
    <3> QED BY <1>2, <3>1, <3>2, <3>3 DEF SenderStep, KeyCreated, KeyLoaded, KeyStored,
               KeySent, EncryptBegun, EncryptEnded, MessageSent
  <2>3. ASSUME NEW u \in Send, task'[u].step = "encrypting", task'[u].group = g
        PROVE  Ahead(task'[u].loaded, m)
    <3>1. CASE u # t
      BY <2>1, <2>3, <3>1 DEF SenderAhead, At
    <3>2. CASE u = t
      <4>1. EncryptBegun(t)
        BY <1>2, <2>3, <3>2 DEF SenderStep, KeyCreated, KeyLoaded, KeyStored, KeySent,
                               EncryptEnded, MessageSent
      <4> QED BY <2>3, <3>2, <4>1 DEF EncryptBegun, Only, SenderAhead
    <3> QED BY <3>1, <3>2
  <2> QED BY <2>2, <2>3 DEF AheadAfter
<1> QED
  BY <1>1, <1>2

LEMMA MessagesBehindStep ==
    ASSUME TypeOK, Positions, OneSenderState, ChainsFresh, EncryptAlone, MessagesBehind,
           [Next]_vars
    PROVE  MessagesBehind'
<1>1. ASSUME NEW g \in Group, NEW i, i \in Entries(g, "message")
      PROVE  AheadAfter(g, log[g][i].body)
  <2>1. /\ log[g][i].body \in KeyMessage /\ log[g][i].body.chain \in LogChains(g)
        /\ SenderAhead(g, log[g][i].body)
    BY <1>1, EntryFields DEF Entries, MessagesBehind
  <2>2. PICK m \in KeyMessage : m = log[g][i].body
    BY <2>1
  <2>3. \A t \in Send : m.chain \in Chains(g, Send \ {t})
    BY <2>1, <2>2 DEF Chains
  <2>4. SenderAhead(g, m)
    BY <2>1, <2>2
  <2> QED BY <2>2, <2>3, <2>4, SenderStaysAhead, StepKinds
<1>2. ASSUME NEW t \in Send, task[t].step = "send",
             \/ QuietStep
             \/ \E u \in Send : SenderStep(u) /\ (u # t \/ ~KeyStored(u))
      PROVE  AheadAfter(task[t].group, task[t].key)
  <2>1. /\ task[t].group \in Group /\ task[t].key \in KeyMessage
        /\ SenderAhead(task[t].group, task[t].key)
    BY <1>2, TaskFields DEF MessagesBehind, At
  <2>2. PICK m \in KeyMessage : m = task[t].key
    BY <2>1
  <2>3. \A u \in Send : u # t => m.chain \in Chains(task[t].group, Send \ {u})
    BY <1>2, <2>2 DEF Chains, KeyChains, Keyed
  <2>4. SenderAhead(task[t].group, m)
    BY <2>1, <2>2
  <2> QED BY <1>2, <2>1, <2>2, <2>3, <2>4, SenderStaysAhead
<1>3. ASSUME NEW g \in Group, NEW i, i \in Entries(g, "message")'
      PROVE  AheadAfter(g, log'[g][i].body)
  <2>1. CASE QuietStep
    <3>1. i \in Entries(g, "message") /\ log'[g][i] = log[g][i]
      BY <1>3, <2>1 DEF QuietStep, Entries
    <3> QED BY <1>1, <3>1
  <2>2. ASSUME NEW t \in Send, SenderStep(t), log' = log
        PROVE  AheadAfter(g, log'[g][i].body)
    <3>1. i \in Entries(g, "message") /\ log'[g][i] = log[g][i]
      BY <1>3, <2>2 DEF Entries
    <3> QED BY <1>1, <3>1
  <2>3. ASSUME NEW t \in Send, KeySent(t)
        PROVE  AheadAfter(g, log'[g][i].body)
    <3>1. i \in Entries(g, "message") /\ log'[g][i] = log[g][i]
      <4>1. task[t].group \in Group /\ Appended(task[t].group, "key", task[t].key)
        BY <2>3, TaskFields DEF KeySent
      <4> QED BY <1>3, <4>1, EntriesAfter
    <3> QED BY <1>1, <3>1
  <2>4. ASSUME NEW t \in Send, MessageSent(t)
        PROVE  AheadAfter(g, log'[g][i].body)
    <3>1. task[t].group \in Group /\ Appended(task[t].group, "message", task[t].key)
      BY <2>4, TaskFields DEF MessageSent
    <3>2. \/ i \in Entries(g, "message") /\ log'[g][i] = log[g][i]
          \/ g = task[t].group /\ log'[g][i].body = task[t].key
      BY <1>3, <3>1, EntriesAfter
    <3>3. AheadAfter(task[t].group, task[t].key)
      <4>1. SenderStep(t) /\ ~KeyStored(t) /\ task[t].step = "send"
        BY <2>4 DEF SenderStep, MessageSent, KeyStored
      <4> QED BY <1>2, <4>1
    <3> QED BY <1>1, <3>2, <3>3
  <2>5. ASSUME NEW t \in Send, SenderStep(t)
        PROVE  log' = log \/ KeySent(t) \/ MessageSent(t)
    BY <2>5 DEF SenderStep, KeyCreated, KeyLoaded, KeyStored, EncryptBegun, EncryptEnded
  <2> QED BY <2>1, <2>2, <2>3, <2>4, <2>5, StepKinds
<1>4. ASSUME NEW u \in Send, task'[u].step = "send"
      PROVE  AheadAfter(task'[u].group, task'[u].key)
  <2>1. CASE QuietStep
    <3>1. task'[u] = task[u]
      BY <1>4, <2>1 DEF QuietStep, CalmSend
    <3> QED BY <1>2, <1>4, <2>1, <3>1
  <2>2. ASSUME NEW t \in Send, SenderStep(t), u # t
        PROVE  AheadAfter(task'[u].group, task'[u].key)
    <3>1. task'[u] = task[u]
      BY <2>2 DEF SenderStep, KeyCreated, KeyLoaded, KeyStored, KeySent, EncryptBegun,
                  EncryptEnded, MessageSent, Only
    <3> QED BY <1>2, <1>4, <2>2, <3>1
  <2>3. ASSUME SenderStep(u)
        PROVE  AheadAfter(task'[u].group, task'[u].key)
    <3> DEFINE r == task[u].loaded
               g == task[u].group
    <3>1. EncryptEnded(u)
      BY <1>4, <2>3 DEF SenderStep, KeyCreated, KeyLoaded, KeyStored, KeySent,
                        EncryptBegun, MessageSent
    <3>2. /\ task'[u].group = g /\ task'[u].key = KeyMessageOf(r)
          /\ record'[g] = GroupEncrypt(r) /\ CanGroupEncrypt(r) /\ r # <<>>
          /\ r \in SenderKeyRecord /\ Len(r) <= 1 /\ At(u, "encrypting") /\ g \in Group
      BY <3>1, TaskFields DEF EncryptEnded, Only, CanGroupEncrypt, OneSenderState,
                              SenderState, At
    <3>3. /\ GroupEncrypt(r)[1].iteration = r[1].iteration + 1
          /\ Len(GroupEncrypt(r)) = Len(r) /\ GroupEncrypt(r) \in SenderKeyRecord
          /\ KeyMessageOf(r).iteration = r[1].iteration
      BY <3>2, GroupEncryptProperties
    <3>4. DOMAIN r = {1} /\ Len(r) = 1 /\ r[1].iteration \in Nat
      BY <3>2, OnlyState, StateFields
    <3>5. DOMAIN GroupEncrypt(r) = {1}
      <4>1. DOMAIN GroupEncrypt(r) = 1 .. 1
        BY <3>3, <3>4, RecordFields
      <4> QED BY <4>1
    <3>6. Ahead(record'[g], KeyMessageOf(r))
      BY <3>2, <3>3, <3>4, <3>5 DEF Ahead
    <3>7. \A v \in Send : ~(task'[v].step = "encrypting" /\ task'[v].group = g)
      BY <1>4, <3>1, <3>2 DEF EncryptEnded, Only, EncryptAlone, At
    <3> QED BY <3>2, <3>6, <3>7 DEF AheadAfter
  <2> QED BY <2>1, <2>2, <2>3, StepKinds
<1> QED
  BY <1>3, <1>4 DEF MessagesBehind, SenderAhead, AheadAfter, At

LEMMA MessagesDifferStep ==
    ASSUME TypeOK, Positions, OneSenderState, MessagesBehind, MessagesDiffer, [Next]_vars
    PROVE  MessagesDiffer'
<1>1. ASSUME NEW t \in Send, task'[t].step = "send"
      PROVE  \/ task[t].step = "send" /\ task'[t] = task[t]
             \/ EncryptEnded(t)
  BY <1>1, StepKinds DEF QuietStep, CalmSend, SenderStep, KeyCreated, KeyLoaded, KeyStored,
     KeySent, EncryptBegun, EncryptEnded, MessageSent, Only
<1>2. ASSUME NEW g \in Group, NEW i, i \in Entries(g, "message")'
      PROVE  \/ i \in Entries(g, "message") /\ log'[g][i].body = log[g][i].body
             \/ \E t \in Send : /\ MessageSent(t) /\ g = task[t].group
                                /\ i = Len(log[g]) + 1 /\ log'[g][i].body = task[t].key
  <2>1. CASE log' = log
    BY <1>2, <2>1 DEF Entries
  <2>2. ASSUME NEW t \in Send, KeySent(t) \/ MessageSent(t)
        PROVE  \/ i \in Entries(g, "message") /\ log'[g][i].body = log[g][i].body
               \/ /\ MessageSent(t) /\ g = task[t].group
                  /\ i = Len(log[g]) + 1 /\ log'[g][i].body = task[t].key
    <3>1. task[t].group \in Group
      BY TaskFields
    <3>2. CASE KeySent(t)
      <4>1. Appended(task[t].group, "key", task[t].key)
        BY <3>2 DEF KeySent
      <4> QED BY <1>2, <3>1, <4>1, EntriesAfter
    <3>3. CASE MessageSent(t)
      <4>1. Appended(task[t].group, "message", task[t].key)
        BY <3>3 DEF MessageSent
      <4> QED BY <1>2, <3>1, <3>3, <4>1, EntriesAfter
    <3> QED BY <2>2, <3>2, <3>3
  <2>3. log' = log \/ \E t \in Send : KeySent(t) \/ MessageSent(t)
    BY StepKinds DEF QuietStep, SenderStep, KeyCreated, KeyLoaded, KeyStored, EncryptBegun,
                     EncryptEnded
  <2> QED BY <2>1, <2>2, <2>3
<1>3. ASSUME NEW t \in Send, EncryptEnded(t), NEW m \in KeyMessage,
             SenderAhead(task[t].group, m)
      PROVE  m # task'[t].key
  <2> DEFINE r == task[t].loaded
  <2>1. /\ task'[t].key = KeyMessageOf(r) /\ Ahead(r, m) /\ r # <<>>
        /\ r \in SenderKeyRecord /\ Len(r) <= 1
    BY <1>3, TaskFields DEF EncryptEnded, SenderAhead, At, CanGroupEncrypt,
                            OneSenderState, SenderState
  <2>2. /\ DOMAIN r = {1} /\ r[1] \in SenderKeyState
        /\ KeyMessageOf(r).chain = r[1].chain /\ KeyMessageOf(r).iteration = r[1].iteration
    BY <2>1, OnlyState
  <2>3. r[1].chain = m.chain => m.iteration < r[1].iteration
    BY <2>1, <2>2 DEF Ahead
  <2>4. r[1].iteration \in Nat /\ m.iteration \in Nat
    BY <2>2, StateFields, SenderKeyLimits DEF KeyMessage, Iteration
  <2> QED BY <2>1, <2>2, <2>3, <2>4
<1>4. ASSUME NEW g \in Group, NEW i, NEW j,
             i \in Entries(g, "message")', j \in Entries(g, "message")',
             log'[g][i].body = log'[g][j].body
      PROVE  i = j
  <2>1. CASE i \in Entries(g, "message") /\ log'[g][i].body = log[g][i].body
    <3>1. CASE j \in Entries(g, "message") /\ log'[g][j].body = log[g][j].body
      BY <1>4, <2>1, <3>1 DEF MessagesDiffer, SenderKeysUnique
    <3>2. CASE ~(j \in Entries(g, "message") /\ log'[g][j].body = log[g][j].body)
      <4>1. PICK t \in Send : MessageSent(t) /\ g = task[t].group /\ log'[g][j].body = task[t].key
        BY <1>2, <1>4, <3>2
      <4> QED BY <1>4, <2>1, <4>1 DEF MessageSent, MessagesDiffer, At
    <3> QED BY <3>1, <3>2
  <2>2. CASE ~(i \in Entries(g, "message") /\ log'[g][i].body = log[g][i].body)
    <3>1. PICK t \in Send : /\ MessageSent(t) /\ g = task[t].group
                            /\ i = Len(log[g]) + 1 /\ log'[g][i].body = task[t].key
      BY <1>2, <1>4, <2>2
    <3>2. CASE j \in Entries(g, "message") /\ log'[g][j].body = log[g][j].body
      BY <1>4, <3>1, <3>2 DEF MessageSent, MessagesDiffer, At
    <3>3. CASE ~(j \in Entries(g, "message") /\ log'[g][j].body = log[g][j].body)
      BY <1>2, <1>4, <3>1, <3>3
    <3> QED BY <3>2, <3>3
  <2> QED BY <2>1, <2>2
<1>5. ASSUME NEW t \in Send, task'[t].step = "send", NEW g \in Group, g = task'[t].group,
             NEW i, i \in Entries(g, "message")'
      PROVE  log'[g][i].body # task'[t].key
  <2>1. CASE task[t].step = "send" /\ task'[t] = task[t]
    <3>1. CASE i \in Entries(g, "message") /\ log'[g][i].body = log[g][i].body
      BY <1>5, <2>1, <3>1 DEF MessagesDiffer, At
    <3>2. ASSUME NEW u \in Send, MessageSent(u), g = task[u].group,
                 log'[g][i].body = task[u].key
          PROVE  log'[g][i].body # task'[t].key
      <4>1. u # t
        BY <1>5, <3>2 DEF MessageSent
      <4> QED BY <1>5, <2>1, <3>2, <4>1 DEF MessageSent, MessagesDiffer, At
    <3> QED BY <1>2, <1>5, <3>1, <3>2
  <2>2. CASE EncryptEnded(t)
    <3>1. g = task[t].group /\ log' = log
      BY <1>5, <2>2 DEF EncryptEnded, Only
    <3>2. i \in Entries(g, "message") /\ i \in DOMAIN log[g]
      BY <1>5, <3>1 DEF Entries
    <3>3. PICK m \in KeyMessage : m = log[g][i].body
      BY <1>5, <3>2, EntryFields
    <3>4. SenderAhead(g, m)
      BY <1>5, <3>2, <3>3 DEF MessagesBehind
    <3> QED BY <1>3, <2>2, <3>1, <3>3, <3>4
  <2> QED BY <1>1, <1>5, <2>1, <2>2
<1>6. ASSUME NEW t \in Send, EncryptEnded(t), NEW u \in Send, u # t, task'[u].step = "send",
             task'[u].group = task[t].group
      PROVE  task'[u].key # task'[t].key
  <2>1. task'[u] = task[u]
    BY <1>6 DEF EncryptEnded, Only
  <2>2. PICK m \in KeyMessage : m = task[u].key
    BY TaskFields
  <2>3. SenderAhead(task[t].group, m)
    BY <1>6, <2>1, <2>2, TaskFields DEF MessagesBehind, At
  <2> QED BY <1>3, <1>6, <2>1, <2>2, <2>3
<1>7. ASSUME NEW t \in Send, NEW u \in Send, task'[t].step = "send", task'[u].step = "send",
             task'[t].group = task'[u].group, task'[t].key = task'[u].key
      PROVE  t = u
  <2>1. EncryptEnded(t) => task'[t].group = task[t].group
    BY DEF EncryptEnded, Only
  <2>2. EncryptEnded(u) => task'[u].group = task[u].group
    BY DEF EncryptEnded, Only
  <2>3. CASE EncryptEnded(t)
    BY <1>6, <1>7, <2>1, <2>3
  <2>4. CASE EncryptEnded(u)
    BY <1>6, <1>7, <2>2, <2>4
  <2>5. CASE task'[t] = task[t] /\ task'[u] = task[u]
    BY <1>7, <2>5 DEF MessagesDiffer, At
  <2> QED BY <1>1, <1>7, <2>3, <2>4, <2>5
<1>8. \A t \in Send : task'[t].group \in Group
  BY GroupStepType DEF TypeOK, SendState
<1>9. SenderKeysUnique'
  BY <1>4 DEF SenderKeysUnique
<1>10. \A t \in Send : At(t, "send")' =>
          \A i \in Entries(task[t].group, "message")' : log'[task'[t].group][i].body # task'[t].key
  BY <1>5, <1>8 DEF At, Entries
<1> QED
  BY <1>7, <1>9, <1>10 DEF MessagesDiffer, At

LEMMA SenderInvInit == Init => TypeOK /\ Positions /\ SenderInv
<1> SUFFICES ASSUME Init
             PROVE  TypeOK /\ Positions /\ SenderInv
  OBVIOUS
<1>1. TypeOK /\ Positions
  BY GroupInitType
<1>2. /\ \A t \in Send : task[t].step = "idle" /\ task[t].loaded = <<>>
      /\ \A g \in Group : record[g] = <<>> /\ log[g] = <<>>
  BY DEF Init, IdleSend
<1>3. DOMAIN <<>> = {} /\ Len(<<>>) = 0
  OBVIOUS
<1>4. \A g \in Group, T \in SUBSET Send : Chains(g, T) = {}
  BY <1>2, <1>3 DEF Chains, KeyChains, RecordChains, LoadedChains, LogChains, Keyed
<1>5. \A g \in Group : Entries(g, "message") = {}
  BY <1>2, <1>3 DEF Entries
<1>6. OneSenderState /\ ChainsGenerated /\ ChainsFresh
  BY <1>2, <1>3, <1>4 DEF OneSenderState, SenderState, ChainsGenerated, ChainsFresh, At
<1>7. EncryptAlone /\ MessagesBehind /\ MessagesDiffer
  BY <1>2, <1>5 DEF EncryptAlone, MessagesBehind, MessagesDiffer, SenderKeysUnique, At
<1> QED
  BY <1>1, <1>6, <1>7 DEF SenderInv

LEMMA SenderInvStep ==
    TypeOK /\ Positions /\ SenderInv /\ [Next]_vars => (TypeOK /\ Positions /\ SenderInv)'
  BY GroupStepType, OneSenderStateStep, ChainsKept, EncryptAloneStep, MessagesBehindStep,
     MessagesDifferStep DEF SenderInv

\* group_encrypt and create_sender_key_distribution: the sender keeps one state a group, a
\* chain it has not stored yet is nowhere else, one encryption of a group runs at a time,
\* and the messages sent or about to be are all different and behind the record.
THEOREM SenderInvariant == Spec => [](TypeOK /\ Positions /\ SenderInv)
  BY SenderInvInit, SenderInvStep, PTL DEF Spec

\* However sends overlap, on whatever groups, no two messages of a group are encrypted
\* under one sender key iteration: the cipher stays borrowed from the load to the store
\* of group_encrypt, and a chain that is generated over another is new.
THEOREM SenderKeysUsedOnce == Spec => []SenderKeysUnique
<1>1. SenderInv => SenderKeysUnique
  BY DEF SenderInv, MessagesDiffer
<1> QED
  BY SenderInvariant, <1>1, PTL

-----------------------------------------------------------------------------
(* The receivers' records                                                  *)

\* A step leaves the receivers alone, or one of them processes one entry.
LEMMA ReceiverKinds ==
    ASSUME TypeOK, Positions, [Next]_vars
    PROVE  \/ UNCHANGED <<received, read, reread>>
           \/ /\ log' = log
              /\ \E d \in Device, g \in Group : \E i \in DOMAIN log[g] :
                    /\ OnlyAt(d, g)
                    /\ NothingTaken(d, g) \/ KeyTaken(d, g, i) \/ Decrypted(d, g, i)
<1>1. ASSUME NEW t \in Send, StartSend(t) \/ SendStep(t)
      PROVE  UNCHANGED <<received, read, reread>>
  <2>1. receiverVars' = receiverVars
    BY <1>1 DEF StartSend, SendStep, CreateKey, StoreKey, FetchBundles, BeginWrap, EndWrap,
                EmitKey, BeginEncrypt, EndEncrypt, EmitMessage
  <2> QED BY <2>1 DEF receiverVars
<1>2. ASSUME NEW g \in Group, OpenConversation(g)
      PROVE  UNCHANGED <<received, read, reread>>
  BY <1>2 DEF OpenConversation, receiverVars
<1>3. ASSUME NEW d \in Device, LinkDevice(d)
      PROVE  UNCHANGED <<received, read, reread>>
  BY <1>3 DEF LinkDevice, receiverVars
<1>4. ASSUME NEW d \in Device, NEW g \in Group,
             LoadLatest(d, g) \/ LoadOlder(d, g) \/ ProcessPage(d, g) \/ ProcessLive(d, g)
      PROVE  \/ UNCHANGED <<received, read, reread>>
             \/ /\ log' = log
                /\ \E i \in DOMAIN log[g] :
                      /\ OnlyAt(d, g)
                      /\ NothingTaken(d, g) \/ KeyTaken(d, g, i) \/ Decrypted(d, g, i)
  <2>1. /\ log' = log
        /\ \/ UNCHANGED <<received, read, reread, handled, countVars>>
           \/ \E i \in DOMAIN log[g] : ProcessEntry(d, g, i)
    BY <1>4, ReceiverStep
  <2>2. ASSUME NEW i \in DOMAIN log[g], ProcessEntry(d, g, i)
        PROVE  /\ OnlyAt(d, g)
               /\ NothingTaken(d, g) \/ KeyTaken(d, g, i) \/ Decrypted(d, g, i)
    BY <2>2, ProcessEntryEffect
  <2> QED BY <2>1, <2>2
<1>5. CASE UNCHANGED vars
  BY <1>5 DEF vars, receiverVars
<1> QED
  BY <1>1, <1>2, <1>3, <1>4, <1>5 DEF Next

\* Entries stay where they are.
LEMMA EntriesStay ==
    ASSUME TypeOK, Positions, [Next]_vars, NEW g \in Group, NEW i \in DOMAIN log[g]
    PROVE  i \in DOMAIN log'[g] /\ log'[g][i] = log[g][i]
<1>1. \A t \in Send : task[t].group \in Group
  BY TaskFields
<1>2. ASSUME NEW h \in Group, NEW type, NEW body, Appended(h, type, body)
      PROVE  i \in DOMAIN log'[g] /\ log'[g][i] = log[g][i]
  <2>1. CASE g = h
    <3>1. Len(log[g]) \in Nat
      BY DEF TypeOK
    <3> QED BY <1>2, <2>1, <3>1 DEF Appended
  <2> QED BY <1>2, <2>1 DEF Appended
<1>3. \/ log' = log
      \/ \E t \in Send : \/ Appended(task[t].group, "key", task[t].key)
                         \/ Appended(task[t].group, "message", task[t].key)
  BY StepKinds DEF QuietStep, SenderStep, KeyCreated, KeyLoaded, KeyStored, KeySent,
                   EncryptBegun, EncryptEnded, MessageSent
<1> QED
  BY <1>1, <1>2, <1>3

LEMMA StillComesFrom ==
    ASSUME TypeOK, Positions, [Next]_vars, NEW d \in Device, NEW g \in Group,
           NEW s \in SenderKeyState, ComesFrom(log, d, g, s)
    PROVE  ComesFrom(log', d, g, s)
<1>1. PICK j \in DOMAIN log[g] :
          /\ log[g][j].type = "key"
          /\ d \in log[g][j].to
          /\ log[g][j].body.chain = s.chain
          /\ log[g][j].body.iteration <= s.iteration
          /\ \A i \in DOMAIN s.skipped : log[g][j].body.iteration <= s.skipped[i]
  BY DEF ComesFrom
<1>2. j \in DOMAIN log'[g] /\ log'[g][j] = log[g][j]
  BY EntriesStay
<1> QED
  BY <1>1, <1>2 DEF ComesFrom

\* A state that has given a key still comes from the same distribution.
LEMMA TakenComesFrom ==
    ASSUME TypeOK, NEW d \in Device, NEW g \in Group, NEW s \in SenderKeyState,
           NEW iteration \in Iteration, SenderKeyVerdict(s, iteration) = "ok",
           ComesFrom(log, d, g, s)
    PROVE  /\ ComesFrom(log, d, g, TakeSenderKey(s, iteration))
           /\ \E j \in DOMAIN log[g] :
                 /\ log[g][j].type = "key" /\ d \in log[g][j].to
                 /\ log[g][j].body.chain = s.chain
                 /\ log[g][j].body.iteration <= iteration
<1> DEFINE t == TakeSenderKey(s, iteration)
<1>1. PICK j \in DOMAIN log[g] :
          /\ log[g][j].type = "key"
          /\ d \in log[g][j].to
          /\ log[g][j].body.chain = s.chain
          /\ log[g][j].body.iteration <= s.iteration
          /\ \A i \in DOMAIN s.skipped : log[g][j].body.iteration <= s.skipped[i]
  BY DEF ComesFrom
<1>2. /\ log[g][j].body.iteration \in Nat /\ s.iteration \in Nat /\ iteration \in Nat
      /\ s.skipped \in Seq(Iteration) /\ DOMAIN s.skipped = 1 .. Len(s.skipped)
      /\ t \in SenderKeyState /\ t.chain = s.chain /\ t.iteration >= s.iteration
  BY EntryFields, StateFields, TakeSenderKeyProperties, SenderKeyLimits DEF Iteration
<1>3. /\ t.iteration \in Nat /\ DOMAIN t.skipped = 1 .. Len(t.skipped)
      /\ \A i \in 1 .. Len(t.skipped) : t.skipped[i] \in Nat
  BY <1>2, StateFields, SenderKeyLimits DEF Iteration
<1>4. \A i \in DOMAIN t.skipped : \/ s.iteration <= t.skipped[i]
                                  \/ \E k \in DOMAIN s.skipped : t.skipped[i] = s.skipped[k]
  BY TakeSenderKeyOrigin
<1> HIDE DEF t
<1>5. ASSUME NEW i \in DOMAIN t.skipped
      PROVE  log[g][j].body.iteration <= t.skipped[i]
  <2>1. CASE s.iteration <= t.skipped[i]
    BY <1>1, <1>2, <1>3, <2>1
  <2>2. CASE \E k \in DOMAIN s.skipped : t.skipped[i] = s.skipped[k]
    BY <1>1, <2>2
  <2> QED BY <1>4, <2>1, <2>2
<1>6. log[g][j].body.iteration <= t.iteration
  BY <1>1, <1>2, <1>3
<1>7. log[g][j].body.iteration <= iteration
  <2>1. CASE s.iteration > iteration
    <3>1. PICK k \in 1 .. Len(s.skipped) : s.skipped[k] = iteration
      BY <2>1, <1>2 DEF SenderKeyVerdict, Contains
    <3> QED BY <1>1, <1>2, <3>1
  <2>2. CASE ~(s.iteration > iteration)
    BY <1>1, <1>2, <2>2
  <2> QED BY <2>1, <2>2
<1>8. ComesFrom(log, d, g, t)
  BY <1>1, <1>2, <1>5, <1>6 DEF ComesFrom
<1> QED
  BY <1>1, <1>7, <1>8 DEF t

\* Taking a distribution, and decrypting a message, keep a record sound.
LEMMA KeyTakenSound ==
    ASSUME TypeOK, NEW d \in Device, NEW g \in Group, NEW i \in DOMAIN log[g],
           KeyTaken(d, g, i), RecordSound(log, d, g, received[d][g])
    PROVE  RecordSound(log, d, g, received'[d][g])
<1> DEFINE r == received[d][g]
           chain == log[g][i].body.chain
           iteration == log[g][i].body.iteration
           a == AddSenderKeyState(r, chain, iteration)
<1>1. r \in SenderKeyRecord /\ chain \in Chain /\ iteration \in Iteration /\ iteration \in Nat
  BY EntryFields DEF TypeOK
<1>2. /\ a \in SenderKeyRecord
      /\ Len(a) >= 1 /\ Len(a) <= MAX_SENDER_KEY_STATES
      /\ a[1].chain = chain
      /\ \/ a[1] = NewState(chain, iteration)
         \/ \E k \in DOMAIN r : a[1] = r[k]
      /\ \A k \in 2 .. Len(a) : \E l \in DOMAIN r : a[k] = r[l]
      /\ ChainIdsDistinct(r) => ChainIdsDistinct(a)
  BY <1>1, AddSenderKeyStateProperties
<1>3. received'[d][g] = a /\ i \in DOMAIN log[g] /\ log[g][i].type = "key" /\ d \in log[g][i].to
  BY DEF KeyTaken, Entries
<1>4. /\ NewState(chain, iteration).chain = chain
      /\ NewState(chain, iteration).iteration = iteration
      /\ NewState(chain, iteration).skipped = <<>>
      /\ SkippedBehind(NewState(chain, iteration))
  BY <1>1, NewStateProperties
<1>5. ComesFrom(log, d, g, NewState(chain, iteration))
  <2>1. log[g][i].body.iteration <= NewState(chain, iteration).iteration
    BY <1>1, <1>4
  <2>2. DOMAIN NewState(chain, iteration).skipped = {}
    BY <1>4
  <2> QED BY <1>3, <1>4, <2>1, <2>2 DEF ComesFrom
<1>6. DOMAIN a = 1 .. Len(a) /\ Len(a) \in Nat
  BY <1>2, RecordFields
<1> HIDE DEF a, r, chain, iteration
<1>7. \A k \in DOMAIN a : a[k] = NewState(chain, iteration) \/ \E l \in DOMAIN r : a[k] = r[l]
  BY <1>2, <1>6
<1>8. RecordSound(log, d, g, r)
  BY DEF r
<1>9. \A k \in DOMAIN a : SkippedBehind(a[k]) /\ ComesFrom(log, d, g, a[k])
  BY <1>4, <1>5, <1>7, <1>8 DEF RecordSound
<1>10. \A k \in DOMAIN a : Len(a[k].skipped) <= MAX_MESSAGE_KEYS
  <2>1. Len(NewState(chain, iteration).skipped) <= MAX_MESSAGE_KEYS
    BY <1>4, SenderKeyLimits
  <2> QED BY <1>7, <1>8, <2>1 DEF RecordSound, SenderKeyRecordWithinLimits
<1>11. ChainIdsDistinct(a) /\ SenderKeyRecordWithinLimits(a)
  BY <1>2, <1>8, <1>10 DEF RecordSound, SenderKeyRecordWithinLimits
<1> QED
  BY <1>3, <1>9, <1>11 DEF RecordSound

LEMMA DecryptedSound ==
    ASSUME TypeOK, NEW d \in Device, NEW g \in Group, NEW i \in DOMAIN log[g],
           Decrypted(d, g, i), RecordSound(log, d, g, received[d][g])
    PROVE  /\ RecordSound(log, d, g, received'[d][g])
           /\ \E j \in DOMAIN log[g] :
                 /\ log[g][j].type = "key" /\ d \in log[g][j].to
                 /\ log[g][j].body.chain = log[g][i].body.chain
                 /\ log[g][j].body.iteration <= log[g][i].body.iteration
           /\ \E k \in DOMAIN received'[d][g] :
                 /\ received'[d][g][k].chain = log[g][i].body.chain
                 /\ Spent(received'[d][g][k], log[g][i].body.iteration)
           /\ \A k \in DOMAIN received[d][g] :
                 /\ k \in DOMAIN received'[d][g]
                 /\ received'[d][g][k].chain = received[d][g][k].chain
                 /\ \A n \in Iteration :
                       Spent(received[d][g][k], n) => Spent(received'[d][g][k], n)
<1> DEFINE r == received[d][g]
           m == log[g][i].body
           a == GroupDecrypt(r, m)
<1>1. r \in SenderKeyRecord /\ m \in KeyMessage /\ m.iteration \in Iteration
  BY EntryFields DEF TypeOK
<1>2. GroupVerdict(r, m) = "ok" /\ received'[d][g] = a /\ RecordSound(log, d, g, r)
  BY DEF Decrypted
<1>3. PICK k \in DOMAIN r :
          /\ r[k].chain = m.chain
          /\ SenderKeyVerdict(r[k], m.iteration) = "ok"
          /\ a \in SenderKeyRecord /\ Len(a) = Len(r)
          /\ \A j \in DOMAIN r : a[j] = IF j = k THEN TakeSenderKey(r[k], m.iteration) ELSE r[j]
  BY <1>1, <1>2, GroupDecryptProperties
<1> HIDE DEF a, r, m
<1>4. DOMAIN a = DOMAIN r /\ r[k] \in SenderKeyState /\ Len(r) \in Nat
  BY <1>1, <1>3, RecordFields
<1> DEFINE s == TakeSenderKey(r[k], m.iteration)
<1>5. /\ s \in SenderKeyState /\ s.chain = r[k].chain
      /\ Len(r[k].skipped) <= MAX_MESSAGE_KEYS => Len(s.skipped) <= MAX_MESSAGE_KEYS
      /\ SkippedBehind(r[k])
         => /\ SkippedBehind(s) /\ Spent(s, m.iteration)
            /\ \A n \in Iteration : Spent(r[k], n) => Spent(s, n)
  BY <1>1, <1>3, <1>4, TakeSenderKeyProperties
<1>6. /\ SkippedBehind(r[k]) /\ ComesFrom(log, d, g, r[k])
      /\ Len(r[k].skipped) <= MAX_MESSAGE_KEYS
  BY <1>2, <1>3 DEF RecordSound, SenderKeyRecordWithinLimits
<1>7. /\ ComesFrom(log, d, g, s)
      /\ \E j \in DOMAIN log[g] :
            /\ log[g][j].type = "key" /\ d \in log[g][j].to
            /\ log[g][j].body.chain = r[k].chain
            /\ log[g][j].body.iteration <= m.iteration
  BY <1>1, <1>3, <1>4, <1>6, TakenComesFrom
<1> HIDE DEF s
<1>8. \A j \in DOMAIN a : a[j] = IF j = k THEN s ELSE r[j]
  BY <1>3, <1>4 DEF s
<1>9. RecordSound(log, d, g, a)
  <2>1. SenderKeyRecordWithinLimits(a)
    BY <1>2, <1>3, <1>4, <1>5, <1>6, <1>8 DEF RecordSound, SenderKeyRecordWithinLimits
  <2>2. ChainIdsDistinct(a)
    BY <1>2, <1>4, <1>5, <1>8 DEF RecordSound, ChainIdsDistinct
  <2>3. \A j \in DOMAIN a : SkippedBehind(a[j]) /\ ComesFrom(log, d, g, a[j])
    BY <1>2, <1>4, <1>5, <1>6, <1>7, <1>8 DEF RecordSound
  <2> QED BY <2>1, <2>2, <2>3 DEF RecordSound
<1>10. \A j \in DOMAIN r :
          /\ j \in DOMAIN a /\ a[j].chain = r[j].chain
          /\ \A n \in Iteration : Spent(r[j], n) => Spent(a[j], n)
  BY <1>4, <1>5, <1>6, <1>8
<1>11. k \in DOMAIN a /\ a[k].chain = m.chain /\ Spent(a[k], m.iteration)
  BY <1>3, <1>4, <1>5, <1>6, <1>8
<1>12. received'[d][g] = a /\ r[k].chain = m.chain
  BY <1>2, <1>3
<1> QED
  BY <1>7, <1>9, <1>10, <1>11, <1>12 DEF r, m

LEMMA ReceiverInvStep ==
    ASSUME TypeOK, Positions, ReceiverInv, [Next]_vars
    PROVE  ReceiverInv'
<1>1. ASSUME NEW d \in Device, NEW g \in Group
      PROVE  RecordSound(log', d, g, received[d][g])
  <2>1. received[d][g] \in SenderKeyRecord /\ RecordSound(log, d, g, received[d][g])
    BY DEF TypeOK, ReceiverInv
  <2>2. \A k \in DOMAIN received[d][g] : ComesFrom(log', d, g, received[d][g][k])
    BY <2>1, RecordFields, StillComesFrom DEF RecordSound
  <2> QED BY <2>1, <2>2 DEF RecordSound
<1>2. CASE received' = received
  BY <1>1, <1>2 DEF ReceiverInv
<1>3. ASSUME log' = log, NEW d \in Device, NEW g \in Group, NEW i \in DOMAIN log[g],
             OnlyAt(d, g), NothingTaken(d, g) \/ KeyTaken(d, g, i) \/ Decrypted(d, g, i)
      PROVE  ReceiverInv'
  <2>1. RecordSound(log, d, g, received[d][g])
    BY DEF ReceiverInv
  <2>2. RecordSound(log, d, g, received'[d][g])
    BY <1>3, <2>1, KeyTakenSound, DecryptedSound DEF NothingTaken
  <2>3. \A b \in Device, h \in Group : RecordSound(log, b, h, received'[b][h])
    BY <1>3, <2>2 DEF OnlyAt, ReceiverInv
  <2> QED BY <1>3, <2>3 DEF ReceiverInv
<1> QED
  BY <1>2, <1>3, ReceiverKinds

LEMMA ReceiverInvInit == Init => ReceiverInv
<1>1. Init => \A d \in Device, g \in Group : received[d][g] = <<>>
  BY DEF Init, EachGroup
<1>2. ASSUME NEW d, NEW g, NEW h
      PROVE  RecordSound(h, d, g, <<>>)
  BY SenderKeyLimits DEF RecordSound, SenderKeyRecordWithinLimits, ChainIdsDistinct
<1> QED
  BY <1>1, <1>2 DEF ReceiverInv

\* process_sender_key_distribution: what a device can still derive follows from a
\* distribution made for it.
THEOREM ReceiverInvariant == Spec => []ReceiverInv
<1>1. TypeOK /\ Positions /\ ReceiverInv /\ [Next]_vars => ReceiverInv'
  BY ReceiverInvStep
<1> QED
  BY GroupTypeCorrect, ReceiverInvInit, <1>1, PTL DEF Spec

\* Whatever the history brings, and in whatever order, a receiver keeps at most
\* MAX_SENDER_KEY_STATES states of at most MAX_MESSAGE_KEYS skipped keys and names each
\* chain id once; the sender's record never holds more than one state.
THEOREM GroupLimits == Spec => []GroupWithinLimits
<1>1. OneSenderState /\ ReceiverInv => GroupWithinLimits
  <2>1. \A g \in Group : SenderState(record[g]) => SenderKeyRecordWithinLimits(record[g])
    <3>1. Len(<<>>) = 0
      OBVIOUS
    <3> QED BY <3>1, SenderKeyLimits DEF SenderState, SenderKeyRecordWithinLimits
  <2> QED BY <2>1 DEF ReceiverInv, RecordSound, OneSenderState, GroupWithinLimits
<1>2. SenderInv => OneSenderState
  BY DEF SenderInv
<1> QED
  BY SenderInvariant, ReceiverInvariant, <1>1, <1>2, PTL

-----------------------------------------------------------------------------
(* What was read is forgotten                                              *)

LEMMA NothingYetStep ==
    ASSUME TypeOK, Positions, NothingYet, [Next]_vars
    PROVE  NothingYet'
<1> SUFFICES ASSUME NEW g \in Group, record'[g] = <<>>
             PROVE  /\ log'[g] = <<>>
                    /\ \A t \in Send : task'[t].group = g =>
                          /\ task'[t].loaded = <<>>
                          /\ task'[t].step \in {"idle", "create", "store", "encrypt"}
  BY DEF NothingYet
<1>1. CASE QuietStep
  <2>1. record[g] = <<>> /\ log'[g] = <<>>
    BY <1>1 DEF QuietStep, NothingYet
  <2>2. ASSUME NEW t \in Send, task'[t].group = g
        PROVE  /\ task'[t].loaded = <<>>
               /\ task'[t].step \in {"idle", "create", "store", "encrypt"}
    <3>1. CalmSend(t)
      BY <1>1 DEF QuietStep
    <3> QED BY <2>1, <2>2, <3>1 DEF CalmSend, NothingYet
  <2> QED BY <2>1, <2>2
<1>2. ASSUME NEW t \in Send, SenderStep(t)
      PROVE  /\ log'[g] = <<>>
             /\ \A u \in Send : task'[u].group = g =>
                   /\ task'[u].loaded = <<>>
                   /\ task'[u].step \in {"idle", "create", "store", "encrypt"}
  <2>1. record[g] = <<>>
    <3>1. CASE EncryptEnded(t) /\ g = task[t].group
      <4>1. task[t].loaded # <<>>
        BY <3>1 DEF EncryptEnded, CanGroupEncrypt
      <4>2. record[g] # <<>> => FALSE
        <5>1. /\ CanGroupEncrypt(task[t].loaded) /\ task[t].loaded \in SenderKeyRecord
              /\ record'[g] = GroupEncrypt(task[t].loaded)
          BY <3>1, TaskFields DEF EncryptEnded
        <5>2. Len(GroupEncrypt(task[t].loaded)) >= 1
          BY <5>1, GroupEncryptProperties
        <5> QED BY <5>1, <5>2
      <4> QED BY <4>2
    <3>2. CASE ~(EncryptEnded(t) /\ g = task[t].group)
      BY <1>2, <3>2 DEF SenderStep, KeyCreated, KeyLoaded, KeyStored, KeySent,
                        EncryptBegun, EncryptEnded, MessageSent
    <3> QED BY <3>1, <3>2
  <2>2. \A u \in Send : task[u].group = g =>
           task[u].loaded = <<>> /\ task[u].step \in {"idle", "create", "store", "encrypt"}
    BY <2>1 DEF NothingYet
  <2>3. /\ \A u \in Send : u # t => task'[u] = task[u]
        /\ \/ task'[t].group = task[t].group
           \/ task'[t].step = "idle" /\ task'[t].loaded = <<>>
    BY <1>2 DEF SenderStep, KeyCreated, KeyLoaded, KeyStored, KeySent, EncryptBegun,
                EncryptEnded, MessageSent, Only
  <2>4. CASE task[t].group = g
    <3>1. KeyCreated(t)
      BY <1>2, <2>1, <2>2, <2>4 DEF SenderStep, KeyLoaded, KeyStored, KeySent, EncryptBegun,
                                     EncryptEnded, MessageSent
    <3> QED BY <2>1, <2>2, <2>4, <3>1 DEF KeyCreated, Only, NothingYet
  <2>5. CASE task[t].group # g
    <3>1. log'[g] = log[g]
      BY <1>2, <2>5 DEF SenderStep, KeyCreated, KeyLoaded, KeyStored, KeySent, EncryptBegun,
                        EncryptEnded, MessageSent, Appended
    <3> QED BY <2>1, <2>2, <2>3, <2>5, <3>1 DEF NothingYet
  <2> QED BY <2>4, <2>5
<1> QED
  BY <1>1, <1>2, StepKinds

LEMMA ChainPerSendStep ==
    ASSUME TypeOK, Positions, OneSenderState, NothingYet, ChainPerSend, [Next]_vars
    PROVE  ChainPerSend'
<1> SUFFICES ASSUME NEW g \in Group
             PROVE  \E f \in [Send -> Chain] :
                       \A c : c \in Chains(g, Send)' => \E t \in Send : c = f[t]
  BY DEF ChainPerSend
<1>1. PICK f \in [Send -> Chain] : \A c \in Chains(g, Send) : \E t \in Send : c = f[t]
  BY DEF ChainPerSend
<1>2. ASSUME \A c : c \in Chains(g, Send)' => c \in Chains(g, Send)
      PROVE  \A c : c \in Chains(g, Send)' => \E t \in Send : c = f[t]
  BY <1>1, <1>2
<1>3. CASE QuietStep
  <2>1. \A c : c \in Chains(g, Send)' => c \in Chains(g, Send)
    BY <1>3, ChainsQuiet
  <2> QED BY <1>2, <2>1
<1>4. ASSUME NEW t \in Send, SenderStep(t), ~(KeyCreated(t) /\ g = task[t].group)
      PROVE  \A c : c \in Chains(g, Send)' => \E u \in Send : c = f[u]
  <2>1. \A c : c \in Chains(g, Send)' => c \in Chains(g, Send)
    BY <1>4, ChainsStep
  <2> QED BY <1>2, <2>1
<1>5. ASSUME NEW t \in Send, KeyCreated(t), g = task[t].group
      PROVE  \E h \in [Send -> Chain] :
                 \A c : c \in Chains(g, Send)' => \E u \in Send : c = h[u]
  <2> DEFINE h == [u \in Send |-> task'[u].key.chain]
  <2>1. \A u \in Send : task'[u].key.chain \in Chain
    BY GroupStepType DEF TypeOK, SendState, KeyMessage
  <2>2. /\ record'[g] = <<>> /\ log'[g] = <<>>
        /\ \A u \in Send : task'[u].group = g => task'[u].loaded = <<>>
    <3>1. record'[g] = <<>>
      BY <1>5 DEF KeyCreated
    <3> QED BY <3>1, NothingYetStep DEF NothingYet
  <2>3. ASSUME NEW c, c \in Chains(g, Send)'
        PROVE  c \in KeyChains(g, Send)'
    <3>1. DOMAIN <<>> = {}
      OBVIOUS
    <3> QED BY <2>2, <2>3, <3>1 DEF Chains, RecordChains, LoadedChains, LogChains
  <2>4. ASSUME NEW c, c \in KeyChains(g, Send)'
        PROVE  \E u \in Send : c = h[u]
    BY <2>4 DEF KeyChains
  <2>5. h \in [Send -> Chain]
    BY <2>1
  <2> HIDE DEF h
  <2> QED BY <2>3, <2>4, <2>5
<1> QED
  BY <1>1, <1>3, <1>4, <1>5, StepKinds

LEMMA IdsAreKeysStep ==
    ASSUME TypeOK, Positions, OneSenderState, ~ReuseIds, IdsAreKeys, [Next]_vars
    PROVE  IdsAreKeys'
<1> SUFFICES ASSUME NEW g \in Group, NEW c, c \in Chains(g, Send)'
             PROVE  c.id = c.signingKey
  BY DEF IdsAreKeys
<1>1. CASE QuietStep
  BY <1>1, ChainsQuiet DEF IdsAreKeys
<1>2. ASSUME NEW t \in Send, SenderStep(t)
      PROVE  c.id = c.signingKey
  <2>1. \/ c \in Chains(g, Send)
        \/ KeyCreated(t) /\ c = task'[t].key.chain
    BY <1>2, ChainsStep
  <2>2. CASE KeyCreated(t) /\ c = task'[t].key.chain
    BY <2>2 DEF KeyCreated
  <2> QED BY <2>1, <2>2 DEF IdsAreKeys
<1> QED
  BY <1>1, <1>2, StepKinds

LEMMA ChainsInvStep ==
    ASSUME TypeOK, Positions, SenderInv, ChainsInv, [Next]_vars
    PROVE  ChainsInv'
<1>1. TypeOK /\ Positions /\ OneSenderState
  BY DEF SenderInv
<1> QED
  BY <1>1, NothingYetStep, ChainPerSendStep, IdsAreKeysStep DEF ChainsInv

LEMMA ChainsInvInit == Init => ChainsInv
<1> SUFFICES ASSUME Init
             PROVE  ChainsInv
  OBVIOUS
<1>1. /\ \A t \in Send : task[t].step = "idle" /\ task[t].loaded = <<>>
      /\ \A g \in Group : record[g] = <<>> /\ log[g] = <<>>
  BY DEF Init, IdleSend
<1>2. DOMAIN <<>> = {}
  OBVIOUS
<1>3. \A g \in Group : Chains(g, Send) = {}
  BY <1>1, <1>2 DEF Chains, KeyChains, RecordChains, LoadedChains, LogChains, Keyed
<1>4. [t \in Send |-> NoKeyMessage.chain] \in [Send -> Chain]
  BY NoKeyType DEF KeyMessage
<1> QED
  BY <1>1, <1>3, <1>4 DEF ChainsInv, NothingYet, ChainPerSend, IdsAreKeys

\* A set is at least as large as the longest list of different members.
LEMMA ListInSet ==
    ASSUME NEW S, IsFiniteSet(S), NEW n \in Nat, NEW h \in [1 .. n -> S],
           \A a, b \in 1 .. n : h[a] = h[b] => a = b
    PROVE  n <= Cardinality(S)
<1>1. h \in Injection(1 .. n, S)
  BY DEF Injection, IsInjective
<1>2. Cardinality(1 .. n) <= Cardinality(S)
  BY <1>1, FS_Injection
<1>3. Cardinality(1 .. n) = n
  BY FS_Interval
<1> QED
  BY <1>2, <1>3

\* With no more sends than states, a receiver never has to evict one.
LEMMA NothingEvicted ==
    ASSUME TypeOK, FewSends, ChainPerSend, NEW g \in Group, NEW r \in SenderKeyRecord,
           ChainIdsDistinct(r), \A k \in DOMAIN r : r[k].chain \in Chains(g, Send),
           NEW chain \in Chains(g, Send)
    PROVE  Len(WithoutId(r, chain.id)) < MAX_SENDER_KEY_STATES
<1> DEFINE w == WithoutId(r, chain.id)
           n == Len(w) + 1
<1>1. PICK f \in [Send -> Chain] : \A c \in Chains(g, Send) : \E t \in Send : c = f[t]
  BY DEF ChainPerSend
<1>2. /\ w \in SenderKeyRecord /\ ChainIdsDistinct(w)
      /\ \A i \in DOMAIN w : \E k \in DOMAIN r : w[i] = r[k] /\ r[k].chain.id # chain.id
  BY WithoutIdProperties
<1>3. Len(w) \in Nat /\ DOMAIN w = 1 .. Len(w)
  BY <1>2, RecordFields
<1> HIDE DEF w
<1> DEFINE c == [i \in 1 .. n |-> IF i = n THEN chain ELSE w[i].chain]
           h == [i \in 1 .. n |-> CHOOSE t \in Send : c[i] = f[t]]
<1>4. \A i \in 1 .. n : c[i] \in Chains(g, Send)
  BY <1>2, <1>3
<1>5. \A i, j \in 1 .. n : c[i] = c[j] => i = j
  <2>1. \A i \in 1 .. Len(w) : w[i].chain.id # chain.id
    BY <1>2, <1>3
  <2>2. \A i, j \in 1 .. Len(w) : w[i].chain = w[j].chain => i = j
    BY <1>2, <1>3 DEF ChainIdsDistinct
  <2>3. \A i \in 1 .. n : i = n \/ i \in 1 .. Len(w)
    BY <1>3
  <2>4. \A i \in 1 .. n : c[i] = IF i = n THEN chain ELSE w[i].chain
    OBVIOUS
  <2> HIDE DEF c, n
  <2> QED BY <2>1, <2>2, <2>3, <2>4
<1> HIDE DEF c
<1>6. \A i \in 1 .. n : h[i] \in Send /\ c[i] = f[h[i]]
  BY <1>1, <1>4
<1>7. h \in [1 .. n -> Send]
  BY <1>6
<1> HIDE DEF h
<1>8. \A i, j \in 1 .. n : h[i] = h[j] => i = j
  BY <1>5, <1>6
<1>9. n <= Cardinality(Send)
  BY <1>3, <1>7, <1>8, ListInSet DEF FewSends
<1>10. Cardinality(Send) \in Nat
  BY FS_CardinalityType DEF FewSends
<1> QED
  BY <1>3, <1>9, <1>10, SenderKeyLimits DEF FewSends, w

\* A chain a device or the history holds is known by its id.
LEMMA SameIdSameChain ==
    ASSUME TypeOK, IdsAreKeys, NEW g \in Group, NEW b \in Chains(g, Send),
           NEW c \in Chains(g, Send), b.id = c.id
    PROVE  b = c
<1>1. b \in Chain /\ c \in Chain
  BY ChainsTyped
<1>2. b.signingKey = c.signingKey
  BY DEF IdsAreKeys
<1> QED
  BY <1>1, <1>2 DEF Chain

LEMMA KeyTakenSpent ==
    ASSUME TypeOK, FewSends, ChainPerSend, IdsAreKeys,
           NEW d \in Device, NEW g \in Group, NEW i \in DOMAIN log[g],
           KeyTaken(d, g, i), RecordSound(log, d, g, received[d][g]),
           NEW m \in KeyMessage, SpentIn(received[d][g], m)
    PROVE  SpentIn(received'[d][g], m)
<1> DEFINE r == received[d][g]
           chain == log[g][i].body.chain
           iteration == log[g][i].body.iteration
           a == AddSenderKeyState(r, chain, iteration)
<1>1. /\ r \in SenderKeyRecord /\ chain \in Chain /\ iteration \in Iteration
      /\ chain \in Chains(g, Send)
  BY EntryFields DEF TypeOK, Chains
<1>2. /\ a \in SenderKeyRecord /\ Len(a) >= 1
      /\ a[1].chain = chain
      /\ \/ \A k \in DOMAIN r : r[k].chain # chain
         \/ \E k \in DOMAIN r : a[1] = r[k]
      /\ Len(WithoutId(r, chain.id)) < MAX_SENDER_KEY_STATES =>
            \A k \in DOMAIN r : r[k].chain.id # chain.id => \E l \in DOMAIN a : a[l] = r[k]
  <2> HIDE DEF r, chain, iteration
  <2> QED BY <1>1, AddSenderKeyStateProperties
<1>3. received'[d][g] = a
  BY DEF KeyTaken
<1>4. ChainIdsDistinct(r) /\ \A k \in DOMAIN r : ComesFrom(log, d, g, r[k])
  BY DEF RecordSound
<1>5. PICK k \in DOMAIN r : r[k].chain = m.chain /\ Spent(r[k], m.iteration)
  BY DEF SpentIn
<1>6. \A l \in DOMAIN r : r[l].chain \in Chains(g, Send)
  <2>1. ASSUME NEW l \in DOMAIN r
        PROVE  r[l].chain \in LogChains(g)
    BY <1>4 DEF ComesFrom, LogChains
  <2> QED BY <2>1 DEF Chains
<1>7. 1 \in DOMAIN a
  <2>1. Len(a) \in Nat /\ DOMAIN a = 1 .. Len(a)
    BY <1>2, RecordFields
  <2> QED BY <1>2, <2>1
<1> HIDE DEF a, r, chain, iteration
<1>8. \E l \in DOMAIN a : a[l] = r[k]
  <2>1. CASE r[k].chain.id # chain.id
    <3>1. Len(WithoutId(r, chain.id)) < MAX_SENDER_KEY_STATES
      BY <1>1, <1>4, <1>6, NothingEvicted
    <3> QED BY <1>2, <1>5, <2>1, <3>1
  <2>2. CASE r[k].chain.id = chain.id
    <3>1. r[k].chain = chain
      BY <1>1, <1>5, <1>6, <2>2, SameIdSameChain
    <3>2. PICK l \in DOMAIN r : a[1] = r[l]
      BY <1>2, <1>5, <3>1
    <3>3. l = k
      BY <1>2, <1>4, <1>5, <3>1, <3>2 DEF ChainIdsDistinct
    <3> QED BY <1>7, <3>2, <3>3
  <2> QED BY <2>1, <2>2
<1>9. SpentIn(a, m)
  BY <1>5, <1>8 DEF SpentIn
<1> QED
  BY <1>3, <1>9 DEF a, r, chain, iteration

LEMMA ReadIsSpentStep ==
    ASSUME TypeOK, Positions, FewSends, ChainPerSend, IdsAreKeys, ReceiverInv, ReadIsSpent,
           [Next]_vars
    PROVE  ReadIsSpent'
<1>1. \A d \in Device, g \in Group : \A i \in read[d][g] :
         /\ i \in DOMAIN log[g]
         /\ log'[g][i] = log[g][i] /\ log[g][i].body \in KeyMessage
         /\ log[g][i].body.iteration \in Iteration
         /\ SpentIn(received[d][g], log[g][i].body)
  <2>1. \A d \in Device, g \in Group : \A i \in read[d][g] : i \in DOMAIN log[g]
    BY DEF Positions, PagesWithin, Entries
  <2> QED BY <2>1, EntriesStay, EntryFields DEF ReadIsSpent
<1>2. CASE UNCHANGED <<received, read, reread>>
  BY <1>1, <1>2 DEF ReadIsSpent
<1>3. ASSUME log' = log, NEW d \in Device, NEW g \in Group, NEW i \in DOMAIN log[g],
             OnlyAt(d, g), NothingTaken(d, g) \/ KeyTaken(d, g, i) \/ Decrypted(d, g, i)
      PROVE  ReadIsSpent'
  <2>1. RecordSound(log, d, g, received[d][g])
    BY DEF ReceiverInv
  <2>2. ASSUME NEW j \in read'[d][g]
        PROVE  SpentIn(received'[d][g], log[g][j].body)
    <3>1. CASE NothingTaken(d, g)
      BY <1>1, <2>2, <3>1 DEF NothingTaken
    <3>2. CASE KeyTaken(d, g, i)
      <4>1. j \in read[d][g]
        BY <2>2, <3>2 DEF KeyTaken
      <4> QED BY <1>1, <2>1, <3>2, <4>1, KeyTakenSpent
    <3>3. CASE Decrypted(d, g, i)
      <4>1. /\ \E k \in DOMAIN received'[d][g] :
                  /\ received'[d][g][k].chain = log[g][i].body.chain
                  /\ Spent(received'[d][g][k], log[g][i].body.iteration)
            /\ \A k \in DOMAIN received[d][g] :
                  /\ k \in DOMAIN received'[d][g]
                  /\ received'[d][g][k].chain = received[d][g][k].chain
                  /\ \A n \in Iteration :
                        Spent(received[d][g][k], n) => Spent(received'[d][g][k], n)
        BY <2>1, <3>3, DecryptedSound
      <4>2. CASE j = i
        BY <4>1, <4>2 DEF SpentIn
      <4>3. CASE j # i
        <5>1. j \in read[d][g]
          BY <2>2, <3>3, <4>3 DEF Decrypted
        <5>2. /\ SpentIn(received[d][g], log[g][j].body)
              /\ log[g][j].body.iteration \in Iteration
          BY <1>1, <5>1
        <5> QED BY <4>1, <5>2 DEF SpentIn
      <4> QED BY <4>2, <4>3
    <3> QED BY <1>3, <3>1, <3>2, <3>3
  <2>3. ASSUME NEW b \in Device, NEW h \in Group, NEW j \in read'[b][h]
        PROVE  SpentIn(received'[b][h], log[h][j].body)
    <3>1. CASE b = d /\ h = g
      BY <2>2, <2>3, <3>1
    <3>2. CASE b # d \/ h # g
      <4>1. read'[b][h] = read[b][h] /\ received'[b][h] = received[b][h]
        BY <1>3, <3>2 DEF OnlyAt
      <4> QED BY <1>1, <2>3, <4>1
    <3> QED BY <3>1, <3>2
  <2> QED BY <1>3, <2>3 DEF ReadIsSpent
<1> QED
  BY <1>2, <1>3, ReceiverKinds

\* What is spent is not decrypted again, and cannot be derived.
LEMMA SpentIsGone ==
    ASSUME NEW r \in SenderKeyRecord, ChainIdsDistinct(r), NEW m \in KeyMessage, SpentIn(r, m)
    PROVE  GroupVerdict(r, m) # "ok" /\ ~CanDeriveSenderKey(r, m)
<1>1. PICK k \in DOMAIN r : r[k].chain = m.chain /\ Spent(r[k], m.iteration)
  BY DEF SpentIn
<1>2. \A i \in DOMAIN r : r[i].chain = m.chain => i = k
  BY <1>1 DEF ChainIdsDistinct
<1>3. r[k].iteration \in Nat /\ m.iteration \in Nat
  BY RecordFields, StateFields, SenderKeyLimits DEF KeyMessage, Iteration
<1>4. SenderKeyVerdict(r[k], m.iteration) # "ok"
  BY <1>1, <1>3 DEF Spent, SenderKeyVerdict
<1>5. GroupVerdict(r, m) # "ok"
  BY <1>2, <1>4, GroupDecryptProperties
<1>6. ~CanDeriveSenderKey(r, m)
  BY <1>1, <1>2, <1>3 DEF CanDeriveSenderKey, Spent
<1> QED
  BY <1>5, <1>6

LEMMA NotReadTwice ==
    ASSUME TypeOK, Positions, ReceiverInv, ReadIsSpent, GroupAtMostOnce, [Next]_vars
    PROVE  GroupAtMostOnce'
<1>1. CASE UNCHANGED <<received, read, reread>>
  BY <1>1 DEF GroupAtMostOnce
<1>2. ASSUME NEW d \in Device, NEW g \in Group, NEW i \in DOMAIN log[g],
             OnlyAt(d, g), NothingTaken(d, g) \/ KeyTaken(d, g, i) \/ Decrypted(d, g, i)
      PROVE  GroupAtMostOnce'
  <2>1. ASSUME Decrypted(d, g, i)
        PROVE  i \notin read[d][g]
    <3>1. /\ received[d][g] \in SenderKeyRecord /\ ChainIdsDistinct(received[d][g])
          /\ log[g][i].body \in KeyMessage
      BY EntryFields DEF TypeOK, ReceiverInv, RecordSound
    <3>2. i \in read[d][g] => SpentIn(received[d][g], log[g][i].body)
      BY DEF ReadIsSpent
    <3> QED BY <2>1, <3>1, <3>2, SpentIsGone DEF Decrypted
  <2>2. reread'[d][g] = reread[d][g]
    BY <1>2, <2>1 DEF NothingTaken, KeyTaken, Decrypted
  <2> QED BY <1>2, <2>2 DEF OnlyAt, GroupAtMostOnce
<1> QED
  BY <1>1, <1>2, ReceiverKinds

ReadOnceInv == ChainsInv /\ ReadIsSpent /\ GroupAtMostOnce

LEMMA ReadOnceInit == Init => ReadOnceInv
<1>1. Init => ReadIsSpent /\ GroupAtMostOnce
  BY DEF Init, EachGroup, ReadIsSpent, GroupAtMostOnce
<1> QED
  BY <1>1, ChainsInvInit DEF ReadOnceInv

\* group_decrypt: what a device has read is spent, so that it is not read again.
THEOREM ReadOnceInvariant == ASSUME FewSends PROVE Spec => []ReadOnceInv
<1>1. TypeOK /\ Positions /\ SenderInv /\ ReceiverInv /\ ReadOnceInv /\ [Next]_vars
          => ReadOnceInv'
  BY ChainsInvStep, ReadIsSpentStep, NotReadTwice DEF ReadOnceInv, ChainsInv, FewSends
<1> QED
  BY SenderInvariant, ReceiverInvariant, ReadOnceInit, <1>1, PTL DEF Spec

\* With no more overlapping sends than a receiver keeps states, a device decrypts a
\* message at most once, from the history, the socket or both.
THEOREM GroupReadOnce == ASSUME FewSends PROVE Spec => []GroupAtMostOnce
<1>1. ReadOnceInv => GroupAtMostOnce
  BY DEF ReadOnceInv
<1> QED
  BY ReadOnceInvariant, <1>1, PTL

\* The sender's record derives no key of a message sent; and, with no more overlapping
\* sends than a receiver keeps states, a device derives none of a message it has read.
THEOREM GroupForgets == ASSUME FewSends PROVE Spec => []SenderKeysForgotten
<1>1. TypeOK /\ Positions /\ SenderInv /\ ReceiverInv /\ ReadOnceInv => SenderKeysForgotten
  <2> SUFFICES ASSUME TypeOK, Positions, SenderInv, ReceiverInv, ReadOnceInv
               PROVE  SenderKeysForgotten
    OBVIOUS
  <2>1. ASSUME NEW g \in Group, NEW i \in Entries(g, "message")
        PROVE  ~CanDeriveSenderKey(record[g], log[g][i].body)
    <3>1. Ahead(record[g], log[g][i].body) /\ SenderState(record[g])
      BY DEF SenderInv, MessagesBehind, SenderAhead, OneSenderState
    <3>2. log[g][i].body.iteration \in Nat /\ record[g] \in SenderKeyRecord
      BY EntryFields DEF Entries, TypeOK
    <3>3. \A k \in DOMAIN record[g] :
             /\ record[g][k].iteration \in Nat
             /\ ~Contains(record[g][k].skipped, log[g][i].body.iteration)
      BY <3>1, <3>2, RecordFields, StateFields DEF SenderState, Contains
    <3> QED BY <3>1, <3>2, <3>3 DEF Ahead, CanDeriveSenderKey
  <2>2. ASSUME NEW d \in Device, NEW g \in Group, NEW i \in read[d][g]
        PROVE  ~CanDeriveSenderKey(received[d][g], log[g][i].body)
    <3>1. SpentIn(received[d][g], log[g][i].body)
      BY DEF ReadOnceInv, ReadIsSpent
    <3>2. log[g][i].body \in KeyMessage
      BY EntryFields DEF Positions, PagesWithin, Entries
    <3>3. received[d][g] \in SenderKeyRecord /\ ChainIdsDistinct(received[d][g])
      BY DEF TypeOK, ReceiverInv, RecordSound
    <3> QED BY <3>1, <3>2, <3>3, SpentIsGone
  <2> QED BY <2>1, <2>2 DEF SenderKeysForgotten
<1> QED
  BY SenderInvariant, ReceiverInvariant, ReadOnceInvariant, <1>1, PTL


-----------------------------------------------------------------------------
(* One send at a time: messages follow the keys they need                  *)

LEMMA ReadFromKeyStep ==
    ASSUME TypeOK, Positions, ReceiverInv, ReadFromKey, [Next]_vars
    PROVE  ReadFromKey'
<1>1. ASSUME NEW d \in Device, NEW g \in Group, NEW i \in DOMAIN log[g],
             \E j \in DOMAIN log[g] :
                /\ log[g][j].type = "key" /\ d \in log[g][j].to
                /\ log[g][j].body.chain = log[g][i].body.chain
                /\ log[g][j].body.iteration <= log[g][i].body.iteration
      PROVE  \E j \in DOMAIN log'[g] :
                /\ log'[g][j].type = "key" /\ d \in log'[g][j].to
                /\ log'[g][j].body.chain = log'[g][i].body.chain
                /\ log'[g][j].body.iteration <= log'[g][i].body.iteration
  <2>1. log'[g][i] = log[g][i]
    BY EntriesStay
  <2>2. PICK j \in DOMAIN log[g] :
                /\ log[g][j].type = "key" /\ d \in log[g][j].to
                /\ log[g][j].body.chain = log[g][i].body.chain
                /\ log[g][j].body.iteration <= log[g][i].body.iteration
    BY <1>1
  <2>3. j \in DOMAIN log'[g] /\ log'[g][j] = log[g][j]
    BY EntriesStay
  <2> QED BY <2>1, <2>2, <2>3
<1>2. ASSUME NEW d \in Device, NEW g \in Group, NEW i \in read[d][g]
      PROVE  \E j \in DOMAIN log'[g] :
                /\ log'[g][j].type = "key" /\ d \in log'[g][j].to
                /\ log'[g][j].body.chain = log'[g][i].body.chain
                /\ log'[g][j].body.iteration <= log'[g][i].body.iteration
  <2>1. i \in DOMAIN log[g]
    BY DEF Positions, PagesWithin, Entries
  <2> QED BY <1>1, <2>1 DEF ReadFromKey, Entries
<1>3. ASSUME NEW d \in Device, NEW g \in Group, NEW i \in read'[d][g]
      PROVE  \E j \in DOMAIN log'[g] :
                /\ log'[g][j].type = "key" /\ d \in log'[g][j].to
                /\ log'[g][j].body.chain = log'[g][i].body.chain
                /\ log'[g][j].body.iteration <= log'[g][i].body.iteration
  <2>1. CASE read' = read
    BY <1>2, <1>3, <2>1
  <2>2. ASSUME NEW b \in Device, NEW h \in Group, NEW k \in DOMAIN log[h], OnlyAt(b, h),
               NothingTaken(b, h) \/ KeyTaken(b, h, k) \/ Decrypted(b, h, k), i \notin read[d][g]
        PROVE  d = b /\ g = h /\ i = k /\ Decrypted(b, h, k)
    BY <1>3, <2>2 DEF OnlyAt, NothingTaken, KeyTaken, Decrypted
  <2>3. ASSUME i \in DOMAIN log[g], Decrypted(d, g, i)
        PROVE  \E j \in DOMAIN log[g] :
                  /\ log[g][j].type = "key" /\ d \in log[g][j].to
                  /\ log[g][j].body.chain = log[g][i].body.chain
                  /\ log[g][j].body.iteration <= log[g][i].body.iteration
    BY <2>3, DecryptedSound DEF ReceiverInv
  <2>4. CASE i \in read[d][g]
    BY <1>2, <2>4
  <2>5. CASE i \notin read[d][g] /\ read' # read
    <3>1. i \in DOMAIN log[g] /\ Decrypted(d, g, i)
      BY <2>2, <2>5, ReceiverKinds
    <3> QED BY <1>1, <2>3, <3>1
  <2> QED BY <2>1, <2>4, <2>5
<1> QED
  BY <1>3 DEF ReadFromKey, Entries

\* An entry was there before the step, or is the one appended.
LEMMA EntryBefore ==
    ASSUME TypeOK, NEW h \in Group, NEW type, NEW body, Appended(h, type, body),
           NEW g \in Group, NEW i \in DOMAIN log'[g]
    PROVE  \/ i \in DOMAIN log[g] /\ log'[g][i] = log[g][i]
           \/ /\ g = h /\ i = Len(log[h]) + 1
              /\ log'[g][i].type = type /\ log'[g][i].body = body
<1>1. CASE g # h
  BY <1>1 DEF Appended
<1>2. CASE g = h
  <2>1. Len(log[g]) \in Nat
    BY DEF TypeOK
  <2>2. /\ DOMAIN log[g] = 1 .. Len(log[g]) /\ i \in 1 .. Len(log[g]) + 1
        /\ \A k \in 1 .. Len(log[g]) : log'[g][k] = log[g][k]
        /\ log'[g][Len(log[g]) + 1].type = type /\ log'[g][Len(log[g]) + 1].body = body
    BY <1>2 DEF Appended
  <2>3. CASE i = Len(log[g]) + 1
    BY <1>2, <2>2, <2>3
  <2>4. CASE i # Len(log[g]) + 1
    <3>1. i \in 1 .. Len(log[g])
      BY <2>1, <2>2, <2>4
    <3> QED BY <2>2, <3>1
  <2> QED BY <2>3, <2>4
<1> QED
  BY <1>1, <1>2

LEMMA KeysInOrderStep ==
    ASSUME TypeOK, Positions, SenderInv, OneSend, KeysInOrder, [Next]_vars
    PROVE  KeysInOrder'
<1> DEFINE Past(g, h, m) == \A i \in DOMAIN h[g] :
              h[g][i].type = "message" /\ h[g][i].body.chain = m.chain
                  => h[g][i].body.iteration < m.iteration
           Ordered(h) == \A g \in Group : \A j, i \in DOMAIN h[g] :
              /\ h[g][j].type = "key" /\ h[g][i].type = "message"
              /\ h[g][j].body.chain = h[g][i].body.chain
              /\ h[g][j].body.iteration <= h[g][i].body.iteration
              => j < i
<1>1. /\ \A t \in Send : task[t].step \in {"fetch", "wrap"} => Past(task[t].group, log, task[t].key)
      /\ Ordered(log)
  BY DEF KeysInOrder, Entries
<1>2. SUFFICES /\ \A t \in Send : task'[t].step \in {"fetch", "wrap"}
                                     => Past(task'[t].group, log', task'[t].key)
               /\ Ordered(log')
  BY DEF KeysInOrder, Entries
<1>3. CASE QuietStep
  <2>1. log' = log
    BY <1>3 DEF QuietStep
  <2>2. ASSUME NEW t \in Send, task'[t].step \in {"fetch", "wrap"}
        PROVE  /\ task[t].step \in {"fetch", "wrap"}
               /\ task'[t].group = task[t].group /\ task'[t].key = task[t].key
    BY <1>3, <2>2 DEF QuietStep, CalmSend
  <2> QED BY <1>1, <2>1, <2>2
<1>4. ASSUME NEW t \in Send, SenderStep(t)
      PROVE  /\ task'[t].step \in {"fetch", "wrap"} => Past(task'[t].group, log', task'[t].key)
             /\ Ordered(log')
  <2> DEFINE g == task[t].group
             n == Len(log[g]) + 1
  <2>1. g \in Group /\ task[t].key \in KeyMessage
    BY TaskFields
  <2>2. CASE KeyLoaded(t)
    <3>1. /\ log' = log /\ task'[t].group = g /\ task'[t].key = KeyMessageOf(record[g])
          /\ record[g] # <<>>
      BY <2>2 DEF KeyLoaded, Only
    <3>2. record[g] \in SenderKeyRecord /\ SenderState(record[g])
      BY <2>1 DEF TypeOK, SenderInv, OneSenderState
    <3>3. DOMAIN record[g] = {1} /\ Len(record[g]) = 1
      BY <3>1, <3>2, OnlyState DEF SenderState
    <3>4. KeyMessageOf(record[g]).chain = record[g][1].chain
          /\ KeyMessageOf(record[g]).iteration = record[g][1].iteration
      BY <3>1, <3>2 DEF KeyMessageOf, SenderKeyRecord
    <3>5. \A i \in Entries(g, "message") : Ahead(record[g], log[g][i].body)
      BY <2>1 DEF SenderInv, MessagesBehind, SenderAhead
    <3>6. Past(g, log, KeyMessageOf(record[g]))
      BY <3>3, <3>4, <3>5 DEF Ahead, Entries
    <3> QED BY <1>1, <3>1, <3>6
  <2>3. CASE KeyStored(t)
    <3>1. /\ log' = log /\ task'[t].group = g /\ task'[t].key = task[t].key /\ At(t, "store")
      BY <2>3 DEF KeyStored, Only, At
    <3>2. \A i \in DOMAIN log[g] : log[g][i].body.chain # task[t].key.chain
      <4>1. \A i \in DOMAIN log[g] : log[g][i].body.chain \in Chains(g, Send \ {t})
        BY <2>1, EntryFields DEF Chains
      <4> QED BY <2>1, <3>1, <4>1 DEF SenderInv, ChainsFresh
    <3> QED BY <1>1, <3>1, <3>2
  <2>4. CASE KeySent(t)
    <3>1. Appended(g, "key", task[t].key) /\ task'[t].step = "encrypt" /\ task[t].step = "wrap"
      BY <2>4 DEF KeySent
    <3>2. Past(g, log, task[t].key)
      BY <1>1, <3>1
    <3>3. ASSUME NEW h \in Group, NEW j \in DOMAIN log'[h], NEW i \in DOMAIN log'[h],
                 log'[h][j].type = "key", log'[h][i].type = "message",
                 log'[h][j].body.chain = log'[h][i].body.chain,
                 log'[h][j].body.iteration <= log'[h][i].body.iteration
          PROVE  j < i
      <4>1. i \in DOMAIN log[h] /\ log'[h][i] = log[h][i]
        BY <2>1, <3>1, <3>3, EntryBefore
      <4>2. \/ j \in DOMAIN log[h] /\ log'[h][j] = log[h][j]
            \/ h = g /\ log'[h][j].body = task[t].key
        BY <2>1, <3>1, <3>3, EntryBefore
      <4>3. CASE j \in DOMAIN log[h] /\ log'[h][j] = log[h][j]
        BY <1>1, <3>3, <4>1, <4>3
      <4>4. CASE h = g /\ log'[h][j].body = task[t].key
        <5>1. log[g][i].body.iteration < task[t].key.iteration
          BY <3>2, <3>3, <4>1, <4>4
        <5>2. task[t].key.iteration <= log[g][i].body.iteration
          BY <3>3, <4>1, <4>4
        <5>3. log[g][i].body.iteration \in Nat /\ task[t].key.iteration \in Nat
          BY <2>1, <4>1, <4>4, EntryFields, SenderKeyLimits DEF KeyMessage, Iteration
        <5> QED BY <5>1, <5>2, <5>3
      <4> QED BY <4>2, <4>3, <4>4
    <3> QED BY <3>1, <3>3
  <2>5. CASE MessageSent(t)
    <3>1. Appended(g, "message", task[t].key) /\ task'[t].step = "idle"
      BY <2>5 DEF MessageSent
    <3>2. ASSUME NEW h \in Group, NEW j \in DOMAIN log'[h], NEW i \in DOMAIN log'[h],
                 log'[h][j].type = "key", log'[h][i].type = "message",
                 log'[h][j].body.chain = log'[h][i].body.chain,
                 log'[h][j].body.iteration <= log'[h][i].body.iteration
          PROVE  j < i
      <4>1. j \in DOMAIN log[h] /\ log'[h][j] = log[h][j]
        BY <2>1, <3>1, <3>2, EntryBefore
      <4>2. \/ i \in DOMAIN log[h] /\ log'[h][i] = log[h][i]
            \/ h = g /\ i = n
        BY <2>1, <3>1, <3>2, EntryBefore
      <4>3. DOMAIN log[h] = 1 .. Len(log[h]) /\ Len(log[h]) \in Nat
        BY DEF TypeOK
      <4>4. CASE i \in DOMAIN log[h] /\ log'[h][i] = log[h][i]
        BY <1>1, <3>2, <4>1, <4>4
      <4>5. CASE h = g /\ i = n
        BY <4>1, <4>3, <4>5
      <4> QED BY <4>2, <4>4, <4>5
    <3> QED BY <3>1, <3>2
  <2>6. CASE KeyCreated(t) \/ EncryptBegun(t) \/ EncryptEnded(t)
    <3>1. log' = log /\ task'[t].step \notin {"fetch", "wrap"}
      BY <2>6 DEF KeyCreated, EncryptBegun, EncryptEnded
    <3> QED BY <1>1, <3>1
  <2> QED BY <1>4, <2>2, <2>3, <2>4, <2>5, <2>6 DEF SenderStep
<1>5. ASSUME NEW t \in Send, SenderStep(t), NEW u \in Send
      PROVE  u = t
  BY DEF OneSend
<1> HIDE DEF Past, Ordered
<1> QED
  BY <1>3, <1>4, <1>5, StepKinds

OrderInv == ReadFromKey /\ KeysInOrder


-----------------------------------------------------------------------------
(* One send at a time: no message before its key                           *)

\* A step notes a distribution only with its entry; a send that begins looks whether
\* one is noted, and the later steps of a send have its earlier ones before them.
Noted ==
    \/ \E t \in Send : KeySent(t)
    \/ /\ distributed' => distributed
       /\ \A t \in Send :
             /\ task'[t].step \in {"create", "encrypt"} =>
                   \/ task'[t].step = task[t].step
                   \/ task'[t].step = (IF distributed THEN "encrypt" ELSE "create")
             /\ task'[t].step \in {"store", "fetch", "wrap"} => Distributing(t)

LEMMA NotedStep ==
    ASSUME TypeOK, Positions, "drop" \notin Failure, [Next]_vars
    PROVE  Noted
<1>1. ASSUME NEW t \in Send, StartSend(t)
      PROVE  Noted
  <2>1. distributed' = distributed
    BY <1>1 DEF StartSend
  <2> QED BY <1>1, <2>1, StartSendEffect DEF Noted, Distributing
<1>2. ASSUME NEW t \in Send, CreateKey(t)
      PROVE  Noted
  <2>1. distributed' = distributed
    BY <1>2 DEF CreateKey
  <2> QED BY <1>2, <2>1, CreateKeyEffect DEF Noted, Distributing
<1>3. ASSUME NEW t \in Send, StoreKey(t)
      PROVE  Noted
  <2>1. distributed' = distributed
    BY <1>3 DEF StoreKey
  <2> QED BY <1>3, <2>1, StoreKeyEffect DEF Noted, Distributing
<1>4. ASSUME NEW t \in Send, FetchBundles(t)
      PROVE  Noted
  <2>1. distributed' = distributed
    BY <1>4 DEF FetchBundles
  <2> QED BY <1>4, <2>1, FetchBundlesEffect DEF Noted, Distributing
<1>5. ASSUME NEW t \in Send, BeginWrap(t)
      PROVE  Noted
  <2>1. distributed' = distributed
    BY <1>5 DEF BeginWrap
  <2> QED BY <1>5, <2>1, BeginWrapEffect DEF Noted, Distributing
<1>6. ASSUME NEW t \in Send, EndWrap(t)
      PROVE  Noted
  <2>1. distributed' = distributed
    BY <1>6 DEF EndWrap
  <2> QED BY <1>6, <2>1, EndWrapEffect DEF Noted, Distributing
<1>7. ASSUME NEW t \in Send, EmitKey(t)
      PROVE  Noted
  <2>1. AppendEntry(t, "key", task[t].wrapped) /\ record' = record /\ chains' = chains
    BY <1>7 DEF EmitKey, Fails
  <2>2. Appended(task[t].group, "key", task[t].key)
    <3>1. task[t].wrapped \in SUBSET Device
      BY TaskFields
    <3> QED BY <2>1, <3>1, AppendedEntry
  <2>3. KeySent(t)
    BY <1>7, <2>1, <2>2, EmitKeyEffect DEF KeySent, Only
  <2> QED BY <2>3 DEF Noted
<1>8. ASSUME NEW t \in Send, BeginEncrypt(t)
      PROVE  Noted
  <2>1. distributed' = distributed
    BY <1>8 DEF BeginEncrypt
  <2> QED BY <1>8, <2>1, BeginEncryptEffect DEF Noted, Distributing
<1>9. ASSUME NEW t \in Send, EndEncrypt(t)
      PROVE  Noted
  <2>1. distributed' = distributed
    BY <1>9 DEF EndEncrypt
  <2> QED BY <1>9, <2>1, EndEncryptEffect DEF Noted, Distributing
<1>10. ASSUME NEW t \in Send, EmitMessage(t)
       PROVE  Noted
  <2>1. distributed' = distributed
    BY <1>10 DEF EmitMessage
  <2> QED BY <1>10, <2>1, EmitMessageEffect DEF Noted, Distributing
<1>11. ASSUME NEW g \in Group, OpenConversation(g)
       PROVE  Noted
  <2>1. distributed' = FALSE
    BY <1>11 DEF OpenConversation
  <2> QED BY <1>11, <2>1, OpenConversationEffect DEF Noted, Distributing
<1>12. ASSUME UNCHANGED senderVars
       PROVE  Noted
  <2>1. distributed' = distributed /\ task' = task
    BY <1>12 DEF senderVars
  <2> QED BY <2>1 DEF Noted, Distributing
<1>13. ASSUME NEW d \in Device, LinkDevice(d)
       PROVE  UNCHANGED senderVars
  BY <1>13 DEF LinkDevice
<1>14. ASSUME NEW d \in Device, NEW g \in Group,
              LoadLatest(d, g) \/ LoadOlder(d, g) \/ ProcessPage(d, g) \/ ProcessLive(d, g)
       PROVE  UNCHANGED senderVars
  BY <1>14 DEF LoadLatest, LoadOlder, ProcessPage, ProcessLive
<1>15. CASE UNCHANGED vars
  <2>1. UNCHANGED senderVars
    BY <1>15 DEF vars
  <2> QED BY <2>1, <1>12
<1> QED
  BY <1>1, <1>2, <1>3, <1>4, <1>5, <1>6, <1>7, <1>8, <1>9, <1>10, <1>11, <1>12, <1>13,
     <1>14, <1>15 DEF Next, SendStep

\* Once out, a key stays out.
LEMMA KeyStaysOut ==
    ASSUME TypeOK, Positions, [Next]_vars, NEW g \in Group, NEW m, KeyOut(g, m)
    PROVE  \E j \in DOMAIN log'[g] :
              /\ log'[g][j].type = "key" /\ log'[g][j].body.chain = m.chain
              /\ log'[g][j].body.iteration <= m.iteration
  BY EntriesStay DEF KeyOut, Entries

LEMMA KeyFirstStep ==
    ASSUME TypeOK, Positions, SenderInv, OneSend, OneGroup, "drop" \notin Failure,
           KeyFirst, [Next]_vars
    PROVE  KeyFirst'
<1> DEFINE Out(g, m) == \E j \in DOMAIN log'[g] :
              /\ log'[g][j].type = "key" /\ log'[g][j].body.chain = m.chain
              /\ log'[g][j].body.iteration <= m.iteration
           KeysFirst(h) == \A g \in Group : \A i \in DOMAIN h[g] :
              h[g][i].type = "message" =>
                  \E j \in DOMAIN h[g] :
                      /\ h[g][j].type = "key" /\ j < i
                      /\ h[g][j].body.chain = h[g][i].body.chain
                      /\ h[g][j].body.iteration <= h[g][i].body.iteration
           Starts(t) == task'[t].step \in {"create", "store", "fetch", "wrap"} => ~distributed'
           Holds(t) == task'[t].step \in {"fetch", "wrap"} =>
              record'[task'[t].group] # <<>> /\ task'[t].key = KeyMessageOf(record'[task'[t].group])
           Loads(t) == task'[t].step = "encrypting" => task'[t].loaded = record'[task'[t].group]
           Sends(t) == task'[t].step \in {"encrypting", "send"} => Out(task'[t].group, task'[t].key)
           Knows(g) == record'[g] # <<>> /\ Out(g, KeyMessageOf(record'[g]))
<1>1. /\ \A t \in Send : Distributing(t) => ~distributed
      /\ \A t \in Send : task[t].step \in {"fetch", "wrap"} =>
            /\ record[task[t].group] # <<>>
            /\ task[t].key = KeyMessageOf(record[task[t].group])
      /\ \A t \in Send : task[t].step = "encrypting" => task[t].loaded = record[task[t].group]
      /\ \A t \in Send : task[t].step \in {"encrypting", "send"} =>
            KeyOut(task[t].group, task[t].key)
      /\ \A g \in Group : distributed \/ (\E t \in Send : Encrypting(t)) =>
            record[g] # <<>> /\ KeyOut(g, KeyMessageOf(record[g]))
      /\ KeysFirst(log)
  BY DEF KeyFirst, KeyBeforeMessage, Entries, At
<1>2. \A t \in Send : task[t].group \in Group
  BY TaskFields
<1>3. \A g \in Group : \A m : KeyOut(g, m) => Out(g, m)
  BY KeyStaysOut
<1>4. SUFFICES /\ \A t \in Send : Starts(t) /\ Holds(t) /\ Loads(t) /\ Sends(t)
               /\ \A g \in Group :
                     distributed' \/ (\E t \in Send : task'[t].step \in {"encrypt", "encrypting", "send"})
                         => Knows(g)
               /\ KeysFirst(log')
  BY DEF KeyFirst, KeyBeforeMessage, KeyOut, Entries, At, Distributing, Encrypting
<1>5. ASSUME log' = log
      PROVE  KeysFirst(log')
  BY <1>1, <1>5
<1>6. ASSUME NEW t \in Send, NEW u \in Send
      PROVE  u = t
  BY DEF OneSend
<1>7. CASE QuietStep
  <2>1. record' = record /\ log' = log
    BY <1>7 DEF QuietStep
  <2>2. /\ distributed' => distributed
        /\ \A t \in Send :
             /\ task'[t].step \in {"create", "encrypt"} =>
                   \/ task'[t].step = task[t].step
                   \/ task'[t].step = (IF distributed THEN "encrypt" ELSE "create")
             /\ task'[t].step \in {"store", "fetch", "wrap"} => Distributing(t)
    <3>1. \A t \in Send : ~KeySent(t)
      <4>1. \A g \in Group : log'[g] = log[g]
        BY <2>1
      <4>2. \A g \in Group : Len(log[g]) \in Nat
        BY DEF TypeOK
      <4> QED BY <1>2, <4>1, <4>2 DEF KeySent, Appended
    <3> QED BY <3>1, NotedStep DEF Noted
  <2>3. \A t \in Send : Starts(t)
    BY <1>1, <2>2 DEF Distributing
  <2>4. \A t \in Send : Holds(t)
    BY <1>1, <1>7, <2>1 DEF QuietStep, CalmSend
  <2>5. \A t \in Send : Loads(t)
    BY <1>1, <1>7, <2>1 DEF QuietStep, CalmSend
  <2>6. \A t \in Send : Sends(t)
    BY <1>1, <1>2, <1>3, <1>7 DEF QuietStep, CalmSend
  <2>7. ASSUME NEW t \in Send, task'[t].step \in {"encrypt", "encrypting", "send"}
        PROVE  distributed \/ Encrypting(t)
    <3>1. CASE task'[t].step = "encrypt"
      BY <2>2, <3>1 DEF Encrypting
    <3>2. CASE task'[t].step # "encrypt"
      BY <1>7, <2>7, <3>2 DEF QuietStep, CalmSend, Encrypting
    <3> QED BY <3>1, <3>2
  <2>8. ASSUME NEW g \in Group, distributed \/ (\E t \in Send : Encrypting(t))
        PROVE  Knows(g)
    BY <1>1, <1>3, <2>1, <2>8
  <2> QED BY <1>5, <2>1, <2>2, <2>3, <2>4, <2>5, <2>6, <2>7, <2>8
<1>8. ASSUME NEW t \in Send, SenderStep(t)
      PROVE  /\ Starts(t) /\ Holds(t) /\ Loads(t) /\ Sends(t)
             /\ \A g \in Group :
                   distributed' \/ task'[t].step \in {"encrypt", "encrypting", "send"} => Knows(g)
             /\ KeysFirst(log')
  <2> DEFINE g == task[t].group
  <2>1. g \in Group /\ task[t].key \in KeyMessage /\ \A h \in Group : h = g
    BY <1>2, TaskFields DEF OneGroup
  <2>2. CASE KeyCreated(t) \/ KeyLoaded(t) \/ KeyStored(t)
    <3>1. /\ log' = log /\ task'[t].group = g /\ task'[t].step \in {"store", "fetch"}
          /\ Distributing(t)
      BY <2>2 DEF KeyCreated, KeyLoaded, KeyStored, Only, Distributing
    <3>2. ~distributed'
      <4>1. ~KeySent(t)
        BY <3>1 DEF KeySent
      <4>2. \A u \in Send : ~KeySent(u)
        BY <1>6, <4>1
      <4> QED BY <1>1, <3>1, <4>2, NotedStep DEF Noted
    <3>3. Holds(t)
      <4>1. CASE KeyCreated(t)
        BY <4>1 DEF KeyCreated
      <4>2. CASE KeyLoaded(t)
        BY <3>1, <4>2 DEF KeyLoaded
      <4>3. CASE KeyStored(t)
        <5> DEFINE r == record'[g]
        <5>1. /\ r # <<>> /\ Len(r) = 1 /\ r[1] = NewState(task[t].key.chain, task[t].key.iteration)
              /\ task'[t].key = task[t].key
          BY <4>3 DEF KeyStored
        <5>2. task[t].key = [chain |-> task[t].key.chain, iteration |-> task[t].key.iteration]
          BY <2>1 DEF KeyMessage
        <5>3. r[1].chain = task[t].key.chain /\ r[1].iteration = task[t].key.iteration
          BY <5>1 DEF NewState
        <5>4. Head(r) = r[1]
          <6>1. r \in Seq(SenderKeyState)
            BY <2>1, GroupStepType DEF TypeOK, SenderKeyRecord
          <6> QED BY <5>1, <6>1
        <5>5. KeyMessageOf(r) = task[t].key
          BY <5>2, <5>3, <5>4 DEF KeyMessageOf
        <5> QED BY <3>1, <5>1, <5>5
      <4> QED BY <2>2, <4>1, <4>2, <4>3
    <3> QED BY <1>5, <3>1, <3>2, <3>3
  <2>3. CASE KeySent(t)
    <3>1. /\ task'[t].group = g /\ task'[t].step = "encrypt" /\ task[t].step = "wrap"
          /\ record' = record /\ Appended(g, "key", task[t].key)
      BY <2>3 DEF KeySent, Only
    <3>2. record[g] # <<>> /\ task[t].key = KeyMessageOf(record[g])
      BY <1>1, <3>1
    <3>3. Out(g, task[t].key)
      <4> DEFINE n == Len(log[g]) + 1
      <4>1. Len(log[g]) \in Nat
        BY <2>1 DEF TypeOK
      <4>2. task[t].key.iteration \in Nat
        BY <2>1, SenderKeyLimits DEF KeyMessage, Iteration
      <4>3. /\ DOMAIN log'[g] = 1 .. n
            /\ log'[g][n].type = "key" /\ log'[g][n].body = task[t].key
        BY <3>1 DEF Appended
      <4>4. n \in 1 .. n
        BY <4>1
      <4> HIDE DEF n
      <4> QED BY <4>2, <4>3, <4>4
    <3>4. KeysFirst(log')
      <4> SUFFICES ASSUME NEW h \in Group, NEW i \in DOMAIN log'[h], log'[h][i].type = "message"
                   PROVE  \E j \in DOMAIN log'[h] :
                             /\ log'[h][j].type = "key" /\ j < i
                             /\ log'[h][j].body.chain = log'[h][i].body.chain
                             /\ log'[h][j].body.iteration <= log'[h][i].body.iteration
        OBVIOUS
      <4>1. i \in DOMAIN log[h] /\ log'[h][i] = log[h][i]
        BY <2>1, <3>1, EntryBefore
      <4> QED BY <1>1, <4>1, EntriesStay
    <3> QED BY <2>1, <3>1, <3>2, <3>3, <3>4
  <2>4. CASE EncryptBegun(t)
    <3>1. /\ task'[t].group = g /\ task'[t].step = "encrypting" /\ task[t].step = "encrypt"
          /\ record' = record /\ task'[t].loaded = record[g] /\ log' = log
          /\ task'[t].key = KeyMessageOf(record[g])
      BY <2>4 DEF EncryptBegun, Only
    <3>2. record[g] # <<>> /\ Out(g, KeyMessageOf(record[g]))
      BY <1>1, <1>3, <2>1, <3>1 DEF Encrypting
    <3>3. /\ task[t].group = g
          /\ record'[g] # <<>> /\ Out(g, KeyMessageOf(record'[g]))
      BY ONLY <3>1, <3>2
    <3>4. \A h \in Group : Knows(h)
      BY ONLY <2>1, <3>3
    <3>5. Starts(t) /\ Holds(t) /\ Loads(t)
      BY <3>1 DEF Distributing
    <3>6. Sends(t) /\ KeysFirst(log')
      BY <1>5, <3>1, <3>2
    <3> HIDE DEF Knows, Starts, Holds, Loads, Sends, KeysFirst
    <3> QED BY <3>4, <3>5, <3>6
  <2>5. CASE EncryptEnded(t)
    <3>1. /\ task'[t].group = g /\ task'[t].step = "send" /\ task[t].step = "encrypting"
          /\ record'[g] = GroupEncrypt(task[t].loaded) /\ log' = log
          /\ task'[t].key = task[t].key /\ CanGroupEncrypt(task[t].loaded)
          /\ task[t].key = KeyMessageOf(task[t].loaded)
      BY <2>5 DEF EncryptEnded, Only
    <3> DEFINE r == task[t].loaded
               a == GroupEncrypt(r)
    <3>2. r \in SenderKeyRecord /\ Len(r) <= 1 /\ r # <<>>
      BY <3>1, TaskFields DEF SenderInv, OneSenderState, SenderState, CanGroupEncrypt
    <3>3. DOMAIN r = {1} /\ Len(r) = 1 /\ r[1] \in SenderKeyState
      BY <3>2, OnlyState
    <3>4. /\ a \in SenderKeyRecord /\ Len(a) = 1
          /\ a[1].chain = r[1].chain /\ a[1].iteration = r[1].iteration + 1
          /\ KeyMessageOf(r).chain = r[1].chain /\ KeyMessageOf(r).iteration = r[1].iteration
      BY <3>1, <3>2, <3>3, GroupEncryptProperties
    <3> HIDE DEF a
    <3>5. a # <<>> /\ Len(a) <= 1
      <4>1. DOMAIN a = 1 .. 1
        BY <3>4, RecordFields
      <4>2. 1 \in DOMAIN a /\ 1 \notin DOMAIN <<>>
        BY <4>1
      <4>3. a # <<>>
        BY <4>2, Zenon
      <4> QED BY <3>4, <4>3
    <3>6. /\ KeyMessageOf(a).chain = a[1].chain /\ KeyMessageOf(a).iteration = a[1].iteration
      BY <3>4, <3>5, OnlyState
    <3>7. Out(g, task[t].key)
      BY <1>1, <1>3, <2>1, <3>1
    <3>8. Out(g, KeyMessageOf(a))
      <4>1. PICK j \in DOMAIN log'[g] :
                /\ log'[g][j].type = "key" /\ log'[g][j].body.chain = task[t].key.chain
                /\ log'[g][j].body.iteration <= task[t].key.iteration
        BY <3>7
      <4>2. j \in DOMAIN log[g]
        BY <3>1
      <4>3. log'[g][j].body.iteration \in Nat /\ r[1].iteration \in Nat
        BY <2>1, <3>1, <3>3, <4>2, EntryFields, StateFields
      <4>4. /\ KeyMessageOf(a).chain = task[t].key.chain
            /\ KeyMessageOf(a).iteration = task[t].key.iteration + 1
        BY ONLY <3>1, <3>4, <3>6
      <4>5. /\ task[t].key.iteration \in Nat
            /\ log'[g][j].body.iteration <= KeyMessageOf(a).iteration
        BY ONLY <3>1, <3>4, <4>1, <4>3, <4>4
      <4> QED BY ONLY <4>1, <4>4, <4>5
    <3>9. Knows(g)
      <4>1. record'[g] = a
        BY <3>1 DEF a
      <4> QED BY ONLY <3>5, <3>8, <4>1
    <3>10. \A h \in Group : Knows(h)
      <4> HIDE DEF Knows
      <4> QED BY ONLY <2>1, <3>9
    <3>11. Starts(t) /\ Holds(t) /\ Loads(t)
      BY <3>1 DEF Distributing
    <3>12. Sends(t) /\ KeysFirst(log')
      BY <1>5, <3>1, <3>7
    <3> HIDE DEF Knows, Starts, Holds, Loads, Sends, KeysFirst
    <3> QED BY <3>10, <3>11, <3>12
  <2>6. CASE MessageSent(t)
    <3>1. /\ task'[t].step = "idle" /\ task[t].step = "send" /\ record' = record
          /\ Appended(g, "message", task[t].key)
      BY <2>6 DEF MessageSent
    <3>2. \A h \in Group : Knows(h)
      BY <1>1, <1>3, <3>1 DEF Encrypting
    <3>3. KeyOut(g, task[t].key)
      BY <1>1, <3>1
    <3>4. KeysFirst(log')
      <4> SUFFICES ASSUME NEW h \in Group, NEW i \in DOMAIN log'[h], log'[h][i].type = "message"
                   PROVE  \E j \in DOMAIN log'[h] :
                             /\ log'[h][j].type = "key" /\ j < i
                             /\ log'[h][j].body.chain = log'[h][i].body.chain
                             /\ log'[h][j].body.iteration <= log'[h][i].body.iteration
        OBVIOUS
      <4>1. \/ i \in DOMAIN log[h] /\ log'[h][i] = log[h][i]
            \/ h = g /\ i = Len(log[g]) + 1 /\ log'[h][i].body = task[t].key
        BY <2>1, <3>1, EntryBefore
      <4>2. CASE i \in DOMAIN log[h] /\ log'[h][i] = log[h][i]
        BY <1>1, <4>2, EntriesStay
      <4>3. CASE h = g /\ i = Len(log[g]) + 1 /\ log'[h][i].body = task[t].key
        <5>1. PICK j \in DOMAIN log[g] :
                  /\ log[g][j].type = "key" /\ log[g][j].body.chain = task[t].key.chain
                  /\ log[g][j].body.iteration <= task[t].key.iteration
          BY <3>3 DEF KeyOut, Entries
        <5>2. DOMAIN log[g] = 1 .. Len(log[g]) /\ Len(log[g]) \in Nat
          BY <2>1 DEF TypeOK
        <5>3. j < i
          BY <4>3, <5>1, <5>2
        <5>4. j \in DOMAIN log'[g] /\ log'[g][j] = log[g][j]
          BY <2>1, <5>1, EntriesStay
        <5> QED BY <4>3, <5>1, <5>3, <5>4
      <4> QED BY <4>1, <4>2, <4>3
    <3> QED BY <3>1, <3>2, <3>4
  <2> QED BY <1>8, <2>2, <2>3, <2>4, <2>5, <2>6 DEF SenderStep
<1> HIDE DEF Starts, Holds, Loads, Sends, Knows, KeysFirst
<1> QED
  BY <1>6, <1>7, <1>8, StepKinds

\* With one send at a time, in one conversation, and nothing emitted lost, a message
\* never reaches the history before the key it is encrypted under, whatever bundle
\* fetches fail and however often the conversation is opened again.
THEOREM KeyFirstEveryTime ==
    ASSUME OneSend, OneGroup, "drop" \notin Failure
    PROVE  Spec => []KeyBeforeMessage
<1>1. Init => KeyFirst
  <2>1. Init => ~distributed /\ \A t \in Send : task[t].step = "idle"
    BY DEF Init, IdleSend
  <2>2. Init => \A g \in Group : DOMAIN log[g] = {}
    BY DEF Init
  <2> QED BY <2>1, <2>2 DEF KeyFirst, KeyBeforeMessage, Entries, At, Distributing, Encrypting
<1>2. TypeOK /\ Positions /\ SenderInv /\ KeyFirst /\ [Next]_vars => KeyFirst'
  BY KeyFirstStep
<1>3. KeyFirst => KeyBeforeMessage
  BY DEF KeyFirst
<1> QED
  BY SenderInvariant, <1>1, <1>2, <1>3, PTL DEF Spec

\* With one send at a time a device reads only what was sent after a key was encrypted
\* for it.
THEOREM NothingOlder == ASSUME OneSend PROVE Spec => []NothingOlderThanTheKey
<1>1. Init => OrderInv
  <2>1. Init => ReadFromKey
    BY DEF Init, EachGroup, ReadFromKey
  <2>2. Init => \A t \in Send : task[t].step = "idle"
    BY DEF Init, IdleSend
  <2>3. Init => \A g \in Group : DOMAIN log[g] = {}
    BY DEF Init
  <2> QED BY <2>1, <2>2, <2>3 DEF OrderInv, KeysInOrder, Entries
<1>2. TypeOK /\ Positions /\ SenderInv /\ ReceiverInv /\ OrderInv /\ [Next]_vars => OrderInv'
  BY ReadFromKeyStep, KeysInOrderStep DEF OrderInv
<1>3. Positions /\ OrderInv => NothingOlderThanTheKey
  <2> SUFFICES ASSUME Positions, OrderInv, NEW d \in Device, NEW g \in Group,
                      NEW i \in read[d][g]
               PROVE  \E j \in Entries(g, "key") : j < i /\ d \in log[g][j].to
    BY DEF NothingOlderThanTheKey
  <2>1. i \in Entries(g, "message")
    BY DEF Positions, PagesWithin
  <2>2. PICK j \in Entries(g, "key") :
            /\ d \in log[g][j].to
            /\ log[g][j].body.chain = log[g][i].body.chain
            /\ log[g][j].body.iteration <= log[g][i].body.iteration
    BY DEF OrderInv, ReadFromKey
  <2>3. j < i
    BY <2>1, <2>2 DEF OrderInv, KeysInOrder
  <2> QED BY <2>2, <2>3
<1> QED
  BY SenderInvariant, ReceiverInvariant, <1>1, <1>2, <1>3, PTL DEF Spec
=============================================================================
