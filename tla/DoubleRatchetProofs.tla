------------------------ MODULE DoubleRatchetProofs ------------------------
(***************************************************************************)
(* Theorems about SessionRecord and DoubleRatchet.  First what the         *)
(* operations of a record return, for any record: their types, the limits  *)
(* of consts.rs, what they do to sender chains, and what a decryption      *)
(* leaves of the receiver chains.  Then the state machine, for any number  *)
(* of devices and messages and any limits: its type invariant, the limits  *)
(* of consts.rs, that no message key is used twice, that neither end keeps *)
(* what derives a used key, that a message opens at most once, that the    *)
(* ratchet implements the safety of SecureChannel, and that only a message *)
(* that has been decrypted is called a duplicate.                          *)
(***************************************************************************)
EXTENDS DoubleRatchet, SequenceLemmas

-----------------------------------------------------------------------------
(* Sets of positions and sequences                                         *)

\* Dropping the oldest archived session keeps the others.
LEMMA FrontProperties ==
    ASSUME NEW S, NEW s \in Seq(S), s # <<>>
    PROVE  /\ Front(s) \in Seq(S)
           /\ Len(Front(s)) = Len(s) - 1
           /\ \A j \in 1 .. Len(s) - 1 : Front(s)[j] = s[j]
<1> DEFINE front == SubSeq(s, 1, Len(s) - 1)
<1>1. Len(s) \in Nat \ {0} /\ \A j \in 1 .. Len(s) : s[j] \in S
  BY EmptySeq
<1>2. (\A j \in 1 .. Len(s) - 1 : s[j] \in S) /\ Len(s) - 1 \in Int
  BY <1>1
<1>3. /\ front \in Seq(S)
      /\ Len(front) = IF 1 <= Len(s) - 1 THEN Len(s) - 1 - 1 + 1 ELSE 0
      /\ \A j \in 1 .. Len(s) - 1 - 1 + 1 : front[j] = s[1 + j - 1]
  <2> HIDE DEF front
  <2> QED BY <1>2, SubSeqProperties DEF front
<1> HIDE DEF front
<1>4. Front(s) = front
  BY DEF Front, front
<1> QED
  BY <1>1, <1>3, <1>4

-----------------------------------------------------------------------------
(* One session                                                             *)

\* A chain that get_or_create_chain_key has just split off the root key.
NewChain(c, fresh, ratchet) ==
    /\ c.ratchet = fresh
    /\ c.index = 0
    /\ c.root # <<>>
    /\ c.root[Len(c.root)] = {fresh, ratchet}

LEMMA CreateChainProperties ==
    ASSUME NEW root \in RootKey, NEW ours \in Key, NEW theirs \in Key
    PROVE  /\ CreateChain(root, ours, theirs) \in RootKey
           /\ CreateChain(root, ours, theirs) # <<>>
           /\ CreateChain(root, ours, theirs)[Len(CreateChain(root, ours, theirs))]
                 = {ours, theirs}
<1> DEFINE keys == {ours, theirs}
           sets == SUBSET Key
<1>1. keys \in sets /\ root \in Seq(sets)
  BY DEF RootKey
<1>2. RootKey = Seq(sets) /\ CreateChain(root, ours, theirs) = Append(root, keys)
  BY DEF RootKey, CreateChain
<1> HIDE DEF keys, sets
<1>3. /\ Append(root, keys) \in Seq(sets)
      /\ Append(root, keys) # <<>>
      /\ Len(Append(root, keys)) = Len(root) + 1
      /\ Append(root, keys)[Len(root) + 1] = keys
  BY <1>1, AppendProperties
<1> QED
  BY <1>2, <1>3 DEF keys

LEMMA HandshakeRootType ==
    ASSUME NEW idA \in Key, NEW idB \in Key, NEW base \in Key,
           NEW signed \in Key, NEW preKey \in OptionalKey
    PROVE  HandshakeRoot(idA, idB, base, signed, preKey) \in RootKey
<1> DEFINE keys == {idA, idB, base, signed, preKey} \ {NoKey}
<1>1. keys \in SUBSET Key
  BY DEF OptionalKey
<1>2. HandshakeRoot(idA, idB, base, signed, preKey) = <<keys>>
  BY DEF HandshakeRoot
<1> HIDE DEF keys
<1>3. <<keys>> \in Seq(SUBSET Key)
  BY <1>1
<1> QED
  BY <1>2, <1>3 DEF RootKey

\* The session Alice starts from a bundle is well formed, within the limits, and
\* its sender chain is new.
LEMMA InitializeAliceProperties ==
    ASSUME NEW local \in Key, NEW remote \in Key, NEW base \in Key, NEW ratchet \in Key,
           NEW signed \in Key, NEW preKey \in OptionalKey, NEW time \in Nat
    PROVE  LET s == InitializeAlice(local, remote, base, ratchet, signed, preKey, time)
           IN  /\ s \in Session
               /\ SessionWithinLimits(s)
               /\ NewChain(s.sender, ratchet, signed)
<1> DEFINE root == HandshakeRoot(local, remote, base, signed, preKey)
           sending == CreateChain(root, ratchet, signed)
           receiving == [ratchet |-> signed, root |-> root, index |-> 0,
                         skipped |-> <<>>]
           s == InitializeAlice(local, remote, base, ratchet, signed, preKey, time)
<1>1. root \in RootKey
  BY HandshakeRootType
<1>2. sending \in RootKey /\ sending # <<>> /\ sending[Len(sending)] = {ratchet, signed}
  BY <1>1, CreateChainProperties
<1>3. receiving \in ReceiverChain
  BY <1>1 DEF ReceiverChain
<1>4. <<receiving>> \in Seq(ReceiverChain) /\ Len(<<receiving>>) = 1
      /\ DOMAIN <<receiving>> = {1} /\ <<receiving>>[1] = receiving
  BY <1>3
<1>5. [ratchet |-> ratchet, root |-> sending, index |-> 0] \in SenderChain
  BY <1>2 DEF SenderChain
<1>6. [preKey |-> preKey, signedPreKey |-> signed, time |-> time] \in Pending
  BY DEF Pending
<1>7. s = [local |-> local, remote |-> remote, base |-> base, root |-> sending,
           sender |-> [ratchet |-> ratchet, root |-> sending, index |-> 0],
           receivers |-> <<receiving>>,
           pending |-> [preKey |-> preKey, signedPreKey |-> signed, time |-> time]]
  BY DEF InitializeAlice
<1> HIDE DEF root, sending, receiving, s
<1>8. s \in Session
  BY <1>2, <1>4, <1>5, <1>6, <1>7 DEF Session
<1>9. SessionWithinLimits(s)
  <2>1. Len(receiving.skipped) = 0
    BY DEF receiving
  <2> QED BY <2>1, <1>4, <1>7, LimitsAssumption DEF SessionWithinLimits
<1>10. NewChain(s.sender, ratchet, signed)
  BY <1>2, <1>7 DEF NewChain
<1> QED
  BY <1>8, <1>9, <1>10 DEF s

LEMMA InitializeBobProperties ==
    ASSUME NEW local \in Key, NEW remote \in Key, NEW base \in Key,
           NEW signed \in Key, NEW preKey \in OptionalKey
    PROVE  LET s == InitializeBob(local, remote, base, signed, preKey)
           IN  /\ s \in Session
               /\ SessionWithinLimits(s)
               /\ s.receivers = <<>>
<1> DEFINE root == HandshakeRoot(local, remote, base, signed, preKey)
<1>1. root \in RootKey
  BY HandshakeRootType
<1>2. [ratchet |-> signed, root |-> root, index |-> 0] \in SenderChain
  BY <1>1 DEF SenderChain
<1>3. InitializeBob(local, remote, base, signed, preKey) =
        [local |-> local, remote |-> remote, base |-> base, root |-> root,
         sender |-> [ratchet |-> signed, root |-> root, index |-> 0],
         receivers |-> <<>>, pending |-> NoPending]
  BY DEF InitializeBob
<1> HIDE DEF root
<1>4. <<>> \in Seq(ReceiverChain) /\ Len(<<>>) = 0 /\ DOMAIN <<>> = {}
  OBVIOUS
<1> QED
  BY <1>1, <1>2, <1>3, <1>4, LimitsAssumption DEF Session, SessionWithinLimits

\* add_receiver_chain keeps at most MAX_RECEIVER_CHAINS chains, the new one last.
LEMMA AddReceiverChainProperties ==
    ASSUME NEW chains \in Seq(ReceiverChain), NEW chain \in ReceiverChain
    PROVE  LET r == AddReceiverChain(chains, chain)
           IN  /\ r \in Seq(ReceiverChain)
               /\ Len(r) >= 1
               /\ r[Len(r)] = chain
               /\ Len(chains) <= MAX_RECEIVER_CHAINS => Len(r) <= MAX_RECEIVER_CHAINS
               /\ \A i \in 1 .. Len(r) :
                     r[i] = chain \/ \E j \in 1 .. Len(chains) : r[i] = chains[j]
<1> DEFINE pushed == Append(chains, chain)
           r == AddReceiverChain(chains, chain)
<1>1. /\ pushed \in Seq(ReceiverChain)
      /\ pushed # <<>>
      /\ Len(pushed) = Len(chains) + 1
      /\ \A i \in 1 .. Len(chains) : pushed[i] = chains[i]
      /\ pushed[Len(chains) + 1] = chain
      /\ Len(chains) \in Nat
  BY AppendProperties, LenProperties
<1>2. r = IF Len(pushed) > MAX_RECEIVER_CHAINS THEN Tail(pushed) ELSE pushed
  BY DEF AddReceiverChain
<1>3. /\ Tail(pushed) \in Seq(ReceiverChain)
      /\ Len(Tail(pushed)) = Len(pushed) - 1
      /\ \A i \in 1 .. Len(Tail(pushed)) : Tail(pushed)[i] = pushed[i + 1]
  BY <1>1, HeadTailProperties
<1> HIDE DEF pushed, r
<1>4. CASE Len(pushed) > MAX_RECEIVER_CHAINS
  <2>1. r = Tail(pushed) /\ Len(r) = Len(chains) /\ Len(chains) >= 1
    BY <1>1, <1>2, <1>3, <1>4, LimitsAssumption
  <2>2. r[Len(r)] = chain
    BY <2>1, <1>1, <1>3
  <2>3. ASSUME NEW i \in 1 .. Len(r)
        PROVE  r[i] = chain \/ \E j \in 1 .. Len(chains) : r[i] = chains[j]
    <3>1. r[i] = pushed[i + 1]
      BY <2>1, <1>3
    <3>2. i + 1 \in 1 .. Len(chains) \/ i + 1 = Len(chains) + 1
      BY <2>1, <1>1
    <3> QED BY <3>1, <3>2, <1>1
  <2>4. Len(chains) <= MAX_RECEIVER_CHAINS => Len(r) <= MAX_RECEIVER_CHAINS
    BY <2>1
  <2> QED BY <2>1, <2>2, <2>3, <2>4, <1>3 DEF r
<1>5. CASE ~(Len(pushed) > MAX_RECEIVER_CHAINS)
  <2>1. r = pushed
    BY <1>2, <1>5
  <2>2. Len(r) <= MAX_RECEIVER_CHAINS
    BY <2>1, <1>1, <1>5, LimitsAssumption
  <2>3. ASSUME NEW i \in 1 .. Len(r)
        PROVE  r[i] = chain \/ \E j \in 1 .. Len(chains) : r[i] = chains[j]
    <3>1. i \in 1 .. Len(chains) \/ i = Len(chains) + 1
      BY <2>1, <1>1
    <3> QED BY <3>1, <2>1, <1>1
  <2> QED BY <2>1, <2>2, <2>3, <1>1 DEF r
<1> QED
  BY <1>4, <1>5

\* get_or_create_chain_key: a chain for the ratchet key is there afterwards; the
\* sender chain is the old one or, certainly if there was no receiver chain, new.
LEMMA WithReceiverChainProperties ==
    ASSUME NEW s \in Session, NEW ratchet \in Key, NEW fresh \in Key
    PROVE  LET s1 == WithReceiverChain(s, ratchet, fresh)
           IN  /\ s1 \in Session
               /\ HasReceiverChain(s1, ratchet)
               /\ SessionWithinLimits(s) => SessionWithinLimits(s1)
               /\ s1.sender = s.sender \/ NewChain(s1.sender, fresh, ratchet)
               /\ s.receivers = <<>> => NewChain(s1.sender, fresh, ratchet)
<1> DEFINE s1 == WithReceiverChain(s, ratchet, fresh)
<1>1. CASE HasReceiverChain(s, ratchet)
  <2>1. s1 = s
    BY <1>1 DEF WithReceiverChain
  <2>2. s.receivers # <<>>
    BY <1>1 DEF HasReceiverChain, ReceiverChains
  <2> HIDE DEF s1
  <2> QED BY <1>1, <2>1, <2>2 DEF s1
<1>2. CASE ~HasReceiverChain(s, ratchet)
  <2> DEFINE receiving == CreateChain(s.root, s.sender.ratchet, ratchet)
             sending == CreateChain(receiving, fresh, ratchet)
             chain == [ratchet |-> ratchet, root |-> receiving, index |-> 0,
                       skipped |-> <<>>]
             chains == AddReceiverChain(s.receivers, chain)
             sender == [ratchet |-> fresh, root |-> sending, index |-> 0]
  <2>1. /\ s.root \in RootKey /\ s.sender \in SenderChain /\ s.sender.ratchet \in Key
        /\ s.receivers \in Seq(ReceiverChain)
    BY DEF Session, SenderChain
  <2>2. receiving \in RootKey
    BY <2>1, CreateChainProperties
  <2>3. sending \in RootKey /\ sending # <<>> /\ sending[Len(sending)] = {fresh, ratchet}
    BY <2>2, CreateChainProperties
  <2>4. chain \in ReceiverChain /\ Len(chain.skipped) = 0 /\ chain.ratchet = ratchet
    BY <2>2 DEF ReceiverChain
  <2>5. s1 = [s EXCEPT !.root = sending, !.receivers = chains, !.sender = sender]
    BY <1>2 DEF WithReceiverChain
  <2> HIDE DEF receiving, sending, chain
  <2>6. /\ chains \in Seq(ReceiverChain)
        /\ Len(chains) >= 1
        /\ chains[Len(chains)] = chain
        /\ Len(s.receivers) <= MAX_RECEIVER_CHAINS => Len(chains) <= MAX_RECEIVER_CHAINS
        /\ \A i \in 1 .. Len(chains) :
              chains[i] = chain \/ \E j \in 1 .. Len(s.receivers) : chains[i] = s.receivers[j]
    BY <2>1, <2>4, AddReceiverChainProperties
  <2>7. sender \in SenderChain
    BY <2>3 DEF SenderChain
  <2>8. NewChain(sender, fresh, ratchet)
    BY <2>3 DEF NewChain
  <2> HIDE DEF chains, sender, s1
  <2>9. s1 \in Session /\ s1.receivers = chains /\ s1.sender = sender
    BY <2>3, <2>5, <2>6, <2>7 DEF Session
  <2>10. HasReceiverChain(s1, ratchet)
    <3>1. Len(chains) \in DOMAIN chains
      BY <2>6
    <3> QED BY <3>1, <2>4, <2>6, <2>9 DEF HasReceiverChain, ReceiverChains
  <2>11. ASSUME SessionWithinLimits(s)
         PROVE  SessionWithinLimits(s1)
    <3>1. Len(s1.receivers) <= MAX_RECEIVER_CHAINS
      BY <2>6, <2>9, <2>11 DEF SessionWithinLimits
    <3>2. ASSUME NEW i \in DOMAIN s1.receivers
          PROVE  Len(s1.receivers[i].skipped) <= MAX_MESSAGE_KEYS
      <4>1. chains[i] = chain \/ \E j \in 1 .. Len(s.receivers) : chains[i] = s.receivers[j]
        BY <2>6, <2>9
      <4>2. DOMAIN s.receivers = 1 .. Len(s.receivers)
        BY <2>1
      <4> QED BY <4>1, <4>2, <2>4, <2>9, <2>11, LimitsAssumption DEF SessionWithinLimits
    <3> QED BY <3>1, <3>2 DEF SessionWithinLimits
  <2> QED BY <2>8, <2>9, <2>10, <2>11 DEF s1
<1> QED
  BY <1>1, <1>2

\* set_message_keys drops the oldest skipped keys beyond MAX_MESSAGE_KEYS.
LEMMA SkipToProperties ==
    ASSUME NEW skipped \in Seq(Nat), NEW from \in Nat, NEW to \in Nat, from <= to
    PROVE  /\ SkipTo(skipped, from, to) \in Seq(Nat)
           /\ Len(SkipTo(skipped, from, to)) <= MAX_MESSAGE_KEYS
<1> DEFINE new == [i \in 1 .. to - from |-> to - i]
           kept == new \o skipped
           n == IF Len(kept) < MAX_MESSAGE_KEYS THEN Len(kept) ELSE MAX_MESSAGE_KEYS
<1>1. new \in Seq(Nat)
  <2>1. to - from \in Nat /\ new \in [1 .. to - from -> Nat]
    OBVIOUS
  <2> QED BY <2>1, SeqDef
<1> HIDE DEF new
<1>2. kept \in Seq(Nat)
  BY <1>1, ConcatProperties
<1>3. SkipTo(skipped, from, to) = SubSeq(kept, 1, n)
  BY DEF SkipTo, new
<1> HIDE DEF kept
<1>4. n \in Nat /\ n <= Len(kept) /\ n <= MAX_MESSAGE_KEYS
  BY <1>2, LimitsAssumption
<1> HIDE DEF n
<1>5. \A i \in 1 .. n : kept[i] \in Nat
  BY <1>2, <1>4
<1>6. /\ SubSeq(kept, 1, n) \in Seq(Nat)
      /\ Len(SubSeq(kept, 1, n)) = IF 1 <= n THEN n - 1 + 1 ELSE 0
  BY <1>4, <1>5, SubSeqProperties
<1> QED
  BY <1>3, <1>4, <1>6, LimitsAssumption

\* Using a chain for one message leaves at most MAX_MESSAGE_KEYS skipped keys.
LEMMA AdvanceChainProperties ==
    ASSUME NEW c \in ReceiverChain, NEW counter \in Nat,
           c.index > counter => Contains(c.skipped, counter)
    PROVE  /\ AdvanceChain(c, counter) \in ReceiverChain
           /\ Len(c.skipped) <= MAX_MESSAGE_KEYS
                 => Len(AdvanceChain(c, counter).skipped) <= MAX_MESSAGE_KEYS
<1>1. c.skipped \in Seq(Nat) /\ c.index \in Nat
  BY DEF ReceiverChain
<1>2. CASE c.index > counter
  <2> DEFINE i == SkippedPosition(c, counter)
  <2>1. i \in DOMAIN c.skipped
    BY <1>1, <1>2 DEF SkippedPosition, Contains
  <2> HIDE DEF i
  <2>2. i \in 1 .. Len(c.skipped)
    BY <1>1, <2>1
  <2>3. RemoveAt(c.skipped, i) \in Seq(Nat) /\ Len(RemoveAt(c.skipped, i)) = Len(c.skipped) - 1
    BY <1>1, <2>2, RemoveAtProperties
  <2>4. AdvanceChain(c, counter) = [c EXCEPT !.skipped = RemoveAt(@, i)]
    BY <1>2 DEF AdvanceChain, i
  <2>5. AdvanceChain(c, counter).skipped = RemoveAt(c.skipped, i)
    BY <2>4 DEF ReceiverChain
  <2>6. AdvanceChain(c, counter) \in ReceiverChain
    BY <2>3, <2>4 DEF ReceiverChain
  <2>7. Len(c.skipped) \in Nat
    BY <1>1
  <2> HIDE DEF SkippedPosition
  <2> QED BY <2>3, <2>5, <2>6, <2>7, LimitsAssumption
<1>3. CASE ~(c.index > counter)
  <2> DEFINE skipped == SkipTo(c.skipped, c.index, counter)
  <2>1. skipped \in Seq(Nat) /\ Len(skipped) <= MAX_MESSAGE_KEYS
    BY <1>1, <1>3, SkipToProperties
  <2>2. AdvanceChain(c, counter) = [c EXCEPT !.skipped = skipped, !.index = counter + 1]
    BY <1>3 DEF AdvanceChain
  <2> HIDE DEF skipped
  <2>3. AdvanceChain(c, counter).skipped = skipped
    BY <2>2 DEF ReceiverChain
  <2>4. [c EXCEPT !.skipped = skipped] \in ReceiverChain
    BY <2>1 DEF ReceiverChain
  <2>5. AdvanceChain(c, counter) \in ReceiverChain
    <3> DEFINE d == [c EXCEPT !.skipped = skipped]
    <3>1. AdvanceChain(c, counter) = [d EXCEPT !.index = counter + 1]
      BY <2>2
    <3>2. d \in ReceiverChain /\ counter + 1 \in Nat
      BY <2>4
    <3> HIDE DEF d
    <3> QED BY <3>1, <3>2 DEF ReceiverChain
  <2> QED BY <2>1, <2>3, <2>5
<1> QED
  BY <1>2, <1>3

\* Clearing the pending prekey touches nothing else.
LEMMA ClearPendingProperties ==
    ASSUME NEW s \in Session
    PROVE  /\ ClearPending(s) \in Session
           /\ ClearPending(s).sender = s.sender
           /\ ClearPending(s).receivers = s.receivers
           /\ SessionWithinLimits(s) => SessionWithinLimits(ClearPending(s))
  BY DEF ClearPending, Session, SessionWithinLimits

\* A decryption keeps the session well formed and within the limits, and its
\* sender chain is the old one or, certainly if there was no receiver chain, new.
LEMMA DecryptWithStateProperties ==
    ASSUME NEW s \in Session, NEW m \in Message, NEW fresh \in Key
    PROVE  LET r == DecryptWithState(s, m, fresh)
           IN  /\ r.verdict \in {"ok", "duplicate", "invalid"}
               /\ r.session \in Session
               /\ SessionWithinLimits(s) => SessionWithinLimits(r.session)
               /\ r.session.sender = s.sender \/ NewChain(r.session.sender, fresh, m.ratchet)
               /\ r.verdict = "ok" /\ s.receivers = <<>>
                     => NewChain(r.session.sender, fresh, m.ratchet)
<1> DEFINE s1 == WithReceiverChain(s, m.ratchet, fresh)
           i == ReceiverChainIndex(s1, m.ratchet)
           c == s1.receivers[i]
           counter == m.key.index
           verdict == KeyVerdict(s, c, counter)
           macValid == MacValid(s, c, m)
           s2 == [s1 EXCEPT !.receivers[i] = AdvanceChain(c, counter)]
           r == DecryptWithState(s, m, fresh)
<1>1. m.ratchet \in Key /\ counter \in Nat
  BY DEF Message, MessageKey
<1>2. /\ s1 \in Session
      /\ HasReceiverChain(s1, m.ratchet)
      /\ SessionWithinLimits(s) => SessionWithinLimits(s1)
      /\ s1.sender = s.sender \/ NewChain(s1.sender, fresh, m.ratchet)
      /\ s.receivers = <<>> => NewChain(s1.sender, fresh, m.ratchet)
  BY <1>1, WithReceiverChainProperties
<1>3. verdict \in {"ok", "duplicate", "invalid"}
  BY DEF KeyVerdict
<1>4. verdict = "ok" => (c.index > counter => Contains(c.skipped, counter))
  BY DEF KeyVerdict
<1>5. r = IF verdict # "ok" THEN [verdict |-> verdict, session |-> s]
          ELSE IF ~macValid THEN [verdict |-> "invalid", session |-> s]
          ELSE [verdict |-> "ok", session |-> ClearPending(s2)]
  BY DEF DecryptWithState, Failed
<1> HIDE DEF s1, macValid, verdict, counter
<1>6. i \in 1 .. Len(s1.receivers) /\ s1.receivers \in Seq(ReceiverChain)
  <2>1. s1.receivers \in Seq(ReceiverChain)
    BY <1>2 DEF Session
  <2>2. DOMAIN s1.receivers = 1 .. Len(s1.receivers) /\ Len(s1.receivers) \in Nat
    BY <2>1
  <2>3. ReceiverChains(s1, m.ratchet) \in SUBSET Nat /\ ReceiverChains(s1, m.ratchet) # {}
    BY <1>2, <2>2 DEF HasReceiverChain, ReceiverChains
  <2>4. i \in ReceiverChains(s1, m.ratchet)
    BY <2>3, MinInSet DEF ReceiverChainIndex
  <2> QED BY <2>1, <2>2, <2>4 DEF ReceiverChains
<1> HIDE DEF i
<1>7. c \in ReceiverChain
  BY <1>6
<1> HIDE DEF c
<1>8. ASSUME verdict = "ok"
      PROVE  /\ s2 \in Session
             /\ s2.sender = s1.sender
             /\ SessionWithinLimits(s1) => SessionWithinLimits(s2)
  <2> DEFINE advanced == AdvanceChain(c, counter)
             chains == [s1.receivers EXCEPT ![i] = advanced]
  <2>1. /\ advanced \in ReceiverChain
        /\ Len(c.skipped) <= MAX_MESSAGE_KEYS => Len(advanced.skipped) <= MAX_MESSAGE_KEYS
    BY <1>1, <1>4, <1>7, <1>8, AdvanceChainProperties
  <2>2. s2 = [s1 EXCEPT !.receivers = chains]
    BY <1>2 DEF Session
  <2> HIDE DEF advanced
  <2>3. /\ chains \in Seq(ReceiverChain)
        /\ Len(chains) = Len(s1.receivers)
        /\ \A j \in 1 .. Len(s1.receivers) :
              chains[j] = IF j = i THEN advanced ELSE s1.receivers[j]
    BY <1>6, <2>1, ExceptSeq
  <2> HIDE DEF chains, s2
  <2>4. s2 \in Session /\ s2.sender = s1.sender /\ s2.receivers = chains
    BY <1>2, <2>2, <2>3 DEF Session
  <2>5. ASSUME SessionWithinLimits(s1)
        PROVE  SessionWithinLimits(s2)
    <3>1. Len(s2.receivers) <= MAX_RECEIVER_CHAINS
      BY <2>3, <2>4, <2>5 DEF SessionWithinLimits
    <3>2. ASSUME NEW j \in DOMAIN s2.receivers
          PROVE  Len(s2.receivers[j].skipped) <= MAX_MESSAGE_KEYS
      <4>1. j \in 1 .. Len(s1.receivers) /\ DOMAIN s1.receivers = 1 .. Len(s1.receivers)
        BY <1>6, <2>3, <2>4
      <4>2. Len(s1.receivers[j].skipped) <= MAX_MESSAGE_KEYS
        BY <4>1, <2>5 DEF SessionWithinLimits
      <4>3. s2.receivers[j] = IF j = i THEN advanced ELSE s1.receivers[j]
        BY <4>1, <2>3, <2>4
      <4>4. j = i => Len(c.skipped) <= MAX_MESSAGE_KEYS
        BY <4>2 DEF c
      <4> QED BY <4>2, <4>3, <4>4, <2>1
    <3> QED BY <3>1, <3>2 DEF SessionWithinLimits
  <2> QED BY <2>4, <2>5
<1>9. CASE verdict = "ok" /\ macValid
  <2> HIDE DEF s2, r
  <2>1. r.verdict = "ok" /\ r.session = ClearPending(s2)
    BY <1>5, <1>9
  <2>2. /\ ClearPending(s2) \in Session
        /\ ClearPending(s2).sender = s1.sender
        /\ SessionWithinLimits(s) => SessionWithinLimits(ClearPending(s2))
    BY <1>2, <1>8, <1>9, ClearPendingProperties
  <2> QED BY <1>2, <2>1, <2>2 DEF r
<1>10. CASE ~(verdict = "ok" /\ macValid)
  <2> HIDE DEF s2, r
  <2>1. r.verdict \in {"duplicate", "invalid"} /\ r.session = s
    BY <1>3, <1>5, <1>10
  <2> QED BY <2>1 DEF r
<1> QED
  BY <1>9, <1>10

-----------------------------------------------------------------------------
(* The record                                                              *)

LEMMA SessionsOfRecord ==
    ASSUME NEW r \in Record
    PROVE  /\ r.previous \in Seq(Session)
           /\ Len(r.previous) \in Nat
           /\ DOMAIN r.previous = 1 .. Len(r.previous)
           /\ r.current # NoSession => r.current \in Session
           /\ \A i \in DOMAIN r.previous : r.previous[i] \in Session
           /\ Sessions(r) \in SUBSET Session
           /\ \A s : s \in Sessions(r) <=>
                 \/ r.current # NoSession /\ s = r.current
                 \/ \E i \in DOMAIN r.previous : s = r.previous[i]
<1>1. r.previous \in Seq(Session) /\ r.current \in Session \cup {NoSession}
  BY DEF Record
<1>2. Len(r.previous) \in Nat /\ DOMAIN r.previous = 1 .. Len(r.previous)
  BY <1>1
<1>3. \A i \in DOMAIN r.previous : r.previous[i] \in Session
  BY <1>1
<1>4. \A s : s \in Sessions(r) <=>
                 \/ r.current # NoSession /\ s = r.current
                 \/ \E i \in DOMAIN r.previous : s = r.previous[i]
  BY DEF Sessions, ToSet
<1>5. Sessions(r) \in SUBSET Session
  BY <1>1, <1>3, <1>4
<1> QED
  BY <1>1, <1>2, <1>3, <1>4, <1>5

LEMMA FreshRecordProperties ==
    /\ FreshRecord \in Record
    /\ Sessions(FreshRecord) = {}
    /\ RecordWithinLimits(FreshRecord)
    /\ ChainsDistinct(FreshRecord)
<1>1. <<>> \in Seq(Session) /\ Len(<<>>) = 0 /\ DOMAIN <<>> = {}
  OBVIOUS
<1>2. FreshRecord \in Record
  BY <1>1 DEF FreshRecord, Record
<1>3. Sessions(FreshRecord) = {}
  BY <1>1 DEF Sessions, FreshRecord, ToSet
<1> QED
  BY <1>1, <1>2, <1>3, LimitsAssumption
  DEF FreshRecord, RecordWithinLimits, ChainsDistinct

\* Archiving moves the current session to the front of a list that stays bounded.
LEMMA ArchiveCurrentPositions ==
    ASSUME NEW r \in Record
    PROVE  LET a == ArchiveCurrent(r)
           IN  /\ a \in Record
               /\ a.current = NoSession
               /\ r.current = NoSession => a = r
               /\ r.current # NoSession =>
                     /\ Len(a.previous) >= 1
                     /\ a.previous[1] = ClearPending(r.current)
                     /\ \A i \in 2 .. Len(a.previous) :
                           i - 1 \in DOMAIN r.previous /\ a.previous[i] = r.previous[i - 1]
               /\ Len(r.previous) <= ARCHIVED_STATES_MAX_LENGTH
                     => Len(a.previous) <= ARCHIVED_STATES_MAX_LENGTH
<1>1. CASE r.current = NoSession
  BY <1>1 DEF ArchiveCurrent
<1>2. CASE r.current # NoSession
  <2> DEFINE first == ClearPending(r.current)
             rest == IF Len(r.previous) >= ARCHIVED_STATES_MAX_LENGTH
                     THEN Front(r.previous) ELSE r.previous
             a == ArchiveCurrent(r)
  <2>1. /\ r.previous \in Seq(Session) /\ Len(r.previous) \in Nat
        /\ DOMAIN r.previous = 1 .. Len(r.previous)
    BY SessionsOfRecord
  <2>2. first \in Session
    BY <1>2, SessionsOfRecord, ClearPendingProperties
  <2>3. /\ rest \in Seq(Session)
        /\ Len(rest) <= Len(r.previous)
        /\ \A i \in 1 .. Len(rest) : rest[i] = r.previous[i]
        /\ Len(r.previous) <= ARCHIVED_STATES_MAX_LENGTH
              => Len(rest) <= ARCHIVED_STATES_MAX_LENGTH - 1
    <3>1. CASE Len(r.previous) >= ARCHIVED_STATES_MAX_LENGTH
      <4>1. r.previous # <<>>
        BY <3>1, <2>1, LimitsAssumption
      <4>2. /\ Front(r.previous) \in Seq(Session)
            /\ Len(Front(r.previous)) = Len(r.previous) - 1
            /\ \A j \in 1 .. Len(r.previous) - 1 : Front(r.previous)[j] = r.previous[j]
        BY <4>1, <2>1, FrontProperties
      <4>3. rest = Front(r.previous)
        BY <3>1
      <4> HIDE DEF rest
      <4> QED BY <3>1, <4>2, <4>3, <2>1, LimitsAssumption
    <3>2. CASE ~(Len(r.previous) >= ARCHIVED_STATES_MAX_LENGTH)
      <4>1. rest = r.previous
        BY <3>2
      <4> HIDE DEF rest
      <4> QED BY <3>2, <4>1, <2>1, LimitsAssumption
    <3> QED BY <3>1, <3>2
  <2>4. a = [current |-> NoSession, previous |-> <<first>> \o rest]
    BY <1>2 DEF ArchiveCurrent
  <2> HIDE DEF first, rest, a
  <2>5. <<first>> \in Seq(Session) /\ Len(<<first>>) = 1 /\ <<first>>[1] = first
    BY <2>2
  <2>6. /\ <<first>> \o rest \in Seq(Session)
        /\ Len(<<first>> \o rest) = 1 + Len(rest)
        /\ \A i \in 1 .. 1 + Len(rest) :
              (<<first>> \o rest)[i] = IF i <= 1 THEN <<first>>[i] ELSE rest[i - 1]
    BY <2>3, <2>5, ConcatProperties
  <2>7. a.current = NoSession /\ a.previous = <<first>> \o rest /\ a \in Record
    BY <2>4, <2>6 DEF Record
  <2>8. Len(rest) \in Nat
    BY <2>3
  <2>9. a.previous[1] = first /\ Len(a.previous) >= 1
    BY <2>5, <2>6, <2>7, <2>8
  <2>10. ASSUME NEW i \in 2 .. Len(a.previous)
         PROVE  i - 1 \in DOMAIN r.previous /\ a.previous[i] = r.previous[i - 1]
    <3>1. i \in 1 .. 1 + Len(rest) /\ ~(i <= 1) /\ i - 1 \in 1 .. Len(rest)
      BY <2>6, <2>7, <2>8
    <3>2. a.previous[i] = rest[i - 1]
      BY <3>1, <2>6, <2>7
    <3> QED BY <3>1, <3>2, <2>1, <2>3
  <2>11. Len(r.previous) <= ARCHIVED_STATES_MAX_LENGTH
            => Len(a.previous) <= ARCHIVED_STATES_MAX_LENGTH
    BY <2>3, <2>6, <2>7, <2>8, LimitsAssumption
  <2> QED BY <1>2, <2>7, <2>9, <2>10, <2>11 DEF a, first
<1> QED
  BY <1>1, <1>2

\* Archiving the current session brings no chain back and keeps them distinct.
LEMMA ArchiveCurrentProperties ==
    ASSUME NEW r \in Record
    PROVE  LET a == ArchiveCurrent(r)
           IN  /\ a \in Record /\ a.current = NoSession
               /\ SenderChains(a) \subseteq SenderChains(r)
               /\ ChainsDistinct(r) => ChainsDistinct(a)
               /\ RecordWithinLimits(r) => RecordWithinLimits(a)
<1> DEFINE a == ArchiveCurrent(r)
<1>1. /\ a \in Record
      /\ a.current = NoSession
      /\ r.current = NoSession => a = r
      /\ r.current # NoSession =>
            /\ Len(a.previous) >= 1
            /\ a.previous[1] = ClearPending(r.current)
            /\ \A i \in 2 .. Len(a.previous) :
                  i - 1 \in DOMAIN r.previous /\ a.previous[i] = r.previous[i - 1]
      /\ Len(r.previous) <= ARCHIVED_STATES_MAX_LENGTH
            => Len(a.previous) <= ARCHIVED_STATES_MAX_LENGTH
  BY ArchiveCurrentPositions
<1> HIDE DEF a
<1>2. CASE r.current = NoSession
  BY <1>1, <1>2 DEF a
<1>3. CASE r.current # NoSession
  <2>1. /\ r.current \in Session
        /\ ClearPending(r.current).sender = r.current.sender
        /\ SessionWithinLimits(r.current) => SessionWithinLimits(ClearPending(r.current))
    BY <1>3, SessionsOfRecord, ClearPendingProperties
  <2>2. DOMAIN a.previous = 1 .. Len(a.previous) /\ Len(a.previous) \in Nat
        /\ DOMAIN r.previous = 1 .. Len(r.previous)
    BY <1>1, SessionsOfRecord
  <2>3. \A i \in DOMAIN a.previous : i = 1 \/ i \in 2 .. Len(a.previous)
    BY <2>2
  <2>4. ASSUME NEW s \in Sessions(a)
        PROVE  s = ClearPending(r.current) \/ \E t \in Sessions(r) : s = t
    BY <1>1, <1>3, <2>3, SessionsOfRecord
  <2>5. r.current \in Sessions(r)
    BY <1>3, SessionsOfRecord
  <2>6. SenderChains(a) \subseteq SenderChains(r)
    BY <2>1, <2>4, <2>5 DEF SenderChains
  <2>7. ASSUME ChainsDistinct(r)
        PROVE  ChainsDistinct(a)
    <3>1. ASSUME NEW i \in DOMAIN a.previous, NEW j \in DOMAIN a.previous, i # j
          PROVE  a.previous[i].sender.root # a.previous[j].sender.root
      <4>1. CASE i = 1
        BY <1>1, <1>3, <2>1, <2>3, <2>7, <3>1, <4>1 DEF ChainsDistinct
      <4>2. CASE j = 1
        BY <1>1, <1>3, <2>1, <2>3, <2>7, <3>1, <4>2 DEF ChainsDistinct
      <4>3. CASE i # 1 /\ j # 1
        <5>1. /\ i - 1 \in DOMAIN r.previous /\ a.previous[i] = r.previous[i - 1]
              /\ j - 1 \in DOMAIN r.previous /\ a.previous[j] = r.previous[j - 1]
          BY <1>1, <1>3, <2>3, <4>3
        <5>2. i - 1 # j - 1
          BY <2>2, <3>1
        <5> QED BY <5>1, <5>2, <2>7 DEF ChainsDistinct
      <4> QED BY <4>1, <4>2, <4>3
    <3> QED BY <3>1, <1>1 DEF ChainsDistinct
  <2>8. RecordWithinLimits(r) => RecordWithinLimits(a)
    BY <1>1, <2>1, <2>4, <2>5 DEF RecordWithinLimits
  <2> QED BY <1>1, <2>6, <2>7, <2>8 DEF a
<1> QED
  BY <1>2, <1>3

\* promote_state: distinctness survives if the promoted session's chain is none of
\* the record's.
LEMMA PromoteStateProperties ==
    ASSUME NEW r \in Record, NEW s \in Session
    PROVE  LET p == PromoteState(r, s)
           IN  /\ p \in Record /\ p.current = s
               /\ SenderChains(p) \subseteq SenderChains(r) \cup {s.sender}
               /\ (/\ ChainsDistinct(r)
                   /\ \A c \in SenderChains(r) : c.root # s.sender.root) => ChainsDistinct(p)
               /\ RecordWithinLimits(r) /\ SessionWithinLimits(s) => RecordWithinLimits(p)
<1> DEFINE a == ArchiveCurrent(r)
           p == PromoteState(r, s)
<1>1. /\ a \in Record /\ a.current = NoSession
      /\ SenderChains(a) \subseteq SenderChains(r)
      /\ ChainsDistinct(r) => ChainsDistinct(a)
      /\ RecordWithinLimits(r) => RecordWithinLimits(a)
  BY ArchiveCurrentProperties
<1>2. p = [a EXCEPT !.current = s]
  BY DEF PromoteState
<1> HIDE DEF a, p
<1>3. p \in Record /\ p.current = s /\ p.previous = a.previous /\ s # NoSession
  BY <1>1, <1>2, SentinelAssumption DEF Record
<1>4. \A t : t \in Sessions(p) => t = s \/ t \in Sessions(a)
  BY <1>1, <1>3, SessionsOfRecord
<1>5. SenderChains(p) \subseteq SenderChains(r) \cup {s.sender}
  BY <1>1, <1>4 DEF SenderChains
<1>6. ASSUME ChainsDistinct(r), \A c \in SenderChains(r) : c.root # s.sender.root
      PROVE  ChainsDistinct(p)
  <2>1. \A i \in DOMAIN a.previous : a.previous[i].sender \in SenderChains(a)
    BY <1>1, SessionsOfRecord DEF SenderChains
  <2> QED BY <2>1, <1>1, <1>3, <1>6 DEF ChainsDistinct
<1>7. ASSUME RecordWithinLimits(r), SessionWithinLimits(s)
      PROVE  RecordWithinLimits(p)
  BY <1>1, <1>3, <1>4, <1>7 DEF RecordWithinLimits
<1> QED
  BY <1>3, <1>5, <1>6, <1>7 DEF p

\* promote_old_session takes the archived session out before the one it became is
\* promoted, so its chain is not in the record twice.
LEMMA PromoteOldSessionProperties ==
    ASSUME NEW r \in Record, NEW i \in DOMAIN r.previous, NEW s \in Session
    PROVE  LET p == PromoteOldSession(r, i, s)
           IN  /\ p \in Record /\ p.current = s
               /\ SenderChains(p) \subseteq SenderChains(r) \cup {s.sender}
               /\ (/\ ChainsDistinct(r)
                   /\ \/ s.sender = r.previous[i].sender
                      \/ \A c \in SenderChains(r) : c.root # s.sender.root)
                     => ChainsDistinct(p)
               /\ RecordWithinLimits(r) /\ SessionWithinLimits(s) => RecordWithinLimits(p)
<1> DEFINE rest == RemoveAt(r.previous, i)
           q == [r EXCEPT !.previous = rest]
           p == PromoteOldSession(r, i, s)
<1>1. /\ r.previous \in Seq(Session) /\ Len(r.previous) \in Nat
      /\ DOMAIN r.previous = 1 .. Len(r.previous)
  BY SessionsOfRecord
<1>2. /\ rest \in Seq(Session)
      /\ Len(rest) = Len(r.previous) - 1
      /\ \A j \in 1 .. Len(r.previous) - 1 :
            rest[j] = IF j < i THEN r.previous[j] ELSE r.previous[j + 1]
  BY <1>1, RemoveAtProperties
<1>3. p = PromoteState(q, s)
  BY DEF PromoteOldSession
<1> HIDE DEF rest, p
<1>4. q \in Record /\ q.current = r.current /\ q.previous = rest
  BY <1>2 DEF Record
<1> HIDE DEF q
<1>5. DOMAIN rest = 1 .. Len(r.previous) - 1
  BY <1>2
<1>6. \A j \in DOMAIN rest : \E k \in DOMAIN r.previous : k # i /\ rest[j] = r.previous[k]
  <2> SUFFICES ASSUME NEW j \in DOMAIN rest
               PROVE  \E k \in DOMAIN r.previous : k # i /\ rest[j] = r.previous[k]
    OBVIOUS
  <2> DEFINE k == IF j < i THEN j ELSE j + 1
  <2>1. k \in DOMAIN r.previous /\ k # i /\ rest[j] = r.previous[k]
    BY <1>1, <1>2, <1>5
  <2> QED BY <2>1
<1>7. \A t \in Sessions(q) : t \in Sessions(r)
  BY <1>4, <1>6, SessionsOfRecord
<1>8. SenderChains(q) \subseteq SenderChains(r)
  BY <1>7 DEF SenderChains
<1>9. ASSUME ChainsDistinct(r)
      PROVE  ChainsDistinct(q)
  <2>1. ASSUME NEW j \in DOMAIN rest, NEW l \in DOMAIN rest, j # l
        PROVE  rest[j].sender.root # rest[l].sender.root
    <3> DEFINE f(n) == IF n < i THEN n ELSE n + 1
    <3>1. /\ f(j) \in DOMAIN r.previous /\ rest[j] = r.previous[f(j)]
          /\ f(l) \in DOMAIN r.previous /\ rest[l] = r.previous[f(l)]
          /\ f(j) # f(l)
      BY <1>1, <1>2, <1>5, <2>1
    <3> HIDE DEF f
    <3> QED BY <3>1, <1>9 DEF ChainsDistinct
  <2>2. ASSUME r.current # NoSession, NEW j \in DOMAIN rest
        PROVE  rest[j].sender.root # r.current.sender.root
    BY <1>6, <1>9, <2>2 DEF ChainsDistinct
  <2> QED BY <2>1, <2>2, <1>4 DEF ChainsDistinct
<1>10. ASSUME ChainsDistinct(r), s.sender = r.previous[i].sender, NEW c \in SenderChains(q)
       PROVE  c.root # s.sender.root
  <2>1. PICK t \in Sessions(q) : c = t.sender
    BY DEF SenderChains
  <2>2. CASE q.current # NoSession /\ t = q.current
    BY <1>4, <1>10, <2>1, <2>2 DEF ChainsDistinct
  <2>3. CASE \E j \in DOMAIN rest : t = rest[j]
    BY <1>6, <1>10, <2>1, <2>3 DEF ChainsDistinct
  <2> QED BY <2>1, <2>2, <2>3, <1>4, SessionsOfRecord
<1>11. RecordWithinLimits(r) => RecordWithinLimits(q)
  <2>1. Len(rest) <= Len(r.previous)
    BY <1>1, <1>2
  <2> QED BY <2>1, <1>1, <1>2, <1>4, <1>7, LimitsAssumption DEF RecordWithinLimits
<1>12. /\ p \in Record /\ p.current = s
       /\ SenderChains(p) \subseteq SenderChains(q) \cup {s.sender}
       /\ (/\ ChainsDistinct(q)
           /\ \A c \in SenderChains(q) : c.root # s.sender.root) => ChainsDistinct(p)
       /\ RecordWithinLimits(q) /\ SessionWithinLimits(s) => RecordWithinLimits(p)
  BY <1>3, <1>4, PromoteStateProperties
<1> QED
  BY <1>8, <1>9, <1>10, <1>11, <1>12 DEF p

\* promote_matching_session only reorders the sessions of the record.
LEMMA PromoteMatchingProperties ==
    ASSUME NEW r \in Record, NEW base, HasMatchingSession(r, base)
    PROVE  LET p == PromoteMatching(r, base)
           IN  /\ p \in Record
               /\ SenderChains(p) \subseteq SenderChains(r)
               /\ ChainsDistinct(r) => ChainsDistinct(p)
               /\ RecordWithinLimits(r) => RecordWithinLimits(p)
<1>1. CASE MatchesCurrent(r, base)
  BY <1>1 DEF PromoteMatching
<1>2. CASE ~MatchesCurrent(r, base)
  <2> DEFINE i == Min(MatchingPrevious(r, base))
             s == r.previous[i]
             p == PromoteMatching(r, base)
  <2>1. MatchingPrevious(r, base) \in SUBSET Nat /\ MatchingPrevious(r, base) # {}
    BY <1>2, SessionsOfRecord DEF HasMatchingSession, MatchingPrevious
  <2>2. i \in DOMAIN r.previous
    BY <2>1, MinInSet DEF MatchingPrevious
  <2>3. p = PromoteOldSession(r, i, s)
    BY <1>2 DEF PromoteMatching
  <2> HIDE DEF i, p
  <2>4. s \in Session /\ s \in Sessions(r)
    BY <2>2, SessionsOfRecord
  <2>5. /\ p \in Record
        /\ SenderChains(p) \subseteq SenderChains(r) \cup {s.sender}
        /\ ChainsDistinct(r) => ChainsDistinct(p)
        /\ RecordWithinLimits(r) /\ SessionWithinLimits(s) => RecordWithinLimits(p)
    BY <2>2, <2>3, <2>4, PromoteOldSessionProperties
  <2> QED BY <2>4, <2>5 DEF SenderChains, RecordWithinLimits, p
<1> QED
  BY <1>1, <1>2

\* No chain of the record was split off with this key pair.
UnusedKey(r, fresh) == \A c \in SenderChains(r) : fresh \notin c.root[Len(c.root)]

\* The record q is r after a decryption of m that could use the new key pair.
Derives(r, q, m, fresh) ==
    /\ q \in Record /\ q.current \in Session
    /\ RecordWithinLimits(r) => RecordWithinLimits(q)
    /\ \A c \in SenderChains(q) :
          c \in SenderChains(r) \/ (NewChain(c, fresh, m.ratchet) /\ c = q.current.sender)
    /\ ChainsDistinct(r) /\ UnusedKey(r, fresh) => ChainsDistinct(q)

LEMMA NewChainIsUnused ==
    ASSUME NEW r, NEW fresh, NEW ratchet, NEW n, NewChain(n, fresh, ratchet),
           UnusedKey(r, fresh)
    PROVE  \A c \in SenderChains(r) : c.root # n.root
  BY DEF NewChain, UnusedKey

\* Either the current session decrypts and stays, or an archived one does and is
\* promoted; a prekey message leaves the archived ones alone.
LEMMA DecryptWithRecordCases ==
    ASSUME NEW r \in Record, NEW m \in Message, NEW fresh \in Key,
           DecryptWithRecord(r, m, fresh).verdict = "ok"
    PROVE  LET q == DecryptWithRecord(r, m, fresh).record
           IN  \/ /\ r.current # NoSession
                  /\ DecryptWithState(r.current, m, fresh).verdict = "ok"
                  /\ q = [r EXCEPT !.current = DecryptWithState(r.current, m, fresh).session]
               \/ /\ ~(r.current # NoSession /\ m.type = "prekey")
                  /\ \E i \in DOMAIN r.previous :
                        /\ DecryptWithState(r.previous[i], m, fresh).verdict = "ok"
                        /\ q = PromoteOldSession(r, i, DecryptWithState(r.previous[i], m, fresh).session)
<1> DEFINE current == IF r.current = NoSession
                      THEN [verdict |-> "invalid", session |-> NoSession]
                      ELSE DecryptWithState(r.current, m, fresh)
           old == [i \in DOMAIN r.previous |-> DecryptWithState(r.previous[i], m, fresh)]
           decided == {i \in DOMAIN old : old[i].verdict # "invalid"}
           first == Min(decided)
           d == DecryptWithRecord(r, m, fresh)
<1>1. d = IF current.verdict = "ok"
          THEN [verdict |-> "ok", record |-> [r EXCEPT !.current = current.session]]
          ELSE IF current.verdict = "duplicate"
          THEN [verdict |-> "duplicate", record |-> r]
          ELSE IF (r.current # NoSession /\ m.type = "prekey") \/ decided = {}
          THEN [verdict |-> "invalid", record |-> r]
          ELSE IF old[first].verdict = "duplicate"
          THEN [verdict |-> "duplicate", record |-> r]
          ELSE [verdict |-> "ok", record |-> PromoteOldSession(r, first, old[first].session)]
  BY DEF DecryptWithRecord, Failed
<1>2. decided \in SUBSET Nat /\ decided \subseteq DOMAIN r.previous
  BY SessionsOfRecord
<1>3. \A i \in DOMAIN r.previous : old[i] = DecryptWithState(r.previous[i], m, fresh)
  OBVIOUS
<1>4. current.verdict = "ok" =>
        r.current # NoSession /\ current = DecryptWithState(r.current, m, fresh)
  OBVIOUS
<1>8. \A i \in decided : old[i].verdict # "invalid"
  OBVIOUS
<1> HIDE DEF current, old, d, first, decided
<1>5. d.verdict = "ok"
  BY DEF d
<1>6. CASE current.verdict = "ok"
  <2>1. d.record = [r EXCEPT !.current = current.session]
    BY <1>1, <1>6
  <2> QED BY <2>1, <1>4, <1>6 DEF d
<1>7. CASE current.verdict # "ok"
  <2>1. /\ current.verdict # "duplicate"
        /\ ~(r.current # NoSession /\ m.type = "prekey")
        /\ decided # {}
        /\ old[first].verdict # "duplicate"
        /\ d.record = PromoteOldSession(r, first, old[first].session)
    BY <1>1, <1>5, <1>7
  <2>2. first \in decided /\ first \in DOMAIN r.previous
    BY <1>2, <2>1, MinInSet DEF first
  <2>3. old[first].verdict # "invalid"
    BY <2>2, <1>8
  <2>4. r.previous[first] \in Session
    BY <2>2, SessionsOfRecord
  <2>5. DecryptWithState(r.previous[first], m, fresh).verdict \in {"ok", "duplicate", "invalid"}
    BY <2>4, DecryptWithStateProperties
  <2>6. DecryptWithState(r.previous[first], m, fresh).verdict = "ok"
    BY <2>1, <2>2, <2>3, <2>5, <1>3
  <2> QED BY <2>1, <2>2, <2>6, <1>3 DEF d
<1> QED
  BY <1>6, <1>7

\* The record with another current session.
LEMMA ReplaceCurrentProperties ==
    ASSUME NEW r \in Record, NEW s \in Session
    PROVE  LET q == [r EXCEPT !.current = s]
           IN  /\ q \in Record /\ q.current = s /\ q.previous = r.previous
               /\ SenderChains(q) \subseteq SenderChains(r) \cup {s.sender}
               /\ RecordWithinLimits(r) /\ SessionWithinLimits(s) => RecordWithinLimits(q)
<1> DEFINE q == [r EXCEPT !.current = s]
<1>1. q \in Record /\ q.current = s /\ q.previous = r.previous
  BY DEF Record
<1> HIDE DEF q
<1>2. \A t \in Sessions(q) : t = s \/ t \in Sessions(r)
  BY <1>1, SessionsOfRecord
<1>3. SenderChains(q) \subseteq SenderChains(r) \cup {s.sender}
  BY <1>2 DEF SenderChains
<1>4. RecordWithinLimits(r) /\ SessionWithinLimits(s) => RecordWithinLimits(q)
  BY <1>1, <1>2 DEF RecordWithinLimits
<1> QED
  BY <1>1, <1>3, <1>4 DEF q

\* decrypt_message_with_record on a record some session of which is to decrypt.
LEMMA DecryptWithRecordDerives ==
    ASSUME NEW r \in Record, NEW m \in Message, NEW fresh \in Key,
           DecryptWithRecord(r, m, fresh).verdict = "ok"
    PROVE  Derives(r, DecryptWithRecord(r, m, fresh).record, m, fresh)
<1> DEFINE q == DecryptWithRecord(r, m, fresh).record
<1>1. CASE /\ r.current # NoSession
           /\ q = [r EXCEPT !.current = DecryptWithState(r.current, m, fresh).session]
  <2> DEFINE s == DecryptWithState(r.current, m, fresh).session
  <2>1. r.current \in Session /\ r.current \in Sessions(r)
    BY <1>1, SessionsOfRecord
  <2>2. /\ s \in Session
        /\ SessionWithinLimits(r.current) => SessionWithinLimits(s)
        /\ s.sender = r.current.sender \/ NewChain(s.sender, fresh, m.ratchet)
    BY <2>1, DecryptWithStateProperties
  <2>3. q = [r EXCEPT !.current = s]
    BY <1>1
  <2> HIDE DEF s, q
  <2>4. /\ q \in Record /\ q.current = s /\ q.previous = r.previous
        /\ SenderChains(q) \subseteq SenderChains(r) \cup {s.sender}
        /\ RecordWithinLimits(r) /\ SessionWithinLimits(s) => RecordWithinLimits(q)
    BY <2>2, <2>3, ReplaceCurrentProperties
  <2>5. r.current.sender \in SenderChains(r)
    BY <2>1 DEF SenderChains
  <2>6. RecordWithinLimits(r) => RecordWithinLimits(q)
    BY <2>1, <2>2, <2>4 DEF RecordWithinLimits
  <2>7. \A c \in SenderChains(q) :
           c \in SenderChains(r) \/ (NewChain(c, fresh, m.ratchet) /\ c = q.current.sender)
    BY <2>2, <2>4, <2>5
  <2>8. ASSUME ChainsDistinct(r), UnusedKey(r, fresh)
        PROVE  ChainsDistinct(q)
    <3>1. \A i \in DOMAIN r.previous : r.previous[i].sender \in SenderChains(r)
      BY SessionsOfRecord DEF SenderChains
    <3>2. \A i \in DOMAIN r.previous : r.previous[i].sender.root # s.sender.root
      BY <1>1, <2>2, <2>8, <3>1, NewChainIsUnused DEF ChainsDistinct
    <3> QED BY <3>2, <2>4, <2>8 DEF ChainsDistinct
  <2> QED BY <2>2, <2>4, <2>6, <2>7, <2>8 DEF Derives, q
<1>2. CASE \E i \in DOMAIN r.previous :
             q = PromoteOldSession(r, i, DecryptWithState(r.previous[i], m, fresh).session)
  <2>1. PICK i \in DOMAIN r.previous :
               q = PromoteOldSession(r, i, DecryptWithState(r.previous[i], m, fresh).session)
    BY <1>2
  <2> DEFINE s == DecryptWithState(r.previous[i], m, fresh).session
  <2>2. r.previous[i] \in Session /\ r.previous[i] \in Sessions(r)
    BY SessionsOfRecord
  <2>3. /\ s \in Session
        /\ SessionWithinLimits(r.previous[i]) => SessionWithinLimits(s)
        /\ s.sender = r.previous[i].sender \/ NewChain(s.sender, fresh, m.ratchet)
    BY <2>2, DecryptWithStateProperties
  <2>4. q = PromoteOldSession(r, i, s)
    BY <2>1
  <2> HIDE DEF s, q
  <2>5. /\ q \in Record /\ q.current = s
        /\ SenderChains(q) \subseteq SenderChains(r) \cup {s.sender}
        /\ (/\ ChainsDistinct(r)
            /\ \/ s.sender = r.previous[i].sender
               \/ \A c \in SenderChains(r) : c.root # s.sender.root) => ChainsDistinct(q)
        /\ RecordWithinLimits(r) /\ SessionWithinLimits(s) => RecordWithinLimits(q)
    BY <2>3, <2>4, PromoteOldSessionProperties
  <2>6. r.previous[i].sender \in SenderChains(r)
    BY <2>2 DEF SenderChains
  <2>7. RecordWithinLimits(r) => RecordWithinLimits(q)
    BY <2>2, <2>3, <2>5 DEF RecordWithinLimits
  <2>8. \A c \in SenderChains(q) :
           c \in SenderChains(r) \/ (NewChain(c, fresh, m.ratchet) /\ c = q.current.sender)
    BY <2>3, <2>5, <2>6
  <2>9. ASSUME ChainsDistinct(r), UnusedKey(r, fresh)
        PROVE  ChainsDistinct(q)
    BY <2>3, <2>5, <2>9, NewChainIsUnused
  <2> QED BY <2>3, <2>5, <2>7, <2>8, <2>9 DEF Derives, q
<1> QED
  BY <1>1, <1>2, DecryptWithRecordCases

\* The same for the record process_prekey has put a new session into.
LEMMA DecryptNewSessionDerives ==
    ASSUME NEW r \in Record, NEW s \in Session, s.receivers = <<>>, SessionWithinLimits(s),
           NEW m \in Message, m.type = "prekey", NEW fresh \in Key,
           DecryptWithRecord(PromoteState(r, s), m, fresh).verdict = "ok"
    PROVE  Derives(r, DecryptWithRecord(PromoteState(r, s), m, fresh).record, m, fresh)
<1> DEFINE a == ArchiveCurrent(r)
           p == PromoteState(r, s)
           t == DecryptWithState(s, m, fresh).session
           q == DecryptWithRecord(p, m, fresh).record
<1>1. /\ a \in Record /\ a.current = NoSession
      /\ SenderChains(a) \subseteq SenderChains(r)
      /\ ChainsDistinct(r) => ChainsDistinct(a)
      /\ RecordWithinLimits(r) => RecordWithinLimits(a)
  BY ArchiveCurrentProperties
<1>2. /\ p \in Record /\ p.current = s /\ p.current # NoSession
  BY PromoteStateProperties, SentinelAssumption
<1>3. p = [a EXCEPT !.current = s]
  BY DEF PromoteState
<1>4. /\ DecryptWithState(s, m, fresh).verdict = "ok"
      /\ q = [p EXCEPT !.current = t]
  BY <1>2, DecryptWithRecordCases
<1>5. /\ t \in Session /\ SessionWithinLimits(t)
      /\ NewChain(t.sender, fresh, m.ratchet)
  BY <1>4, DecryptWithStateProperties
<1> HIDE DEF a, p, t, q
<1>6. q = [a EXCEPT !.current = t]
  BY <1>1, <1>3, <1>4 DEF Record
<1>7. /\ q \in Record /\ q.current = t /\ q.previous = a.previous
      /\ SenderChains(q) \subseteq SenderChains(a) \cup {t.sender}
      /\ RecordWithinLimits(a) /\ SessionWithinLimits(t) => RecordWithinLimits(q)
  BY <1>1, <1>5, <1>6, ReplaceCurrentProperties
<1>8. ASSUME ChainsDistinct(r), UnusedKey(r, fresh)
      PROVE  ChainsDistinct(q)
  <2>1. \A i \in DOMAIN a.previous : a.previous[i].sender \in SenderChains(r)
    BY <1>1, SessionsOfRecord DEF SenderChains
  <2>2. \A i \in DOMAIN a.previous : a.previous[i].sender.root # t.sender.root
    BY <1>5, <1>8, <2>1, NewChainIsUnused
  <2> QED BY <2>2, <1>1, <1>7, <1>8 DEF ChainsDistinct
<1> QED
  BY <1>1, <1>5, <1>7, <1>8 DEF Derives, q, p

-----------------------------------------------------------------------------
(* What a session can still decrypt                                        *)

\* The chain still yields the message key of that index.
Derivable(c, n) == c.index <= n \/ Contains(c.skipped, n)

\* The keys kept on a chain are older than its chain key, each kept once.
SkippedSound(c) ==
    /\ \A j \in DOMAIN c.skipped : c.skipped[j] < c.index
    /\ \A j, k \in DOMAIN c.skipped : c.skipped[j] = c.skipped[k] => j = k

\* A session sends on the chain its root key was split into last; the chains it
\* receives on were split off earlier, each at its own point.
SessionSound(s) ==
    /\ s.sender.root = s.root /\ Len(s.root) >= 1
    /\ \A i \in DOMAIN s.receivers :
          /\ Len(s.receivers[i].root) >= 1
          /\ IsStrictPrefix(s.receivers[i].root, s.root)
          /\ SkippedSound(s.receivers[i])
    /\ \A i, j \in DOMAIN s.receivers : s.receivers[i].root = s.receivers[j].root => i = j

\* what set_message_keys keeps: the new counters, then the old ones
LEMMA SkipToContents ==
    ASSUME NEW skipped \in Seq(Nat), NEW from \in Nat, NEW to \in Nat, from <= to,
           NEW j \in DOMAIN SkipTo(skipped, from, to)
    PROVE  \/ j <= to - from /\ SkipTo(skipped, from, to)[j] = to - j
           \/ /\ j > to - from
              /\ j - (to - from) \in DOMAIN skipped
              /\ SkipTo(skipped, from, to)[j] = skipped[j - (to - from)]
<1> DEFINE new == [i \in 1 .. to - from |-> to - i]
           kept == new \o skipped
           n == IF Len(kept) < MAX_MESSAGE_KEYS THEN Len(kept) ELSE MAX_MESSAGE_KEYS
           result == SubSeq(kept, 1, n)
<1>1. /\ new \in Seq(Nat) /\ Len(new) = to - from
      /\ \A i \in 1 .. to - from : new[i] = to - i
  <2>1. to - from \in Nat /\ new \in [1 .. to - from -> Nat]
    OBVIOUS
  <2>2. new \in Seq(Nat)
    BY <2>1, SeqDef
  <2> QED BY <2>1, <2>2
<1> HIDE DEF new
<1>2. /\ kept \in Seq(Nat) /\ Len(kept) = Len(new) + Len(skipped)
      /\ \A i \in 1 .. Len(new) + Len(skipped) :
            kept[i] = IF i <= Len(new) THEN new[i] ELSE skipped[i - Len(new)]
  BY <1>1, ConcatProperties
<1>3. SkipTo(skipped, from, to) = result
  BY DEF SkipTo, new
<1> HIDE DEF kept
<1>4. n \in Nat /\ n <= Len(kept)
  BY <1>2, LimitsAssumption
<1> HIDE DEF n
<1>5. \A i \in 1 .. n : kept[i] \in Nat
  BY <1>2, <1>4
<1>6. /\ result \in Seq(Nat)
      /\ Len(result) = IF 1 <= n THEN n - 1 + 1 ELSE 0
      /\ \A i \in 1 .. n - 1 + 1 : result[i] = kept[1 + i - 1]
  <2> HIDE DEF result
  <2> QED BY <1>4, <1>5, SubSeqProperties DEF result
<1> HIDE DEF result
<1>7. DOMAIN result = 1 .. n /\ \A i \in 1 .. n : result[i] = kept[i]
  BY <1>4, <1>6
<1>8. j \in 1 .. Len(new) + Len(skipped) /\ result[j] = kept[j]
  BY <1>2, <1>3, <1>4, <1>7
<1>9. Len(skipped) \in Nat /\ DOMAIN skipped = 1 .. Len(skipped)
  OBVIOUS
<1> HIDE DEF result
<1>10. CASE j <= to - from
  <2>1. j \in 1 .. to - from /\ j <= Len(new)
    BY <1>1, <1>8, <1>9, <1>10
  <2>2. kept[j] = new[j] /\ new[j] = to - j
    BY <2>1, <1>1, <1>2, <1>8
  <2> QED BY <2>2, <1>3, <1>8, <1>10
<1>11. CASE ~(j <= to - from)
  <2>1. j - (to - from) \in DOMAIN skipped /\ j > to - from
    BY <1>1, <1>8, <1>9, <1>11
  <2>2. ~(j <= Len(new)) /\ j - Len(new) = j - (to - from)
    BY <1>1, <1>8, <1>9, <1>11
  <2>3. kept[j] = skipped[j - Len(new)]
    BY <2>2, <1>2, <1>8
  <2> QED BY <2>1, <2>2, <2>3, <1>3, <1>8
<1> QED
  BY <1>10, <1>11

\* Using a chain for one message: its key is gone, and none has come back.
LEMMA AdvanceChainForgets ==
    ASSUME NEW c \in ReceiverChain, SkippedSound(c), NEW counter \in Nat,
           Derivable(c, counter)
    PROVE  LET d == AdvanceChain(c, counter)
           IN  /\ d \in ReceiverChain /\ d.root = c.root /\ d.ratchet = c.ratchet
               /\ SkippedSound(d)
               /\ ~Derivable(d, counter)
               /\ \A n \in Nat : Derivable(d, n) => Derivable(c, n)
               /\ d.index \in {c.index, counter + 1}
<1> DEFINE d == AdvanceChain(c, counter)
<1>1. /\ c.skipped \in Seq(Nat) /\ c.index \in Nat /\ Len(c.skipped) \in Nat
      /\ DOMAIN c.skipped = 1 .. Len(c.skipped)
      /\ \A j \in 1 .. Len(c.skipped) : c.skipped[j] \in Nat
  BY DEF ReceiverChain
<1>2. d \in ReceiverChain
  <2>1. c.index > counter => Contains(c.skipped, counter)
    BY <1>1 DEF Derivable
  <2> QED BY <2>1, AdvanceChainProperties
<1>3. CASE c.index > counter
  <2> DEFINE i == SkippedPosition(c, counter)
             rest == RemoveAt(c.skipped, i)
  <2>1. i \in 1 .. Len(c.skipped) /\ c.skipped[i] = counter
    BY <1>1, <1>3 DEF SkippedPosition, Contains, Derivable
  <2> HIDE DEF i
  <2>2. /\ rest \in Seq(Nat) /\ Len(rest) = Len(c.skipped) - 1
        /\ \A j \in 1 .. Len(c.skipped) - 1 :
              rest[j] = IF j < i THEN c.skipped[j] ELSE c.skipped[j + 1]
    BY <1>1, <2>1, RemoveAtProperties
  <2>3. d = [c EXCEPT !.skipped = rest]
    BY <1>3 DEF AdvanceChain, i
  <2> HIDE DEF rest, d
  <2>4. d.skipped = rest /\ d.index = c.index /\ d.root = c.root /\ d.ratchet = c.ratchet
    BY <2>3 DEF ReceiverChain
  <2> DEFINE f(j) == IF j < i THEN j ELSE j + 1
  <2>5. /\ DOMAIN rest = 1 .. Len(c.skipped) - 1 /\ Len(rest) \in Nat
        /\ \A j \in DOMAIN rest : f(j) \in 1 .. Len(c.skipped) /\ f(j) # i /\ rest[j] = c.skipped[f(j)]
        /\ \A j, k \in DOMAIN rest : f(j) = f(k) => j = k
    <3>1. DOMAIN rest = 1 .. Len(c.skipped) - 1 /\ Len(rest) \in Nat
      BY <1>1, <2>1, <2>2
    <3>2. ASSUME NEW j \in DOMAIN rest
          PROVE  f(j) \in 1 .. Len(c.skipped) /\ f(j) # i /\ rest[j] = c.skipped[f(j)]
      <4>1. j \in 1 .. Len(c.skipped) - 1
        BY <3>1
      <4>2. CASE j < i
        <5>1. f(j) = j
          BY <4>2
        <5>2. j \in 1 .. Len(c.skipped) /\ j # i
          BY <4>1, <4>2, <1>1, <2>1
        <5>3. rest[j] = c.skipped[j]
          BY <4>1, <4>2, <2>2
        <5> QED BY <5>1, <5>2, <5>3
      <4>3. CASE ~(j < i)
        <5>1. f(j) = j + 1
          BY <4>3
        <5>2. j + 1 \in 1 .. Len(c.skipped) /\ j + 1 # i
          BY <4>1, <4>3, <1>1, <2>1
        <5>3. rest[j] = c.skipped[j + 1]
          BY <4>1, <4>3, <2>2
        <5> QED BY <5>1, <5>2, <5>3
      <4> QED BY <4>2, <4>3
    <3>3. ASSUME NEW j \in DOMAIN rest, NEW k \in DOMAIN rest, f(j) = f(k)
          PROVE  j = k
      <4>1. j \in Nat /\ k \in Nat /\ i \in Nat
        BY <3>1, <2>1
      <4> QED BY <4>1, <3>3
    <3> QED BY <3>1, <3>2, <3>3
  <2> HIDE DEF f
  <2>6. \A j \in DOMAIN rest : rest[j] # counter
    BY <1>1, <2>1, <2>5 DEF SkippedSound
  <2>7. SkippedSound(d)
    <3>1. \A j \in DOMAIN rest : rest[j] < d.index
      BY <1>1, <2>4, <2>5 DEF SkippedSound
    <3>2. ASSUME NEW j \in DOMAIN rest, NEW k \in DOMAIN rest, rest[j] = rest[k]
          PROVE  j = k
      <4>1. f(j) = f(k)
        BY <1>1, <2>5, <3>2 DEF SkippedSound
      <4> QED BY <4>1, <2>5
    <3> QED BY <3>1, <3>2, <2>4 DEF SkippedSound
  <2>8. ~Derivable(d, counter)
    <3>1. ~(d.index <= counter)
      BY <1>1, <1>3, <2>4
    <3>2. ~Contains(rest, counter)
      BY <2>5, <2>6 DEF Contains
    <3> QED BY <3>1, <3>2, <2>4 DEF Derivable
  <2>9. ASSUME NEW n \in Nat, Derivable(d, n)
        PROVE  Derivable(c, n)
    <3>1. CASE Contains(rest, n)
      <4>1. PICK j \in DOMAIN rest : rest[j] = n
        BY <3>1, <2>5 DEF Contains
      <4> QED BY <4>1, <2>5 DEF Derivable, Contains
    <3> QED BY <3>1, <2>4, <2>9 DEF Derivable
  <2> QED BY <1>2, <2>4, <2>7, <2>8, <2>9 DEF d
<1>4. CASE ~(c.index > counter)
  <2> DEFINE kept == SkipTo(c.skipped, c.index, counter)
             gap == counter - c.index
  <2>1. kept \in Seq(Nat)
    BY <1>1, <1>4, SkipToProperties
  <2>2. \A j \in DOMAIN kept :
           \/ j <= gap /\ kept[j] = counter - j
           \/ /\ j > gap
              /\ j - gap \in DOMAIN c.skipped
              /\ kept[j] = c.skipped[j - gap]
    BY <1>1, <1>4, SkipToContents
  <2>3. d = [c EXCEPT !.skipped = kept, !.index = counter + 1]
    BY <1>4 DEF AdvanceChain
  <2> HIDE DEF kept, d
  <2>4. d.skipped = kept /\ d.index = counter + 1 /\ d.root = c.root /\ d.ratchet = c.ratchet
    BY <2>3 DEF ReceiverChain
  <2>5. DOMAIN kept = 1 .. Len(kept) /\ Len(kept) \in Nat /\ gap \in Nat
    BY <1>1, <1>4, <2>1
  <2>6. \A j \in DOMAIN kept :
           \/ j <= gap /\ kept[j] = counter - j /\ c.index <= kept[j] /\ kept[j] < counter
           \/ /\ j > gap
              /\ j - gap \in DOMAIN c.skipped
              /\ kept[j] = c.skipped[j - gap] /\ kept[j] < c.index
    BY <1>1, <1>4, <2>2, <2>5 DEF SkippedSound
  <2>7. SkippedSound(d)
    <3>1. \A j \in DOMAIN kept : kept[j] < counter + 1
      BY <1>1, <1>4, <2>1, <2>5, <2>6
    <3>2. ASSUME NEW j \in DOMAIN kept, NEW k \in DOMAIN kept, kept[j] = kept[k]
          PROVE  j = k
      <4>1. CASE j <= gap /\ k <= gap
        BY <4>1, <3>2, <2>5, <2>6, <1>1
      <4>2. CASE j > gap /\ k > gap
        <5>1. j - gap \in DOMAIN c.skipped /\ k - gap \in DOMAIN c.skipped
              /\ c.skipped[j - gap] = c.skipped[k - gap]
          BY <4>2, <3>2, <2>5, <2>6
        <5>2. j - gap = k - gap
          BY <5>1 DEF SkippedSound
        <5> QED BY <5>2, <2>5
      <4>3. CASE (j <= gap /\ k > gap) \/ (j > gap /\ k <= gap)
        <5>1. kept[j] \in Nat /\ kept[k] \in Nat
          BY <2>1
        <5>2. CASE j <= gap /\ k > gap
          <6>1. c.index <= kept[j] /\ kept[k] < c.index
            BY <5>2, <2>5, <2>6
          <6> QED BY <6>1, <5>1, <3>2, <1>1
        <5>3. CASE j > gap /\ k <= gap
          <6>1. c.index <= kept[k] /\ kept[j] < c.index
            BY <5>3, <2>5, <2>6
          <6> QED BY <6>1, <5>1, <3>2, <1>1
        <5> QED BY <4>3, <5>2, <5>3
      <4> QED BY <4>1, <4>2, <4>3, <2>5
    <3> QED BY <3>1, <3>2, <2>4 DEF SkippedSound
  <2>8. ~Derivable(d, counter)
    <3>1. \A j \in DOMAIN kept : kept[j] # counter
      BY <1>1, <1>4, <2>1, <2>5, <2>6
    <3> QED BY <3>1, <2>4, <2>5 DEF Derivable, Contains
  <2>9. ASSUME NEW n \in Nat, Derivable(d, n)
        PROVE  Derivable(c, n)
    <3>1. CASE counter + 1 <= n
      BY <3>1, <1>1, <1>4 DEF Derivable
    <3>2. CASE Contains(kept, n)
      <4>1. PICK j \in DOMAIN kept : kept[j] = n
        BY <3>2, <2>5 DEF Contains
      <4> QED BY <4>1, <2>5, <2>6, <1>1 DEF Derivable, Contains
    <3> QED BY <3>1, <3>2, <2>4, <2>9 DEF Derivable
  <2> QED BY <1>2, <2>4, <2>7, <2>8, <2>9 DEF d
<1> QED
  BY <1>3, <1>4

\* Apart from the new chain at its end, the list holds what it held before, less
\* at most the first chain.
LEMMA AddReceiverChainPositions ==
    ASSUME NEW chains \in Seq(ReceiverChain), NEW chain \in ReceiverChain
    PROVE  LET r == AddReceiverChain(chains, chain)
           IN  \E k \in {0, 1} :
                  /\ Len(r) = Len(chains) + 1 - k
                  /\ Len(r) >= 1
                  /\ \A i \in 1 .. Len(r) - 1 :
                        i + k \in 1 .. Len(chains) /\ r[i] = chains[i + k]
<1> DEFINE pushed == Append(chains, chain)
           r == AddReceiverChain(chains, chain)
<1>1. /\ pushed \in Seq(ReceiverChain)
      /\ pushed # <<>>
      /\ Len(pushed) = Len(chains) + 1
      /\ \A i \in 1 .. Len(chains) : pushed[i] = chains[i]
      /\ Len(chains) \in Nat
  BY AppendProperties, LenProperties
<1>2. r = IF Len(pushed) > MAX_RECEIVER_CHAINS THEN Tail(pushed) ELSE pushed
  BY DEF AddReceiverChain
<1>3. /\ Len(Tail(pushed)) = Len(pushed) - 1
      /\ \A i \in 1 .. Len(Tail(pushed)) : Tail(pushed)[i] = pushed[i + 1]
  BY <1>1, HeadTailProperties
<1> HIDE DEF pushed, r
<1>4. CASE Len(pushed) > MAX_RECEIVER_CHAINS
  <2>1. r = Tail(pushed) /\ Len(r) = Len(chains) + 1 - 1 /\ Len(r) >= 1
    BY <1>1, <1>2, <1>3, <1>4, LimitsAssumption
  <2>2. \A i \in 1 .. Len(r) - 1 : i + 1 \in 1 .. Len(chains) /\ r[i] = chains[i + 1]
    BY <2>1, <1>1, <1>3
  <2> QED BY <2>1, <2>2 DEF r
<1>5. CASE ~(Len(pushed) > MAX_RECEIVER_CHAINS)
  <2>1. r = pushed /\ Len(r) = Len(chains) + 1 - 0 /\ Len(r) >= 1
    BY <1>1, <1>2, <1>5
  <2>2. \A i \in 1 .. Len(r) - 1 : i + 0 \in 1 .. Len(chains) /\ r[i] = chains[i + 0]
    BY <2>1, <1>1
  <2> QED BY <2>1, <2>2 DEF r
<1> QED
  BY <1>4, <1>5

LEMMA ClearPendingFields ==
    ASSUME NEW s \in Session
    PROVE  LET u == ClearPending(s)
           IN  /\ u \in Session /\ u.pending = NoPending
               /\ u.local = s.local /\ u.remote = s.remote /\ u.base = s.base
               /\ u.root = s.root /\ u.sender = s.sender /\ u.receivers = s.receivers
               /\ SessionSound(s) => SessionSound(u)
<1> DEFINE u == ClearPending(s)
<1>1. /\ u \in Session /\ u.pending = NoPending
      /\ u.local = s.local /\ u.remote = s.remote /\ u.base = s.base
      /\ u.root = s.root /\ u.sender = s.sender /\ u.receivers = s.receivers
  BY DEF ClearPending, Session
<1> HIDE DEF u
<1>2. SessionSound(s) => SessionSound(u)
  BY <1>1 DEF SessionSound
<1> QED
  BY <1>1, <1>2 DEF u

\* The chain d is c after it was used for the message of that counter.
UsedFor(c, d, counter) ==
    /\ d.root = c.root
    /\ ~Derivable(d, counter)
    /\ \A n \in Nat : Derivable(d, n) => Derivable(c, n)
    /\ d.index \in {c.index, counter + 1}

\* Using one of the chains of a session for a message.
LEMMA UseChainProperties ==
    ASSUME NEW s \in Session, SessionSound(s), NEW i \in 1 .. Len(s.receivers),
           NEW counter \in Nat, Derivable(s.receivers[i], counter)
    PROVE  LET t == [s EXCEPT !.receivers[i] = AdvanceChain(s.receivers[i], counter)]
           IN  /\ t \in Session /\ SessionSound(t)
               /\ t.local = s.local /\ t.remote = s.remote /\ t.base = s.base
               /\ t.root = s.root /\ t.sender = s.sender
               /\ \A d \in ToSet(t.receivers) :
                     \/ d \in ToSet(s.receivers) /\ d.root # s.receivers[i].root
                     \/ UsedFor(s.receivers[i], d, counter)
<1> DEFINE c == s.receivers[i]
           used == AdvanceChain(c, counter)
           chains == [s.receivers EXCEPT ![i] = used]
           t == [s EXCEPT !.receivers[i] = used]
<1>1. /\ s.receivers \in Seq(ReceiverChain) /\ Len(s.receivers) \in Nat
      /\ DOMAIN s.receivers = 1 .. Len(s.receivers) /\ c \in ReceiverChain
  BY DEF Session
<1>2. SkippedSound(c) /\ Len(c.root) >= 1 /\ IsStrictPrefix(c.root, s.root)
  BY <1>1 DEF SessionSound
<1>3. Derivable(c, counter)
  OBVIOUS
<1> HIDE DEF c
<1>4. /\ used \in ReceiverChain /\ used.root = c.root
      /\ SkippedSound(used)
      /\ ~Derivable(used, counter)
      /\ \A n \in Nat : Derivable(used, n) => Derivable(c, n)
      /\ used.index \in {c.index, counter + 1}
  BY <1>1, <1>2, <1>3, AdvanceChainForgets
<1>5. t = [s EXCEPT !.receivers = chains]
  BY DEF Session
<1> HIDE DEF used
<1>6. /\ chains \in Seq(ReceiverChain)
      /\ Len(chains) = Len(s.receivers)
      /\ \A j \in 1 .. Len(s.receivers) : chains[j] = IF j = i THEN used ELSE s.receivers[j]
  BY <1>1, <1>4, ExceptSeq
<1> HIDE DEF chains, t
<1>7. /\ t \in Session /\ t.receivers = chains
      /\ t.local = s.local /\ t.remote = s.remote /\ t.base = s.base
      /\ t.root = s.root /\ t.sender = s.sender
  BY <1>5, <1>6 DEF Session
<1>8. DOMAIN chains = 1 .. Len(s.receivers)
  BY <1>1, <1>6
<1>9. \A j \in DOMAIN chains : chains[j].root = s.receivers[j].root
  BY <1>4, <1>6, <1>8 DEF c
<1>10. SessionSound(t)
  <2>1. ASSUME NEW j \in DOMAIN chains
        PROVE  /\ Len(chains[j].root) >= 1
               /\ IsStrictPrefix(chains[j].root, s.root)
               /\ SkippedSound(chains[j])
    <3>1. CASE j = i
      BY <3>1, <1>2, <1>4, <1>6, <1>8
    <3>2. CASE j # i
      <4>1. chains[j] = s.receivers[j] /\ j \in DOMAIN s.receivers
        BY <3>2, <1>1, <1>6, <1>8
      <4> QED BY <4>1 DEF SessionSound
    <3> QED BY <3>1, <3>2
  <2>2. \A j, k \in DOMAIN chains : chains[j].root = chains[k].root => j = k
    BY <1>1, <1>8, <1>9 DEF SessionSound
  <2> QED BY <2>1, <2>2, <1>7 DEF SessionSound
<1>11. ASSUME NEW d \in ToSet(t.receivers)
       PROVE  \/ d \in ToSet(s.receivers) /\ d.root # c.root
              \/ UsedFor(c, d, counter)
  <2>1. PICK j \in DOMAIN chains : d = chains[j]
    BY <1>7, <1>11 DEF ToSet
  <2>2. CASE j = i
    BY <2>1, <2>2, <1>4, <1>6, <1>8 DEF UsedFor
  <2>3. CASE j # i
    <3>1. d = s.receivers[j] /\ j \in DOMAIN s.receivers
      BY <2>1, <2>3, <1>1, <1>6, <1>8
    <3>2. d \in ToSet(s.receivers)
      BY <3>1 DEF ToSet
    <3>3. d.root # c.root
      BY <3>1, <2>3, <1>1 DEF SessionSound, c
    <3> QED BY <3>2, <3>3
  <2> QED BY <2>2, <2>3
<1> QED
  BY <1>7, <1>10, <1>11 DEF t, c, used

LEMMA CreateChainExtends ==
    ASSUME NEW root \in RootKey, NEW ours \in Key, NEW theirs \in Key
    PROVE  /\ CreateChain(root, ours, theirs) \in RootKey
           /\ Len(CreateChain(root, ours, theirs)) = Len(root) + 1
           /\ CreateChain(root, ours, theirs)[Len(root) + 1] = {ours, theirs}
           /\ \A i \in 1 .. Len(root) : CreateChain(root, ours, theirs)[i] = root[i]
           /\ IsStrictPrefix(root, CreateChain(root, ours, theirs))
<1> DEFINE keys == {ours, theirs}
           sets == SUBSET Key
<1>1. keys \in sets /\ root \in Seq(sets)
  BY DEF RootKey
<1>2. RootKey = Seq(sets) /\ CreateChain(root, ours, theirs) = Append(root, keys)
  BY DEF RootKey, CreateChain
<1> HIDE DEF keys, sets
<1>3. /\ Append(root, keys) \in Seq(sets)
      /\ Len(Append(root, keys)) = Len(root) + 1
      /\ Append(root, keys)[Len(root) + 1] = keys
      /\ \A i \in 1 .. Len(root) : Append(root, keys)[i] = root[i]
      /\ IsStrictPrefix(root, Append(root, keys))
  BY <1>1, PrefixOfAppend
<1> QED
  BY <1>2, <1>3 DEF keys

\* what the lemmas on prefixes say of root keys
LEMMA RootKeyPrefixes ==
    ASSUME NEW a \in RootKey, NEW b \in RootKey, NEW c \in RootKey
    PROVE  /\ IsPrefix(a, a)
           /\ IsPrefix(a, b) => Len(a) <= Len(b)
           /\ IsStrictPrefix(a, b) => IsPrefix(a, b) /\ Len(a) < Len(b)
           /\ IsPrefix(a, b) /\ Len(a) < Len(b) => IsStrictPrefix(a, b)
           /\ IsPrefix(a, b) /\ Len(a) >= 1 =>
                 /\ a[1] = b[1]
                 /\ Len(a) \in DOMAIN b /\ a[Len(a)] = b[Len(a)]
           /\ IsPrefix(a, b) /\ IsPrefix(b, c) => IsPrefix(a, c)
           /\ IsPrefix(a, c) /\ IsPrefix(b, c) => IsPrefix(a, b) \/ IsPrefix(b, a)
           /\ Len(a) \in Nat /\ Len(b) \in Nat /\ Len(c) \in Nat
<1> DEFINE sets == SUBSET Key
<1>1. a \in Seq(sets) /\ b \in Seq(sets) /\ c \in Seq(sets)
  BY DEF RootKey
<1> HIDE DEF sets
<1>2. /\ IsPrefix(a, a)
      /\ IsPrefix(a, b) => Len(a) <= Len(b)
      /\ IsStrictPrefix(a, b) => Len(a) < Len(b)
      /\ IsPrefix(a, b) /\ Len(a) >= 1 =>
            /\ a[1] = b[1]
            /\ Len(a) \in DOMAIN b /\ a[Len(a)] = b[Len(a)]
  BY <1>1, PrefixProperties
<1>3. IsPrefix(a, b) /\ IsPrefix(b, c) => IsPrefix(a, c)
  BY <1>1, PrefixTransitive
<1>4. IsPrefix(a, c) /\ IsPrefix(b, c) => IsPrefix(a, b) \/ IsPrefix(b, a)
  BY <1>1, PrefixesComparable
<1>5. Len(a) \in Nat /\ Len(b) \in Nat /\ Len(c) \in Nat
  BY <1>1
<1>6. IsStrictPrefix(a, b) => IsPrefix(a, b)
  BY DEF IsStrictPrefix
<1>7. IsPrefix(a, b) /\ Len(a) < Len(b) => IsStrictPrefix(a, b)
  BY <1>5 DEF IsStrictPrefix
<1> QED
  BY <1>2, <1>3, <1>4, <1>5, <1>6, <1>7

\* get_or_create_chain_key for a ratchet key the session has no chain for: the new
\* chain is split off the root key, the root key is replaced.
LEMMA NewReceiverChainSound ==
    ASSUME NEW s \in Session, SessionSound(s), NEW ratchet \in Key, NEW fresh \in Key,
           ~HasReceiverChain(s, ratchet)
    PROVE  LET s1 == WithReceiverChain(s, ratchet, fresh)
               receiving == CreateChain(s.root, s.sender.ratchet, ratchet)
           IN  /\ s1 \in Session /\ SessionSound(s1)
               /\ s1.local = s.local /\ s1.remote = s.remote /\ s1.base = s.base
               /\ s1.root = CreateChain(receiving, fresh, ratchet)
               /\ s1.sender.ratchet = fresh
               /\ \A c \in ToSet(s1.receivers) :
                     \/ c \in ToSet(s.receivers) /\ c.ratchet # ratchet
                     \/ c.root = receiving /\ c.ratchet = ratchet /\ c.index = 0
<1> DEFINE receiving == CreateChain(s.root, s.sender.ratchet, ratchet)
           sending == CreateChain(receiving, fresh, ratchet)
           chain == [ratchet |-> ratchet, root |-> receiving, index |-> 0,
                     skipped |-> <<>>]
           chains == AddReceiverChain(s.receivers, chain)
           sender == [ratchet |-> fresh, root |-> sending, index |-> 0]
           s1 == WithReceiverChain(s, ratchet, fresh)
<1>1. /\ s.root \in RootKey /\ s.sender.ratchet \in Key
      /\ s.receivers \in Seq(ReceiverChain)
      /\ Len(s.receivers) \in Nat /\ DOMAIN s.receivers = 1 .. Len(s.receivers)
      /\ Len(s.root) \in Nat
  BY DEF Session, SenderChain, RootKey
<1>2. /\ receiving \in RootKey /\ Len(receiving) = Len(s.root) + 1
      /\ IsStrictPrefix(s.root, receiving)
  BY <1>1, CreateChainExtends
<1>3. /\ sending \in RootKey /\ Len(sending) = Len(receiving) + 1
      /\ IsStrictPrefix(receiving, sending)
  BY <1>2, CreateChainExtends
<1>4. /\ chain \in ReceiverChain /\ chain.ratchet = ratchet /\ chain.root = receiving
      /\ chain.index = 0 /\ SkippedSound(chain)
  BY <1>2 DEF ReceiverChain, SkippedSound
<1>5. s1 = [s EXCEPT !.root = sending, !.receivers = chains, !.sender = sender]
  BY DEF WithReceiverChain
<1>6. sender \in SenderChain /\ sender.root = sending /\ sender.ratchet = fresh
  BY <1>3 DEF SenderChain
<1> HIDE DEF receiving, sending, chain, sender, s1
<1>7. /\ chains \in Seq(ReceiverChain)
      /\ chains[Len(chains)] = chain
  BY <1>1, <1>4, AddReceiverChainProperties
<1>8. PICK k \in {0, 1} :
        /\ Len(chains) = Len(s.receivers) + 1 - k
        /\ Len(chains) >= 1
        /\ \A i \in 1 .. Len(chains) - 1 :
              i + k \in 1 .. Len(s.receivers) /\ chains[i] = s.receivers[i + k]
  BY <1>1, <1>4, AddReceiverChainPositions
<1> HIDE DEF chains
<1>9. /\ s1 \in Session /\ s1.receivers = chains /\ s1.sender = sender /\ s1.root = sending
      /\ s1.local = s.local /\ s1.remote = s.remote /\ s1.base = s.base
  BY <1>3, <1>5, <1>6, <1>7 DEF Session
<1>10. DOMAIN chains = 1 .. Len(chains) /\ Len(chains) \in Nat
  BY <1>7
<1>11. ASSUME NEW i \in DOMAIN s.receivers
       PROVE  /\ s.receivers[i].root \in RootKey
              /\ Len(s.receivers[i].root) >= 1
              /\ SkippedSound(s.receivers[i])
              /\ IsStrictPrefix(s.receivers[i].root, sending)
              /\ s.receivers[i].root # receiving
  <2> DEFINE root == s.receivers[i].root
  <2>1. /\ root \in RootKey /\ Len(root) >= 1 /\ SkippedSound(s.receivers[i])
        /\ IsStrictPrefix(root, s.root)
    <3>1. s.receivers[i] \in ReceiverChain
      BY <1>1
    <3>2. root \in RootKey
      BY <3>1 DEF ReceiverChain
    <3> QED BY <3>2 DEF SessionSound
  <2> HIDE DEF root
  <2>2. IsPrefix(root, s.root) /\ Len(root) < Len(s.root) /\ Len(root) \in Nat
    BY <2>1, <1>1, RootKeyPrefixes
  <2>3. IsPrefix(s.root, receiving) /\ IsPrefix(receiving, sending)
    BY <1>2, <1>3 DEF IsStrictPrefix
  <2>4. IsPrefix(root, receiving)
    BY <2>1, <2>2, <2>3, <1>1, <1>2, RootKeyPrefixes
  <2>5. IsPrefix(root, sending)
    BY <2>1, <2>3, <2>4, <1>2, <1>3, RootKeyPrefixes
  <2>6. Len(root) < Len(sending) /\ Len(root) # Len(receiving)
    BY <2>2, <1>1, <1>2, <1>3
  <2>7. IsStrictPrefix(root, sending)
    BY <2>5, <2>6 DEF IsStrictPrefix
  <2> QED BY <2>1, <2>6, <2>7 DEF root
<1>12. ASSUME NEW i \in DOMAIN chains
       PROVE  i = Len(chains) \/ (i \in 1 .. Len(chains) - 1 /\ i + k \in DOMAIN s.receivers)
  BY <1>1, <1>8, <1>10, <1>12
<1>13. SessionSound(s1)
  <2>1. ASSUME NEW i \in DOMAIN chains
        PROVE  /\ Len(chains[i].root) >= 1
               /\ IsStrictPrefix(chains[i].root, sending)
               /\ SkippedSound(chains[i])
    <3>1. CASE i = Len(chains)
      BY <3>1, <1>1, <1>2, <1>3, <1>4, <1>7
    <3>2. CASE i \in 1 .. Len(chains) - 1 /\ i + k \in DOMAIN s.receivers
      BY <3>2, <1>8, <1>11
    <3> QED BY <3>1, <3>2, <1>12
  <2>2. ASSUME NEW i \in DOMAIN chains, NEW j \in DOMAIN chains,
               chains[i].root = chains[j].root
        PROVE  i = j
    <3>1. CASE i \in 1 .. Len(chains) - 1 /\ j \in 1 .. Len(chains) - 1
      <4>1. /\ i + k \in DOMAIN s.receivers /\ j + k \in DOMAIN s.receivers
            /\ s.receivers[i + k].root = s.receivers[j + k].root
        BY <3>1, <2>2, <1>1, <1>8
      <4>2. i + k = j + k
        BY <4>1 DEF SessionSound
      <4> QED BY <3>1, <4>2
    <3>2. CASE i = Len(chains) /\ j \in 1 .. Len(chains) - 1
      <4>1. j + k \in DOMAIN s.receivers /\ chains[j] = s.receivers[j + k]
        BY <3>2, <1>1, <1>8
      <4> QED BY <4>1, <3>2, <2>2, <1>4, <1>7, <1>11
    <3>3. CASE j = Len(chains) /\ i \in 1 .. Len(chains) - 1
      <4>1. i + k \in DOMAIN s.receivers /\ chains[i] = s.receivers[i + k]
        BY <3>3, <1>1, <1>8
      <4> QED BY <4>1, <3>3, <2>2, <1>4, <1>7, <1>11
    <3> QED BY <3>1, <3>2, <3>3, <1>12
  <2>3. Len(sending) >= 1
    BY <1>1, <1>2, <1>3
  <2> QED BY <2>1, <2>2, <2>3, <1>6, <1>9 DEF SessionSound
<1>14. ASSUME NEW c \in ToSet(s1.receivers)
       PROVE  \/ c \in ToSet(s.receivers) /\ c.ratchet # ratchet
              \/ c.root = receiving /\ c.ratchet = ratchet /\ c.index = 0
  <2>1. PICK i \in DOMAIN chains : c = chains[i]
    BY <1>9, <1>14 DEF ToSet
  <2>2. CASE i = Len(chains)
    BY <2>1, <2>2, <1>4, <1>7
  <2>3. CASE i \in 1 .. Len(chains) - 1 /\ i + k \in DOMAIN s.receivers
    <3>1. c = s.receivers[i + k]
      BY <2>1, <2>3, <1>8
    <3>2. c \in ToSet(s.receivers) /\ c.ratchet # ratchet
      BY <3>1, <2>3 DEF ToSet, HasReceiverChain, ReceiverChains
    <3> QED BY <3>2
  <2> QED BY <2>2, <2>3, <1>12
<1> QED
  BY <1>6, <1>9, <1>13, <1>14 DEF s1, receiving, sending

\* The session s becomes t by decrypting m: on a chain it had, or on one it starts.
Turns(s, t, m, fresh) ==
    /\ t \in Session /\ SessionSound(t)
    /\ t.local = s.local /\ t.remote = s.remote /\ t.base = s.base
    /\ t.pending = NoPending
    /\ m.sender = s.remote /\ m.receiver = s.local
    /\ \/ /\ t.root = s.root /\ t.sender = s.sender
          /\ \E c \in ToSet(s.receivers) :
                /\ c.root = m.key.root /\ Derivable(c, m.key.index)
                /\ \A d \in ToSet(t.receivers) :
                      \/ d \in ToSet(s.receivers) /\ d.root # m.key.root
                      \/ UsedFor(c, d, m.key.index)
       \/ /\ m.key.root = CreateChain(s.root, s.sender.ratchet, m.ratchet)
          /\ t.root = CreateChain(m.key.root, fresh, m.ratchet)
          /\ t.sender.ratchet = fresh
          /\ \A d \in ToSet(t.receivers) :
                \/ d \in ToSet(s.receivers)
                \/ /\ d.root = m.key.root /\ ~Derivable(d, m.key.index)
                   /\ d.index \in {0, m.key.index + 1}

\* decrypt_message_with_state, when it succeeds.
LEMMA DecryptWithStateTurns ==
    ASSUME NEW s \in Session, SessionSound(s), NEW m \in Message, NEW fresh \in Key,
           DecryptWithState(s, m, fresh).verdict = "ok"
    PROVE  Turns(s, DecryptWithState(s, m, fresh).session, m, fresh)
<1> DEFINE s1 == WithReceiverChain(s, m.ratchet, fresh)
           i == ReceiverChainIndex(s1, m.ratchet)
           c == s1.receivers[i]
           counter == m.key.index
           verdict == KeyVerdict(s, c, counter)
           macValid == MacValid(s, c, m)
           s2 == [s1 EXCEPT !.receivers[i] = AdvanceChain(c, counter)]
           r == DecryptWithState(s, m, fresh)
<1>1. m.ratchet \in Key /\ counter \in Nat
  BY DEF Message, MessageKey
<1>2. s1 \in Session /\ HasReceiverChain(s1, m.ratchet)
  BY <1>1, WithReceiverChainProperties
<1>3. r = IF verdict # "ok" THEN [verdict |-> verdict, session |-> s]
          ELSE IF ~macValid THEN [verdict |-> "invalid", session |-> s]
          ELSE [verdict |-> "ok", session |-> ClearPending(s2)]
  BY DEF DecryptWithState, Failed
<1>4. r.verdict = "ok"
  OBVIOUS
<1> HIDE DEF r
<1>5. verdict = "ok" /\ macValid /\ r.session = ClearPending(s2)
  <2> HIDE DEF verdict, macValid, s2
  <2> QED BY <1>3, <1>4
<1>6. m.key.root = c.root /\ m.sender = s.remote /\ m.receiver = s.local
  BY <1>5 DEF MacValid
<1>7. /\ s1.receivers \in Seq(ReceiverChain) /\ Len(s1.receivers) \in Nat
      /\ DOMAIN s1.receivers = 1 .. Len(s1.receivers)
  <2> HIDE DEF s1
  <2> QED BY <1>2 DEF Session
<1>8. i \in 1 .. Len(s1.receivers) /\ c.ratchet = m.ratchet
  <2> HIDE DEF s1
  <2>1. ReceiverChains(s1, m.ratchet) \in SUBSET Nat /\ ReceiverChains(s1, m.ratchet) # {}
    BY <1>2, <1>7 DEF HasReceiverChain, ReceiverChains
  <2>2. i \in ReceiverChains(s1, m.ratchet)
    BY <2>1, MinInSet DEF ReceiverChainIndex
  <2> QED BY <2>2, <1>7 DEF ReceiverChains
<1>9. Derivable(c, counter) /\ c \in ToSet(s1.receivers)
  <2>1. c.index \in Nat
    <3> HIDE DEF s1, i
    <3>1. s1.receivers[i] \in ReceiverChain
      BY <1>7, <1>8
    <3> QED BY <3>1 DEF ReceiverChain
  <2>2. c.index > counter => Contains(c.skipped, counter)
    BY <1>5 DEF KeyVerdict
  <2>3. c \in ToSet(s1.receivers)
    <3> HIDE DEF s1, i
    <3> QED BY <1>7, <1>8 DEF ToSet
  <2> HIDE DEF c
  <2> QED BY <2>1, <2>2, <2>3, <1>1 DEF Derivable
<1> HIDE DEF verdict, macValid, s1, i
<1> DEFINE receiving == CreateChain(s.root, s.sender.ratchet, m.ratchet)
<1>10. SessionSound(s1)
  <2>1. CASE HasReceiverChain(s, m.ratchet)
    BY <2>1 DEF s1, WithReceiverChain
  <2>2. CASE ~HasReceiverChain(s, m.ratchet)
    BY <2>2, <1>1, NewReceiverChainSound DEF s1
  <2> QED BY <2>1, <2>2
<1>11. /\ s2 \in Session /\ SessionSound(s2)
       /\ s2.local = s1.local /\ s2.remote = s1.remote /\ s2.base = s1.base
       /\ s2.root = s1.root /\ s2.sender = s1.sender
       /\ \A d \in ToSet(s2.receivers) :
             \/ d \in ToSet(s1.receivers) /\ d.root # c.root
             \/ UsedFor(c, d, counter)
  BY <1>1, <1>2, <1>8, <1>9, <1>10, UseChainProperties
<1> HIDE DEF s2
<1> DEFINE t == ClearPending(s2)
<1>12. /\ t \in Session /\ t.pending = NoPending
       /\ t.local = s1.local /\ t.remote = s1.remote /\ t.base = s1.base
       /\ t.root = s1.root /\ t.sender = s1.sender /\ t.receivers = s2.receivers
       /\ SessionSound(t)
  BY <1>11, ClearPendingFields
<1> HIDE DEF t, c, counter
<1>13. CASE HasReceiverChain(s, m.ratchet)
  <2>1. s1 = s
    BY <1>13 DEF s1, WithReceiverChain
  <2>2. \A d \in ToSet(t.receivers) :
           \/ d \in ToSet(s.receivers) /\ d.root # m.key.root
           \/ UsedFor(c, d, m.key.index)
    BY <2>1, <1>6, <1>11, <1>12 DEF counter
  <2>3. c \in ToSet(s.receivers) /\ c.root = m.key.root /\ Derivable(c, m.key.index)
    BY <2>1, <1>6, <1>9 DEF counter
  <2>4. Turns(s, t, m, fresh)
    BY <2>1, <2>2, <2>3, <1>6, <1>12 DEF Turns
  <2> QED BY <2>4, <1>5 DEF r, t
<1>14. CASE ~HasReceiverChain(s, m.ratchet)
  <2>1. /\ s1.local = s.local /\ s1.remote = s.remote /\ s1.base = s.base
        /\ s1.root = CreateChain(receiving, fresh, m.ratchet)
        /\ s1.sender.ratchet = fresh
        /\ \A d \in ToSet(s1.receivers) :
              \/ d \in ToSet(s.receivers) /\ d.ratchet # m.ratchet
              \/ d.root = receiving /\ d.ratchet = m.ratchet /\ d.index = 0
    BY <1>1, <1>14, NewReceiverChainSound DEF s1
  <2>2. c.root = receiving /\ c.index = 0
    BY <2>1, <1>8, <1>9
  <2>3. m.key.root = receiving
    BY <2>2, <1>6
  <2>4. ASSUME NEW d \in ToSet(t.receivers)
        PROVE  \/ d \in ToSet(s.receivers)
               \/ /\ d.root = m.key.root /\ ~Derivable(d, m.key.index)
                  /\ d.index \in {0, m.key.index + 1}
    <3>1. CASE d \in ToSet(s1.receivers) /\ d.root # c.root
      BY <3>1, <2>1, <2>2
    <3>2. CASE UsedFor(c, d, counter)
      BY <3>2, <2>2, <2>3 DEF UsedFor, counter
    <3> QED BY <3>1, <3>2, <2>4, <1>11, <1>12
  <2> HIDE DEF receiving
  <2>5. /\ m.key.root = CreateChain(s.root, s.sender.ratchet, m.ratchet)
        /\ t.root = CreateChain(m.key.root, fresh, m.ratchet)
        /\ t.sender.ratchet = fresh
    BY <2>1, <2>3, <1>12 DEF receiving
  <2>6. Turns(s, t, m, fresh)
    BY <2>1, <2>4, <2>5, <1>6, <1>12 DEF Turns
  <2> QED BY <2>6, <1>5 DEF r, t
<1> QED
  BY <1>13, <1>14

-----------------------------------------------------------------------------
(* What a record can still decrypt                                         *)

LEMMA HandshakeRootProperties ==
    ASSUME NEW idA \in Key, NEW idB \in Key, NEW base \in Key,
           NEW signed \in Key, NEW preKey \in OptionalKey
    PROVE  LET root == HandshakeRoot(idA, idB, base, signed, preKey)
           IN  /\ root \in RootKey /\ Len(root) = 1
               /\ root[1] = {idA, idB, base, signed, preKey} \ {NoKey}
<1> DEFINE keys == {idA, idB, base, signed, preKey} \ {NoKey}
<1>1. HandshakeRoot(idA, idB, base, signed, preKey) = <<keys>>
  BY DEF HandshakeRoot
<1>2. HandshakeRoot(idA, idB, base, signed, preKey) \in RootKey
  BY HandshakeRootType
<1> HIDE DEF keys
<1>3. Len(<<keys>>) = 1 /\ <<keys>>[1] = keys
  OBVIOUS
<1> QED
  BY <1>1, <1>2, <1>3 DEF keys

\* Alice's session receives on the chain of the handshake and sends on the next.
ChainsStartAt(chains, root) == \A c \in ToSet(chains) : c.root = root /\ c.index = 0

LEMMA InitializeAliceSound ==
    ASSUME NEW local \in Key, NEW remote \in Key, NEW base \in Key, NEW ratchet \in Key,
           NEW signed \in Key, NEW preKey \in OptionalKey, NEW time \in Nat
    PROVE  LET s == InitializeAlice(local, remote, base, ratchet, signed, preKey, time)
               root == HandshakeRoot(local, remote, base, signed, preKey)
           IN  /\ s \in Session /\ SessionSound(s)
               /\ s.local = local /\ s.remote = remote /\ s.base = base
               /\ s.sender.ratchet = ratchet
               /\ s.root = CreateChain(root, ratchet, signed)
               /\ ChainsStartAt(s.receivers, root)
<1> DEFINE root == HandshakeRoot(local, remote, base, signed, preKey)
           sending == CreateChain(root, ratchet, signed)
           receiving == [ratchet |-> signed, root |-> root, index |-> 0,
                         skipped |-> <<>>]
           s == InitializeAlice(local, remote, base, ratchet, signed, preKey, time)
<1>1. root \in RootKey /\ Len(root) = 1
  BY HandshakeRootProperties
<1>2. sending \in RootKey /\ Len(sending) = Len(root) + 1 /\ IsStrictPrefix(root, sending)
  BY <1>1, CreateChainExtends
<1>3. s \in Session
  BY InitializeAliceProperties
<1>4. /\ s.local = local /\ s.remote = remote /\ s.base = base
      /\ s.root = sending /\ s.sender.root = sending /\ s.sender.ratchet = ratchet
      /\ s.receivers = <<receiving>>
  BY DEF InitializeAlice
<1>5. receiving.root = root /\ receiving.index = 0 /\ SkippedSound(receiving)
  BY DEF SkippedSound
<1> HIDE DEF root, sending, receiving, s
<1>6. DOMAIN s.receivers = {1} /\ s.receivers[1] = receiving
  BY <1>4
<1>7. SessionSound(s)
  <2>1. s.sender.root = s.root /\ Len(s.root) >= 1
    <3>1. Len(sending) >= 1
      BY <1>1, <1>2
    <3> QED BY <3>1, <1>4, Zenon
  <2>2. \A i \in DOMAIN s.receivers : i = 1
    BY <1>6
  <2>3. /\ Len(s.receivers[1].root) >= 1
        /\ IsStrictPrefix(s.receivers[1].root, s.root)
        /\ SkippedSound(s.receivers[1])
    <3>1. Len(root) >= 1
      BY <1>1
    <3> QED BY <3>1, <1>2, <1>4, <1>5, <1>6, Zenon
  <2> QED BY <2>1, <2>2, <2>3 DEF SessionSound
<1>8. \A c \in ToSet(s.receivers) : c.root = root /\ c.index = 0
  BY <1>5, <1>6 DEF ToSet
<1> QED
  BY <1>3, <1>4, <1>7, <1>8 DEF s, root, sending, ChainsStartAt

LEMMA InitializeBobSound ==
    ASSUME NEW local \in Key, NEW remote \in Key, NEW base \in Key,
           NEW signed \in Key, NEW preKey \in OptionalKey
    PROVE  LET s == InitializeBob(local, remote, base, signed, preKey)
           IN  /\ s \in Session /\ SessionSound(s)
               /\ s.local = local /\ s.remote = remote /\ s.base = base
               /\ s.root = HandshakeRoot(local, remote, base, signed, preKey)
               /\ s.sender.ratchet = signed
               /\ s.receivers = <<>> /\ ToSet(s.receivers) = {}
               /\ s.pending = NoPending
<1> DEFINE root == HandshakeRoot(local, remote, base, signed, preKey)
           s == InitializeBob(local, remote, base, signed, preKey)
<1>1. root \in RootKey /\ Len(root) = 1
  BY HandshakeRootProperties
<1>2. s \in Session
  BY InitializeBobProperties
<1>3. /\ s.local = local /\ s.remote = remote /\ s.base = base
      /\ s.root = root /\ s.sender.root = root /\ s.sender.ratchet = signed
      /\ s.receivers = <<>> /\ s.pending = NoPending
  BY DEF InitializeBob
<1> HIDE DEF root, s
<1>4. DOMAIN s.receivers = {}
  BY <1>3
<1>5. SessionSound(s)
  <2>1. s.sender.root = s.root /\ Len(s.root) >= 1
    <3>1. Len(root) >= 1
      BY <1>1
    <3> QED BY <3>1, <1>3, Zenon
  <2> QED BY <2>1, <1>4 DEF SessionSound
<1>6. ToSet(s.receivers) = {}
  BY <1>4 DEF ToSet
<1> QED
  BY <1>2, <1>3, <1>5, <1>6 DEF s, root

\* Promoting a session: the others stay what they were, but for the pending prekey
\* of the one that was current.
LEMMA SessionsAfterPromote ==
    ASSUME NEW r \in Record, NEW s \in Session, NEW u \in Sessions(PromoteState(r, s))
    PROVE  \/ u = s
           \/ r.current # NoSession /\ u = ClearPending(r.current)
           \/ \E j \in DOMAIN r.previous : u = r.previous[j]
<1> DEFINE a == ArchiveCurrent(r)
           p == PromoteState(r, s)
<1>1. /\ a \in Record
      /\ a.current = NoSession
      /\ r.current = NoSession => a = r
      /\ r.current # NoSession =>
            /\ Len(a.previous) >= 1
            /\ a.previous[1] = ClearPending(r.current)
            /\ \A i \in 2 .. Len(a.previous) :
                  i - 1 \in DOMAIN r.previous /\ a.previous[i] = r.previous[i - 1]
  BY ArchiveCurrentPositions
<1>2. p = [a EXCEPT !.current = s]
  BY DEF PromoteState
<1>3. u \in Sessions(p)
  OBVIOUS
<1> HIDE DEF a, p
<1>4. p \in Record /\ p.current = s /\ p.previous = a.previous
  BY <1>1, <1>2 DEF Record
<1>5. u = s \/ \E i \in DOMAIN a.previous : u = a.previous[i]
  BY <1>3, <1>4, SessionsOfRecord
<1>6. CASE \E i \in DOMAIN a.previous : u = a.previous[i]
  <2>1. PICK i \in DOMAIN a.previous : u = a.previous[i]
    BY <1>6
  <2>2. DOMAIN a.previous = 1 .. Len(a.previous) /\ Len(a.previous) \in Nat
    BY <1>1, SessionsOfRecord
  <2>3. i = 1 \/ i \in 2 .. Len(a.previous)
    BY <2>1, <2>2
  <2> QED BY <2>1, <2>3, <1>1
<1> QED
  BY <1>5, <1>6

LEMMA SessionsAfterPromoteOld ==
    ASSUME NEW r \in Record, NEW i \in DOMAIN r.previous, NEW s \in Session,
           NEW u \in Sessions(PromoteOldSession(r, i, s))
    PROVE  \/ u = s
           \/ r.current # NoSession /\ u = ClearPending(r.current)
           \/ \E j \in DOMAIN r.previous : j # i /\ u = r.previous[j]
<1> DEFINE rest == RemoveAt(r.previous, i)
           q == [r EXCEPT !.previous = rest]
<1>1. /\ r.previous \in Seq(Session) /\ Len(r.previous) \in Nat
      /\ DOMAIN r.previous = 1 .. Len(r.previous)
  BY SessionsOfRecord
<1>2. /\ rest \in Seq(Session)
      /\ Len(rest) = Len(r.previous) - 1
      /\ \A j \in 1 .. Len(r.previous) - 1 :
            rest[j] = IF j < i THEN r.previous[j] ELSE r.previous[j + 1]
  BY <1>1, RemoveAtProperties
<1>3. u \in Sessions(PromoteState(q, s))
  BY DEF PromoteOldSession
<1> HIDE DEF rest
<1>4. q \in Record /\ q.current = r.current /\ q.previous = rest
  BY <1>2 DEF Record
<1> HIDE DEF q
<1>5. \/ u = s
      \/ r.current # NoSession /\ u = ClearPending(r.current)
      \/ \E j \in DOMAIN rest : u = rest[j]
  BY <1>3, <1>4, SessionsAfterPromote
<1>6. ASSUME NEW j \in DOMAIN rest
      PROVE  \E k \in DOMAIN r.previous : k # i /\ rest[j] = r.previous[k]
  <2> DEFINE k == IF j < i THEN j ELSE j + 1
  <2>1. k \in DOMAIN r.previous /\ k # i /\ rest[j] = r.previous[k]
    BY <1>1, <1>2
  <2> QED BY <2>1
<1> QED
  BY <1>5, <1>6

\* A session that another one's turn leaves alone.
Alike(u, s) == u = s \/ u = ClearPending(s)

\* decrypt_message_with_record, when it succeeds: one session of the record turned
\* and is current; the others are as they were and send on other chains.
LEMMA DecryptWithRecordTurns ==
    ASSUME NEW r \in Record, ChainsDistinct(r), \A s \in Sessions(r) : SessionSound(s),
           NEW m \in Message, NEW fresh \in Key,
           DecryptWithRecord(r, m, fresh).verdict = "ok"
    PROVE  LET q == DecryptWithRecord(r, m, fresh).record
           IN  \E s \in Sessions(r) :
                  /\ Turns(s, q.current, m, fresh)
                  /\ \A u \in Sessions(q) :
                        \/ u = q.current
                        \/ \E t \in Sessions(r) : t.sender.root # s.sender.root /\ Alike(u, t)
<1> DEFINE q == DecryptWithRecord(r, m, fresh).record
<1>1. CASE /\ r.current # NoSession
           /\ DecryptWithState(r.current, m, fresh).verdict = "ok"
           /\ q = [r EXCEPT !.current = DecryptWithState(r.current, m, fresh).session]
  <2> DEFINE s == r.current
             t == DecryptWithState(s, m, fresh).session
  <2>1. s \in Session /\ s \in Sessions(r)
    BY <1>1, SessionsOfRecord
  <2>2. Turns(s, t, m, fresh)
    BY <1>1, <2>1, DecryptWithStateTurns
  <2>3. t \in Session
    BY <2>2 DEF Turns
  <2>4. q = [r EXCEPT !.current = t]
    BY <1>1
  <2> HIDE DEF t, q
  <2>5. q \in Record /\ q.current = t /\ q.previous = r.previous
    BY <2>3, <2>4, ReplaceCurrentProperties
  <2>6. ASSUME NEW u \in Sessions(q), u # t
        PROVE  \E v \in Sessions(r) : v.sender.root # s.sender.root /\ Alike(u, v)
    <3>1. PICK i \in DOMAIN r.previous : u = r.previous[i]
      BY <2>5, <2>6, SessionsOfRecord
    <3>2. u \in Sessions(r) /\ u.sender.root # s.sender.root
      BY <1>1, <3>1, SessionsOfRecord DEF ChainsDistinct
    <3> QED BY <3>2 DEF Alike
  <2> QED BY <2>1, <2>2, <2>5, <2>6 DEF q
<1>2. CASE \E i \in DOMAIN r.previous :
              /\ DecryptWithState(r.previous[i], m, fresh).verdict = "ok"
              /\ q = PromoteOldSession(r, i, DecryptWithState(r.previous[i], m, fresh).session)
  <2>1. PICK i \in DOMAIN r.previous :
              /\ DecryptWithState(r.previous[i], m, fresh).verdict = "ok"
              /\ q = PromoteOldSession(r, i, DecryptWithState(r.previous[i], m, fresh).session)
    BY <1>2
  <2> DEFINE s == r.previous[i]
             t == DecryptWithState(s, m, fresh).session
  <2>2. s \in Session /\ s \in Sessions(r)
    BY SessionsOfRecord
  <2>3. Turns(s, t, m, fresh)
    BY <2>1, <2>2, DecryptWithStateTurns
  <2>4. t \in Session
    BY <2>3 DEF Turns
  <2>5. q = PromoteOldSession(r, i, t)
    BY <2>1
  <2> HIDE DEF t, q
  <2>6. q.current = t
    BY <2>4, <2>5, PromoteOldSessionProperties
  <2>7. ASSUME NEW u \in Sessions(q), u # t
        PROVE  \E v \in Sessions(r) : v.sender.root # s.sender.root /\ Alike(u, v)
    <3>1. \/ r.current # NoSession /\ u = ClearPending(r.current)
          \/ \E j \in DOMAIN r.previous : j # i /\ u = r.previous[j]
      BY <2>4, <2>5, <2>7, SessionsAfterPromoteOld
    <3>2. CASE r.current # NoSession /\ u = ClearPending(r.current)
      <4>1. r.current \in Sessions(r) /\ r.current.sender.root # s.sender.root
        BY <3>2, SessionsOfRecord DEF ChainsDistinct
      <4> QED BY <3>2, <4>1 DEF Alike
    <3>3. CASE \E j \in DOMAIN r.previous : j # i /\ u = r.previous[j]
      <4>1. PICK j \in DOMAIN r.previous : j # i /\ u = r.previous[j]
        BY <3>3
      <4>2. u \in Sessions(r) /\ u.sender.root # s.sender.root
        BY <4>1, SessionsOfRecord DEF ChainsDistinct
      <4> QED BY <4>2 DEF Alike
    <3> QED BY <3>1, <3>2, <3>3
  <2> QED BY <2>2, <2>3, <2>6, <2>7 DEF q
<1> QED
  BY <1>1, <1>2, DecryptWithRecordCases

\* promote_matching_session leaves every session alone.
LEMMA SessionsAfterMatching ==
    ASSUME NEW r \in Record, NEW base, HasMatchingSession(r, base),
           NEW u \in Sessions(PromoteMatching(r, base))
    PROVE  \E s \in Sessions(r) : Alike(u, s)
<1>1. CASE MatchesCurrent(r, base)
  BY <1>1 DEF PromoteMatching, Alike
<1>2. CASE ~MatchesCurrent(r, base)
  <2> DEFINE i == Min(MatchingPrevious(r, base))
             s == r.previous[i]
  <2>1. MatchingPrevious(r, base) \in SUBSET Nat /\ MatchingPrevious(r, base) # {}
    BY <1>2, SessionsOfRecord DEF HasMatchingSession, MatchingPrevious
  <2>2. i \in DOMAIN r.previous
    BY <2>1, MinInSet DEF MatchingPrevious
  <2>3. u \in Sessions(PromoteOldSession(r, i, s))
    BY <1>2 DEF PromoteMatching
  <2> HIDE DEF i
  <2>4. s \in Session /\ s \in Sessions(r)
    BY <2>2, SessionsOfRecord
  <2>5. \/ u = s
        \/ r.current # NoSession /\ u = ClearPending(r.current)
        \/ \E j \in DOMAIN r.previous : u = r.previous[j]
    BY <2>2, <2>3, <2>4, SessionsAfterPromoteOld
  <2> QED BY <2>4, <2>5, SessionsOfRecord DEF Alike
<1> QED
  BY <1>1, <1>2

-----------------------------------------------------------------------------
(* What a turn leaves decryptable                                          *)

\* The session keeps nothing to derive the key of m from: it does not receive on
\* its chain any more, or past it, and its root key does not lead to the chain.
Forgotten(s, m) ==
    /\ ~IsStrictPrefix(s.root, m.key.root)
    /\ \A c \in ToSet(s.receivers) : c.root = m.key.root => ~Derivable(c, m.key.index)

\* Two sessions of a record have nothing in common after their handshakes.
Apart(s, t) ==
    /\ ~IsPrefix(s.root, t.root) /\ ~IsPrefix(t.root, s.root)
    /\ \A c \in ToSet(s.receivers), d \in ToSet(t.receivers) : c.root # d.root

\* The key pair took no part in the key agreements of this root key.
UnusedIn(key, root) == \A i \in DOMAIN root : key \notin root[i]

LEMMA ReceiverRoots ==
    ASSUME NEW s \in Session, SessionSound(s), NEW c \in ToSet(s.receivers)
    PROVE  /\ c.root \in RootKey /\ Len(c.root) >= 1
           /\ IsStrictPrefix(c.root, s.root) /\ IsPrefix(c.root, s.root)
           /\ Len(c.root) < Len(s.root) /\ c.root[1] = s.root[1]
<1>1. PICK i \in DOMAIN s.receivers : c = s.receivers[i]
  BY DEF ToSet
<1>2. c \in ReceiverChain
  <2>1. s.receivers \in Seq(ReceiverChain)
    BY DEF Session
  <2> QED BY <2>1, <1>1
<1>3. c.root \in RootKey /\ s.root \in RootKey
  BY <1>2 DEF ReceiverChain, Session
<1>4. Len(c.root) >= 1 /\ IsStrictPrefix(c.root, s.root)
  BY <1>1 DEF SessionSound
<1> QED
  BY <1>3, <1>4, RootKeyPrefixes

\* How the root keys of a session, of the message it decrypts and of the session
\* afterwards lie.
LEMMA TurnsRoots ==
    ASSUME NEW s \in Session, SessionSound(s), NEW m \in Message, NEW fresh \in Key, NEW t,
           Turns(s, t, m, fresh)
    PROVE  /\ t.root \in RootKey /\ m.key.root \in RootKey /\ s.root \in RootKey
           /\ m.key.root[1] = s.root[1] /\ t.root[1] = s.root[1]
           /\ \/ t.root = s.root /\ IsStrictPrefix(m.key.root, s.root)
              \/ /\ IsStrictPrefix(s.root, m.key.root) /\ IsStrictPrefix(m.key.root, t.root)
                 /\ IsPrefix(s.root, t.root)
                 /\ Len(t.root) >= 1 /\ t.root[Len(t.root)] = {fresh, m.ratchet}
                 /\ Len(t.root) = Len(s.root) + 2
                 /\ t.root[Len(s.root) + 1] = {s.sender.ratchet, m.ratchet}
                 /\ \A i \in 1 .. Len(s.root) : t.root[i] = s.root[i]
<1>1. /\ s.root \in RootKey /\ s.sender.ratchet \in Key /\ Len(s.root) >= 1
      /\ m.ratchet \in Key /\ m.key.root \in RootKey /\ Len(s.root) \in Nat
  BY DEF Session, SenderChain, SessionSound, Message, MessageKey, RootKey
<1>2. CASE \E c \in ToSet(s.receivers) : t.root = s.root /\ c.root = m.key.root
  BY <1>1, <1>2, ReceiverRoots
<1>3. CASE /\ m.key.root = CreateChain(s.root, s.sender.ratchet, m.ratchet)
           /\ t.root = CreateChain(m.key.root, fresh, m.ratchet)
  <2> DEFINE n == Len(s.root)
             root == m.key.root
             x == CreateChain(s.root, s.sender.ratchet, m.ratchet)
             y == CreateChain(root, fresh, m.ratchet)
  <2>8. /\ x \in RootKey /\ Len(x) = n + 1
        /\ x[n + 1] = {s.sender.ratchet, m.ratchet}
        /\ \A i \in 1 .. n : x[i] = s.root[i]
        /\ IsStrictPrefix(s.root, x)
    <3> DEFINE old == s.root
               ours == s.sender.ratchet
               theirs == m.ratchet
               z == CreateChain(old, ours, theirs)
    <3>1. old \in RootKey /\ ours \in Key /\ theirs \in Key
      BY <1>1
    <3>2. x = z
      OBVIOUS
    <3> HIDE DEF old, ours, theirs, x
    <3>3. /\ z \in RootKey /\ Len(z) = Len(old) + 1
          /\ z[Len(old) + 1] = {ours, theirs}
          /\ \A i \in 1 .. Len(old) : z[i] = old[i]
          /\ IsStrictPrefix(old, z)
      BY <3>1, CreateChainExtends
    <3> HIDE DEF z
    <3>4. n = Len(old) /\ old = s.root /\ {ours, theirs} = {s.sender.ratchet, m.ratchet}
      BY DEF old, ours, theirs
    <3> HIDE DEF n
    <3> QED BY <3>2, <3>3, <3>4
  <2>9. root = x /\ t.root = y
    BY <1>3
  <2> HIDE DEF root, x
  <2>1. /\ root \in RootKey /\ Len(root) = n + 1
        /\ root[n + 1] = {s.sender.ratchet, m.ratchet}
        /\ \A i \in 1 .. n : root[i] = s.root[i]
        /\ IsStrictPrefix(s.root, root)
    BY <2>8, <2>9
  <2>10. /\ y \in RootKey /\ Len(y) = Len(root) + 1
         /\ y[Len(root) + 1] = {fresh, m.ratchet}
         /\ \A i \in 1 .. Len(root) : y[i] = root[i]
         /\ IsStrictPrefix(root, y)
    <3> DEFINE theirs == m.ratchet
               z == CreateChain(root, fresh, theirs)
    <3>1. root \in RootKey /\ theirs \in Key
      BY <1>1, <2>1
    <3>2. y = z
      OBVIOUS
    <3> HIDE DEF theirs, y
    <3>3. /\ z \in RootKey /\ Len(z) = Len(root) + 1
          /\ z[Len(root) + 1] = {fresh, theirs}
          /\ \A i \in 1 .. Len(root) : z[i] = root[i]
          /\ IsStrictPrefix(root, z)
      BY <3>1, CreateChainExtends
    <3> HIDE DEF z
    <3> QED BY <3>2, <3>3 DEF theirs
  <2> HIDE DEF y
  <2>2. /\ t.root \in RootKey /\ Len(t.root) = Len(root) + 1
        /\ t.root[Len(root) + 1] = {fresh, m.ratchet}
        /\ \A i \in 1 .. Len(root) : t.root[i] = root[i]
        /\ IsStrictPrefix(root, t.root)
    BY <2>9, <2>10
  <2>3. IsPrefix(s.root, root) /\ IsPrefix(root, t.root) /\ IsPrefix(s.root, t.root)
    BY <2>1, <2>2, <1>1, RootKeyPrefixes
  <2>4. root[1] = s.root[1] /\ t.root[1] = s.root[1]
    BY <2>1, <2>2, <2>3, <1>1, RootKeyPrefixes
  <2> HIDE DEF n
  <2>5. n \in Nat /\ n >= 1 /\ n = Len(s.root)
    BY <1>1 DEF n
  <2>6. /\ Len(t.root) = n + 2 /\ t.root[Len(t.root)] = {fresh, m.ratchet}
        /\ t.root[n + 1] = {s.sender.ratchet, m.ratchet}
        /\ \A i \in 1 .. n : t.root[i] = s.root[i]
    BY <2>1, <2>2, <2>5
  <2>7. Len(t.root) >= 1
    BY <2>5, <2>6
  <2> QED BY <2>1, <2>2, <2>3, <2>4, <2>5, <2>6, <2>7, <1>1 DEF root
<1> QED
  BY <1>2, <1>3 DEF Turns

\* A turn forgets the message it decrypts, and brings back none forgotten before.
LEMMA TurnsForgets ==
    ASSUME NEW s \in Session, SessionSound(s), NEW m \in Message, NEW fresh \in Key, NEW t,
           Turns(s, t, m, fresh)
    PROVE  /\ ~Forgotten(s, m)
           /\ Forgotten(t, m)
           /\ \A o \in Message :
                 Forgotten(s, o) /\ UnusedIn(fresh, o.key.root) => Forgotten(t, o)
<1>1. /\ t.root \in RootKey /\ m.key.root \in RootKey /\ s.root \in RootKey
      /\ \/ t.root = s.root /\ IsStrictPrefix(m.key.root, s.root)
         \/ /\ IsStrictPrefix(s.root, m.key.root) /\ IsStrictPrefix(m.key.root, t.root)
            /\ IsPrefix(s.root, t.root)
            /\ Len(t.root) >= 1 /\ t.root[Len(t.root)] = {fresh, m.ratchet}
  BY TurnsRoots
<1>2. /\ IsStrictPrefix(t.root, m.key.root) => Len(t.root) < Len(m.key.root)
      /\ IsStrictPrefix(m.key.root, t.root) => Len(m.key.root) < Len(t.root)
      /\ IsStrictPrefix(m.key.root, s.root) => Len(m.key.root) < Len(s.root)
      /\ Len(m.key.root) \in Nat /\ Len(t.root) \in Nat /\ Len(s.root) \in Nat
  BY <1>1, RootKeyPrefixes
<1>3. ~IsStrictPrefix(t.root, m.key.root)
  BY <1>1, <1>2
<1>4. CASE \E c \in ToSet(s.receivers) :
              /\ t.root = s.root
              /\ c.root = m.key.root /\ Derivable(c, m.key.index)
              /\ \A d \in ToSet(t.receivers) :
                    \/ d \in ToSet(s.receivers) /\ d.root # m.key.root
                    \/ UsedFor(c, d, m.key.index)
  <2>1. PICK c \in ToSet(s.receivers) :
              /\ t.root = s.root
              /\ c.root = m.key.root /\ Derivable(c, m.key.index)
              /\ \A d \in ToSet(t.receivers) :
                    \/ d \in ToSet(s.receivers) /\ d.root # m.key.root
                    \/ UsedFor(c, d, m.key.index)
    BY <1>4
  <2>2. ~Forgotten(s, m)
    BY <2>1 DEF Forgotten
  <2>3. Forgotten(t, m)
    BY <2>1, <1>3 DEF Forgotten, UsedFor
  <2>4. ASSUME NEW o \in Message, Forgotten(s, o)
        PROVE  Forgotten(t, o)
    <3>1. o.key.index \in Nat
      BY DEF Message, MessageKey
    <3>2. ASSUME NEW d \in ToSet(t.receivers), d.root = o.key.root
          PROVE  ~Derivable(d, o.key.index)
      <4>1. CASE d \in ToSet(s.receivers)
        BY <4>1, <3>2, <2>4 DEF Forgotten
      <4>2. CASE UsedFor(c, d, m.key.index)
        <5>1. ~Derivable(c, o.key.index)
          BY <4>2, <3>2, <2>4 DEF Forgotten, UsedFor
        <5> QED BY <4>2, <5>1, <3>1 DEF UsedFor
      <4> QED BY <4>1, <4>2, <2>1, <3>2
    <3> QED BY <3>2, <2>1, <2>4 DEF Forgotten
  <2> QED BY <2>2, <2>3, <2>4
<1>5. CASE /\ m.key.root = CreateChain(s.root, s.sender.ratchet, m.ratchet)
           /\ t.root = CreateChain(m.key.root, fresh, m.ratchet)
           /\ \A d \in ToSet(t.receivers) :
                 \/ d \in ToSet(s.receivers)
                 \/ d.root = m.key.root /\ ~Derivable(d, m.key.index)
  <2>1. IsStrictPrefix(s.root, m.key.root)
    <3> DEFINE x == CreateChain(s.root, s.sender.ratchet, m.ratchet)
    <3>1. s.sender.ratchet \in Key /\ m.ratchet \in Key
      BY DEF Session, SenderChain, Message
    <3>2. IsStrictPrefix(s.root, x)
      BY <3>1, <1>1, CreateChainExtends
    <3>3. m.key.root = x
      BY <1>5
    <3> HIDE DEF x
    <3> QED BY <3>2, <3>3
  <2>2. Len(s.root) < Len(m.key.root)
    BY <2>1, <1>1, RootKeyPrefixes
  <2>3. ~Forgotten(s, m)
    BY <2>1 DEF Forgotten
  <2>4. \A d \in ToSet(s.receivers) : d.root # m.key.root
    BY <2>2, <1>2, ReceiverRoots
  <2>5. Forgotten(t, m)
    BY <2>4, <1>3, <1>5 DEF Forgotten
  <2>6. ASSUME NEW o \in Message, Forgotten(s, o), UnusedIn(fresh, o.key.root)
        PROVE  Forgotten(t, o)
    <3>1. o.key.root \in RootKey
      BY DEF Message, MessageKey
    <3>2. t.root # s.root
      BY <2>2, <1>1, <1>2
    <3>3. Len(t.root) >= 1 /\ fresh \in t.root[Len(t.root)]
      BY <3>2, <1>1
    <3>4. ~IsPrefix(t.root, o.key.root)
      BY <3>1, <3>3, <2>6, <1>1, RootKeyPrefixes DEF UnusedIn
    <3>5. ~IsStrictPrefix(t.root, o.key.root)
      BY <3>4 DEF IsStrictPrefix
    <3>6. m.key.root # o.key.root
      BY <2>1, <2>6 DEF Forgotten
    <3> QED BY <3>5, <3>6, <2>6, <1>5 DEF Forgotten
  <2> QED BY <2>3, <2>5, <2>6
<1> QED
  BY <1>4, <1>5 DEF Turns

\* A turn keeps the session apart from another one, which knows nothing of the
\* message either.
LEMMA TurnsApart ==
    ASSUME NEW s \in Session, SessionSound(s), NEW m \in Message, NEW fresh \in Key, NEW t,
           Turns(s, t, m, fresh),
           NEW v \in Session, SessionSound(v), Apart(s, v), UnusedIn(fresh, v.root)
    PROVE  Apart(t, v) /\ Forgotten(v, m)
<1>1. /\ t.root \in RootKey /\ m.key.root \in RootKey /\ s.root \in RootKey
      /\ \/ t.root = s.root /\ IsStrictPrefix(m.key.root, s.root)
         \/ /\ IsStrictPrefix(s.root, m.key.root) /\ IsStrictPrefix(m.key.root, t.root)
            /\ IsPrefix(s.root, t.root)
            /\ Len(t.root) >= 1 /\ t.root[Len(t.root)] = {fresh, m.ratchet}
  BY TurnsRoots
<1>2. v.root \in RootKey
  BY DEF Session
<1>3. CASE \E c \in ToSet(s.receivers) :
              /\ t.root = s.root /\ c.root = m.key.root
              /\ \A d \in ToSet(t.receivers) :
                    d \in ToSet(s.receivers) \/ UsedFor(c, d, m.key.index)
  <2>1. PICK c \in ToSet(s.receivers) :
              /\ t.root = s.root /\ c.root = m.key.root
              /\ \A d \in ToSet(t.receivers) :
                    d \in ToSet(s.receivers) \/ UsedFor(c, d, m.key.index)
    BY <1>3
  <2>2. \A d \in ToSet(t.receivers), e \in ToSet(v.receivers) : d.root # e.root
    BY <2>1 DEF Apart, UsedFor
  <2>3. ASSUME IsStrictPrefix(v.root, m.key.root)
        PROVE  FALSE
    <3>1. IsPrefix(v.root, m.key.root) /\ IsPrefix(m.key.root, s.root)
      BY <2>1, <2>3, ReceiverRoots DEF IsStrictPrefix
    <3>2. IsPrefix(v.root, s.root)
      BY <3>1, <1>1, <1>2, RootKeyPrefixes
    <3> QED BY <3>2 DEF Apart
  <2>4. \A e \in ToSet(v.receivers) : e.root # m.key.root
    BY <2>1 DEF Apart
  <2> QED BY <2>1, <2>2, <2>3, <2>4 DEF Apart, Forgotten
<1>4. CASE /\ m.key.root = CreateChain(s.root, s.sender.ratchet, m.ratchet)
           /\ t.root = CreateChain(m.key.root, fresh, m.ratchet)
           /\ \A d \in ToSet(t.receivers) : d \in ToSet(s.receivers) \/ d.root = m.key.root
  <2>1. IsStrictPrefix(s.root, m.key.root)
    <3> DEFINE x == CreateChain(s.root, s.sender.ratchet, m.ratchet)
    <3>1. s.sender.ratchet \in Key /\ m.ratchet \in Key
      BY DEF Session, SenderChain, Message
    <3>2. IsStrictPrefix(s.root, x)
      BY <3>1, <1>1, CreateChainExtends
    <3>3. m.key.root = x
      BY <1>4
    <3> HIDE DEF x
    <3> QED BY <3>2, <3>3
  <2>2. IsPrefix(s.root, m.key.root) /\ Len(s.root) < Len(m.key.root) /\ Len(m.key.root) \in Nat
        /\ Len(s.root) \in Nat
    BY <2>1, <1>1, RootKeyPrefixes
  <2>3. ~IsStrictPrefix(m.key.root, s.root)
    <3>1. IsStrictPrefix(m.key.root, s.root) => Len(m.key.root) < Len(s.root)
      BY <1>1, RootKeyPrefixes
    <3> QED BY <3>1, <2>2
  <2>4. /\ IsPrefix(m.key.root, t.root) /\ IsPrefix(s.root, t.root)
        /\ Len(t.root) >= 1 /\ fresh \in t.root[Len(t.root)]
    BY <2>3, <1>1 DEF IsStrictPrefix
  <2>5. ~IsPrefix(t.root, v.root)
    BY <2>4, <1>1, <1>2, RootKeyPrefixes DEF UnusedIn
  <2>6. ~IsPrefix(v.root, t.root)
    <3>1. ASSUME IsPrefix(v.root, t.root)
          PROVE  IsPrefix(v.root, s.root) \/ IsPrefix(s.root, v.root)
      BY <3>1, <2>4, <1>1, <1>2, RootKeyPrefixes
    <3> QED BY <3>1 DEF Apart
  <2>7. ASSUME NEW e \in ToSet(v.receivers)
        PROVE  e.root # m.key.root
    <3>1. e.root \in RootKey /\ IsPrefix(e.root, v.root)
      BY ReceiverRoots
    <3>2. e.root = m.key.root => IsPrefix(s.root, v.root)
      BY <3>1, <2>2, <1>1, <1>2, RootKeyPrefixes
    <3> QED BY <3>2 DEF Apart
  <2>8. ~IsStrictPrefix(v.root, m.key.root)
    <3>1. IsPrefix(v.root, m.key.root) => IsPrefix(v.root, t.root)
      BY <2>4, <1>1, <1>2, RootKeyPrefixes
    <3> QED BY <3>1, <2>6 DEF IsStrictPrefix
  <2> QED BY <2>5, <2>6, <2>7, <2>8, <1>4 DEF Apart, Forgotten
<1> QED
  BY <1>3, <1>4 DEF Turns

-----------------------------------------------------------------------------
(* What the actions do to the state, in the terms of the lemmas on records *)

LEMMA NewKeyType ==
    ASSUME TypeOK, NEW p \in Party, NEW n \in Nat
    PROVE  NewKey(p, n) \in Key
  BY DEF TypeOK, NewKey, Key

LEMMA NewPreKeysType ==
    ASSUME TypeOK, NEW p \in Party, NEW n \in Nat
    PROVE  NewPreKeys(p, n) \in SUBSET Key
<1>1. \A k \in n .. n + NumPreKeys - 1 : k \in Nat
  BY BoundsAssumption
<1> QED
  BY <1>1, NewKeyType DEF NewPreKeys

LEMMA MessageFields ==
    ASSUME NEW m \in Message
    PROVE  /\ m.from \in Party /\ m.to \in Party /\ m.sender \in Key /\ m.receiver \in Key
           /\ m.ratchet \in Key /\ m.key \in MessageKey /\ m.preKey \in OptionalKey
           /\ m.type = "prekey" => m.base \in Key /\ m.signedPreKey \in Key
  BY DEF Message

LEMMA RecordType ==
    ASSUME TypeOK, NEW p \in Party, NEW q \in Party
    PROVE  records[p][q] \in Record
  BY DEF TypeOK

LEMMA FetchBundleType ==
    ASSUME TypeOK, NEW q \in Party, NEW preKey, FetchBundle(q, preKey)
    PROVE  /\ published' \in [Party -> Bundle]
           /\ \A x \in Party :
                 /\ published'[x].signedPreKey = published[x].signedPreKey
                 /\ published'[x].identity = published[x].identity
                 /\ published'[x].preKeys \subseteq published[x].preKeys
<1> DEFINE left == published[q].preKeys \ {preKey}
           b == [published[q] EXCEPT !.preKeys = left]
<1>1. published \in [Party -> Bundle] /\ published[q] \in Bundle
  BY DEF TypeOK
<1>2. left \in SUBSET Key
  BY <1>1 DEF Bundle
<1>3. published' = [published EXCEPT ![q] = b]
  BY <1>1 DEF FetchBundle
<1> HIDE DEF left
<1>4. /\ b \in Bundle /\ b.signedPreKey = published[q].signedPreKey
      /\ b.identity = published[q].identity /\ b.preKeys = left
  BY <1>1, <1>2 DEF Bundle
<1>5. left \subseteq published[q].preKeys
  BY DEF left
<1> HIDE DEF b
<1> QED
  BY <1>1, <1>3, <1>4, <1>5

\* establishSession starts a session on a new chain.
LEMMA EstablishSessionDerives ==
    ASSUME TypeOK, NEW p \in Party, NEW q \in Party, EstablishSession(p, q)
    PROVE  \E s \in Session :
              /\ SessionWithinLimits(s)
              /\ NewChain(s.sender, NewKey(p, 1), published[q].signedPreKey)
              /\ StoreSession(p, q, PromoteState(FreshRecord, s))
<1>1. PICK preKey \in OfferedPreKeys(q) :
        /\ records[p][q] = FreshRecord
        /\ LET session == InitializeAlice(identity[p], published[q].identity,
                                          NewKey(p, 0), NewKey(p, 1),
                                          published[q].signedPreKey, preKey, now)
           IN  StoreSession(p, q, PromoteState(records[p][q], session))
  BY DEF EstablishSession
<1>2. /\ identity[p] \in Key /\ published[q].identity \in Key
      /\ published[q].signedPreKey \in Key /\ now \in Nat
      /\ preKey \in OptionalKey
  BY <1>1 DEF TypeOK, Bundle, OfferedPreKeys, OptionalKey
<1>3. NewKey(p, 0) \in Key /\ NewKey(p, 1) \in Key
  BY NewKeyType
<1> DEFINE s == InitializeAlice(identity[p], published[q].identity, NewKey(p, 0),
                                NewKey(p, 1), published[q].signedPreKey, preKey, now)
<1>4. /\ s \in Session /\ SessionWithinLimits(s)
      /\ NewChain(s.sender, NewKey(p, 1), published[q].signedPreKey)
  BY <1>2, <1>3, InitializeAliceProperties
<1>5. StoreSession(p, q, PromoteState(FreshRecord, s))
  BY <1>1
<1> HIDE DEF s
<1> QED
  BY <1>4, <1>5

\* A decryption stores what it derived from the record of the sender.
DecryptsInto(p, m, r) ==
    /\ Derives(records[p][m.from], r, m, NewKey(p, 0))
    /\ StoreSession(p, m.from, r)
    /\ UseNewKey(p, m.from, r)
    /\ UNCHANGED <<sent, published>>

LEMMA DecryptKnownPreKeyDerives ==
    ASSUME TypeOK, NEW p \in Party, NEW m \in Message, DecryptKnownPreKey(p, m)
    PROVE  DecryptsInto(p, m, PreKeyResult(p, m).record)
<1> DEFINE r == records[p][m.from]
           prepared == PromoteMatching(r, m.base)
           result == DecryptWithRecord(prepared, m, NewKey(p, 0))
<1>1. r \in Record /\ NewKey(p, 0) \in Key
  BY MessageFields, RecordType, NewKeyType
<1>2. HasMatchingSession(r, m.base) /\ PreKeyResult(p, m) = result /\ result.verdict = "ok"
  BY DEF DecryptKnownPreKey, PreKeyResult, ProcessPreKey
<1>3. StoreSession(p, m.from, result.record) /\ UseNewKey(p, m.from, result.record)
      /\ UNCHANGED <<sent, published>>
  BY <1>2 DEF DecryptKnownPreKey, keyVars
<1> HIDE DEF r
<1>4. /\ prepared \in Record
      /\ SenderChains(prepared) \subseteq SenderChains(r)
      /\ ChainsDistinct(r) => ChainsDistinct(prepared)
      /\ RecordWithinLimits(r) => RecordWithinLimits(prepared)
  BY <1>1, <1>2, PromoteMatchingProperties
<1> HIDE DEF prepared
<1>5. Derives(prepared, result.record, m, NewKey(p, 0))
  BY <1>1, <1>2, <1>4, DecryptWithRecordDerives
<1> HIDE DEF result
<1>6. Derives(r, result.record, m, NewKey(p, 0))
  BY <1>4, <1>5 DEF Derives, UnusedKey
<1> QED
  BY <1>2, <1>3, <1>6 DEF DecryptsInto, r

LEMMA DecryptNewPreKeyDerives ==
    ASSUME TypeOK, NEW p \in Party, NEW m \in Message, DecryptNewPreKey(p, m)
    PROVE  DecryptsInto(p, m, PreKeyResult(p, m).record)
<1> DEFINE r == records[p][m.from]
           s == InitializeBob(identity[p], m.sender, m.base, m.signedPreKey, m.preKey)
           result == DecryptWithRecord(PromoteState(r, s), m, NewKey(p, 0))
<1>1. /\ r \in Record /\ NewKey(p, 0) \in Key /\ m.type = "prekey" /\ identity[p] \in Key
      /\ m.base \in Key /\ m.signedPreKey \in Key /\ m.preKey \in OptionalKey /\ m.sender \in Key
  BY MessageFields, RecordType, NewKeyType DEF DecryptNewPreKey, TypeOK
<1>2. PreKeyResult(p, m) = result /\ result.verdict = "ok"
  BY DEF DecryptNewPreKey, PreKeyResult, ProcessPreKey
<1>3. StoreSession(p, m.from, result.record) /\ UseNewKey(p, m.from, result.record)
      /\ UNCHANGED <<sent, published>>
  BY <1>2 DEF DecryptNewPreKey
<1>4. s \in Session /\ SessionWithinLimits(s) /\ s.receivers = <<>>
  <2> DEFINE own == identity[p]
             sender == m.sender
             base == m.base
             signed == m.signedPreKey
             preKey == m.preKey
             t == InitializeBob(own, sender, base, signed, preKey)
  <2>1. s = t
    OBVIOUS
  <2>2. own \in Key /\ sender \in Key /\ base \in Key /\ signed \in Key /\ preKey \in OptionalKey
    BY <1>1
  <2> HIDE DEF own, sender, base, signed, preKey
  <2>3. t \in Session /\ SessionWithinLimits(t) /\ t.receivers = <<>>
    BY <2>2, InitializeBobProperties
  <2> HIDE DEF s, t
  <2> QED BY <2>1, <2>3
<1> HIDE DEF r, s
<1>5. Derives(r, result.record, m, NewKey(p, 0))
  BY <1>1, <1>2, <1>4, DecryptNewSessionDerives
<1> HIDE DEF result
<1> QED
  BY <1>2, <1>3, <1>5 DEF DecryptsInto, r

LEMMA DecryptSignalDerives ==
    ASSUME TypeOK, NEW p \in Party, NEW m \in Message, DecryptSignal(p, m)
    PROVE  DecryptsInto(p, m, SignalResult(p, m).record)
<1> DEFINE r == records[p][m.from]
           result == DecryptWithRecord(r, m, NewKey(p, 0))
<1>1. r \in Record /\ NewKey(p, 0) \in Key
  BY MessageFields, RecordType, NewKeyType
<1>2. SignalResult(p, m) = result /\ result.verdict = "ok"
  BY DEF DecryptSignal, SignalResult
<1>3. StoreSession(p, m.from, result.record) /\ UseNewKey(p, m.from, result.record)
      /\ UNCHANGED <<sent, published>>
  BY <1>2 DEF DecryptSignal, keyVars
<1> HIDE DEF r
<1>4. Derives(r, result.record, m, NewKey(p, 0))
  BY <1>1, <1>2, DecryptWithRecordDerives
<1> HIDE DEF result
<1> QED
  BY <1>2, <1>3, <1>4 DEF DecryptsInto, r

-----------------------------------------------------------------------------
(* Types                                                                   *)

\* what the steps leave to show once records, pinned and nextKey are done
LEMMA StoreType ==
    ASSUME TypeOK, NEW p \in Party, NEW q \in Party, NEW r \in Record,
           NEW k \in OptionalKey, StoreSession(p, q, r), SaveIdentity(p, q, k)
    PROVE  records' \in [Party -> [Party -> Record]] /\ pinned' \in [Party -> [Party -> OptionalKey]]
  BY DEF TypeOK, StoreSession, SaveIdentity

LEMMA InitType == Init => TypeOK
<1> SUFFICES ASSUME Init
             PROVE  TypeOK
  OBVIOUS
<1>1. \A p \in Party : \A k \in 2 .. NumPreKeys + 1 : <<p, k>> \in Key
  BY BoundsAssumption DEF Key
<1>2. /\ identity \in [Party -> Key] /\ signedPreKey \in [Party -> Key]
      /\ preKeys \in [Party -> SUBSET Key]
  BY <1>1 DEF Init, Key
<1>3. published \in [Party -> Bundle]
  BY <1>2 DEF Init, Bundle
<1>4. FreshRecord \in Record
  BY FreshRecordProperties
<1>5. nextKey \in [Party -> Nat]
  BY BoundsAssumption DEF Init
<1> QED
  BY <1>2, <1>3, <1>4, <1>5 DEF Init, TypeOK, OptionalKey

LEMMA AdvanceSenderChainType ==
    ASSUME NEW s \in Session
    PROVE  /\ AdvanceSenderChain(s) \in Session
           /\ AdvanceSenderChain(s).sender.root = s.sender.root
           /\ AdvanceSenderChain(s).sender.ratchet = s.sender.ratchet
           /\ AdvanceSenderChain(s).sender.index = s.sender.index + 1
           /\ AdvanceSenderChain(s).receivers = s.receivers
<1> DEFINE sender == [s.sender EXCEPT !.index = @ + 1]
<1>1. s.sender \in SenderChain
  BY DEF Session
<1>2. /\ sender \in SenderChain
      /\ sender.root = s.sender.root
      /\ sender.ratchet = s.sender.ratchet
      /\ sender.index = s.sender.index + 1
  BY <1>1 DEF SenderChain
<1>3. AdvanceSenderChain(s) = [s EXCEPT !.sender = sender]
  BY DEF AdvanceSenderChain, Session
<1> HIDE DEF sender
<1> QED
  BY <1>2, <1>3 DEF Session

LEMMA DecryptType ==
    ASSUME TypeOK, NEW p \in Party, NEW m \in Message, NEW r, NEW k \in Key,
           DecryptsInto(p, m, r), SaveIdentity(p, m.from, k)
    PROVE  /\ r.current.remote \in Key
           /\ records' \in [Party -> [Party -> Record]]
           /\ pinned' \in [Party -> [Party -> OptionalKey]]
           /\ nextKey' \in [Party -> Nat]
           /\ sent' \in SUBSET Message /\ published' \in [Party -> Bundle]
<1>1. r \in Record /\ r.current \in Session /\ m.from \in Party /\ k \in OptionalKey
  BY MessageFields DEF DecryptsInto, Derives, OptionalKey
<1>2. r.current.remote \in Key
  BY <1>1 DEF Session
<1>3. records' \in [Party -> [Party -> Record]] /\ pinned' \in [Party -> [Party -> OptionalKey]]
  BY <1>1, StoreType DEF DecryptsInto
<1>4. nextKey' \in [Party -> Nat]
  BY DEF DecryptsInto, UseNewKey, TypeOK
<1> QED
  BY <1>2, <1>3, <1>4 DEF DecryptsInto, TypeOK

LEMMA NextType == TypeOK /\ [Next]_vars => TypeOK'
<1> SUFFICES ASSUME TypeOK, [Next]_vars
             PROVE  TypeOK'
  OBVIOUS
<1>1. ASSUME NEW p \in Party, NEW q \in Party, EstablishSession(p, q)
      PROVE  TypeOK'
  <2>1. PICK s \in Session : StoreSession(p, q, PromoteState(FreshRecord, s))
    BY <1>1, EstablishSessionDerives
  <2>2. PromoteState(FreshRecord, s) \in Record
    BY FreshRecordProperties, PromoteStateProperties
  <2>3. published[q].identity \in OptionalKey
    BY DEF TypeOK, Bundle, OptionalKey
  <2>4. SaveIdentity(p, q, published[q].identity)
    BY <1>1 DEF EstablishSession
  <2>5. records' \in [Party -> [Party -> Record]] /\ pinned' \in [Party -> [Party -> OptionalKey]]
    BY <2>1, <2>2, <2>3, <2>4, StoreType
  <2>6. published' \in [Party -> Bundle]
    BY <1>1, FetchBundleType DEF EstablishSession
  <2>7. nextKey' \in [Party -> Nat]
    BY <1>1 DEF EstablishSession, TypeOK
  <2> QED BY <1>1, <2>5, <2>6, <2>7 DEF EstablishSession, TypeOK, historyVars, boundVars
<1>2. ASSUME NEW p \in Party, NEW q \in Party, FetchUnused(p, q)
      PROVE  TypeOK'
  <2>1. published' \in [Party -> Bundle]
    BY <1>2, FetchBundleType DEF FetchUnused
  <2> QED BY <1>2, <2>1 DEF FetchUnused, TypeOK, sessionVars, historyVars, boundVars
<1>3. ASSUME NEW p \in Party, NEW q \in Party, Encrypt(p, q)
      PROVE  TypeOK'
  <2> DEFINE r == records[p][q]
             s == r.current
             next == AdvanceSenderChain(s)
             m == Ciphertext(p, q, s)
  <2>1. /\ r \in Record /\ s \in Session
    BY <1>3, RecordType, SessionsOfRecord DEF Encrypt
  <2>2. /\ s.local \in Key /\ s.remote \in Key /\ s.base \in Key /\ s.sender \in SenderChain
        /\ s.pending # NoPending => s.pending \in Pending
    BY <2>1 DEF Session
  <2>3. next \in Session
    BY <2>1, AdvanceSenderChainType
  <2> DEFINE stored == [r EXCEPT !.current = next]
  <2>4. /\ StoreSession(p, q, stored)
        /\ SaveIdentity(p, q, s.remote) /\ s.remote \in OptionalKey
    BY <1>3, <2>2 DEF Encrypt, OptionalKey
  <2> HIDE DEF next, r
  <2>5. stored \in Record
    BY <2>1, <2>3, ReplaceCurrentProperties
  <2> HIDE DEF stored, s
  <2>6. records' \in [Party -> [Party -> Record]] /\ pinned' \in [Party -> [Party -> OptionalKey]]
    BY <2>4, <2>5, StoreType
  <2> USE DEF r, s
  <2>7. m \in Message
    <3>1. /\ s.sender.ratchet \in Key /\ s.sender.root \in RootKey /\ s.sender.index \in Nat
          /\ texts[p] \in Nat
      BY <2>2 DEF SenderChain, TypeOK
    <3>2. s.pending # NoPending => s.pending.signedPreKey \in Key /\ s.pending.preKey \in OptionalKey
      BY <2>2 DEF Pending
    <3> HIDE DEF s
    <3> QED BY <2>2, <3>1, <3>2 DEF Ciphertext, Message, MessageKey, OptionalKey
  <2>8. sent' = sent \cup {m}
    BY <1>3 DEF Encrypt
  <2>9. texts' \in [Party -> Nat]
    BY <1>3 DEF Encrypt, TypeOK
  <2> HIDE DEF m
  <2>10. sent' \in SUBSET Message
    BY <2>7, <2>8 DEF TypeOK
  <2> QED BY <1>3, <2>6, <2>9, <2>10 DEF Encrypt, TypeOK, keyVars, boundVars
<1>4. ASSUME NEW p \in Party, NEW q \in Party, DeleteSession(p, q)
      PROVE  TypeOK'
  <2>1. FreshRecord \in Record /\ NoKey \in OptionalKey
    BY FreshRecordProperties DEF OptionalKey
  <2>2. StoreSession(p, q, FreshRecord) /\ SaveIdentity(p, q, NoKey)
    BY <1>4 DEF DeleteSession
  <2>3. records' \in [Party -> [Party -> Record]] /\ pinned' \in [Party -> [Party -> OptionalKey]]
    BY <2>1, <2>2, StoreType
  <2> QED BY <1>4, <2>3 DEF DeleteSession, Disrupts, TypeOK, keyVars, historyVars
<1>5. ASSUME NEW m \in sent, DecryptKnownPreKey(m.to, m)
      PROVE  TypeOK'
  <2> DEFINE r == PreKeyResult(m.to, m).record
  <2>1. m \in Message /\ m.to \in Party /\ m.sender \in Key
    BY MessageFields DEF TypeOK
  <2>2. DecryptsInto(m.to, m, r) /\ SaveIdentity(m.to, m.from, m.sender)
    BY <1>5, <2>1, DecryptKnownPreKeyDerives DEF DecryptKnownPreKey
  <2> HIDE DEF r
  <2>3. /\ records' \in [Party -> [Party -> Record]]
        /\ pinned' \in [Party -> [Party -> OptionalKey]]
        /\ nextKey' \in [Party -> Nat]
        /\ sent' \in SUBSET Message /\ published' \in [Party -> Bundle]
    BY <2>1, <2>2, DecryptType
  <2> QED BY <1>5, <2>1, <2>3 DEF DecryptKnownPreKey, Opens, TypeOK, keyVars, boundVars
<1>6. ASSUME NEW m \in sent, DecryptNewPreKey(m.to, m)
      PROVE  TypeOK'
  <2> DEFINE r == PreKeyResult(m.to, m).record
  <2>1. m \in Message /\ m.to \in Party /\ m.sender \in Key /\ m.base \in Key
    BY <1>6, MessageFields DEF TypeOK, DecryptNewPreKey
  <2>2. DecryptsInto(m.to, m, r) /\ SaveIdentity(m.to, m.from, m.sender)
    BY <1>6, <2>1, DecryptNewPreKeyDerives DEF DecryptNewPreKey
  <2> HIDE DEF r
  <2>3. /\ records' \in [Party -> [Party -> Record]]
        /\ pinned' \in [Party -> [Party -> OptionalKey]]
        /\ nextKey' \in [Party -> Nat]
        /\ sent' \in SUBSET Message /\ published' \in [Party -> Bundle]
    BY <2>1, <2>2, DecryptType
  <2> QED BY <1>6, <2>1, <2>3 DEF DecryptNewPreKey, Opens, TypeOK, boundVars
<1>7. ASSUME NEW m \in sent, RejectReplay(m.to, m)
      PROVE  TypeOK'
  <2>1. m.to \in Party /\ m.from \in Party /\ m.sender \in OptionalKey
    BY MessageFields DEF TypeOK, OptionalKey
  <2> QED BY <1>7, <2>1 DEF RejectReplay, SaveIdentity, TypeOK, keyVars, historyVars, boundVars
<1>8. ASSUME NEW m \in sent, DecryptSignal(m.to, m)
      PROVE  TypeOK'
  <2> DEFINE r == SignalResult(m.to, m).record
  <2>1. m \in Message /\ m.to \in Party
    BY MessageFields DEF TypeOK
  <2>2. DecryptsInto(m.to, m, r) /\ SaveIdentity(m.to, m.from, r.current.remote)
    BY <1>8, <2>1, DecryptSignalDerives DEF DecryptSignal
  <2> HIDE DEF r
  <2>3. r.current.remote \in Key
    BY <2>2 DEF DecryptsInto, Derives, Session
  <2>4. /\ records' \in [Party -> [Party -> Record]]
        /\ pinned' \in [Party -> [Party -> OptionalKey]]
        /\ nextKey' \in [Party -> Nat]
        /\ sent' \in SUBSET Message /\ published' \in [Party -> Bundle]
    BY <2>1, <2>2, <2>3, DecryptType
  <2> QED BY <1>8, <2>1, <2>4 DEF DecryptSignal, Opens, TypeOK, keyVars, boundVars
<1>9. ASSUME NEW p \in Party, ReplenishKeys(p)
      PROVE  TypeOK'
  <2>1. NewKey(p, 0) \in Key /\ NewPreKeys(p, 1) \in SUBSET Key /\ identity[p] \in Key
    BY NewKeyType, NewPreKeysType DEF TypeOK
  <2>2. published' \in [Party -> Bundle]
    BY <1>9, <2>1 DEF ReplenishKeys, TypeOK, Bundle
  <2>3. nextKey' \in [Party -> Nat]
    BY <1>9, BoundsAssumption DEF ReplenishKeys, TypeOK
  <2> QED BY <1>9, <2>1, <2>2, <2>3 DEF ReplenishKeys, Disrupts, TypeOK, sessionVars, historyVars
<1>10. ASSUME NEW p \in Party, Reinstall(p)
       PROVE  TypeOK'
  <2>1. /\ NewKey(p, 0) \in Key /\ NewKey(p, 1) \in Key /\ NewPreKeys(p, 2) \in SUBSET Key
    BY NewKeyType, NewPreKeysType
  <2>2. FreshRecord \in Record /\ NoKey \in OptionalKey
    BY FreshRecordProperties DEF OptionalKey
  <2>3. published' \in [Party -> Bundle]
    BY <1>10, <2>1 DEF Reinstall, TypeOK, Bundle
  <2>4. nextKey' \in [Party -> Nat]
    BY <1>10, BoundsAssumption DEF Reinstall, TypeOK
  <2>5. /\ records' \in [Party -> [Party -> Record]]
        /\ pinned' \in [Party -> [Party -> OptionalKey]]
    BY <1>10, <2>2 DEF Reinstall, TypeOK
  <2> QED BY <1>10, <2>1, <2>3, <2>4, <2>5 DEF Reinstall, Disrupts, TypeOK, historyVars
<1>11. CASE Tick
  BY <1>11 DEF Tick, TypeOK, keyVars, sessionVars, historyVars
<1>12. CASE UNCHANGED vars
  BY <1>12 DEF vars, TypeOK, keyVars, sessionVars, historyVars, boundVars
<1> QED
  BY <1>1, <1>2, <1>3, <1>4, <1>5, <1>6, <1>7, <1>8, <1>9, <1>10, <1>11, <1>12
  DEF Next, Decrypt

\* Every store, record and message keeps its type, whatever is delivered, deleted,
\* replenished or reinstalled: in particular every record a call stores has a
\* well-formed current session.
THEOREM TypeCorrect == Spec => []TypeOK
  BY InitType, NextType, PTL DEF Spec

-----------------------------------------------------------------------------
(* The limits of consts.rs                                                 *)

LEMMA StoreWithinLimits ==
    ASSUME TypeOK, WithinLimits, NEW p \in Party, NEW q \in Party, NEW r,
           RecordWithinLimits(r), StoreSession(p, q, r)
    PROVE  WithinLimits'
<1>1. \A x, y \in Party : records'[x][y] = IF x = p /\ y = q THEN r ELSE records[x][y]
  BY DEF TypeOK, StoreSession
<1>2. \A x, y \in Party : RecordWithinLimits(records'[x][y])
  BY <1>1 DEF WithinLimits
<1> QED
  BY <1>2 DEF WithinLimits

LEMMA NextWithinLimits == TypeOK /\ WithinLimits /\ [Next]_vars => WithinLimits'
<1> SUFFICES ASSUME TypeOK, WithinLimits, [Next]_vars
             PROVE  WithinLimits'
  OBVIOUS
<1>1. ASSUME NEW p \in Party, NEW q \in Party, EstablishSession(p, q)
      PROVE  WithinLimits'
  <2>1. PICK s \in Session :
          SessionWithinLimits(s) /\ StoreSession(p, q, PromoteState(FreshRecord, s))
    BY <1>1, EstablishSessionDerives
  <2>2. RecordWithinLimits(PromoteState(FreshRecord, s))
    BY <2>1, FreshRecordProperties, PromoteStateProperties
  <2> QED BY <2>1, <2>2, StoreWithinLimits
<1>2. ASSUME NEW p \in Party, NEW q \in Party, Encrypt(p, q)
      PROVE  WithinLimits'
  <2> DEFINE r == records[p][q]
             next == AdvanceSenderChain(r.current)
             stored == [r EXCEPT !.current = next]
  <2>1. r \in Record /\ r.current \in Session /\ r.current \in Sessions(r)
    BY <1>2, RecordType, SessionsOfRecord DEF Encrypt
  <2>2. SessionWithinLimits(r.current) /\ RecordWithinLimits(r)
    BY <2>1 DEF WithinLimits, RecordWithinLimits
  <2>3. next \in Session /\ SessionWithinLimits(next)
    BY <2>1, <2>2, AdvanceSenderChainType DEF SessionWithinLimits
  <2>4. StoreSession(p, q, stored)
    BY <1>2 DEF Encrypt
  <2> HIDE DEF r, next
  <2>5. RecordWithinLimits(stored)
    BY <2>1, <2>2, <2>3, ReplaceCurrentProperties
  <2> HIDE DEF stored
  <2> QED BY <2>4, <2>5, StoreWithinLimits
<1>3. ASSUME NEW p \in Party, NEW q \in Party, DeleteSession(p, q)
      PROVE  WithinLimits'
  BY <1>3, FreshRecordProperties, StoreWithinLimits DEF DeleteSession
<1>4. ASSUME NEW p \in Party, NEW m \in Message, NEW r, DecryptsInto(p, m, r)
      PROVE  WithinLimits'
  <2>1. RecordWithinLimits(r) /\ m.from \in Party
    BY <1>4, MessageFields DEF DecryptsInto, Derives, WithinLimits
  <2> QED BY <1>4, <2>1, StoreWithinLimits DEF DecryptsInto
<1>5. ASSUME NEW m \in sent, Decrypt(m.to, m)
      PROVE  WithinLimits'
  <2>1. m \in Message /\ m.to \in Party
    BY MessageFields DEF TypeOK
  <2>2. CASE DecryptKnownPreKey(m.to, m)
    BY <2>1, <2>2, <1>4, DecryptKnownPreKeyDerives
  <2>3. CASE DecryptNewPreKey(m.to, m)
    BY <2>1, <2>3, <1>4, DecryptNewPreKeyDerives
  <2>4. CASE RejectReplay(m.to, m)
    BY <2>4 DEF RejectReplay, WithinLimits
  <2>5. CASE DecryptSignal(m.to, m)
    BY <2>1, <2>5, <1>4, DecryptSignalDerives
  <2> QED BY <1>5, <2>2, <2>3, <2>4, <2>5 DEF Decrypt
<1>6. ASSUME NEW p \in Party, Reinstall(p)
      PROVE  WithinLimits'
  <2>1. \A x, y \in Party : records'[x][y] \in {records[x][y], FreshRecord}
    BY <1>6 DEF Reinstall, TypeOK
  <2>2. \A x, y \in Party : RecordWithinLimits(records'[x][y])
    BY <2>1, FreshRecordProperties DEF WithinLimits
  <2> QED BY <2>2 DEF WithinLimits
<1>7. CASE UNCHANGED records
  BY <1>7 DEF WithinLimits
<1> QED
  BY <1>1, <1>2, <1>3, <1>5, <1>6, <1>7
  DEF Next, FetchUnused, ReplenishKeys, Tick, vars, sessionVars

\* Whatever the peers do, a record holds at most ARCHIVED_STATES_MAX_LENGTH archived
\* sessions, each with at most MAX_RECEIVER_CHAINS chains and MAX_MESSAGE_KEYS skipped
\* keys in each of them.
THEOREM Limits == Spec => []WithinLimits
<1>1. Init => WithinLimits
  BY FreshRecordProperties DEF Init, WithinLimits
<1> QED
  BY <1>1, NextWithinLimits, TypeCorrect, PTL DEF Spec

-----------------------------------------------------------------------------
(* Message keys                                                            *)

LEMMA LastOfRoot ==
    ASSUME NEW root \in RootKey, root # <<>>
    PROVE  root[Len(root)] \in SUBSET Key
<1> DEFINE sets == SUBSET Key
<1>1. root \in Seq(sets)
  BY DEF RootKey
<1> HIDE DEF sets
<1>2. Len(root) \in 1 .. Len(root)
  BY <1>1, EmptySeq
<1>3. root[Len(root)] \in sets
  BY <1>1, <1>2, ElementOfSeq
<1> QED
  BY <1>3 DEF sets

LEMMA ChainType ==
    ASSUME TypeOK, NEW p \in Party, NEW q \in Party, NEW c \in SenderChains(records[p][q])
    PROVE  c \in SenderChain
<1>1. records[p][q] \in Record
  BY RecordType
<1>2. Sessions(records[p][q]) \in SUBSET Session
  BY <1>1, SessionsOfRecord
<1> QED
  BY <1>2 DEF SenderChains, Session

\* Generating keys leaves the known ones known.
LEMMA KnownGrows ==
    ASSUME TypeOK, TypeOK', \A p \in Party : nextKey[p] <= nextKey'[p],
           NEW ratchet \in Key, NEW root \in RootKey, KnownChain(ratchet, root)
    PROVE  KnownChain(ratchet, root)'
<1>1. ASSUME NEW k \in Key, Known(k)
      PROVE  Known(k)'
  <2>1. k[1] \in Party /\ k[2] \in Nat
    BY DEF Key
  <2> QED BY <1>1, <2>1 DEF Known, TypeOK
<1>2. root # <<>> /\ root[Len(root)] \in SUBSET Key
  BY LastOfRoot DEF KnownChain
<1> QED
  BY <1>1, <1>2 DEF KnownChain

\* A chain split off with a key pair that did not exist before.
SplitOff(c) ==
    /\ KnownChain(c.ratchet, c.root)'
    /\ \E k \in c.root[Len(c.root)] : ~Known(k)

\* ChainInv survives every step that sends nothing, keeps each record's chains
\* distinct and adds to one record at most chains that were just split off.
LEMMA ChainStep ==
    ASSUME TypeOK, TypeOK', ChainInv, UNCHANGED sent,
           \A p \in Party : nextKey[p] <= nextKey'[p],
           \A p \in Party : Known(published[p].signedPreKey)',
           NEW P, NEW Q,
           \A p, q \in Party : \A c \in SenderChains(records'[p][q]) :
              c \in SenderChains(records[p][q]) \/ (p = P /\ q = Q /\ SplitOff(c)),
           \A p, q \in Party : ChainsDistinct(records'[p][q])
    PROVE  ChainInv'
<1>1. \A m \in sent : m.ratchet \in Key /\ m.key.root \in RootKey
  BY MessageFields DEF TypeOK, MessageKey
<1>2. KeysKnown'
  <2>1. \A m \in sent' : KnownChain(m.ratchet, m.key.root)'
    BY <1>1, KnownGrows DEF ChainInv, KeysKnown
  <2>2. ASSUME NEW p \in Party, NEW q \in Party, NEW c \in SenderChains(records'[p][q])
        PROVE  KnownChain(c.ratchet, c.root)'
    <3>1. CASE c \in SenderChains(records[p][q])
      <4>1. c.ratchet \in Key /\ c.root \in RootKey
        BY <3>1, ChainType DEF SenderChain
      <4>2. KnownChain(c.ratchet, c.root)
        BY <3>1 DEF ChainInv, KeysKnown
      <4> QED BY <4>1, <4>2, KnownGrows
    <3>2. CASE SplitOff(c)
      BY <3>2 DEF SplitOff
    <3> QED BY <3>1, <3>2
  <2> QED BY <2>1, <2>2 DEF KeysKnown
<1>3. ASSUME NEW p \in Party, NEW q \in Party, NEW c \in SenderChains(records[p][q]),
             NEW d, SplitOff(d)
      PROVE  c.root # d.root
  BY <1>3 DEF ChainInv, KeysKnown, KnownChain, SplitOff
<1>4. ChainsApart'
  <2>1. ASSUME NEW p \in Party, NEW q \in Party, NEW p2 \in Party, NEW q2 \in Party,
               <<p, q>> # <<p2, q2>>,
               NEW c \in SenderChains(records'[p][q]), NEW c2 \in SenderChains(records'[p2][q2])
        PROVE  c.root # c2.root
    <3>1. CASE c \in SenderChains(records[p][q]) /\ c2 \in SenderChains(records[p2][q2])
      BY <2>1, <3>1 DEF ChainInv, ChainsApart
    <3>2. CASE p = P /\ q = Q /\ SplitOff(c)
      <4>1. c2 \in SenderChains(records[p2][q2])
        BY <2>1, <3>2
      <4> QED BY <3>2, <4>1, <1>3
    <3>3. CASE p2 = P /\ q2 = Q /\ SplitOff(c2)
      <4>1. c \in SenderChains(records[p][q])
        BY <2>1, <3>3
      <4> QED BY <3>3, <4>1, <1>3
    <3> QED BY <3>1, <3>2, <3>3
  <2> QED BY <2>1 DEF ChainsApart
<1>5. ChainsAhead'
  <2>1. ASSUME NEW m \in sent, NEW p \in Party, NEW q \in Party,
               NEW c \in SenderChains(records'[p][q]), c.root = m.key.root
        PROVE  c.index > m.key.index
    <3>1. CASE c \in SenderChains(records[p][q])
      BY <2>1, <3>1 DEF ChainInv, ChainsAhead
    <3>2. CASE SplitOff(c)
      BY <2>1, <3>2 DEF ChainInv, KeysKnown, KnownChain, SplitOff
    <3> QED BY <3>1, <3>2
  <2> QED BY <2>1 DEF ChainsAhead
<1>6. MessageKeysUnique'
  BY DEF ChainInv, MessageKeysUnique
<1> QED
  BY <1>2, <1>4, <1>5, <1>6 DEF ChainInv

\* No key pair is forgotten, and a chain a session sends on after a step was just
\* split off, or it was there before, at this index or the one before.
ChainMoves(c, d) == c.root = d.root /\ c.index \in {d.index, d.index + 1}
ChainsMove ==
    /\ \A p \in Party : nextKey[p] <= nextKey'[p]
    /\ \A p, q \in Party : \A c \in SenderChains(records'[p][q]) :
          SplitOff(c) \/ \E d \in SenderChains(records[p][q]) : ChainMoves(c, d)

LEMMA NewKeyUnknown ==
    ASSUME TypeOK, NEW p \in Party, NEW n \in Nat
    PROVE  ~Known(NewKey(p, n))
  BY DEF TypeOK, Known, NewKey

LEMMA NewChainSplitOff ==
    ASSUME TypeOK, TypeOK', NEW p \in Party, NEW n \in Nat,
           \A q \in Party : nextKey[q] <= nextKey'[q], nextKey'[p] > nextKey[p] + n,
           NEW k \in Key, Known(k), NEW c, NewChain(c, NewKey(p, n), k)
    PROVE  SplitOff(c)
<1> SUFFICES ASSUME NEW f, f = NewKey(p, n)
             PROVE  SplitOff(c)
  OBVIOUS
<1>1. Known(f)'
  <2>1. f[1] = p /\ f[2] = nextKey[p] + n
    BY DEF NewKey
  <2> QED BY <2>1 DEF Known, TypeOK
<1>2. Known(k)'
  <2>1. k[1] \in Party /\ k[2] \in Nat
    BY DEF Key
  <2> QED BY <2>1 DEF Known, TypeOK
<1>3. ~Known(f)
  BY NewKeyUnknown
<1>4. NewChain(c, f, k)
  OBVIOUS
<1> QED
  BY <1>1, <1>2, <1>3, <1>4 DEF NewChain, SplitOff, KnownChain

LEMMA InitChain == Init => ChainInv
<1> SUFFICES ASSUME Init
             PROVE  ChainInv
  OBVIOUS
<1>1. \A p, q \in Party : SenderChains(records[p][q]) = {} /\ ChainsDistinct(records[p][q])
  BY FreshRecordProperties DEF Init, SenderChains
<1>2. \A p \in Party : Known(published[p].signedPreKey)
  BY BoundsAssumption DEF Init, Known
<1>3. sent = {}
  BY DEF Init
<1> QED
  BY <1>1, <1>2, <1>3
  DEF ChainInv, KeysKnown, ChainsApart, ChainsAhead, MessageKeysUnique

LEMMA EstablishSessionChain ==
    ASSUME TypeOK, TypeOK', ChainInv, NEW p \in Party, NEW q \in Party, EstablishSession(p, q)
    PROVE  ChainInv' /\ ChainsMove
<1>1. PICK s \in Session :
        /\ NewChain(s.sender, NewKey(p, 1), published[q].signedPreKey)
        /\ StoreSession(p, q, PromoteState(FreshRecord, s))
  BY EstablishSessionDerives
<1> DEFINE r == PromoteState(FreshRecord, s)
<1>2. SenderChains(r) \subseteq {s.sender} /\ ChainsDistinct(r)
  BY FreshRecordProperties, PromoteStateProperties DEF SenderChains
<1> HIDE DEF r
<1>3. \A x, y \in Party : records'[x][y] = IF x = p /\ y = q THEN r ELSE records[x][y]
  BY <1>1 DEF TypeOK, StoreSession, r
<1>4. /\ nextKey' = [nextKey EXCEPT ![p] = @ + 2] /\ UNCHANGED sent
      /\ \E preKey \in OfferedPreKeys(q) : FetchBundle(q, preKey)
  BY DEF EstablishSession, historyVars
<1>5. (\A x \in Party : nextKey[x] <= nextKey'[x]) /\ nextKey'[p] > nextKey[p] + 1
  BY <1>4 DEF TypeOK
<1>6. published[q].signedPreKey \in Key /\ Known(published[q].signedPreKey)
  BY DEF TypeOK, Bundle, ChainInv, KeysKnown
<1>7. SplitOff(s.sender)
  BY <1>1, <1>5, <1>6, NewChainSplitOff
<1>8. \A x \in Party : published'[x].signedPreKey = published[x].signedPreKey
  BY <1>4, FetchBundleType
<1>9. \A x \in Party : Known(published[x].signedPreKey)'
  <2>1. ASSUME NEW x \in Party
        PROVE  Known(published[x].signedPreKey)'
    <3>1. published[x].signedPreKey \in Key /\ Known(published[x].signedPreKey)
      BY DEF TypeOK, Bundle, ChainInv, KeysKnown
    <3>2. published[x].signedPreKey[1] \in Party /\ published[x].signedPreKey[2] \in Nat
      BY <3>1 DEF Key
    <3> QED BY <3>1, <3>2, <1>5, <1>8 DEF Known, TypeOK
  <2> QED BY <2>1
<1>10. \A x, y \in Party : \A c \in SenderChains(records'[x][y]) :
          c \in SenderChains(records[x][y]) \/ (x = p /\ y = q /\ SplitOff(c))
  BY <1>2, <1>3, <1>7
<1>11. \A x, y \in Party : ChainsDistinct(records'[x][y])
  BY <1>2, <1>3 DEF ChainInv, ChainsApart
<1>12. ChainsMove
  BY <1>5, <1>10 DEF ChainsMove, ChainMoves
<1>13. ChainInv'
  BY <1>4, <1>5, <1>9, <1>10, <1>11, ChainStep
<1> QED
  BY <1>12, <1>13

LEMMA DecryptChain ==
    ASSUME TypeOK, TypeOK', ChainInv, NEW m \in sent, NEW p \in Party, NEW r,
           DecryptsInto(p, m, r)
    PROVE  ChainInv' /\ ChainsMove
<1>1. m \in Message /\ m.from \in Party /\ m.ratchet \in Key /\ m.key.root \in RootKey
  BY MessageFields DEF TypeOK, MessageKey
<1>2. Known(m.ratchet)
  BY DEF ChainInv, KeysKnown, KnownChain
<1>3. \A x, y \in Party : records'[x][y] = IF x = p /\ y = m.from THEN r ELSE records[x][y]
  BY <1>1 DEF TypeOK, StoreSession, DecryptsInto
<1>4. UNCHANGED <<sent, published>> /\ UseNewKey(p, m.from, r)
  BY DEF DecryptsInto
<1>5. \A x \in Party : nextKey[x] <= nextKey'[x]
  BY <1>4 DEF TypeOK, UseNewKey
<1>6. ASSUME NEW c \in SenderChains(r)
      PROVE  c \in SenderChains(records[p][m.from]) \/ SplitOff(c)
  <2>1. CASE NewChain(c, NewKey(p, 0), m.ratchet) /\ c = r.current.sender
    <3>1. nextKey'[p] > nextKey[p] + 0
      BY <2>1, <1>4 DEF NewChain, UseNewKey, TypeOK
    <3> QED BY <2>1, <3>1, <1>1, <1>2, <1>5, NewChainSplitOff
  <2> QED BY <2>1, <1>6 DEF DecryptsInto, Derives
<1>7. ChainsDistinct(r)
  <2>1. UnusedKey(records[p][m.from], NewKey(p, 0))
    BY <1>1, NewKeyUnknown DEF UnusedKey, ChainInv, KeysKnown, KnownChain
  <2> QED BY <2>1, <1>1 DEF DecryptsInto, Derives, ChainInv, ChainsApart
<1>8. \A x \in Party : Known(published[x].signedPreKey)'
  <2>1. ASSUME NEW x \in Party
        PROVE  Known(published[x].signedPreKey)'
    <3>1. published[x].signedPreKey \in Key /\ Known(published[x].signedPreKey)
      BY DEF TypeOK, Bundle, ChainInv, KeysKnown
    <3>2. published[x].signedPreKey[1] \in Party /\ published[x].signedPreKey[2] \in Nat
      BY <3>1 DEF Key
    <3> QED BY <3>1, <3>2, <1>4, <1>5 DEF Known, TypeOK
  <2> QED BY <2>1
<1>9. \A x, y \in Party : \A c \in SenderChains(records'[x][y]) :
         c \in SenderChains(records[x][y]) \/ (x = p /\ y = m.from /\ SplitOff(c))
  BY <1>3, <1>6
<1>10. \A x, y \in Party : ChainsDistinct(records'[x][y])
  BY <1>3, <1>7 DEF ChainInv, ChainsApart
<1>11. ChainsMove
  BY <1>5, <1>9 DEF ChainsMove, ChainMoves
<1>12. ChainInv'
  BY <1>4, <1>5, <1>8, <1>9, <1>10, ChainStep
<1> QED
  BY <1>11, <1>12

\* A step that neither sends nor starts a chain.
LEMMA QuietChain ==
    ASSUME TypeOK, TypeOK', ChainInv, UNCHANGED sent,
           \A p \in Party : nextKey[p] <= nextKey'[p],
           \A p \in Party : Known(published[p].signedPreKey)',
           \A p, q \in Party : records'[p][q] \in {records[p][q], FreshRecord}
    PROVE  ChainInv' /\ ChainsMove
<1>1. SenderChains(FreshRecord) = {} /\ ChainsDistinct(FreshRecord)
  BY FreshRecordProperties DEF SenderChains
<1>2. \A p, q \in Party :
        /\ SenderChains(records'[p][q]) \subseteq SenderChains(records[p][q])
        /\ ChainsDistinct(records'[p][q])
  BY <1>1 DEF ChainInv, ChainsApart
<1>3. \A p, q \in Party : \A c \in SenderChains(records'[p][q]) :
        c \in SenderChains(records[p][q]) \/ (p = 0 /\ q = 0 /\ SplitOff(c))
  BY <1>2
<1>4. ChainsMove
  BY <1>3 DEF ChainsMove, ChainMoves
<1>5. ChainInv'
  BY <1>2, <1>3, ChainStep
<1> QED
  BY <1>4, <1>5

\* Storing a record whose current session has moved on by one: no other session
\* sends on that chain, and it is past the message it sent.
LEMMA AdvanceChains ==
    ASSUME TypeOK, TypeOK', ChainInv, NEW p \in Party, NEW q \in Party,
           NEW s, s = records[p][q].current, s # NoSession,
           StoreSession(p, q, [records[p][q] EXCEPT !.current = AdvanceSenderChain(s)]),
           UNCHANGED <<published, nextKey>>
    PROVE  /\ s \in Session /\ s.sender \in SenderChains(records[p][q])
           /\ \A x, y \in Party : \A c \in SenderChains(records'[x][y]) : KnownChain(c.ratchet, c.root)'
           /\ \A x \in Party : Known(published[x].signedPreKey)'
           /\ ChainsApart' /\ ChainsMove
           /\ \A x, y \in Party : \A c \in SenderChains(records'[x][y]) :
                 c.root = s.sender.root => c.index = s.sender.index + 1
<1> DEFINE r == records[p][q]
           next == AdvanceSenderChain(s)
           stored == [r EXCEPT !.current = next]
<1>1. r \in Record /\ s \in Session /\ s \in Sessions(r) /\ s # NoSession
  BY RecordType, SessionsOfRecord
<1>2. /\ next \in Session
      /\ next.sender.root = s.sender.root /\ next.sender.ratchet = s.sender.ratchet
      /\ next.sender.index = s.sender.index + 1
      /\ s.sender \in SenderChain /\ s.sender.index \in Nat
  BY <1>1, AdvanceSenderChainType DEF Session, SenderChain
<1>3. \A x, y \in Party : records'[x][y] = IF x = p /\ y = q THEN stored ELSE records[x][y]
  BY DEF TypeOK, StoreSession
<1>4. s = r.current
  OBVIOUS
<1> HIDE DEF next, r
<1>5. stored \in Record /\ stored.current = next /\ stored.previous = r.previous
  BY <1>1, <1>2, ReplaceCurrentProperties
<1> HIDE DEF stored
<1>6. s.sender \in SenderChains(r) /\ \A i \in DOMAIN r.previous : r.previous[i].sender \in SenderChains(r)
  BY <1>1, SessionsOfRecord DEF SenderChains
<1>7. ChainsDistinct(r) /\ \A i \in DOMAIN r.previous : r.previous[i].sender.root # s.sender.root
  BY <1>1, <1>4 DEF ChainInv, ChainsApart, ChainsDistinct, r
<1>8. \A c \in SenderChains(stored) : c = next.sender \/ (c \in SenderChains(r) /\ c.root # s.sender.root)
  <2>1. ASSUME NEW t \in Sessions(stored)
        PROVE  t = next \/ \E i \in DOMAIN r.previous : t = r.previous[i]
    BY <1>5, SessionsOfRecord
  <2> QED BY <2>1, <1>6, <1>7 DEF SenderChains
<1>9. ChainsDistinct(stored)
  <2>1. next # NoSession
    BY <1>2, SentinelAssumption
  <2> QED BY <2>1, <1>2, <1>5, <1>7 DEF ChainsDistinct
<1>10. \A c \in SenderChains(stored) : \E d \in SenderChains(r) :
         ChainMoves(c, d) /\ c.ratchet = d.ratchet
  BY <1>2, <1>6, <1>8 DEF ChainMoves
<1>11. \A ratchet, root : KnownChain(ratchet, root) => KnownChain(ratchet, root)'
  BY DEF KnownChain, Known
<1>12. ASSUME NEW x \in Party, NEW y \in Party, NEW c \in SenderChains(records'[x][y])
       PROVE  \E d \in SenderChains(records[x][y]) : ChainMoves(c, d) /\ c.ratchet = d.ratchet
  BY <1>3, <1>10, <1>12 DEF r, ChainMoves
<1>13. ASSUME NEW x \in Party, NEW y \in Party, NEW c \in SenderChains(records'[x][y])
       PROVE  KnownChain(c.ratchet, c.root)'
  <2>1. KnownChain(c.ratchet, c.root)
    BY <1>12 DEF ChainInv, KeysKnown, ChainMoves
  <2> QED BY <2>1, <1>11
<1>14. ChainsApart'
  <2>1. \A x, y \in Party : ChainsDistinct(records'[x][y])
    BY <1>3, <1>9 DEF ChainInv, ChainsApart
  <2>2. ASSUME NEW x \in Party, NEW y \in Party, NEW x2 \in Party, NEW y2 \in Party,
               <<x, y>> # <<x2, y2>>,
               NEW c \in SenderChains(records'[x][y]), NEW c2 \in SenderChains(records'[x2][y2])
        PROVE  c.root # c2.root
    BY <1>12, <2>2 DEF ChainInv, ChainsApart, ChainMoves
  <2> QED BY <2>1, <2>2 DEF ChainsApart
<1>15. ASSUME NEW x \in Party, NEW y \in Party, NEW c \in SenderChains(records'[x][y]),
              c.root = s.sender.root
       PROVE  c.index = s.sender.index + 1
  <2>1. CASE x = p /\ y = q
    BY <2>1, <1>2, <1>3, <1>8, <1>15
  <2>2. CASE ~(x = p /\ y = q)
    BY <2>2, <1>3, <1>6, <1>15 DEF ChainInv, ChainsApart, r
  <2> QED BY <2>1, <2>2
<1>16. ChainsMove
  <2>1. \A x \in Party : nextKey[x] <= nextKey'[x]
    BY DEF TypeOK
  <2> QED BY <2>1, <1>12 DEF ChainsMove
<1>17. \A x \in Party : Known(published[x].signedPreKey)'
  BY DEF ChainInv, KeysKnown, Known
<1> QED
  BY <1>1, <1>6, <1>13, <1>14, <1>15, <1>16, <1>17 DEF r

\* A message known before stays known, and behind every chain.
LEMMA MessageStays ==
    ASSUME TypeOK, TypeOK', ChainsMove, NEW m \in Message, KnownChain(m.ratchet, m.key.root),
           \A p, q \in Party : \A c \in SenderChains(records[p][q]) :
              c.root = m.key.root => c.index > m.key.index
    PROVE  /\ KnownChain(m.ratchet, m.key.root)'
           /\ \A p, q \in Party : \A c \in SenderChains(records'[p][q]) :
                 c.root = m.key.root => c.index > m.key.index
<1>1. m.ratchet \in Key /\ m.key.root \in RootKey /\ m.key.index \in Nat
  BY MessageFields DEF MessageKey
<1>2. KnownChain(m.ratchet, m.key.root)'
  BY <1>1, KnownGrows DEF ChainsMove
<1>3. ASSUME NEW p \in Party, NEW q \in Party, NEW c \in SenderChains(records'[p][q]),
             c.root = m.key.root
      PROVE  c.index > m.key.index
  <2>1. CASE SplitOff(c)
    BY <2>1, <1>3 DEF KnownChain, SplitOff
  <2>2. CASE \E d \in SenderChains(records[p][q]) : ChainMoves(c, d)
    <3>1. PICK d \in SenderChains(records[p][q]) : ChainMoves(c, d)
      BY <2>2
    <3>2. d.index \in Nat /\ d.index > m.key.index
      BY <3>1, <1>3, ChainType DEF SenderChain, ChainMoves
    <3> QED BY <3>1, <3>2, <1>1 DEF ChainMoves
  <2> QED BY <2>1, <2>2 DEF ChainsMove
<1> QED
  BY <1>2, <1>3

\* Encrypting is the one step that sends: the chain it uses is no other session's,
\* so moving it past the key is enough.
LEMMA EncryptChain ==
    ASSUME TypeOK, TypeOK', ChainInv, NEW p \in Party, NEW q \in Party, Encrypt(p, q)
    PROVE  ChainInv' /\ ChainsMove
<1>0. PICK s : s = records[p][q].current
  OBVIOUS
<1> DEFINE m == Ciphertext(p, q, s)
<1>1. /\ s # NoSession /\ StoreSession(p, q, [records[p][q] EXCEPT !.current = AdvanceSenderChain(s)])
      /\ sent' = sent \cup {m} /\ UNCHANGED <<published, nextKey>>
  BY <1>0 DEF Encrypt, keyVars
<1>2. m.ratchet = s.sender.ratchet /\ m.key.root = s.sender.root /\ m.key.index = s.sender.index
  BY DEF Ciphertext
<1>3. m \in Message
  BY <1>1 DEF TypeOK
<1> HIDE DEF m
<1>4. /\ s \in Session /\ s.sender \in SenderChains(records[p][q])
      /\ \A x, y \in Party : \A c \in SenderChains(records'[x][y]) : KnownChain(c.ratchet, c.root)'
      /\ \A x \in Party : Known(published[x].signedPreKey)'
      /\ ChainsApart' /\ ChainsMove
      /\ \A x, y \in Party : \A c \in SenderChains(records'[x][y]) :
            c.root = s.sender.root => c.index = s.sender.index + 1
  BY <1>0, <1>1, AdvanceChains
<1>5. s.sender.index \in Nat /\ s.sender.index + 1 > s.sender.index
  BY <1>4 DEF Session, SenderChain
<1>6. KnownChain(s.sender.ratchet, s.sender.root)'
  <2>1. KnownChain(s.sender.ratchet, s.sender.root)
    BY <1>4 DEF ChainInv, KeysKnown
  <2>2. UNCHANGED nextKey
    BY <1>1
  <2> QED BY <2>1, <2>2 DEF KnownChain, Known
<1>7. ASSUME NEW m1 \in sent'
      PROVE  /\ KnownChain(m1.ratchet, m1.key.root)'
             /\ \A x, y \in Party : \A c \in SenderChains(records'[x][y]) :
                   c.root = m1.key.root => c.index > m1.key.index
  <2>1. CASE m1 = m
    BY <2>1, <1>2, <1>4, <1>5, <1>6
  <2>2. CASE m1 \in sent
    <3>1. /\ KnownChain(m1.ratchet, m1.key.root)
          /\ \A x, y \in Party : \A c \in SenderChains(records[x][y]) :
                c.root = m1.key.root => c.index > m1.key.index
      BY <2>2 DEF ChainInv, KeysKnown, ChainsAhead
    <3>2. m1 \in Message
      BY <2>2 DEF TypeOK
    <3> QED BY <3>1, <3>2, <1>4, MessageStays
  <2> QED BY <2>1, <2>2, <1>1
<1>8. MessageKeysUnique'
  <2>1. ASSUME NEW m1 \in sent, m1.key = m.key
        PROVE  FALSE
    BY <2>1, <1>2, <1>4, <1>5 DEF ChainInv, ChainsAhead
  <2>2. \A m1, m2 \in sent : m1.key = m2.key => m1 = m2
    BY DEF ChainInv, MessageKeysUnique
  <2> QED BY <2>1, <2>2, <1>1 DEF MessageKeysUnique
<1> QED
  BY <1>4, <1>7, <1>8 DEF ChainInv, KeysKnown, ChainsAhead

LEMMA NextChain == TypeOK /\ TypeOK' /\ ChainInv /\ [Next]_vars => ChainInv' /\ ChainsMove
<1> SUFFICES ASSUME TypeOK, TypeOK', ChainInv, [Next]_vars
             PROVE  ChainInv' /\ ChainsMove
  OBVIOUS
<1>1. \A p \in Party : Known(published[p].signedPreKey) /\ published[p].signedPreKey \in Key
  BY DEF ChainInv, KeysKnown, TypeOK, Bundle
<1>2. ASSUME NEW p \in Party, NEW q \in Party, FetchUnused(p, q)
      PROVE  ChainInv' /\ ChainsMove
  <2>1. /\ \A x \in Party : published'[x].signedPreKey = published[x].signedPreKey
        /\ UNCHANGED <<sent, records, nextKey>>
    BY <1>2, FetchBundleType DEF FetchUnused, sessionVars, historyVars
  <2>2. \A x \in Party : Known(published[x].signedPreKey)'
    BY <1>1, <2>1 DEF Known
  <2>3. \A x \in Party : nextKey[x] <= nextKey'[x]
    BY <2>1 DEF TypeOK
  <2> QED BY <2>1, <2>2, <2>3, QuietChain
<1>3. ASSUME NEW p \in Party, NEW q \in Party, DeleteSession(p, q)
      PROVE  ChainInv' /\ ChainsMove
  <2>1. UNCHANGED <<sent, published, nextKey>>
    BY <1>3 DEF DeleteSession, keyVars, historyVars
  <2>2. \A x \in Party : Known(published[x].signedPreKey)'
    BY <1>1, <2>1 DEF Known
  <2>3. \A x \in Party : nextKey[x] <= nextKey'[x]
    BY <2>1 DEF TypeOK
  <2>4. \A x, y \in Party : records'[x][y] \in {records[x][y], FreshRecord}
    BY <1>3 DEF DeleteSession, StoreSession, TypeOK
  <2> QED BY <2>1, <2>2, <2>3, <2>4, QuietChain
<1>4. ASSUME NEW m \in sent, Decrypt(m.to, m)
      PROVE  ChainInv' /\ ChainsMove
  <2>1. m \in Message /\ m.to \in Party
    BY MessageFields DEF TypeOK
  <2>2. CASE DecryptKnownPreKey(m.to, m)
    BY <2>1, <2>2, DecryptChain, DecryptKnownPreKeyDerives
  <2>3. CASE DecryptNewPreKey(m.to, m)
    BY <2>1, <2>3, DecryptChain, DecryptNewPreKeyDerives
  <2>4. CASE RejectReplay(m.to, m)
    <3>1. UNCHANGED <<sent, published, nextKey, records>>
      BY <2>4 DEF RejectReplay, keyVars, historyVars
    <3>2. \A x \in Party : Known(published[x].signedPreKey)'
      BY <1>1, <3>1 DEF Known
    <3>3. \A x \in Party : nextKey[x] <= nextKey'[x]
      BY <3>1 DEF TypeOK
    <3> QED BY <3>1, <3>2, <3>3, QuietChain
  <2>5. CASE DecryptSignal(m.to, m)
    BY <2>1, <2>5, DecryptChain, DecryptSignalDerives
  <2> QED BY <1>4, <2>2, <2>3, <2>4, <2>5 DEF Decrypt
<1>5. ASSUME NEW p \in Party, ReplenishKeys(p) \/ Reinstall(p)
      PROVE  ChainInv' /\ ChainsMove
  <2>1. /\ UNCHANGED sent
        /\ \A x, y \in Party : records'[x][y] \in {records[x][y], FreshRecord}
    BY <1>5 DEF ReplenishKeys, Reinstall, sessionVars, historyVars, TypeOK
  <2>2. PICK n \in {0, 1} :
          /\ nextKey' = [nextKey EXCEPT ![p] = @ + NumPreKeys + n + 1]
          /\ \A x \in Party : published'[x].signedPreKey =
                                 IF x = p THEN NewKey(p, n) ELSE published[x].signedPreKey
    <3>1. CASE ReplenishKeys(p)
      <4>1. /\ published \in [Party -> Bundle] /\ nextKey[p] \in Nat
            /\ nextKey[p] + NumPreKeys + 1 = nextKey[p] + NumPreKeys + 0 + 1
        BY BoundsAssumption DEF TypeOK
      <4>2. nextKey' = [nextKey EXCEPT ![p] = nextKey[p] + NumPreKeys + 0 + 1]
        BY <3>1, <4>1 DEF ReplenishKeys
      <4>3. \A x \in Party : published'[x].signedPreKey =
                IF x = p THEN NewKey(p, 0) ELSE published[x].signedPreKey
        BY <3>1, <4>1 DEF ReplenishKeys
      <4> QED BY <4>2, <4>3
    <3>2. CASE Reinstall(p)
      <4>1. /\ published \in [Party -> Bundle] /\ nextKey[p] \in Nat
            /\ nextKey[p] + NumPreKeys + 2 = nextKey[p] + NumPreKeys + 1 + 1
        BY BoundsAssumption DEF TypeOK
      <4>2. nextKey' = [nextKey EXCEPT ![p] = nextKey[p] + NumPreKeys + 1 + 1]
        BY <3>2, <4>1 DEF Reinstall
      <4>3. \A x \in Party : published'[x].signedPreKey =
                IF x = p THEN NewKey(p, 1) ELSE published[x].signedPreKey
        BY <3>2, <4>1 DEF Reinstall
      <4> QED BY <4>2, <4>3
    <3> QED BY <1>5, <3>1, <3>2
  <2>3. /\ \A x \in Party : nextKey[x] <= nextKey'[x]
        /\ nextKey'[p] > nextKey[p] + n
    BY <2>2, BoundsAssumption DEF TypeOK
  <2>4. ASSUME NEW x \in Party
        PROVE  Known(published[x].signedPreKey)'
    <3>1. CASE x = p
      BY <3>1, <2>2, <2>3 DEF Known, NewKey, TypeOK
    <3>2. CASE x # p
      <4>1. published[x].signedPreKey[1] \in Party /\ published[x].signedPreKey[2] \in Nat
        BY <1>1 DEF Key
      <4> QED BY <3>2, <4>1, <1>1, <2>2, <2>3 DEF Known, TypeOK
    <3> QED BY <3>1, <3>2
  <2> QED BY <2>1, <2>3, <2>4, QuietChain
<1>6. CASE Tick \/ UNCHANGED vars
  <2>1. UNCHANGED <<sent, published, nextKey, records>>
    BY <1>6 DEF Tick, vars, keyVars, sessionVars, historyVars
  <2>2. \A x \in Party : Known(published[x].signedPreKey)'
    BY <1>1, <2>1 DEF Known
  <2>3. \A x \in Party : nextKey[x] <= nextKey'[x]
    BY <2>1 DEF TypeOK
  <2> QED BY <2>1, <2>2, <2>3, QuietChain
<1> QED
  BY <1>2, <1>3, <1>4, <1>5, <1>6, EstablishSessionChain, EncryptChain DEF Next

LEMMA ChainCorrect == Spec => []ChainInv
  BY InitChain, NextChain, TypeCorrect, PTL DEF Spec

\* No two messages are ever encrypted under the same message key, for any number of
\* devices, through archiving, eviction, promotion, deletion and reinstallation.
THEOREM KeysUnique == Spec => []MessageKeysUnique
<1>1. ChainInv => MessageKeysUnique
  BY DEF ChainInv
<1> QED
  BY <1>1, ChainCorrect, PTL

\* No session a sender keeps, current or archived, stands at or before a message it
\* has sent: the key of a sent message cannot be derived again.
THEOREM SendersForget == Spec => []SenderForgets
<1>1. TypeOK /\ ChainInv => SenderForgets
  <2> SUFFICES ASSUME TypeOK, ChainInv, NEW m \in sent,
                      NEW s \in Sessions(records[m.from][m.to]),
                      s.sender.root = m.key.root
               PROVE  s.sender.index > m.key.index
    BY DEF SenderForgets
  <2>1. m.from \in Party /\ m.to \in Party
    BY MessageFields DEF TypeOK
  <2>2. s.sender \in SenderChains(records[m.from][m.to])
    BY DEF SenderChains
  <2> QED BY <2>1, <2>2 DEF ChainInv, ChainsAhead
<1> QED
  BY <1>1, ChainCorrect, TypeCorrect, PTL

-----------------------------------------------------------------------------
(* What a receiver forgets                                                 *)

\* Every key pair hashed into the root key has been generated.
KnownRoot(root) == Len(root) >= 1 /\ \A i \in DOMAIN root : \A k \in root[i] : Known(k)

\* A key pair plays one part: the base key of one handshake, or another one.  "held" are
\* messages a device has made and not yet handed to the server: none, where every call is
\* one step.
OwnKeys(p) ==
    {identity[p], signedPreKey[p], published[p].identity, published[p].signedPreKey}
        \cup preKeys[p] \cup published[p].preKeys
IsBase(held, k) ==
    \/ \E p \in Party : k \in kyberUsed[p]
    \/ \E m \in sent \cup held : m.type = "prekey" /\ m.base = k
    \/ \E p, q \in Party : \E s \in Sessions(records[p][q]) : s.base = k
IsOther(held, k) ==
    \/ \E p \in Party : k \in OwnKeys(p)
    \/ \E m \in sent \cup held : m.sender = k
    \/ \E p, q \in Party : \E s \in Sessions(records[p][q]) : s.local = k
RolesApart(held) ==
    \A k \in Key : /\ IsBase(held, k) \/ IsOther(held, k) => Known(k)
                   /\ ~(IsBase(held, k) /\ IsOther(held, k))

\* A session's handshake has one base key, marked as used by the party it answered.
HandshakeSound(p, used, s) ==
    /\ s.base \in s.root[1]
    /\ s.base[1] # p => s.base \in used
    /\ s.pending # NoPending => s.base[1] = p
OneBase(held, s) == \A k \in s.root[1] : IsBase(held, k) => k = s.base
SessionsSound(held) ==
    \A p, q \in Party : \A s \in Sessions(records[p][q]) :
        /\ SessionSound(s) /\ KnownRoot(s.root)
        /\ HandshakeSound(p, kyberUsed[p], s) /\ OneBase(held, s)
SessionsApart ==
    \A p, q, x \in Party : \A s \in Sessions(records[p][q]), t \in Sessions(records[p][x]) :
        s.root # t.root => Apart(s, t)

MessagesSound(held) ==
    \A m \in sent \cup held :
        /\ m.from # m.to /\ KnownRoot(m.key.root) /\ Known(m.ratchet)
        /\ m.type = "prekey" => m.base[1] = m.from

\* The base keys of a message's handshake are answered, if it was this installation
\* of p that took part in it.
Answered(held, p, m) ==
    identity[p] \in m.key.root[1] =>
        \A k \in m.key.root[1] : IsBase(held, k) /\ k[1] # p => k \in kyberUsed[p]
OpenedForgotten(held) ==
    \A p \in Party : \A m \in opened[p] :
        /\ m \in sent /\ m.to = p
        /\ \A q \in Party : \A s \in Sessions(records[p][q]) : Forgotten(s, m)
        /\ Answered(held, p, m)

\* The chain c of a session with q stands where a message q has sent to p left it.
Follows(p, q, c) ==
    c.index > 0 => \E m \in sent : m.from = q /\ m.to = p /\ m.key = [root |-> c.root, index |-> c.index - 1]

RecordsInv(held) ==
    /\ RolesApart(held) /\ SessionsSound(held) /\ SessionsApart
    /\ MessagesSound(held) /\ OpenedForgotten(held)
ReceiverInv == RecordsInv({}) /\ ReceiversFollowSender

\* u is the session v as far as what it can decrypt is concerned.
Same(u, v) ==
    /\ u \in Session
    /\ u.local = v.local /\ u.base = v.base /\ u.root = v.root /\ u.receivers = v.receivers
    /\ u.sender.root = v.sender.root /\ u.sender.ratchet = v.sender.ratchet
    /\ u.pending \in {v.pending, NoPending}

LEMMA AlikeIsSame ==
    ASSUME NEW v \in Session, NEW u, Alike(u, v)
    PROVE  Same(u, v)
<1>1. CASE u = v
  BY <1>1 DEF Same
<1>2. CASE u = ClearPending(v)
  BY <1>2, ClearPendingFields DEF Same
<1> QED
  BY <1>1, <1>2 DEF Alike

LEMMA SameProperties ==
    ASSUME NEW v, NEW u, Same(u, v)
    PROVE  /\ SessionSound(v) => SessionSound(u)
           /\ \A m : Forgotten(v, m) => Forgotten(u, m)
           /\ \A p, used : HandshakeSound(p, used, v) => HandshakeSound(p, used, u)
<1>1. SessionSound(v) => SessionSound(u)
  BY DEF Same, SessionSound
<1>2. \A m : Forgotten(v, m) => Forgotten(u, m)
  BY DEF Same, Forgotten
<1>3. \A p, used : HandshakeSound(p, used, v) => HandshakeSound(p, used, u)
  BY DEF Same, HandshakeSound
<1> QED
  BY <1>1, <1>2, <1>3

LEMMA SameApart ==
    ASSUME NEW v, NEW u, Same(u, v), NEW v2, NEW u2, Same(u2, v2), Apart(v, v2)
    PROVE  Apart(u, u2)
  BY DEF Same, Apart

LEMMA ApartSymmetric ==
    ASSUME NEW s, NEW t, Apart(s, t)
    PROVE  Apart(t, s)
  BY DEF Apart

LEMMA KnownStays ==
    ASSUME TypeOK, TypeOK', \A p \in Party : nextKey[p] <= nextKey'[p]
    PROVE  /\ \A k \in Key : Known(k) => Known(k)'
           /\ \A root \in RootKey : KnownRoot(root) => KnownRoot(root)'
<1>1. ASSUME NEW k \in Key, Known(k)
      PROVE  Known(k)'
  <2>1. k[1] \in Party /\ k[2] \in Nat
    BY DEF Key
  <2> QED BY <1>1, <2>1 DEF Known, TypeOK
<1>2. ASSUME NEW root \in RootKey, KnownRoot(root)
      PROVE  KnownRoot(root)'
  <2>1. \A i \in DOMAIN root : root[i] \in SUBSET Key
    BY DEF RootKey
  <2> QED BY <1>1, <1>2, <2>1 DEF KnownRoot
<1> QED
  BY <1>1, <1>2

LEMMA NewKeyUnused ==
    ASSUME TypeOK, NEW p \in Party, NEW n \in Nat, NEW root, KnownRoot(root)
    PROVE  UnusedIn(NewKey(p, n), root)
  BY NewKeyUnknown DEF KnownRoot, UnusedIn

LEMMA FirstOfRoot ==
    ASSUME NEW root \in RootKey, KnownRoot(root)
    PROVE  root[1] \in SUBSET Key /\ \A k \in root[1] : Known(k)
<1> DEFINE sets == SUBSET Key
<1>1. root \in Seq(sets) /\ Len(root) >= 1
  BY DEF RootKey, KnownRoot
<1> HIDE DEF sets
<1>2. 1 \in DOMAIN root /\ root[1] \in sets
  BY <1>1
<1> QED
  BY <1>2 DEF KnownRoot, sets

\* What a step does to the parts keys play: B and O are the key pairs it generates.
NewRoles(held, B, O) ==
    /\ B \in SUBSET Key /\ O \in SUBSET Key /\ B \cap O = {}
    /\ \A k \in B \cup O : ~Known(k) /\ Known(k)'
    /\ \A p \in Party : \A k \in OwnKeys(p)' : k \in O \/ IsOther(held, k)
    /\ \A p \in Party : \A k \in kyberUsed'[p] : IsBase(held, k)

\* A message a step hands to the server.
NewlySent(held, m) ==
    /\ m.from # m.to /\ KnownRoot(m.key.root) /\ Known(m.ratchet)
    /\ IsOther(held, m.sender)
    /\ m.type = "prekey" => m.base[1] = m.from /\ IsBase(held, m.base)

\* What a step does to a record: nothing a receiver would notice, or it leaves sessions
\* that satisfy the invariant.
KeptRecord(p, q) ==
    \A u \in Sessions(records'[p][q]) : \E v \in Sessions(records[p][q]) : Same(u, v)
ReplacedRecord(held, p, q, B) ==
    /\ \A u \in Sessions(records'[p][q]) :
          /\ SessionSound(u) /\ KnownRoot(u.root)'
          /\ HandshakeSound(p, kyberUsed'[p], u)
          /\ \A k \in u.root[1] : IsBase(held, k) \/ k \in B => k = u.base
          /\ IsBase(held, u.base) \/ u.base \in B
          /\ IsOther(held, u.local)
          /\ \A m \in opened[p] : Forgotten(u, m)
    /\ \A x \in Party : \A u \in Sessions(records'[p][q]), v \in Sessions(records'[p][x]) :
          u.root # v.root => Apart(u, v)

NewlyOpened(held, p, m) ==
    /\ m \in sent /\ m.to = p
    /\ \A q \in Party : \A s \in Sessions(records'[p][q]) : Forgotten(s, m)
    /\ identity'[p] \in m.key.root[1] =>
          \A k \in m.key.root[1] : IsBase(held, k) /\ k[1] # p => k \in kyberUsed'[p]

\* A device keeps what it has answered, or starts afresh with an identity nobody knows.
Continues(p) == kyberUsed[p] \subseteq kyberUsed'[p] /\ identity'[p] = identity[p]
Restarts(p) == ~Known(identity'[p]) /\ \A q \in Party : Sessions(records'[p][q]) = {}

SoundChange(held, B, O) ==
    /\ \A p \in Party : nextKey[p] <= nextKey'[p]
    /\ NewRoles(held, B, O)
    /\ sent \subseteq sent' /\ \A m \in sent' : m \in sent \cup held \/ NewlySent(held, m)
    /\ \A p, q \in Party : KeptRecord(p, q) \/ ReplacedRecord(held, p, q, B)
    /\ \A p \in Party : \A m \in opened'[p] : m \in opened[p] \/ NewlyOpened(held, p, m)
    /\ \A p \in Party : Continues(p) \/ Restarts(p)

\* The receiver chains of a record stand where messages, or the step before, left them.
Stands(p, q, c) ==
    \/ Follows(p, q, c)
    \/ \E v \in Sessions(records[p][q]) : \E d \in ToSet(v.receivers) :
          d.root = c.root /\ d.index = c.index
FollowsOn(p, q) ==
    \A u \in Sessions(records'[p][q]) : \A c \in ToSet(u.receivers) : Stands(p, q, c)
FollowChange == sent \subseteq sent' /\ \A p, q \in Party : FollowsOn(p, q)

LEMMA SessionType ==
    ASSUME TypeOK, NEW p \in Party, NEW q \in Party, NEW s \in Sessions(records[p][q])
    PROVE  s \in Session /\ s.root \in RootKey /\ s.base \in Key /\ s.local \in Key
<1>1. records[p][q] \in Record
  BY RecordType
<1>2. s \in Session
  BY <1>1, SessionsOfRecord
<1> QED
  BY <1>2 DEF Session

LEMMA SentType ==
    ASSUME TypeOK, NEW m \in sent
    PROVE  m \in Message /\ m.key.root \in RootKey /\ m.from \in Party /\ m.to \in Party
           /\ m.ratchet \in Key
  BY MessageFields DEF TypeOK, MessageKey

LEMMA RolesGrow ==
    ASSUME NEW held \in SUBSET Message,
           NEW B, NEW O, SoundChange(held, B, O), NEW k
    PROVE  /\ IsBase(held, k)' => IsBase(held, k) \/ k \in B
           /\ IsOther(held, k)' => IsOther(held, k) \/ k \in O
<1>1. IsBase(held, k)' => IsBase(held, k) \/ k \in B
  <2>1. ASSUME NEW p \in Party, k \in kyberUsed'[p]
        PROVE  IsBase(held, k)
    BY <2>1 DEF SoundChange, NewRoles
  <2>2. ASSUME NEW m \in sent' \cup held, m.type = "prekey", m.base = k
        PROVE  IsBase(held, k)
    <3>1. CASE m \in sent
      BY <2>2, <3>1 DEF IsBase
    <3>2. CASE NewlySent(held, m)
      BY <2>2, <3>2 DEF NewlySent
    <3>3. CASE m \in held
      BY <2>2, <3>3 DEF IsBase
    <3> QED BY <2>2, <3>1, <3>2, <3>3 DEF SoundChange
  <2>3. ASSUME NEW p \in Party, NEW q \in Party, NEW u \in Sessions(records'[p][q]), u.base = k
        PROVE  IsBase(held, k) \/ k \in B
    <3>1. CASE KeptRecord(p, q)
      <4>1. PICK v \in Sessions(records[p][q]) : Same(u, v)
        BY <3>1 DEF KeptRecord
      <4>2. v.base = k
        BY <4>1, <2>3 DEF Same
      <4> QED BY <4>2 DEF IsBase
    <3>2. CASE ReplacedRecord(held, p, q, B)
      BY <2>3, <3>2 DEF ReplacedRecord
    <3> QED BY <3>1, <3>2 DEF SoundChange
  <2> QED BY <2>1, <2>2, <2>3 DEF IsBase
<1>2. IsOther(held, k)' => IsOther(held, k) \/ k \in O
  <2>1. ASSUME NEW p \in Party, k \in OwnKeys(p)'
        PROVE  IsOther(held, k) \/ k \in O
    BY <2>1 DEF SoundChange, NewRoles
  <2>2. ASSUME NEW m \in sent' \cup held, m.sender = k
        PROVE  IsOther(held, k)
    <3>1. CASE m \in sent
      BY <2>2, <3>1 DEF IsOther
    <3>2. CASE NewlySent(held, m)
      BY <2>2, <3>2 DEF NewlySent
    <3>3. CASE m \in held
      BY <2>2, <3>3 DEF IsOther
    <3> QED BY <2>2, <3>1, <3>2, <3>3 DEF SoundChange
  <2>3. ASSUME NEW p \in Party, NEW q \in Party, NEW u \in Sessions(records'[p][q]), u.local = k
        PROVE  IsOther(held, k)
    <3>1. CASE KeptRecord(p, q)
      <4>1. PICK v \in Sessions(records[p][q]) : Same(u, v)
        BY <3>1 DEF KeptRecord
      <4>2. v.local = k
        BY <4>1, <2>3 DEF Same
      <4> QED BY <4>2 DEF IsOther
    <3>2. CASE ReplacedRecord(held, p, q, B)
      BY <2>3, <3>2 DEF ReplacedRecord
    <3> QED BY <3>1, <3>2 DEF SoundChange
  <2> QED BY <2>1, <2>2, <2>3 DEF IsOther
<1> QED
  BY <1>1, <1>2

\* A key pair known already, and the base key of no handshake.
Plain(held, k) == Known(k) /\ ~IsBase(held, k)

PlainStays(held) == \A k \in Key : Plain(held, k) => Plain(held, k)'

LEMMA SoundStep ==
    ASSUME NEW held \in SUBSET Message,
           TypeOK, TypeOK', RecordsInv(held), NEW B, NEW O, SoundChange(held, B, O)
    PROVE  RecordsInv(held)' /\ PlainStays(held)
<1>1. /\ \A k \in Key : Known(k) => Known(k)'
      /\ \A root \in RootKey : KnownRoot(root) => KnownRoot(root)'
  BY KnownStays DEF SoundChange
<1>2. \A k \in B : k \in Key /\ ~Known(k)
  BY DEF SoundChange, NewRoles
<1>3. \A k \in Key : /\ IsBase(held, k) \/ IsOther(held, k) => Known(k)
                     /\ ~(IsBase(held, k) /\ IsOther(held, k))
  BY DEF RecordsInv, RolesApart
<1>4. RolesApart(held)'
  <2> SUFFICES ASSUME NEW k \in Key
               PROVE  /\ IsBase(held, k)' \/ IsOther(held, k)' => Known(k)'
                      /\ ~(IsBase(held, k)' /\ IsOther(held, k)')
    BY DEF RolesApart
  <2>1. /\ IsBase(held, k)' => IsBase(held, k) \/ k \in B
        /\ IsOther(held, k)' => IsOther(held, k) \/ k \in O
    BY RolesGrow
  <2>2. /\ k \in B \/ k \in O => ~Known(k) /\ Known(k)'
        /\ ~(k \in B /\ k \in O)
    BY DEF SoundChange, NewRoles
  <2> QED BY <2>1, <2>2, <1>1, <1>3
\* a root key known before the step holds no base key generated by it
<1>5. ASSUME NEW root \in RootKey, KnownRoot(root), NEW k \in root[1], IsBase(held, k)'
      PROVE  k \in Key /\ IsBase(held, k)
  <2>1. k \in Key /\ Known(k)
    BY <1>5, FirstOfRoot
  <2> QED BY <2>1, <1>2, <1>5, RolesGrow
<1>6. ASSUME NEW p \in Party, NEW q \in Party, KeptRecord(p, q), NEW u \in Sessions(records'[p][q])
      PROVE  /\ SessionSound(u) /\ KnownRoot(u.root)'
             /\ HandshakeSound(p, kyberUsed'[p], u) /\ OneBase(held, u)'
             /\ \A m \in opened[p] : Forgotten(u, m)
  <2>1. PICK v \in Sessions(records[p][q]) : Same(u, v)
    BY <1>6 DEF KeptRecord
  <2>2. v \in Session /\ v.root \in RootKey
    BY SessionType
  <2>3. /\ SessionSound(v) /\ KnownRoot(v.root) /\ HandshakeSound(p, kyberUsed[p], v)
        /\ OneBase(held, v)
    BY DEF RecordsInv, SessionsSound
  <2>4. u.root = v.root /\ u.base = v.base
    BY <2>1 DEF Same
  <2>5. SessionSound(u) /\ HandshakeSound(p, kyberUsed[p], u)
    BY <2>1, <2>3, SameProperties
  <2>6. Continues(p)
    BY <1>6 DEF SoundChange, Restarts
  <2>7. HandshakeSound(p, kyberUsed'[p], u)
    BY <2>5, <2>6 DEF HandshakeSound, Continues
  <2>8. \A k \in u.root[1] : IsBase(held, k)' => k = u.base
    BY <2>2, <2>3, <2>4, <1>5 DEF OneBase
  <2>9. \A m \in opened[p] : Forgotten(u, m)
    BY <2>1, SameProperties DEF RecordsInv, OpenedForgotten
  <2>10. KnownRoot(u.root)'
    <3>1. KnownRoot(v.root)'
      BY <2>2, <2>3, <1>1
    <3> QED BY <3>1, <2>4
  <2> QED BY <2>5, <2>7, <2>8, <2>9, <2>10 DEF OneBase
<1>7. ASSUME NEW p \in Party, NEW q \in Party, ReplacedRecord(held, p, q, B),
             NEW u \in Sessions(records'[p][q])
      PROVE  /\ SessionSound(u) /\ KnownRoot(u.root)'
             /\ HandshakeSound(p, kyberUsed'[p], u) /\ OneBase(held, u)'
             /\ \A m \in opened[p] : Forgotten(u, m)
  <2>1. \A k \in u.root[1] : IsBase(held, k)' => k = u.base
    BY <1>7, RolesGrow DEF ReplacedRecord
  <2> QED BY <1>7, <2>1 DEF ReplacedRecord, OneBase
<1>8. ASSUME NEW p \in Party, NEW q \in Party, NEW u \in Sessions(records'[p][q])
      PROVE  /\ SessionSound(u) /\ KnownRoot(u.root)'
             /\ HandshakeSound(p, kyberUsed'[p], u) /\ OneBase(held, u)'
             /\ \A m \in opened[p] : Forgotten(u, m)
  <2>1. KeptRecord(p, q) \/ ReplacedRecord(held, p, q, B)
    BY DEF SoundChange
  <2> QED BY <2>1, <1>6, <1>7
<1>9. SessionsSound(held)'
  BY <1>8 DEF SessionsSound
<1>10. SessionsApart'
  <2> SUFFICES ASSUME NEW p \in Party, NEW q \in Party, NEW x \in Party,
                      NEW u \in Sessions(records'[p][q]), NEW v \in Sessions(records'[p][x]),
                      u.root # v.root
               PROVE  Apart(u, v)
    BY DEF SessionsApart
  <2>1. CASE KeptRecord(p, q) /\ KeptRecord(p, x)
    <3>1. PICK u0 \in Sessions(records[p][q]) : Same(u, u0)
      BY <2>1 DEF KeptRecord
    <3>2. PICK v0 \in Sessions(records[p][x]) : Same(v, v0)
      BY <2>1 DEF KeptRecord
    <3>3. u0.root # v0.root
      BY <3>1, <3>2 DEF Same
    <3>4. Apart(u0, v0)
      BY <3>3 DEF RecordsInv, SessionsApart
    <3> QED BY <3>1, <3>2, <3>4, SameApart
  <2>2. CASE ReplacedRecord(held, p, q, B)
    BY <2>2 DEF ReplacedRecord
  <2>3. CASE ReplacedRecord(held, p, x, B)
    <3>1. Apart(v, u)
      BY <2>3 DEF ReplacedRecord
    <3> QED BY <3>1, ApartSymmetric
  <2> QED BY <2>1, <2>2, <2>3 DEF SoundChange
<1>11. MessagesSound(held)'
  <2> SUFFICES ASSUME NEW m \in sent' \cup held
               PROVE  /\ m.from # m.to /\ KnownRoot(m.key.root)' /\ Known(m.ratchet)'
                      /\ m.type = "prekey" => m.base[1] = m.from
    BY DEF MessagesSound
  <2>1. m.key.root \in RootKey /\ m.ratchet \in Key
    BY MessageFields DEF TypeOK, MessageKey
  <2>2. /\ m.from # m.to /\ KnownRoot(m.key.root) /\ Known(m.ratchet)
        /\ m.type = "prekey" => m.base[1] = m.from
    <3>1. CASE m \in sent \cup held
      BY <3>1 DEF RecordsInv, MessagesSound
    <3>2. CASE NewlySent(held, m)
      BY <3>2 DEF NewlySent
    <3> QED BY <3>1, <3>2 DEF SoundChange
  <2> QED BY <2>1, <2>2, <1>1
<1>12. OpenedForgotten(held)'
  <2> SUFFICES ASSUME NEW p \in Party, NEW m \in opened'[p]
               PROVE  /\ m \in sent' /\ m.to = p
                      /\ \A q \in Party : \A s \in Sessions(records'[p][q]) : Forgotten(s, m)
                      /\ Answered(held, p, m)'
    BY DEF OpenedForgotten
  <2>1. m \in sent
    BY DEF SoundChange, NewlyOpened, RecordsInv, OpenedForgotten
  <2>2. m.to = p /\ m.from \in Party /\ m.key.root \in RootKey /\ KnownRoot(m.key.root)
    <3>1. m.to = p
      BY DEF SoundChange, NewlyOpened, RecordsInv, OpenedForgotten
    <3> QED BY <3>1, <2>1, SentType DEF RecordsInv, MessagesSound
  <2>3. m \in sent'
    BY <2>1 DEF SoundChange
  <2>4. CASE m \in opened[p]
    <3>1. \A q \in Party : \A s \in Sessions(records'[p][q]) : Forgotten(s, m)
      BY <2>4, <1>8
    <3>2. Answered(held, p, m)'
      <4> SUFFICES ASSUME identity'[p] \in m.key.root[1],
                          NEW k \in m.key.root[1], IsBase(held, k)', k[1] # p
                   PROVE  k \in kyberUsed'[p]
        BY DEF Answered
      <4>1. Known(identity'[p])
        BY <2>2, FirstOfRoot
      <4>2. Continues(p)
        BY <4>1 DEF SoundChange, Restarts
      <4>3. IsBase(held, k)
        BY <2>2, <1>5
      <4> QED BY <2>4, <4>2, <4>3 DEF Continues, RecordsInv, OpenedForgotten, Answered
    <3> QED BY <2>2, <2>3, <3>1, <3>2
  <2>5. CASE NewlyOpened(held, p, m)
    <3>1. Answered(held, p, m)'
      <4> SUFFICES ASSUME identity'[p] \in m.key.root[1],
                          NEW k \in m.key.root[1], IsBase(held, k)', k[1] # p
                   PROVE  k \in kyberUsed'[p]
        BY DEF Answered
      <4>1. IsBase(held, k)
        BY <2>2, <1>5
      <4> QED BY <2>5, <4>1 DEF NewlyOpened
    <3> QED BY <2>2, <2>3, <2>5, <3>1 DEF NewlyOpened
  <2> QED BY <2>4, <2>5 DEF SoundChange
<1>13. PlainStays(held)
  <2>1. ASSUME NEW k \in Key, Plain(held, k)
        PROVE  Plain(held, k)'
    <3>1. Known(k) /\ Known(k)' /\ ~IsBase(held, k)
      BY <2>1, <1>1 DEF Plain
    <3>2. ~IsBase(held, k)'
      BY <3>1, <1>2, RolesGrow
    <3> QED BY <3>1, <3>2 DEF Plain
  <2> QED BY <2>1 DEF PlainStays
<1> QED
  BY <1>4, <1>9, <1>10, <1>11, <1>12, <1>13 DEF RecordsInv

LEMMA KeptFollows ==
    ASSUME NEW p \in Party, NEW q \in Party, KeptRecord(p, q)
    PROVE  FollowsOn(p, q)
<1> SUFFICES ASSUME NEW u \in Sessions(records'[p][q]), NEW c \in ToSet(u.receivers)
             PROVE  Stands(p, q, c)
  BY DEF FollowsOn
<1>1. PICK v \in Sessions(records[p][q]) : Same(u, v)
  BY DEF KeptRecord
<1> QED
  BY <1>1 DEF Same, Stands

LEMMA FollowStep ==
    ASSUME ReceiversFollowSender, FollowChange
    PROVE  ReceiversFollowSender'
<1>1. ASSUME NEW p \in Party, NEW q \in Party, NEW c, Stands(p, q, c)
      PROVE  Follows(p, q, c)
  <2>1. ASSUME NEW v \in Sessions(records[p][q]), NEW d \in ToSet(v.receivers),
               d.root = c.root, d.index = c.index
        PROVE  Follows(p, q, c)
    <3>1. Follows(p, q, d)
      BY DEF ReceiversFollowSender, Follows
    <3> QED BY <3>1, <2>1 DEF Follows
  <2> QED BY <1>1, <2>1 DEF Stands
<1>2. sent \subseteq sent'
  BY DEF FollowChange
<1>3. ASSUME NEW p \in Party, NEW q \in Party, NEW u \in Sessions(records'[p][q]),
             NEW c \in ToSet(u.receivers)
      PROVE  Follows(p, q, c)
  BY <1>1 DEF FollowChange, FollowsOn
<1> SUFFICES ASSUME NEW p \in Party, NEW q \in Party, NEW u \in Sessions(records'[p][q]),
                    NEW c \in ToSet(u.receivers), c.index > 0
             PROVE  \E m \in sent' : m.from = q /\ m.to = p
                                       /\ m.key = [root |-> c.root, index |-> c.index - 1]
  BY DEF ReceiversFollowSender
<1> QED
  BY <1>2, <1>3 DEF Follows

-----------------------------------------------------------------------------
(* Decryption and the receiver's invariant                                 *)

\* A session of p a message may be tried on, and a record of such sessions, which have
\* nothing in common with the sessions of the other records of p.
Ready(held, p, used, s) ==
    /\ SessionSound(s) /\ KnownRoot(s.root) /\ Known(s.sender.ratchet)
    /\ HandshakeSound(p, used, s) /\ OneBase(held, s)
    /\ IsBase(held, s.base) /\ IsOther(held, s.local)
    /\ \A m \in opened[p] : Forgotten(s, m)
Elsewhere(p, q, s) ==
    \A x \in Party \ {q} : \A v \in Sessions(records[p][x]) : v.root # s.root /\ Apart(s, v)
Prepared(held, p, q, used, r) ==
    /\ r \in Record /\ ChainsDistinct(r)
    /\ \A s \in Sessions(r) : Ready(held, p, used, s) /\ Elsewhere(p, q, s)
    /\ \A s, t \in Sessions(r) : s.root # t.root => Apart(s, t)

LEMMA RecordReady ==
    ASSUME NEW held \in SUBSET Message,
           TypeOK, ChainInv, RecordsInv(held), NEW p \in Party, NEW q \in Party,
           NEW v \in Sessions(records[p][q]), NEW used, kyberUsed[p] \subseteq used
    PROVE  Ready(held, p, used, v) /\ Elsewhere(p, q, v)
<1>1. SessionSound(v) /\ KnownRoot(v.root) /\ OneBase(held, v) /\ HandshakeSound(p, kyberUsed[p], v)
  BY DEF RecordsInv, SessionsSound
<1>2. HandshakeSound(p, used, v)
  BY <1>1 DEF HandshakeSound
<1>3. v.sender \in SenderChains(records[p][q])
  BY DEF SenderChains
<1>4. Known(v.sender.ratchet)
  BY <1>3 DEF ChainInv, KeysKnown, KnownChain
<1>5. IsBase(held, v.base) /\ IsOther(held, v.local)
  BY DEF IsBase, IsOther
<1>6. \A m \in opened[p] : Forgotten(v, m)
  BY DEF RecordsInv, OpenedForgotten
<1>7. ASSUME NEW x \in Party \ {q}, NEW w \in Sessions(records[p][x])
      PROVE  w.root # v.root /\ Apart(v, w)
  <2>1. w.sender.root = w.root /\ v.sender.root = v.root
    BY <1>1 DEF RecordsInv, SessionsSound, SessionSound
  <2>2. w.sender \in SenderChains(records[p][x])
    BY DEF SenderChains
  <2>3. w.sender.root # v.sender.root
    BY <1>3, <2>2 DEF ChainInv, ChainsApart
  <2>4. w.root # v.root
    BY <2>1, <2>3
  <2> QED BY <2>4 DEF RecordsInv, SessionsApart
<1> QED
  BY <1>1, <1>2, <1>4, <1>5, <1>6, <1>7 DEF Ready, Elsewhere

LEMMA SameReady ==
    ASSUME NEW held \in SUBSET Message,
           NEW p, NEW used, NEW v, Ready(held, p, used, v), NEW u, Same(u, v)
    PROVE  Ready(held, p, used, u)
<1>1. SessionSound(u) /\ HandshakeSound(p, used, u)
  BY SameProperties DEF Ready
<1>2. \A m \in opened[p] : Forgotten(u, m)
  BY SameProperties DEF Ready
<1>3. /\ KnownRoot(u.root) /\ Known(u.sender.ratchet) /\ OneBase(held, u)
      /\ IsBase(held, u.base) /\ IsOther(held, u.local)
  BY DEF Ready, Same, OneBase
<1> QED
  BY <1>1, <1>2, <1>3 DEF Ready

LEMMA SameElsewhere ==
    ASSUME NEW p, NEW q, NEW v, Elsewhere(p, q, v), NEW u, Same(u, v)
    PROVE  Elsewhere(p, q, u)
  BY DEF Elsewhere, Same, Apart

\* The record as it is stored, or with a matching session promoted, is prepared.
LEMMA PreparedAlike ==
    ASSUME NEW held \in SUBSET Message,
           TypeOK, ChainInv, RecordsInv(held), NEW p \in Party, NEW q \in Party,
           NEW used, kyberUsed[p] \subseteq used,
           NEW r \in Record, ChainsDistinct(r),
           \A u \in Sessions(r) : \E v \in Sessions(records[p][q]) : Alike(u, v)
    PROVE  Prepared(held, p, q, used, r)
<1>1. ASSUME NEW u \in Sessions(r)
      PROVE  \E v \in Sessions(records[p][q]) : Same(u, v)
  <2>1. PICK v \in Sessions(records[p][q]) : Alike(u, v)
    OBVIOUS
  <2>2. v \in Session
    BY SessionType
  <2> QED BY <2>1, <2>2, AlikeIsSame
<1>2. \A u \in Sessions(r) : Ready(held, p, used, u) /\ Elsewhere(p, q, u)
  BY <1>1, RecordReady, SameReady, SameElsewhere
<1>3. ASSUME NEW u \in Sessions(r), NEW u2 \in Sessions(r), u.root # u2.root
      PROVE  Apart(u, u2)
  <2>1. PICK v \in Sessions(records[p][q]) : Same(u, v)
    BY <1>1
  <2>2. PICK v2 \in Sessions(records[p][q]) : Same(u2, v2)
    BY <1>1
  <2>3. v.root # v2.root
    BY <1>3, <2>1, <2>2 DEF Same
  <2>4. Apart(v, v2)
    BY <2>3 DEF RecordsInv, SessionsApart
  <2> QED BY <2>1, <2>2, <2>4, SameApart
<1> QED
  BY <1>2, <1>3 DEF Prepared

\* What a decryption does to the state, once the record is prepared.  The record is the
\* one p keeps for q.
Receives(held, p, q, m, r) ==
    /\ Prepared(held, p, q, kyberUsed'[p], r)
    /\ DecryptWithRecord(r, m, NewKey(p, 0)).verdict = "ok"
    /\ StoreSession(p, q, DecryptWithRecord(r, m, NewKey(p, 0)).record)
    /\ UseNewKey(p, q, DecryptWithRecord(r, m, NewKey(p, 0)).record)
    /\ Opens(p, m)
    /\ \A x \in Party : kyberUsed[x] \subseteq kyberUsed'[x] /\ preKeys'[x] \subseteq preKeys[x]
    /\ \A x \in Party : \A k \in kyberUsed'[x] : IsBase(held, k)
    /\ UNCHANGED <<identity, signedPreKey, published, sent>>

\* The session t after the turn is as good as the sessions of the prepared record,
\* and has forgotten the message.
LEMMA TurnedSession ==
    ASSUME NEW held \in SUBSET Message,
           TypeOK, TypeOK', RecordsInv(held), NEW p \in Party, NEW used,
           NEW m \in sent, NEW n \in Nat, NEW fresh, fresh = NewKey(p, n),
           \A x \in Party : nextKey[x] <= nextKey'[x],
           NEW s \in Session, Ready(held, p, used, s),
           NEW t, Turns(s, t, m, fresh), t.sender.ratchet = fresh => Known(fresh)'
    PROVE  /\ SessionSound(t) /\ KnownRoot(t.root)' /\ HandshakeSound(p, used, t) /\ OneBase(held, t)
           /\ IsBase(held, t.base) /\ IsOther(held, t.local)
           /\ \A o \in opened[p] : Forgotten(t, o)
           /\ Forgotten(t, m)
           /\ m \notin opened[p]
<1>1. fresh \in Key
  BY NewKeyType
<1>2. /\ m \in Message /\ m.key.root \in RootKey /\ m.ratchet \in Key
      /\ KnownRoot(m.key.root) /\ Known(m.ratchet)
  BY SentType DEF RecordsInv, MessagesSound
<1>3. \A root : KnownRoot(root) => UnusedIn(fresh, root)
  BY NewKeyUnused
<1>4. SessionSound(s) /\ Turns(s, t, m, fresh)
  BY DEF Ready
<1>5. t.sender.ratchet = fresh => Known(fresh)'
  OBVIOUS
<1>6. /\ t.root \in RootKey /\ s.root \in RootKey
      /\ m.key.root[1] = s.root[1] /\ t.root[1] = s.root[1]
      /\ \/ t.root = s.root
         \/ /\ Len(t.root) >= 1 /\ t.root[Len(t.root)] = {fresh, m.ratchet}
            /\ Len(t.root) = Len(s.root) + 2
            /\ t.root[Len(s.root) + 1] = {s.sender.ratchet, m.ratchet}
            /\ \A i \in 1 .. Len(s.root) : t.root[i] = s.root[i]
  BY <1>1, <1>2, <1>4, TurnsRoots
<1>7. /\ ~Forgotten(s, m) /\ Forgotten(t, m)
      /\ \A o \in Message : Forgotten(s, o) /\ UnusedIn(fresh, o.key.root) => Forgotten(t, o)
  BY <1>1, <1>2, <1>4, TurnsForgets
<1>8. \A k \in Key : Known(k) => Known(k)'
  BY KnownStays
<1>9. KnownRoot(t.root)'
  <2>1. CASE t.root = s.root
    <3>1. KnownRoot(s.root) /\ s.root \in RootKey
      BY <1>6 DEF Ready
    <3>2. KnownRoot(s.root)'
      BY <3>1, KnownStays
    <3> QED BY <2>1, <3>2
  <2>2. CASE t.root # s.root
    <3>1. /\ Len(t.root) = Len(s.root) + 2
          /\ t.root[Len(s.root) + 2] = {fresh, m.ratchet}
          /\ t.root[Len(s.root) + 1] = {s.sender.ratchet, m.ratchet}
          /\ \A i \in 1 .. Len(s.root) : t.root[i] = s.root[i]
      BY <2>2, <1>6
    <3>2. t.sender.ratchet = fresh
      <4>1. \/ t.root = s.root /\ t.sender = s.sender
            \/ t.sender.ratchet = fresh
        BY <1>4 DEF Turns
      <4> QED BY <4>1, <2>2
    <3>3. Known(fresh)' /\ Known(m.ratchet)'
      BY <3>2, <1>2, <1>5, <1>8
    <3>4. Known(s.sender.ratchet)' /\ KnownRoot(s.root)'
      <4>1. s.sender.ratchet \in Key
        BY DEF Session, SenderChain
      <4>2. KnownRoot(s.root)'
        BY <1>6, KnownStays DEF Ready
      <4> QED BY <4>1, <4>2, <1>8 DEF Ready
    <3>5. Len(s.root) \in Nat /\ DOMAIN t.root = 1 .. Len(s.root) + 2
          /\ DOMAIN s.root = 1 .. Len(s.root)
      BY <3>1, <1>6 DEF RootKey
    <3>6. \A i \in 1 .. Len(s.root) + 2 :
            i \in 1 .. Len(s.root) \/ i = Len(s.root) + 1 \/ i = Len(s.root) + 2
      BY <3>5
    <3>7. ASSUME NEW i \in DOMAIN t.root, NEW k \in t.root[i]
          PROVE  Known(k)'
      <4>1. CASE i \in 1 .. Len(s.root)
        <5>1. i \in DOMAIN s.root /\ k \in s.root[i]
          BY <3>1, <3>5, <3>7, <4>1
        <5> QED BY <3>4, <5>1 DEF KnownRoot
      <4>2. CASE i = Len(s.root) + 1
        <5>1. k \in {s.sender.ratchet, m.ratchet}
          BY <3>1, <3>7, <4>2
        <5> QED BY <3>3, <3>4, <5>1
      <4>3. CASE i = Len(s.root) + 2
        <5>1. k \in {fresh, m.ratchet}
          BY <3>1, <3>7, <4>3
        <5> QED BY <3>3, <5>1
      <4> QED BY <3>5, <3>6, <3>7, <4>1, <4>2, <4>3
    <3> QED BY <3>1, <3>5, <3>7 DEF KnownRoot
  <2> QED BY <2>1, <2>2
<1>10. SessionSound(t) /\ t.base = s.base /\ t.local = s.local /\ t.pending = NoPending
  BY <1>4 DEF Turns
<1>11. HandshakeSound(p, used, t) /\ OneBase(held, t) /\ IsBase(held, t.base) /\ IsOther(held, t.local)
  BY <1>6, <1>10 DEF Ready, HandshakeSound, OneBase
<1>12. ASSUME NEW o \in opened[p]
       PROVE  Forgotten(t, o)
  <2>1. o \in Message /\ KnownRoot(o.key.root)
    BY SentType DEF RecordsInv, OpenedForgotten, MessagesSound
  <2>2. Forgotten(s, o)
    BY DEF Ready
  <2> QED BY <2>1, <2>2, <1>3, <1>7
<1>13. m \notin opened[p]
  BY <1>7 DEF Ready
<1> QED
  BY <1>7, <1>9, <1>10, <1>11, <1>12, <1>13

LEMMA SameRecordKept ==
    ASSUME TypeOK, NEW p \in Party, NEW q \in Party, records'[p][q] = records[p][q]
    PROVE  KeptRecord(p, q)
<1>1. \A u \in Sessions(records[p][q]) : Same(u, u)
  BY SessionType DEF Same
<1> QED
  BY <1>1 DEF KeptRecord

\* Whose bases and roots the decrypted message and the record it leaves have.
FromRecord(p, q, m, r) ==
    /\ \A u \in Sessions(records'[p][q]) : \E v \in Sessions(r) : u.base = v.base
    /\ \E v \in Sessions(r) : m.key.root[1] = v.root[1]

\* One decryption keeps the receiver's invariant, and was not made before.
LEMMA ReceivesSound ==
    ASSUME NEW held \in SUBSET Message,
           TypeOK, TypeOK', RecordsInv(held), NEW p \in Party, NEW q \in Party,
           NEW m \in sent, m.to = p, NEW r, Receives(held, p, q, m, r)
    PROVE  /\ RecordsInv(held)' /\ PlainStays(held)
           /\ m \notin opened[p] /\ FromRecord(p, q, m, r)
<1> DEFINE used == kyberUsed'[p]
<1>1. PICK fresh \in Key : fresh = NewKey(p, 0)
  BY NewKeyType
<1>2. m \in Message
  BY SentType
<1>3. /\ r \in Record /\ ChainsDistinct(r)
      /\ \A s \in Sessions(r) : /\ Ready(held, p, used, s) /\ SessionSound(s) /\ s \in Session
                                /\ Elsewhere(p, q, s)
      /\ \A s, t \in Sessions(r) : s.root # t.root => Apart(s, t)
  BY SessionsOfRecord DEF Receives, Prepared, Ready
<1> DEFINE result == DecryptWithRecord(r, m, fresh)
           t == result.record.current
<1>4. /\ result.verdict = "ok"
      /\ StoreSession(p, q, result.record) /\ UseNewKey(p, q, result.record)
  BY <1>1 DEF Receives
<1>5. PICK s \in Sessions(r) :
        /\ Turns(s, t, m, fresh)
        /\ \A u \in Sessions(result.record) :
              \/ u = t
              \/ \E v \in Sessions(r) : v.sender.root # s.sender.root /\ Alike(u, v)
  BY <1>1, <1>2, <1>3, <1>4, DecryptWithRecordTurns
<1>6. \A x, y \in Party : records'[x][y] = IF x = p /\ y = q THEN result.record ELSE records[x][y]
  BY <1>2, <1>4 DEF StoreSession, TypeOK
<1>7. \A x \in Party : nextKey'[x] = IF x = p /\ t.sender.ratchet = fresh THEN nextKey[x] + 1
                                     ELSE nextKey[x]
  BY <1>1, <1>4 DEF UseNewKey, TypeOK
<1> HIDE DEF result, t
<1>8. \A x \in Party : nextKey[x] <= nextKey'[x]
  <2>1. \A x \in Party : nextKey[x] \in Nat /\ (nextKey'[x] = nextKey[x] \/ nextKey'[x] = nextKey[x] + 1)
    BY <1>7 DEF TypeOK
  <2> QED BY <2>1
<1>9. t.sender.ratchet = fresh => Known(fresh)'
  BY <1>1, <1>7 DEF Known, NewKey, TypeOK
<1>10. s \in Session /\ SessionSound(s) /\ Ready(held, p, used, s)
  BY <1>3
<1> HIDE DEF used
<1>11. /\ SessionSound(t) /\ KnownRoot(t.root)' /\ HandshakeSound(p, used, t) /\ OneBase(held, t)
       /\ IsBase(held, t.base) /\ IsOther(held, t.local)
       /\ \A o \in opened[p] : Forgotten(t, o)
       /\ Forgotten(t, m)
       /\ m \notin opened[p]
  BY <1>1, <1>5, <1>8, <1>9, <1>10, TurnedSession
\* a session that is not the one that turned
<1>12. ASSUME NEW v \in Session, Ready(held, p, used, v), Apart(s, v)
       PROVE  Apart(t, v) /\ Forgotten(v, m)
  <2>1. SessionSound(v) /\ KnownRoot(v.root)
    BY <1>12 DEF Ready
  <2>2. UnusedIn(fresh, v.root)
    BY <1>1, <2>1, NewKeyUnused
  <2> QED BY <1>1, <1>2, <1>5, <1>10, <1>12, <2>1, <2>2, TurnsApart
<1>13. ASSUME NEW u, NEW v \in Sessions(r), v.sender.root # s.sender.root, Alike(u, v)
       PROVE  /\ Ready(held, p, used, u) /\ Elsewhere(p, q, u) /\ Same(u, v)
              /\ Apart(t, v) /\ Forgotten(u, m)
  <2>1. v \in Session /\ SessionSound(v) /\ Ready(held, p, used, v) /\ Elsewhere(p, q, v)
    BY <1>3
  <2>2. Same(u, v)
    BY <1>13, <2>1, AlikeIsSame
  <2>3. Apart(s, v)
    BY <1>3, <1>10, <1>13, <2>1 DEF SessionSound
  <2>4. Apart(t, v) /\ Forgotten(v, m)
    BY <1>12, <2>1, <2>3
  <2> QED BY <2>1, <2>2, <2>4, SameReady, SameElsewhere, SameProperties
\* a session of another record
<1>14. ASSUME NEW x \in Party \ {q}, NEW v \in Sessions(records[p][x])
       PROVE  Apart(t, v) /\ Forgotten(v, m)
  <2>1. v \in Session /\ SessionSound(v) /\ KnownRoot(v.root) /\ Apart(s, v)
    BY <1>3, SessionType DEF RecordsInv, SessionsSound, Elsewhere
  <2>2. UnusedIn(fresh, v.root)
    BY <1>1, <2>1, NewKeyUnused
  <2> QED BY <1>1, <1>2, <1>5, <1>10, <2>1, <2>2, TurnsApart
<1>15. \A u \in Sessions(result.record) :
         \/ u = t
         \/ \E v \in Sessions(r) : v.sender.root # s.sender.root /\ Alike(u, v)
  BY <1>5
<1>16. records'[p][q] = result.record /\ \A x \in Party \ {q} : records'[p][x] = records[p][x]
  BY <1>2, <1>6
<1>17. ReplacedRecord(held, p, q, {})
  <2>1. ASSUME NEW u \in Sessions(result.record)
        PROVE  /\ SessionSound(u) /\ KnownRoot(u.root)' /\ HandshakeSound(p, used, u) /\ OneBase(held, u)
               /\ IsBase(held, u.base) /\ IsOther(held, u.local)
               /\ \A o \in opened[p] : Forgotten(u, o)
    <3>1. CASE u = t
      BY <1>11, <3>1
    <3>2. CASE u # t
      <4>1. PICK v \in Sessions(r) : v.sender.root # s.sender.root /\ Alike(u, v)
        BY <1>15, <3>2
      <4>2. Ready(held, p, used, u) /\ u \in Session
        BY <1>13, <4>1 DEF Same
      <4>3. KnownRoot(u.root)'
        BY <4>2, <1>8, KnownStays DEF Ready, Session
      <4> QED BY <4>2, <4>3 DEF Ready
    <3> QED BY <3>1, <3>2
  <2>2. ASSUME NEW u \in Sessions(result.record), NEW w \in Sessions(result.record),
               u.root # w.root
        PROVE  Apart(u, w)
    <3>1. CASE u = t /\ w # t
      <4>1. PICK v \in Sessions(r) : v.sender.root # s.sender.root /\ Alike(w, v)
        BY <1>15, <3>1
      <4>2. Apart(t, v) /\ Same(w, v)
        BY <1>13, <4>1
      <4> QED BY <3>1, <4>2 DEF Apart, Same
    <3>2. CASE u # t /\ w = t
      <4>1. PICK v \in Sessions(r) : v.sender.root # s.sender.root /\ Alike(u, v)
        BY <1>15, <3>2
      <4>2. Apart(t, v) /\ Same(u, v)
        BY <1>13, <4>1
      <4> QED BY <3>2, <4>2 DEF Apart, Same
    <3>3. CASE u # t /\ w # t
      <4>1. PICK v \in Sessions(r) : v.sender.root # s.sender.root /\ Alike(u, v)
        BY <1>15, <3>3
      <4>2. PICK v2 \in Sessions(r) : v2.sender.root # s.sender.root /\ Alike(w, v2)
        BY <1>15, <3>3
      <4>3. Same(u, v) /\ Same(w, v2)
        BY <1>13, <4>1, <4>2
      <4>4. v.root # v2.root
        BY <2>2, <4>3 DEF Same
      <4>5. Apart(v, v2)
        BY <1>3, <4>4
      <4> QED BY <4>3, <4>5, SameApart
    <3> QED BY <2>2, <3>1, <3>2, <3>3
  <2>3. ASSUME NEW u \in Sessions(result.record), NEW x \in Party \ {q},
               NEW v \in Sessions(records'[p][x])
        PROVE  Apart(u, v)
    <3>1. v \in Sessions(records[p][x])
      BY <1>16
    <3>2. CASE u = t
      BY <3>1, <3>2, <1>14
    <3>3. CASE u # t
      <4>1. PICK w \in Sessions(r) : w.sender.root # s.sender.root /\ Alike(u, w)
        BY <1>15, <3>3
      <4>2. Elsewhere(p, q, u)
        BY <1>13, <4>1
      <4> QED BY <3>1, <4>2 DEF Elsewhere
    <3> QED BY <3>2, <3>3
  <2>4. ASSUME NEW x \in Party, NEW u \in Sessions(result.record), NEW v \in Sessions(records'[p][x]),
               u.root # v.root
        PROVE  Apart(u, v)
    BY <2>2, <2>3, <2>4, <1>16
  <2> QED BY <2>1, <2>4, <1>16 DEF ReplacedRecord, OneBase, used
<1>20. FromRecord(p, q, m, r)
  <2>1. t.base = s.base
    BY <1>5 DEF Turns
  <2>2. ASSUME NEW u \in Sessions(result.record)
        PROVE  \E v \in Sessions(r) : u.base = v.base
    BY <2>1, <1>13, <1>15 DEF Same
  <2>3. m.key.root[1] = s.root[1]
    BY <1>1, <1>2, <1>5, <1>10, TurnsRoots
  <2> QED BY <2>2, <2>3, <1>16 DEF FromRecord
<1>18. NewlyOpened(held, p, m)
  <2>1. ASSUME NEW x \in Party, NEW u \in Sessions(records'[p][x])
        PROVE  Forgotten(u, m)
    <3>1. CASE x = q
      <4>1. u \in Sessions(result.record)
        BY <3>1, <1>16
      <4> QED BY <4>1, <1>11, <1>13, <1>15
    <3>2. CASE x # q
      BY <3>2, <1>14, <1>16
    <3> QED BY <3>1, <3>2
  <2>2. m.key.root[1] = s.root[1]
    BY <1>1, <1>2, <1>5, <1>10, TurnsRoots
  <2>3. \A k \in m.key.root[1] : IsBase(held, k) /\ k[1] # p => k \in used
    BY <1>10, <2>2 DEF Ready, OneBase, HandshakeSound
  <2> QED BY <2>1, <2>3 DEF NewlyOpened, used
<1>19. SoundChange(held, {}, {})
  <2>1. NewRoles(held, {}, {})
    <3>1. \A x \in Party : OwnKeys(x)' \subseteq OwnKeys(x)
      BY DEF Receives, OwnKeys
    <3>2. \A x \in Party : \A k \in OwnKeys(x)' : IsOther(held, k)
      BY <3>1 DEF IsOther
    <3> QED BY <3>2 DEF NewRoles, Receives
  <2>2. \A x, y \in Party : KeptRecord(x, y) \/ ReplacedRecord(held, x, y, {})
    BY <1>6, <1>17, SameRecordKept
  <2>3. \A x \in Party : \A o \in opened'[x] : o \in opened[x] \/ NewlyOpened(held, x, o)
    BY <1>18 DEF Receives, Opens, TypeOK
  <2>4. \A x \in Party : Continues(x)
    BY DEF Receives, Continues
  <2>5. sent' = sent
    BY DEF Receives
  <2> QED BY <1>8, <2>1, <2>2, <2>3, <2>4, <2>5 DEF SoundChange
<1> QED
  BY <1>11, <1>19, <1>20, SoundStep

\* The receiver chains of the record r were those of the record p keeps for q.
ChainsFrom(p, q, r) ==
    \A u \in Sessions(r) : \A c \in ToSet(u.receivers) :
        \E v \in Sessions(records[p][q]) : c \in ToSet(v.receivers)

LEMMA AlikeDescends ==
    ASSUME TypeOK, NEW p \in Party, NEW q \in Party, NEW r,
           \A u \in Sessions(r) : \E v \in Sessions(records[p][q]) : Alike(u, v)
    PROVE  ChainsFrom(p, q, r)
<1> SUFFICES ASSUME NEW u \in Sessions(r), NEW c \in ToSet(u.receivers)
             PROVE  \E v \in Sessions(records[p][q]) : c \in ToSet(v.receivers)
  BY DEF ChainsFrom
<1>1. PICK v \in Sessions(records[p][q]) : Alike(u, v)
  OBVIOUS
<1>2. Same(u, v)
  BY <1>1, SessionType, AlikeIsSame
<1> QED
  BY <1>2 DEF Same

LEMMA BobDescends ==
    ASSUME TypeOK, NEW p \in Party, NEW q \in Party, NEW r \in Record, r = records[p][q],
           NEW own \in Key, NEW sender \in Key, NEW base \in Key, NEW signed \in Key,
           NEW preKey \in OptionalKey
    PROVE  ChainsFrom(p, q, PromoteState(r, InitializeBob(own, sender, base, signed, preKey)))
<1> DEFINE b == InitializeBob(own, sender, base, signed, preKey)
<1>1. b \in Session
  BY InitializeBobSound
<1>2. ToSet(b.receivers) = {}
  BY InitializeBobSound
<1> HIDE DEF b
<1>3. ASSUME NEW u \in Sessions(PromoteState(r, b))
      PROVE  u = b \/ \E v \in Sessions(r) : Same(u, v)
  <2>1. \/ u = b
        \/ r.current # NoSession /\ u = ClearPending(r.current)
        \/ \E j \in DOMAIN r.previous : u = r.previous[j]
    BY <1>1, SessionsAfterPromote
  <2>2. u = b \/ \E v \in Sessions(r) : Alike(u, v)
    BY <2>1, SessionsOfRecord DEF Alike
  <2> QED BY <2>2, SessionType, AlikeIsSame
<1>4. ChainsFrom(p, q, PromoteState(r, b))
  BY <1>2, <1>3 DEF ChainsFrom, Same
<1> QED
  BY <1>4 DEF b

\* It leaves the receiver chains where messages left them.
LEMMA ReceivesFollow ==
    ASSUME NEW held \in SUBSET Message,
           TypeOK, NEW p \in Party, NEW q \in Party, NEW m \in sent, m.from = q, m.to = p,
           NEW r, Receives(held, p, q, m, r), ChainsFrom(p, q, r)
    PROVE  FollowChange
<1>1. PICK fresh \in Key : fresh = NewKey(p, 0)
  BY NewKeyType
<1>2. m \in Message
  BY SentType
<1>3. r \in Record /\ ChainsDistinct(r) /\ \A s \in Sessions(r) : SessionSound(s) /\ s \in Session
  BY SessionsOfRecord DEF Receives, Prepared, Ready
<1> DEFINE result == DecryptWithRecord(r, m, fresh)
           t == result.record.current
<1>4. result.verdict = "ok" /\ StoreSession(p, q, result.record) /\ UNCHANGED sent
  BY <1>1 DEF Receives
<1>5. PICK s \in Sessions(r) :
        /\ Turns(s, t, m, fresh)
        /\ \A u \in Sessions(result.record) :
              \/ u = t
              \/ \E v \in Sessions(r) : v.sender.root # s.sender.root /\ Alike(u, v)
  BY <1>1, <1>2, <1>3, <1>4, DecryptWithRecordTurns
<1>6. \A x, y \in Party : records'[x][y] = IF x = p /\ y = q THEN result.record ELSE records[x][y]
  BY <1>4 DEF StoreSession, TypeOK
<1> HIDE DEF result, t
<1>7. ASSUME NEW d, NEW u \in Sessions(r), NEW c \in ToSet(u.receivers),
             c.root = d.root, c.index = d.index
      PROVE  Stands(p, q, d)
  <2>1. PICK v \in Sessions(records[p][q]) : c \in ToSet(v.receivers)
    BY DEF ChainsFrom
  <2> QED BY <1>7, <2>1 DEF Stands
<1>8. ASSUME NEW d \in ToSet(t.receivers)
      PROVE  Stands(p, q, d)
  <2>1. m.key.index \in Nat /\ m.key = [root |-> m.key.root, index |-> m.key.index]
    BY <1>2, MessageFields DEF MessageKey
  <2>2. \/ d \in ToSet(s.receivers)
        \/ /\ d.root = m.key.root
           /\ \/ d.index \in {0, m.key.index + 1}
              \/ \E c \in ToSet(s.receivers) : c.root = m.key.root /\ d.index = c.index
    BY <1>5 DEF Turns, UsedFor
  <2>3. CASE d \in ToSet(s.receivers)
    BY <2>3, <1>7
  <2>4. CASE d.root = m.key.root /\ d.index = 0
    BY <2>4 DEF Follows, Stands
  <2>5. CASE d.root = m.key.root /\ d.index = m.key.index + 1
    <3>1. m.key = [root |-> d.root, index |-> d.index - 1]
      BY <2>1, <2>5
    <3> QED BY <3>1 DEF Follows, Stands
  <2>6. CASE d.root = m.key.root /\ \E c \in ToSet(s.receivers) : c.root = m.key.root /\ d.index = c.index
    BY <2>6, <1>7
  <2> QED BY <2>2, <2>3, <2>4, <2>5, <2>6
<1>9. ASSUME NEW u \in Sessions(result.record), NEW c \in ToSet(u.receivers)
      PROVE  Stands(p, q, c)
  <2>1. CASE u = t
    BY <1>8, <1>9, <2>1
  <2>2. CASE u # t
    <3>1. PICK v \in Sessions(r) : Alike(u, v)
      BY <1>5, <2>2
    <3>2. Same(u, v)
      BY <3>1, <1>3, AlikeIsSame
    <3> QED BY <3>2, <1>7 DEF Same
  <2> QED BY <2>1, <2>2
<1>10. ASSUME NEW x \in Party, NEW y \in Party
       PROVE  FollowsOn(x, y)
  <2>1. CASE x = p /\ y = q
    BY <2>1, <1>6, <1>9 DEF FollowsOn
  <2>2. CASE ~(x = p /\ y = q)
    BY <2>2, <1>6, SameRecordKept, KeptFollows
  <2> QED BY <2>1, <2>2
<1> QED
  BY <1>4, <1>10 DEF FollowChange

\* A base key p has no session of, and has opened no message of since it was set up.
FreeBase(p, base) ==
    /\ \A x \in Party : \A s \in Sessions(records[p][x]) : s.base # base
    /\ \A o \in opened[p] : identity[p] \in o.key.root[1] => base \notin o.key.root[1]

LEMMA UnusedBaseFree ==
    ASSUME NEW held \in SUBSET Message,
           TypeOK, RecordsInv(held), NEW p \in Party, NEW m \in sent, m.to = p, m.type = "prekey",
           m.base \notin kyberUsed[p]
    PROVE  FreeBase(p, m.base)
<1>1. m.base[1] # p /\ IsBase(held, m.base)
  BY DEF RecordsInv, MessagesSound, IsBase
<1>2. ASSUME NEW x \in Party, NEW s \in Sessions(records[p][x])
      PROVE  s.base # m.base
  <2>1. HandshakeSound(p, kyberUsed[p], s)
    BY DEF RecordsInv, SessionsSound
  <2> QED BY <1>1, <2>1 DEF HandshakeSound
<1>3. \A o \in opened[p] : Answered(held, p, o)
  BY DEF RecordsInv, OpenedForgotten
<1> QED
  BY <1>1, <1>2, <1>3 DEF FreeBase, Answered

\* The session of a responder, with its record, is prepared: its base key is the base
\* key of no other session and of no message opened before.
LEMMA PreparedNew ==
    ASSUME NEW held \in SUBSET Message,
           TypeOK, ChainInv, RecordsInv(held), NEW p \in Party, NEW q \in Party,
           NEW m \in sent, m.to = p, m.type = "prekey",
           m.signedPreKey = signedPreKey[p],
           m.preKey # NoKey => Known(m.preKey) /\ ~IsBase(held, m.preKey),
           FreeBase(p, m.base),
           NEW own, own = identity[p], NEW r, r = records[p][q],
           NEW used, kyberUsed[p] \cup {m.base} \subseteq used
    PROVE  Prepared(held, p, q, used,
                    PromoteState(r, InitializeBob(own, m.sender, m.base, m.signedPreKey, m.preKey)))
<1> DEFINE sender == m.sender
           base == m.base
           signed == m.signedPreKey
           preKey == m.preKey
           b == InitializeBob(own, sender, base, signed, preKey)
           root == HandshakeRoot(own, sender, base, signed, preKey)
<1>1. /\ own \in Key /\ sender \in Key /\ base \in Key /\ signed \in Key
      /\ preKey \in OptionalKey /\ m \in Message /\ r \in Record
      /\ base[1] # p
  BY SentType, MessageFields, RecordType DEF TypeOK, RecordsInv, MessagesSound
<1>2. signed = signedPreKey[p] /\ (preKey # NoKey => Known(preKey) /\ ~IsBase(held, preKey))
  OBVIOUS
<1>3. IsBase(held, base) /\ IsOther(held, sender) /\ IsOther(held, own) /\ IsOther(held, signed)
  <2>1. IsBase(held, base)
    BY DEF IsBase
  <2>2. IsOther(held, sender)
    BY DEF IsOther
  <2>3. own \in OwnKeys(p) /\ signed \in OwnKeys(p)
    BY <1>2 DEF OwnKeys
  <2> QED BY <2>1, <2>2, <2>3 DEF IsOther
<1>4. /\ \A x \in Party : \A v \in Sessions(records[p][x]) : v.base # base
      /\ \A o \in opened[p] : own \in o.key.root[1] => base \notin o.key.root[1]
  BY DEF FreeBase
<1>5. base \in used /\ kyberUsed[p] \subseteq used
  OBVIOUS
<1>6. \A v \in Sessions(r) : Ready(held, p, used, v) /\ Elsewhere(p, q, v) /\ v \in Session
  BY <1>5, RecordReady, SessionType
<1>7. ChainsDistinct(r) /\ \A v, w \in Sessions(r) : v.root # w.root => Apart(v, w)
  BY <1>1 DEF ChainInv, ChainsApart, RecordsInv, SessionsApart
<1>8. /\ \A k \in Key : /\ IsBase(held, k) \/ IsOther(held, k) => Known(k)
                        /\ ~(IsBase(held, k) /\ IsOther(held, k))
      /\ \A o \in opened[p] : o.key.root \in RootKey
  BY SentType DEF RecordsInv, RolesApart, OpenedForgotten
<1>9. PromoteState(r, InitializeBob(own, m.sender, m.base, m.signedPreKey, m.preKey))
         = PromoteState(r, b)
  OBVIOUS
<1> HIDE DEF sender, base, signed, preKey
<1>11. /\ root \in RootKey /\ Len(root) = 1
       /\ root[1] = {own, sender, base, signed, preKey} \ {NoKey}
  BY <1>1, HandshakeRootProperties
<1>12. /\ b \in Session /\ SessionSound(b)
       /\ b.local = own /\ b.base = base /\ b.root = root /\ b.sender.ratchet = signed
       /\ ToSet(b.receivers) = {} /\ b.pending = NoPending
  <2>1. /\ own \in Key /\ sender \in Key /\ base \in Key /\ signed \in Key
        /\ preKey \in OptionalKey
    BY <1>1
  <2>2. /\ b \in Session /\ SessionSound(b)
        /\ b.local = own /\ b.base = base /\ b.root = root /\ b.sender.ratchet = signed
    BY ONLY <2>1, InitializeBobSound
  <2>3. b.pending = NoPending
    BY ONLY <2>1, InitializeBobSound
  <2>4. ToSet(b.receivers) = {}
    BY ONLY <2>1, InitializeBobSound
  <2> HIDE DEF b, root
  <2> QED BY <2>2, <2>3, <2>4
<1> HIDE DEF root, b
<1>13. /\ own \in root[1] /\ base \in root[1]
       /\ \A k \in root[1] : k \in Key /\ Known(k) /\ (k = base \/ ~IsBase(held, k))
  <2>1. NoKey \notin Key
    BY SentinelAssumption
  <2> QED BY <2>1, <1>1, <1>2, <1>3, <1>8, <1>11 DEF OptionalKey
<1>14. KnownRoot(root)
  <2>1. DOMAIN root = {1}
    BY <1>11 DEF RootKey
  <2> QED BY <2>1, <1>11, <1>13 DEF KnownRoot
<1>15. Ready(held, p, used, b)
  <2>1. \A k \in root[1] : IsBase(held, k) => k = base
    BY <1>13
  <2>2. Known(signed)
    BY <1>1, <1>3, <1>8
  <2>3. ASSUME NEW o \in opened[p]
        PROVE  ~IsStrictPrefix(root, o.key.root)
    <3> SUFFICES ASSUME IsStrictPrefix(root, o.key.root)
                 PROVE  FALSE
      OBVIOUS
    <3> DEFINE theirs == o.key.root
    <3>1. IsStrictPrefix(root, theirs) /\ theirs \in RootKey /\ Len(root) >= 1
      BY <1>8, <1>11
    <3>2. own \in theirs[1] => base \notin theirs[1]
      BY <1>4
    <3> HIDE DEF theirs
    <3>3. theirs[1] = root[1]
      BY <3>1, <1>11, RootKeyPrefixes
    <3> QED BY <3>2, <3>3, <1>13
  <2>4. \A o \in opened[p] : Forgotten(b, o)
    BY <2>3, <1>12 DEF Forgotten
  <2>5. HandshakeSound(p, used, b)
    BY <1>5, <1>12, <1>13 DEF HandshakeSound
  <2> QED BY <2>1, <2>2, <2>4, <2>5, <1>3, <1>12, <1>14 DEF Ready, OneBase
<1>16. ASSUME NEW x \in Party, NEW v \in Sessions(records[p][x])
       PROVE  Apart(b, v) /\ v.root # b.root /\ v.sender.root # b.sender.root
  <2> DEFINE other == v.root
  <2>1. Ready(held, p, used, v)
    BY <1>5, RecordReady
  <2>2. other \in RootKey /\ Len(other) >= 1 /\ SessionSound(v)
    BY <2>1, SessionType DEF Ready, KnownRoot
  <2>3. base \notin other[1]
    BY <1>3, <1>4, <2>1 DEF Ready, OneBase
  <2> HIDE DEF other
  <2>4. ~IsPrefix(root, other) /\ ~IsPrefix(other, root) /\ IsPrefix(root, root)
    <3>1. root \in RootKey /\ Len(root) >= 1 /\ root[1] # other[1]
      BY <2>3, <1>11, <1>13
    <3> QED BY ONLY <2>2, <3>1, RootKeyPrefixes
  <2>5. v.root # root
    BY <2>4 DEF other
  <2>6. v.sender.root = v.root /\ b.sender.root = root
    BY <2>2, <1>12 DEF SessionSound
  <2> QED BY <2>4, <2>5, <2>6, <1>12 DEF Apart, other
<1>17. Elsewhere(p, q, b)
  BY <1>16 DEF Elsewhere
<1>18. PromoteState(r, b) \in Record /\ ChainsDistinct(PromoteState(r, b))
  <2>1. \A c \in SenderChains(r) : c.root # b.sender.root
    BY <1>16 DEF SenderChains
  <2> QED BY <2>1, <1>1, <1>7, <1>12, PromoteStateProperties
<1> DEFINE r1 == PromoteState(r, b)
<1>19. ASSUME NEW u \in Sessions(r1)
       PROVE  u = b \/ \E v \in Sessions(r) : Same(u, v)
  <2>1. \/ u = b
        \/ r.current # NoSession /\ u = ClearPending(r.current)
        \/ \E j \in DOMAIN r.previous : u = r.previous[j]
    BY <1>1, <1>12, SessionsAfterPromote
  <2>2. u = b \/ \E v \in Sessions(r) : Alike(u, v)
    BY <2>1, <1>1, SessionsOfRecord DEF Alike
  <2> QED BY <2>2, <1>6, AlikeIsSame
<1> HIDE DEF r1
<1>20. \A u \in Sessions(r1) : Ready(held, p, used, u) /\ Elsewhere(p, q, u)
  BY <1>6, <1>15, <1>17, <1>19, SameReady, SameElsewhere
<1>21. ASSUME NEW u \in Sessions(r1), NEW w \in Sessions(r1), u.root # w.root
       PROVE  Apart(u, w)
  <2>1. CASE u = b
    <3>1. PICK v \in Sessions(r) : Same(w, v)
      BY <2>1, <1>19, <1>21
    <3> QED BY <2>1, <3>1, <1>16 DEF Apart, Same
  <2>2. CASE w = b
    <3>1. PICK v \in Sessions(r) : Same(u, v)
      BY <2>2, <1>19, <1>21
    <3> QED BY <2>2, <3>1, <1>16 DEF Apart, Same
  <2>3. CASE u # b /\ w # b
    <3>1. PICK v \in Sessions(r) : Same(u, v)
      BY <2>3, <1>19
    <3>2. PICK v2 \in Sessions(r) : Same(w, v2)
      BY <2>3, <1>19
    <3>3. v.root # v2.root
      BY <1>21, <3>1, <3>2 DEF Same
    <3> QED BY <3>1, <3>2, <3>3, <1>7, SameApart
  <2> QED BY <2>1, <2>2, <2>3
<1>22. Prepared(held, p, q, used, r1)
  BY <1>18, <1>20, <1>21 DEF Prepared, r1
<1> QED
  BY <1>9, <1>22 DEF r1

LEMMA DecryptReceives ==
    ASSUME NEW held \in SUBSET Message,
           TypeOK, ChainInv, RecordsInv(held), NEW m \in sent,
           \/ DecryptKnownPreKey(m.to, m)
           \/ DecryptNewPreKey(m.to, m)
           \/ DecryptSignal(m.to, m)
    PROVE  \E r : Receives(held, m.to, m.from, m, r) /\ ChainsFrom(m.to, m.from, r)
<1> DEFINE p == m.to
           q == m.from
           r == records[p][q]
<1>1. p \in Party /\ q \in Party /\ r \in Record /\ m \in Message
  BY SentType, RecordType
<1>2. ChainsDistinct(r)
  BY <1>1 DEF ChainInv, ChainsApart
<1>3. \A x \in Party : \A k \in kyberUsed[x] : IsBase(held, k)
  BY DEF IsBase
<1>4. CASE DecryptKnownPreKey(m.to, m)
  <2> DEFINE r1 == PromoteMatching(r, m.base)
  <2>1. HasMatchingSession(r, m.base) /\ UNCHANGED <<kyberUsed, preKeys, identity, signedPreKey, published, sent>>
    BY <1>4 DEF DecryptKnownPreKey, keyVars
  <2>2. PreKeyResult(p, m) = DecryptWithRecord(r1, m, NewKey(p, 0))
    BY <2>1 DEF PreKeyResult, ProcessPreKey
  <2>3. /\ PreKeyResult(p, m).verdict = "ok"
        /\ StoreSession(p, q, PreKeyResult(p, m).record)
        /\ UseNewKey(p, q, PreKeyResult(p, m).record)
        /\ Opens(p, m)
    BY <1>4 DEF DecryptKnownPreKey
  <2> HIDE DEF r
  <2>4. r1 \in Record /\ ChainsDistinct(r1)
    BY <1>1, <1>2, <2>1, PromoteMatchingProperties
  <2>5. \A u \in Sessions(r1) : \E v \in Sessions(r) : Alike(u, v)
    BY <1>1, <2>1, SessionsAfterMatching
  <2> HIDE DEF r1
  <2>6. Prepared(held, p, q, kyberUsed'[p], r1)
    BY <1>1, <2>1, <2>4, <2>5, PreparedAlike DEF r
  <2>7. Receives(held, p, q, m, r1)
    BY <1>3, <2>1, <2>2, <2>3, <2>6 DEF Receives
  <2> QED BY <2>5, <2>7, <1>1, AlikeDescends DEF r
<1>5. CASE DecryptNewPreKey(m.to, m)
  <2> DEFINE own == identity[p]
             r1 == PromoteState(r, InitializeBob(own, m.sender, m.base, m.signedPreKey, m.preKey))
             used == kyberUsed[p] \cup {m.base}
  <2>1. /\ m.type = "prekey" /\ ~HasMatchingSession(records[p][m.from], m.base)
        /\ CanInitializeBob(p, m) /\ ~Replayed(p, m)
        /\ kyberUsed' = [kyberUsed EXCEPT ![p] = used]
        /\ preKeys' = [preKeys EXCEPT ![p] = @ \ {m.preKey}]
        /\ UNCHANGED <<identity, signedPreKey, published, sent>>
    BY <1>5 DEF DecryptNewPreKey
  <2>2. PreKeyResult(p, m) = DecryptWithRecord(r1, m, NewKey(p, 0))
    BY <2>1 DEF PreKeyResult, ProcessPreKey
  <2>3. /\ PreKeyResult(p, m).verdict = "ok"
        /\ StoreSession(p, q, PreKeyResult(p, m).record)
        /\ UseNewKey(p, q, PreKeyResult(p, m).record)
        /\ Opens(p, m)
    BY <1>5 DEF DecryptNewPreKey
  <2>4. /\ kyberUsed'[p] = used
        /\ \A x \in Party : kyberUsed[x] \subseteq kyberUsed'[x] /\ preKeys'[x] \subseteq preKeys[x]
    BY <1>1, <2>1 DEF TypeOK
  <2>5. IsBase(held, m.base)
    BY <2>1 DEF IsBase
  <2>6. \A x \in Party : \A k \in kyberUsed'[x] : IsBase(held, k)
    BY <1>1, <1>3, <2>1, <2>5 DEF TypeOK
  <2>7. Prepared(held, p, q, used, r1)
    <3>1. PICK o : o = own
      OBVIOUS
    <3>2. PICK r0 : r0 = r
      OBVIOUS
    <3>3. PICK set : set = used
      OBVIOUS
    <3> DEFINE r2 == PromoteState(r0, InitializeBob(o, m.sender, m.base, m.signedPreKey, m.preKey))
    <3>4. Prepared(held, p, m.from, set, r2)
      <4>1. FreeBase(p, m.base)
        BY <1>1, <2>1, UnusedBaseFree DEF Replayed
      <4>2. /\ m.signedPreKey = signedPreKey[p]
            /\ m.preKey # NoKey => Known(m.preKey) /\ ~IsBase(held, m.preKey)
        <5>1. m.signedPreKey = signedPreKey[p] /\ (m.preKey # NoKey => m.preKey \in preKeys[p])
          BY <2>1 DEF CanInitializeBob
        <5>2. m.preKey # NoKey => m.preKey \in Key /\ IsOther(held, m.preKey)
          BY <1>1, <5>1 DEF TypeOK, OwnKeys, IsOther
        <5> QED BY <5>1, <5>2 DEF RecordsInv, RolesApart
      <4>3. identity[p] = o /\ r0 = records[p][m.from] /\ kyberUsed[p] \cup {m.base} \subseteq set
        BY <3>1, <3>2, <3>3
      <4> HIDE DEF r, used, own
      <4> QED BY <1>1, <2>1, <4>1, <4>2, <4>3, PreparedNew
    <3>5. r1 = r2
      BY <3>1, <3>2
    <3> HIDE DEF r1, r2, used, r
    <3> QED BY <3>3, <3>4, <3>5
  <2> HIDE DEF r1, used, r
  <2>8. Receives(held, p, q, m, r1)
    BY <2>1, <2>2, <2>3, <2>4, <2>6, <2>7 DEF Receives
  <2>9. ChainsFrom(p, q, r1)
    <3>1. PICK o \in Key, r0 \in Record : o = own /\ r0 = r
      BY <1>1 DEF TypeOK
    <3>2. ChainsFrom(p, q, PromoteState(r0, InitializeBob(o, m.sender, m.base, m.signedPreKey, m.preKey)))
      <4>1. m.sender \in Key /\ m.base \in Key /\ m.signedPreKey \in Key /\ m.preKey \in OptionalKey
        BY <1>1, <2>1, MessageFields
      <4>2. r0 = records[p][q]
        BY <3>1 DEF r
      <4> QED BY <1>1, <4>1, <4>2, BobDescends
    <3> QED BY <3>1, <3>2 DEF r1
  <2> QED BY <2>8, <2>9
<1>6. CASE DecryptSignal(m.to, m)
  <2>1. UNCHANGED <<kyberUsed, preKeys, identity, signedPreKey, published, sent>>
    BY <1>6 DEF DecryptSignal, keyVars
  <2>2. SignalResult(p, m) = DecryptWithRecord(r, m, NewKey(p, 0))
    BY DEF SignalResult
  <2>3. /\ SignalResult(p, m).verdict = "ok"
        /\ StoreSession(p, q, SignalResult(p, m).record)
        /\ UseNewKey(p, q, SignalResult(p, m).record)
        /\ Opens(p, m)
    BY <1>6 DEF DecryptSignal
  <2> HIDE DEF r
  <2>4. \A u \in Sessions(r) : \E v \in Sessions(r) : Alike(u, v)
    BY DEF Alike
  <2>5. Prepared(held, p, q, kyberUsed'[p], r)
    BY <1>1, <1>2, <2>1, <2>4, PreparedAlike DEF r
  <2>6. Receives(held, p, q, m, r)
    BY <1>3, <2>1, <2>2, <2>3, <2>5 DEF Receives
  <2> QED BY <2>4, <2>6, <1>1, AlikeDescends DEF r
<1> QED
  BY <1>4, <1>5, <1>6

LEMMA QuietSound ==
    ASSUME NEW held \in SUBSET Message,
           TypeOK, TypeOK', RecordsInv(held), UNCHANGED <<sent, opened>>,
           \A x \in Party : nextKey[x] <= nextKey'[x],
           NEW O, NewRoles(held, {}, O),
           \A x, y \in Party : records'[x][y] \in {records[x][y], FreshRecord},
           \A x \in Party : Continues(x) \/ Restarts(x)
    PROVE  RecordsInv(held)' /\ PlainStays(held) /\ FollowChange
<1>1. \A x, y \in Party : KeptRecord(x, y)
  <2>1. Sessions(FreshRecord) = {}
    BY FreshRecordProperties
  <2> QED BY <2>1, SameRecordKept DEF KeptRecord
<1>2. SoundChange(held, {}, O)
  BY <1>1 DEF SoundChange
<1>3. FollowChange
  BY <1>1, KeptFollows DEF FollowChange
<1> QED
  BY <1>2, <1>3, SoundStep

\* The chain split off a new handshake.
LEMMA FirstChainExtends ==
    ASSUME NEW root \in RootKey, Len(root) = 1, NEW ours \in Key, NEW theirs \in Key,
           NEW sending, sending = CreateChain(root, ours, theirs)
    PROVE  /\ sending \in RootKey /\ Len(sending) = 2
           /\ sending[1] = root[1] /\ sending[2] = {ours, theirs}
<1>1. sending \in RootKey /\ Len(sending) = Len(root) + 1
  BY CreateChainExtends
<1>2. sending[Len(root) + 1] = {ours, theirs}
  BY CreateChainExtends
<1>3. \A i \in 1 .. Len(root) : sending[i] = root[i]
  BY CreateChainExtends
<1> QED
  BY ONLY <1>1, <1>2, <1>3, Len(root) = 1

LEMMA OtherIsPlain ==
    ASSUME NEW held \in SUBSET Message,
           RecordsInv(held), NEW k \in Key, IsOther(held, k)
    PROVE  Plain(held, k)
  BY DEF RecordsInv, RolesApart, Plain

\* A session made with a base key nobody knows has nothing in common with any other.
LEMMA NewBaseApart ==
    ASSUME NEW base \in Key, ~Known(base),
           NEW s \in Session, SessionSound(s), base \in s.root[1],
           NEW v \in Session, SessionSound(v), KnownRoot(v.root)
    PROVE  Apart(s, v) /\ s.root # v.root
<1> DEFINE ours == s.root
           theirs == v.root
<1>1. ours \in RootKey /\ theirs \in RootKey /\ Len(ours) >= 1 /\ Len(theirs) >= 1
  BY DEF Session, SessionSound
<1>2. ours[1] # theirs[1]
  BY <1>1, FirstOfRoot
<1>3. \A c \in ToSet(s.receivers), d \in ToSet(v.receivers) : c.root # d.root
  <2>1. \A c \in ToSet(s.receivers) : c.root[1] = ours[1]
    BY ReceiverRoots
  <2>2. \A d \in ToSet(v.receivers) : d.root[1] = theirs[1]
    BY ReceiverRoots
  <2> HIDE DEF ours, theirs
  <2> QED BY <1>2, <2>1, <2>2
<1> HIDE DEF ours, theirs
<1>4. ~IsPrefix(ours, theirs) /\ ~IsPrefix(theirs, ours) /\ ours # theirs
  BY <1>1, <1>2, RootKeyPrefixes
<1> QED
  BY <1>3, <1>4 DEF Apart, ours, theirs

\* process_prekey_bundle with keys known already, on the record p keeps for q.
LEMMA HandshakeMade ==
    ASSUME NEW held \in SUBSET Message,
           TypeOK, TypeOK', ChainInv, RecordsInv(held), NEW p \in Party, NEW q \in Party,
           NEW r, r = records[p][q],
           NEW remote \in Key, Plain(held, remote), NEW signed \in Key, Plain(held, signed),
           NEW preKey \in OptionalKey, preKey # NoKey => Plain(held, preKey), NEW time \in Nat,
           StoreSession(p, q, PromoteState(r,
               InitializeAlice(identity[p], remote, NewKey(p, 0), NewKey(p, 1),
                               signed, preKey, time))),
           nextKey' = [nextKey EXCEPT ![p] = @ + 2],
           UNCHANGED <<identity, signedPreKey, preKeys, kyberUsed, sent, opened>>,
           \A x \in Party : OwnKeys(x)' \subseteq OwnKeys(x)
    PROVE  RecordsInv(held)' /\ PlainStays(held) /\ FollowChange
<1>1. PICK own \in Key, base \in Key, ratchet \in Key :
        own = identity[p] /\ base = NewKey(p, 0) /\ ratchet = NewKey(p, 1)
  BY NewKeyType DEF TypeOK
<1> DEFINE a == InitializeAlice(own, remote, base, ratchet, signed, preKey, time)
           root == HandshakeRoot(own, remote, base, signed, preKey)
           sending == CreateChain(root, ratchet, signed)
<1>2. StoreSession(p, q, PromoteState(r, a))
  BY <1>1
<1>3. /\ own \in Key /\ remote \in Key /\ base \in Key /\ ratchet \in Key /\ signed \in Key
      /\ preKey \in OptionalKey /\ time \in Nat
  OBVIOUS
<1>4. /\ root \in RootKey /\ Len(root) = 1
      /\ root[1] = {own, remote, base, signed, preKey} \ {NoKey}
  BY ONLY <1>3, HandshakeRootProperties
<1>5. /\ a \in Session /\ SessionSound(a)
      /\ a.local = own /\ a.base = base /\ a.root = sending
      /\ \A c \in ToSet(a.receivers) : c.root = root /\ c.index = 0
  <2>1. /\ a \in Session /\ SessionSound(a)
        /\ a.local = own /\ a.base = base /\ a.root = sending
    BY ONLY <1>3, InitializeAliceSound
  <2>2. ChainsStartAt(a.receivers, root)
    BY ONLY <1>3, InitializeAliceSound
  <2> HIDE DEF a, root, sending
  <2> QED BY <2>1, <2>2 DEF ChainsStartAt
<1> HIDE DEF root
<1>6. /\ sending \in RootKey /\ Len(sending) = 2
      /\ sending[1] = root[1] /\ sending[2] = {ratchet, signed}
  <2>1. sending = CreateChain(root, ratchet, signed)
    OBVIOUS
  <2> HIDE DEF sending
  <2> QED BY ONLY <2>1, <1>3, <1>4, FirstChainExtends
<1> HIDE DEF a, sending
<1>7. nextKey'[p] = nextKey[p] + 2 /\ \A x \in Party : nextKey[x] \in Nat /\ nextKey[x] <= nextKey'[x]
  BY DEF TypeOK
<1>8. ~Known(base) /\ Known(base)' /\ Known(ratchet)' /\ base[1] = p
  BY <1>1, <1>7 DEF Known, NewKey
<1>9. /\ \A k \in Key : Known(k) => Known(k)'
      /\ \A key \in RootKey : KnownRoot(key) => KnownRoot(key)'
  BY <1>7, KnownStays
<1>10. IsOther(held, own) /\ Plain(held, own)
  <2>1. own \in OwnKeys(p)
    BY <1>1 DEF OwnKeys
  <2>2. IsOther(held, own)
    BY <2>1 DEF IsOther
  <2> QED BY <2>2, OtherIsPlain
<1>11. base \in root[1] /\ \A k \in root[1] : k \in Key /\ (k = base \/ Plain(held, k))
  <2>1. NoKey \notin Key
    BY SentinelAssumption
  <2> QED BY <2>1, <1>4, <1>10 DEF OptionalKey
<1>12. KnownRoot(sending)'
  <2>1. DOMAIN sending = {1, 2}
    BY <1>6 DEF RootKey
  <2>2. \A k \in sending[1] : Known(k)'
    BY <1>6, <1>8, <1>9, <1>11 DEF Plain
  <2>3. \A k \in sending[2] : Known(k)'
    BY <1>6, <1>8, <1>9 DEF Plain
  <2> QED BY <2>1, <2>2, <2>3, <1>6 DEF KnownRoot
<1>13. ASSUME NEW m \in opened[p]
       PROVE  Forgotten(a, m)
  <2> DEFINE other == m.key.root
  <2>1. other \in RootKey /\ KnownRoot(other) /\ Len(other) >= 1
    BY SentType DEF RecordsInv, OpenedForgotten, MessagesSound, KnownRoot
  <2>2. base \notin other[1]
    BY <2>1, <1>8, FirstOfRoot
  <2> HIDE DEF other
  <2>3. ~IsStrictPrefix(sending, other) /\ other # root
    <3>1. Len(sending) >= 1 /\ base \in sending[1]
      BY <1>6, <1>11
    <3>2. IsStrictPrefix(sending, other) => other[1] = sending[1]
      BY <3>1, <2>1, <1>6, RootKeyPrefixes
    <3> QED BY <3>1, <3>2, <2>2, <1>11
  <2>4. m.key.root = other
    BY DEF other
  <2> QED BY <2>3, <2>4, <1>5 DEF Forgotten
<1>14. ASSUME NEW u \in Sessions(records'[p][q])
       PROVE  u = a \/ \E v \in Sessions(r) : Same(u, v)
  <2>1. r \in Record /\ records'[p][q] = PromoteState(r, a)
    BY <1>2, RecordType DEF StoreSession, TypeOK
  <2>2. \/ u = a
        \/ r.current # NoSession /\ u = ClearPending(r.current)
        \/ \E j \in DOMAIN r.previous : u = r.previous[j]
    BY <2>1, <1>5, SessionsAfterPromote
  <2>3. u = a \/ \E v \in Sessions(r) : Alike(u, v)
    BY <2>1, <2>2, SessionsOfRecord DEF Alike
  <2> QED BY <2>3, SessionType, AlikeIsSame
<1>15. \A x, y \in Party : records'[x][y] = records[x][y] \/ (x = p /\ y = q)
  BY <1>2 DEF StoreSession, TypeOK
<1>16. ASSUME NEW x \in Party, NEW v \in Sessions(records[p][x])
       PROVE  Apart(a, v)
  <2>1. v \in Session /\ SessionSound(v) /\ KnownRoot(v.root)
    BY SessionType DEF RecordsInv, SessionsSound
  <2>2. base \in a.root[1]
    BY <1>5, <1>6, <1>11
  <2> QED BY <2>1, <2>2, <1>5, <1>8, NewBaseApart
<1>17. ReplacedRecord(held, p, q, {base})
  <2>1. ASSUME NEW u \in Sessions(records'[p][q])
        PROVE  /\ SessionSound(u) /\ KnownRoot(u.root)'
               /\ HandshakeSound(p, kyberUsed'[p], u)
               /\ \A k \in u.root[1] : IsBase(held, k) \/ k \in {base} => k = u.base
               /\ IsBase(held, u.base) \/ u.base \in {base}
               /\ IsOther(held, u.local)
               /\ \A m \in opened[p] : Forgotten(u, m)
    <3>1. CASE u = a
      <4>1. HandshakeSound(p, kyberUsed'[p], a)
        BY <1>5, <1>6, <1>8, <1>11 DEF HandshakeSound
      <4>2. \A k \in a.root[1] : IsBase(held, k) \/ k \in {base} => k = a.base
        BY <1>5, <1>6, <1>11 DEF Plain
      <4>3. KnownRoot(a.root)'
        BY <1>5, <1>12
      <4> QED BY <3>1, <4>1, <4>2, <4>3, <1>5, <1>10, <1>13
    <3>2. CASE u # a
      <4>1. PICK v \in Sessions(r) : Same(u, v)
        BY <3>2, <1>14
      <4>2. Ready(held, p, kyberUsed[p], v) /\ v \in Session /\ v.root \in RootKey
        BY RecordReady, SessionType
      <4>3. Ready(held, p, kyberUsed[p], u) /\ u.root \in RootKey
        BY <4>1, <4>2, SameReady DEF Same
      <4>4. KnownRoot(u.root)' /\ base \notin u.root[1]
        BY <4>3, <1>8, <1>9, FirstOfRoot DEF Ready
      <4> QED BY <4>3, <4>4 DEF Ready, OneBase
    <3> QED BY <3>1, <3>2
  <2>2. ASSUME NEW x \in Party, NEW u \in Sessions(records'[p][q]), NEW v \in Sessions(records'[p][x]),
               u.root # v.root
        PROVE  Apart(u, v)
    <3>1. \/ v = a
          \/ \E w \in Sessions(records[p][x]) : Same(v, w)
      <4>1. CASE x = q
        BY <4>1, <1>14
      <4>2. CASE x # q
        BY <4>2, <1>15, SessionType DEF Same
      <4> QED BY <4>1, <4>2
    <3>2. CASE u = a
      <4>1. PICK w \in Sessions(records[p][x]) : Same(v, w)
        BY <2>2, <3>1, <3>2
      <4> QED BY <3>2, <4>1, <1>16 DEF Apart, Same
    <3>3. CASE u # a
      <4>1. PICK z \in Sessions(r) : Same(u, z)
        BY <3>3, <1>14
      <4>2. CASE v = a
        <5>1. Apart(a, z)
          BY <1>16
        <5> QED BY <4>1, <4>2, <5>1 DEF Apart, Same
      <4>3. CASE v # a
        <5>1. PICK w \in Sessions(records[p][x]) : Same(v, w)
          BY <3>1, <4>3
        <5>2. z.root # w.root
          BY <2>2, <4>1, <5>1 DEF Same
        <5>3. Apart(z, w)
          BY <5>2 DEF RecordsInv, SessionsApart
        <5> QED BY <4>1, <5>1, <5>3, SameApart
      <4> QED BY <4>2, <4>3
    <3> QED BY <3>2, <3>3
  <2> QED BY <2>1, <2>2 DEF ReplacedRecord
<1>18. SoundChange(held, {base}, {})
  <2>1. NewRoles(held, {base}, {})
    <3>1. \A x \in Party : \A k \in OwnKeys(x)' : IsOther(held, k)
      BY DEF IsOther
    <3>2. \A x \in Party : \A k \in kyberUsed'[x] : IsBase(held, k)
      BY DEF IsBase
    <3> QED BY <3>1, <3>2, <1>8 DEF NewRoles
  <2>2. \A x, y \in Party : KeptRecord(x, y) \/ ReplacedRecord(held, x, y, {base})
    BY <1>15, <1>17, SameRecordKept
  <2>3. \A x \in Party : Continues(x)
    BY DEF Continues
  <2> QED BY <2>1, <2>2, <2>3, <1>7 DEF SoundChange
<1>19. FollowChange
  <2>1. ASSUME NEW u \in Sessions(records'[p][q]), NEW c \in ToSet(u.receivers)
        PROVE  Stands(p, q, c)
    <3>1. CASE u = a
      BY <3>1, <1>5 DEF Stands, Follows
    <3>2. CASE u # a
      BY <3>2, <1>14 DEF Stands, Same
    <3> QED BY <3>1, <3>2
  <2>2. ASSUME NEW x \in Party, NEW y \in Party
        PROVE  FollowsOn(x, y)
    <3>1. CASE x = p /\ y = q
      BY <2>1, <3>1 DEF FollowsOn
    <3>2. CASE ~(x = p /\ y = q)
      BY <3>2, <1>15, SameRecordKept, KeptFollows
    <3> QED BY <3>1, <3>2
  <2> QED BY <2>2 DEF FollowChange
<1> QED
  BY <1>18, <1>19, SoundStep

LEMMA EstablishSound ==
    ASSUME NEW held \in SUBSET Message,
           TypeOK, TypeOK', ChainInv, RecordsInv(held), NEW p \in Party, NEW q \in Party,
           EstablishSession(p, q)
    PROVE  RecordsInv(held)' /\ PlainStays(held) /\ FollowChange
<1>1. PICK preKey \in OfferedPreKeys(q) :
        /\ FetchBundle(q, preKey)
        /\ StoreSession(p, q, PromoteState(records[p][q],
               InitializeAlice(identity[p], published[q].identity, NewKey(p, 0), NewKey(p, 1),
                               published[q].signedPreKey, preKey, now)))
        /\ nextKey' = [nextKey EXCEPT ![p] = @ + 2]
        /\ UNCHANGED <<identity, signedPreKey, preKeys, kyberUsed, sent, opened>>
  BY DEF EstablishSession, historyVars
<1>2. PICK remote \in Key, signed \in Key, time \in Nat :
        remote = published[q].identity /\ signed = published[q].signedPreKey /\ time = now
  BY DEF TypeOK, Bundle
<1>3. preKey \in OptionalKey /\ (preKey # NoKey => preKey \in Key /\ preKey \in published[q].preKeys)
  BY <1>1 DEF TypeOK, Bundle, OfferedPreKeys, OptionalKey
<1>4. Plain(held, remote) /\ Plain(held, signed) /\ (preKey # NoKey => Plain(held, preKey))
  <2>1. IsOther(held, remote) /\ IsOther(held, signed) /\ (preKey # NoKey => IsOther(held, preKey))
    BY <1>2, <1>3 DEF OwnKeys, IsOther
  <2> QED BY <2>1, <1>3, OtherIsPlain
<1>5. PICK r : r = records[p][q]
  OBVIOUS
<1>6. StoreSession(p, q, PromoteState(r, InitializeAlice(identity[p], remote, NewKey(p, 0),
                                                         NewKey(p, 1), signed, preKey, time)))
  BY <1>1, <1>2, <1>5
<1>7. \A x \in Party : OwnKeys(x)' \subseteq OwnKeys(x)
  BY <1>1, FetchBundleType DEF OwnKeys
<1> QED
  BY <1>1, <1>3, <1>4, <1>5, <1>6, <1>7, HandshakeMade

\* set_sender_chain_key is nothing a receiver would notice.
LEMMA AdvanceKept ==
    ASSUME TypeOK, NEW p \in Party, NEW q \in Party,
           NEW s, s = records[p][q].current, s # NoSession,
           StoreSession(p, q, [records[p][q] EXCEPT !.current = AdvanceSenderChain(s)])
    PROVE  \A x, y \in Party : KeptRecord(x, y)
<1> DEFINE r == records[p][q]
           next == AdvanceSenderChain(s)
           stored == [r EXCEPT !.current = next]
<1>1. r \in Record /\ s \in Session /\ s \in Sessions(r)
  BY RecordType, SessionsOfRecord
<1>2. StoreSession(p, q, stored)
  OBVIOUS
<1> HIDE DEF r
<1>3. next \in Session /\ Same(next, s)
  <2>1. /\ next \in Session /\ next.receivers = s.receivers
        /\ next.sender.root = s.sender.root /\ next.sender.ratchet = s.sender.ratchet
    BY <1>1, AdvanceSenderChainType
  <2>2. next.local = s.local /\ next.base = s.base /\ next.root = s.root /\ next.pending = s.pending
    BY <1>1 DEF AdvanceSenderChain, Session
  <2> HIDE DEF next
  <2> QED BY <2>1, <2>2 DEF Same
<1> HIDE DEF next
<1>4. \A u \in Sessions(stored) : u = next \/ u \in Sessions(r)
  <2>1. stored \in Record /\ stored.current = next /\ stored.previous = r.previous
    BY <1>1, <1>3, ReplaceCurrentProperties DEF r
  <2> HIDE DEF stored
  <2> QED BY <2>1, <1>1, SessionsOfRecord
<1>5. KeptRecord(p, q)
  <2>1. records'[p][q] = stored
    BY <1>2 DEF StoreSession, TypeOK
  <2>2. \A u \in Sessions(r) : Same(u, u)
    BY SessionType DEF Same, r
  <2> HIDE DEF stored
  <2> QED BY <2>1, <2>2, <1>1, <1>3, <1>4 DEF KeptRecord, r
<1>6. \A x, y \in Party : records'[x][y] = records[x][y] \/ (x = p /\ y = q)
  BY <1>2 DEF StoreSession, TypeOK
<1> QED
  BY <1>5, <1>6, SameRecordKept

LEMMA EncryptSound ==
    ASSUME NEW held \in SUBSET Message,
           TypeOK, TypeOK', ChainInv, RecordsInv(held), NEW p \in Party, NEW q \in Party, p # q,
           Encrypt(p, q)
    PROVE  RecordsInv(held)' /\ PlainStays(held) /\ FollowChange
<1> DEFINE r == records[p][q]
           s == r.current
           m == Ciphertext(p, q, s)
           stored == [r EXCEPT !.current = AdvanceSenderChain(s)]
<1>1. r \in Record /\ s # NoSession /\ s \in Session /\ s \in Sessions(r)
  BY RecordType, SessionsOfRecord DEF Encrypt
<1>2. /\ sent' = sent \cup {m} /\ StoreSession(p, q, stored)
      /\ UNCHANGED <<keyVars, nextKey, opened>>
  BY DEF Encrypt
<1>3. /\ KnownRoot(s.root) /\ s.sender.root = s.root /\ Known(s.sender.ratchet)
      /\ IsOther(held, s.local) /\ IsBase(held, s.base)
      /\ s.pending # NoPending => s.base[1] = p
  <2>1. Ready(held, p, kyberUsed[p], s)
    BY <1>1, RecordReady DEF r
  <2> QED BY <2>1 DEF Ready, SessionSound, HandshakeSound
<1>4. NewlySent(held, m)
  <2>1. /\ m.from = p /\ m.to = q /\ m.key.root = s.sender.root
        /\ m.ratchet = s.sender.ratchet /\ m.sender = s.local
        /\ m.type = "prekey" => s.pending # NoPending /\ m.base = s.base
    BY DEF Ciphertext
  <2> HIDE DEF m, s
  <2>2. m.from # m.to /\ KnownRoot(m.key.root) /\ Known(m.ratchet) /\ IsOther(held, m.sender)
    BY <2>1, <1>3
  <2>3. m.type = "prekey" => m.base[1] = m.from /\ IsBase(held, m.base)
    BY <2>1, <1>3
  <2> QED BY <2>2, <2>3 DEF NewlySent
<1> HIDE DEF m, s, r
<1>5. \A x, y \in Party : KeptRecord(x, y)
  BY <1>1, <1>2, AdvanceKept DEF r, s
<1>6. SoundChange(held, {}, {})
  <2>1. NewRoles(held, {}, {})
    <3>1. \A x \in Party : OwnKeys(x)' = OwnKeys(x) /\ kyberUsed'[x] = kyberUsed[x]
      BY <1>2 DEF OwnKeys, keyVars
    <3>2. \A x \in Party : \A k \in OwnKeys(x)' : IsOther(held, k)
      BY <3>1 DEF IsOther
    <3>3. \A x \in Party : \A k \in kyberUsed'[x] : IsBase(held, k)
      BY <3>1 DEF IsBase
    <3> QED BY <3>2, <3>3 DEF NewRoles
  <2>2. \A x \in Party : Continues(x)
    BY <1>2 DEF Continues, keyVars
  <2>3. \A x \in Party : nextKey[x] <= nextKey'[x]
    BY <1>2 DEF TypeOK
  <2> QED BY <2>1, <2>2, <2>3, <1>2, <1>4, <1>5 DEF SoundChange
<1>7. FollowChange
  BY <1>2, <1>5, KeptFollows DEF FollowChange
<1> QED
  BY <1>6, <1>7, SoundStep

\* The key pairs p generates in a step that takes its count from lo to hi.
Generated(p, lo, hi) == {k \in Key : k[1] = p /\ lo <= k[2] /\ k[2] < hi}

LEMMA GeneratedKeys ==
    ASSUME TypeOK, NEW p \in Party, NEW lo \in Nat, lo = nextKey[p], NEW hi \in Nat, NEW n \in Nat,
           lo + n + NumPreKeys <= hi
    PROVE  /\ NewPreKeys(p, n) \subseteq Generated(p, lo, hi)
           /\ \A i \in Nat : lo + i < hi => NewKey(p, i) \in Generated(p, lo, hi)
<1>1. ASSUME NEW i \in Nat, lo + i < hi
      PROVE  NewKey(p, i) \in Generated(p, lo, hi)
  BY <1>1 DEF NewKey, Generated, Key
<1>2. \A i \in n .. n + NumPreKeys - 1 : i \in Nat /\ lo + i < hi
  BY BoundsAssumption
<1> QED
  BY <1>1, <1>2 DEF NewPreKeys

LEMMA KeysSound ==
    ASSUME NEW held \in SUBSET Message,
           TypeOK, TypeOK', RecordsInv(held), NEW p \in Party, ReplenishKeys(p) \/ Reinstall(p)
    PROVE  RecordsInv(held)' /\ PlainStays(held) /\ FollowChange
<1>1. PICK lo \in Nat, hi \in Nat : lo = nextKey[p] /\ hi = nextKey'[p]
  BY DEF TypeOK
<1> DEFINE O == Generated(p, lo, hi)
<1>2. PICK n \in {1, 2} :
        /\ \A i \in 0 .. n - 1 : NewKey(p, i) \in O
        /\ NewPreKeys(p, n) \subseteq O
        /\ lo <= hi
        /\ n = 1 => ReplenishKeys(p)
        /\ n = 2 => Reinstall(p)
  <2>1. CASE ReplenishKeys(p)
    <3>1. hi = lo + NumPreKeys + 1
      BY <1>1, <2>1 DEF ReplenishKeys, TypeOK
    <3> HIDE DEF O
    <3>2. lo + 1 + NumPreKeys <= hi /\ lo + 0 < hi /\ lo <= hi /\ 1 \in Nat
      BY <3>1, BoundsAssumption
    <3>3. NewPreKeys(p, 1) \subseteq O /\ NewKey(p, 0) \in O
      BY <1>1, <3>2, GeneratedKeys DEF O
    <3>4. \A i \in 0 .. 1 - 1 : i = 0
      OBVIOUS
    <3> QED BY <2>1, <3>2, <3>3, <3>4
  <2>2. CASE Reinstall(p)
    <3>1. hi = lo + NumPreKeys + 2
      BY <1>1, <2>2 DEF Reinstall, TypeOK
    <3> HIDE DEF O
    <3>2. lo + 2 + NumPreKeys <= hi /\ lo + 0 < hi /\ lo + 1 < hi /\ lo <= hi /\ 2 \in Nat
      BY <3>1, BoundsAssumption
    <3>3. NewPreKeys(p, 2) \subseteq O /\ NewKey(p, 0) \in O /\ NewKey(p, 1) \in O
      BY <1>1, <3>2, GeneratedKeys DEF O
    <3>4. \A i \in 0 .. 2 - 1 : i = 0 \/ i = 1
      OBVIOUS
    <3> QED BY <2>2, <3>2, <3>3, <3>4
  <2> QED BY <2>1, <2>2
<1>3. ASSUME NEW k \in O
      PROVE  k \in Key /\ ~Known(k) /\ Known(k)'
  <2>1. k \in Key /\ k[1] = p /\ lo <= k[2] /\ k[2] < hi
    BY DEF Generated
  <2>2. k[2] \in Nat
    BY <2>1 DEF Key
  <2>3. ~(k[2] < nextKey[p]) /\ k[2] < nextKey'[p]
    BY <1>1, <2>1, <2>2
  <2> QED BY <2>1, <2>3 DEF Known
<1> HIDE DEF O
<1>4. /\ UNCHANGED <<sent, opened>>
      /\ \A x, y \in Party : records'[x][y] \in {records[x][y], FreshRecord}
      /\ \A x \in Party : x # p => /\ OwnKeys(x)' = OwnKeys(x)
                                   /\ kyberUsed'[x] = kyberUsed[x]
                                   /\ identity'[x] = identity[x]
                                   /\ nextKey'[x] = nextKey[x]
  <2>1. CASE ReplenishKeys(p)
    BY <2>1 DEF ReplenishKeys, OwnKeys, TypeOK, sessionVars, historyVars
  <2>2. CASE Reinstall(p)
    BY <2>2 DEF Reinstall, OwnKeys, TypeOK, historyVars
  <2> QED BY <2>1, <2>2
<1>5. \A k \in OwnKeys(p)' : k \in O \/ k \in OwnKeys(p)
  <2>1. CASE n = 1
    <3>1. ReplenishKeys(p) /\ NewKey(p, 0) \in O /\ NewPreKeys(p, 1) \subseteq O
      BY <1>2, <2>1
    <3>2. /\ identity'[p] = identity[p] /\ signedPreKey'[p] = NewKey(p, 0)
          /\ preKeys'[p] = NewPreKeys(p, 1)
          /\ published'[p] = [identity |-> identity[p], signedPreKey |-> NewKey(p, 0),
                              preKeys |-> NewPreKeys(p, 1)]
      BY <3>1 DEF ReplenishKeys, TypeOK
    <3> QED BY <3>1, <3>2 DEF OwnKeys
  <2>2. CASE n = 2
    <3>1. /\ Reinstall(p) /\ NewKey(p, 0) \in O /\ NewKey(p, 1) \in O
          /\ NewPreKeys(p, 2) \subseteq O
      BY <1>2, <2>2
    <3>2. /\ identity'[p] = NewKey(p, 0) /\ signedPreKey'[p] = NewKey(p, 1)
          /\ preKeys'[p] = NewPreKeys(p, 2)
          /\ published'[p] = [identity |-> NewKey(p, 0), signedPreKey |-> NewKey(p, 1),
                              preKeys |-> NewPreKeys(p, 2)]
      BY <3>1 DEF Reinstall, TypeOK
    <3> QED BY <3>1, <3>2 DEF OwnKeys
  <2> QED BY <2>1, <2>2
<1>6. Continues(p) \/ Restarts(p)
  <2>1. CASE n = 1
    BY <1>2, <2>1 DEF ReplenishKeys, Continues
  <2>2. CASE n = 2
    <3>1. Reinstall(p) /\ NewKey(p, 0) \in O
      BY <1>2, <2>2
    <3>2. identity'[p] = NewKey(p, 0) /\ \A y \in Party : records'[p][y] = FreshRecord
      BY <3>1 DEF Reinstall, TypeOK
    <3>3. ~Known(identity'[p])
      BY <1>3, <3>1, <3>2
    <3> QED BY <3>2, <3>3, FreshRecordProperties DEF Restarts
  <2> QED BY <2>1, <2>2
<1>7. \A k \in kyberUsed'[p] : k \in kyberUsed[p]
  <2>1. CASE n = 1
    BY <1>2, <2>1 DEF ReplenishKeys
  <2>2. CASE n = 2
    BY <1>2, <2>2 DEF Reinstall, TypeOK
  <2> QED BY <2>1, <2>2
<1>8. NewRoles(held, {}, O)
  <2>1. \A x \in Party : \A k \in OwnKeys(x)' : k \in O \/ IsOther(held, k)
    BY <1>4, <1>5 DEF IsOther
  <2>2. \A x \in Party : \A k \in kyberUsed'[x] : IsBase(held, k)
    BY <1>4, <1>7 DEF IsBase
  <2> QED BY <2>1, <2>2, <1>3 DEF NewRoles
<1>9. \A x \in Party : nextKey[x] <= nextKey'[x]
  BY <1>1, <1>2, <1>4 DEF TypeOK
<1>10. \A x \in Party : Continues(x) \/ Restarts(x)
  BY <1>4, <1>6 DEF Continues
<1> QED
  BY <1>4, <1>8, <1>9, <1>10, QuietSound

LEMMA NextRecords ==
    ASSUME NEW held \in SUBSET Message,
           TypeOK, TypeOK', ChainInv, RecordsInv(held), [Next]_vars
    PROVE  RecordsInv(held)' /\ PlainStays(held) /\ FollowChange
<1>1. \A x \in Party : \A k \in OwnKeys(x) \cup kyberUsed[x] :
         /\ k \in OwnKeys(x) => IsOther(held, k)
         /\ k \in kyberUsed[x] => IsBase(held, k)
  BY DEF IsOther, IsBase
<1>2. \A x \in Party : nextKey[x] <= nextKey[x]
  BY DEF TypeOK
<1>3. ASSUME NEW p \in Party, NEW q \in Party, FetchUnused(p, q)
      PROVE  RecordsInv(held)' /\ PlainStays(held) /\ FollowChange
  <2>1. /\ UNCHANGED <<identity, signedPreKey, preKeys, kyberUsed, records, nextKey, sent, opened>>
        /\ \A x \in Party : OwnKeys(x)' \subseteq OwnKeys(x)
    BY <1>3, FetchBundleType DEF FetchUnused, sessionVars, historyVars, OwnKeys
  <2>2. NewRoles(held, {}, {})
    BY <1>1, <2>1 DEF NewRoles
  <2> QED BY <1>2, <2>1, <2>2, QuietSound DEF Continues
<1>4. ASSUME NEW p \in Party, NEW q \in Party, DeleteSession(p, q)
      PROVE  RecordsInv(held)' /\ PlainStays(held) /\ FollowChange
  <2>1. /\ UNCHANGED <<keyVars, nextKey, sent, opened>>
        /\ \A x, y \in Party : records'[x][y] \in {records[x][y], FreshRecord}
    BY <1>4 DEF DeleteSession, StoreSession, historyVars, TypeOK
  <2>2. NewRoles(held, {}, {}) /\ \A x \in Party : Continues(x)
    BY <1>1, <2>1 DEF NewRoles, OwnKeys, keyVars, Continues
  <2> QED BY <1>2, <2>1, <2>2, QuietSound
<1>5. ASSUME UNCHANGED <<keyVars, nextKey, sent, opened, records>>
      PROVE  RecordsInv(held)' /\ PlainStays(held) /\ FollowChange
  <2>1. NewRoles(held, {}, {}) /\ \A x \in Party : Continues(x)
    BY <1>1, <1>5 DEF NewRoles, OwnKeys, keyVars, Continues
  <2> QED BY <1>2, <1>5, <2>1, QuietSound
<1>6. ASSUME NEW m \in sent, Decrypt(m.to, m)
      PROVE  RecordsInv(held)' /\ PlainStays(held) /\ FollowChange
  <2>1. CASE RejectReplay(m.to, m)
    BY <1>5, <2>1 DEF RejectReplay, historyVars
  <2>2. CASE DecryptKnownPreKey(m.to, m) \/ DecryptNewPreKey(m.to, m) \/ DecryptSignal(m.to, m)
    <3>1. PICK r : Receives(held, m.to, m.from, m, r) /\ ChainsFrom(m.to, m.from, r)
      BY <2>2, DecryptReceives
    <3>2. m.to \in Party /\ m.from \in Party
      BY SentType
    <3>3. RecordsInv(held)' /\ PlainStays(held)
      BY <3>1, <3>2, ReceivesSound
    <3>4. FollowChange
      BY <3>1, <3>2, ReceivesFollow
    <3> QED BY <3>3, <3>4
  <2> QED BY <1>6, <2>1, <2>2 DEF Decrypt
<1>7. CASE Tick \/ UNCHANGED vars
  BY <1>5, <1>7 DEF Tick, vars, sessionVars, historyVars
<1> QED
  BY <1>3, <1>4, <1>6, <1>7, EstablishSound, EncryptSound, KeysSound DEF Next

LEMMA NextReceiver ==
    ASSUME TypeOK, TypeOK', ChainInv, ReceiverInv, [Next]_vars
    PROVE  ReceiverInv'
  BY NextRecords, FollowStep DEF ReceiverInv

LEMMA InitReceiver == Init => ReceiverInv
<1> SUFFICES ASSUME Init
             PROVE  ReceiverInv
  OBVIOUS
<1>1. \A p, q \in Party : records[p][q] = FreshRecord
  BY DEF Init
<1>2. \A p, q \in Party : Sessions(records[p][q]) = {}
  BY <1>1, FreshRecordProperties
<1>3. \A k : ~IsBase({}, k)
  BY <1>2 DEF Init, IsBase
<1>4. ASSUME NEW p \in Party, NEW k \in OwnKeys(p)
      PROVE  Known(k)
  <2>1. PICK i \in 0 .. NumPreKeys + 1 : k = <<p, i>>
    BY <1>4, BoundsAssumption DEF Init, OwnKeys
  <2>2. nextKey[p] = NumPreKeys + 2
    BY DEF Init
  <2> QED BY <2>1, <2>2, BoundsAssumption DEF Known
<1>5. \A k : IsOther({}, k) => Known(k)
  BY <1>2, <1>4 DEF Init, IsOther
<1>6. RolesApart({})
  BY <1>3, <1>5 DEF RolesApart
<1>7. SessionsSound({}) /\ SessionsApart /\ ReceiversFollowSender
  BY <1>2 DEF SessionsSound, SessionsApart, ReceiversFollowSender
<1>8. MessagesSound({}) /\ OpenedForgotten({})
  BY DEF Init, MessagesSound, OpenedForgotten
<1> QED
  BY <1>6, <1>7, <1>8 DEF ReceiverInv, RecordsInv

\* The parts keys play, the sessions of a record, and what they have forgotten: the
\* invariant behind what the receivers promise.
THEOREM ReceiversSound == Spec => []ReceiverInv
  BY InitReceiver, NextReceiver, TypeCorrect, ChainCorrect, PTL DEF Spec

\* Once a message is decrypted, no session left in the record, archived ones included,
\* can derive its key again: the chains have moved past it, the skipped key is gone,
\* and no root key it could be split from is left.
THEOREM ReceiversForget == Spec => []ReceiverForgets
<1>1. TypeOK /\ ReceiverInv => ReceiverForgets
  <2> SUFFICES ASSUME TypeOK, ReceiverInv, NEW p \in Party, NEW m \in opened[p],
                      NEW s \in Sessions(records[p][m.from])
               PROVE  ~CanDerive(s, m)
    BY DEF ReceiverForgets
  <2>1. m \in sent
    BY DEF ReceiverInv, RecordsInv, OpenedForgotten
  <2>2. m.from \in Party /\ m.ratchet \in Key /\ m.key.root \in RootKey
    BY <2>1, SentType
  <2>3. s \in Session /\ s.root \in RootKey /\ Forgotten(s, m)
    BY <2>2, SessionType DEF ReceiverInv, RecordsInv, OpenedForgotten
  <2>4. \A c \in ToSet(s.receivers) :
          ~(/\ c.root = m.key.root
            /\ c.index <= m.key.index \/ Contains(c.skipped, m.key.index))
    BY <2>3 DEF Forgotten, Derivable
  <2>5. CreateChain(s.root, s.sender.ratchet, m.ratchet) # m.key.root
    <3> DEFINE old == s.root
               ours == s.sender.ratchet
               theirs == m.ratchet
    <3>1. old \in RootKey /\ ours \in Key /\ theirs \in Key
      BY <2>2, <2>3 DEF Session, SenderChain
    <3>2. ~IsStrictPrefix(old, m.key.root)
      BY <2>3 DEF Forgotten
    <3> HIDE DEF old, ours, theirs
    <3>3. IsStrictPrefix(old, CreateChain(old, ours, theirs))
      BY <3>1, CreateChainExtends
    <3>4. CreateChain(old, ours, theirs) # m.key.root
      BY <3>2, <3>3
    <3> QED BY <3>4 DEF old, ours, theirs
  <2> QED BY <2>4, <2>5 DEF CanDerive
<1> QED
  BY <1>1, TypeCorrect, ReceiversSound, PTL

\* The two ends of a session agree: a chain one of them receives on is a chain the
\* other one sent on, as far as it has been advanced.
THEOREM ReceiversFollow == Spec => []ReceiversFollowSender
<1>1. ReceiverInv => ReceiversFollowSender
  BY DEF ReceiverInv
<1> QED
  BY <1>1, ReceiversSound, PTL

\* What a step is to the two users: a message is written, one is read for the first
\* time, or nothing happens.
LEMMA RecordKinds ==
    ASSUME NEW held \in SUBSET Message,
           TypeOK, TypeOK', ChainInv, RecordsInv(held), [Next]_vars
    PROVE  \/ \E p, q \in Party : p # q /\ Encrypt(p, q)
           \/ \E m \in sent :
                 /\ m \notin opened[m.to] /\ Opens(m.to, m)
                 /\ UNCHANGED <<sent, texts>>
           \/ UNCHANGED historyVars
<1>1. ASSUME NEW m \in sent, Decrypt(m.to, m)
      PROVE  \/ /\ m \notin opened[m.to] /\ Opens(m.to, m)
                /\ UNCHANGED <<sent, texts>>
             \/ UNCHANGED historyVars
  <2>1. CASE RejectReplay(m.to, m)
    BY <2>1 DEF RejectReplay
  <2>2. CASE DecryptKnownPreKey(m.to, m) \/ DecryptNewPreKey(m.to, m) \/ DecryptSignal(m.to, m)
    <3>1. PICK r : Receives(held, m.to, m.from, m, r)
      BY <2>2, DecryptReceives
    <3>2. m.to \in Party /\ m.from \in Party
      BY SentType
    <3>3. m \notin opened[m.to]
      BY <3>1, <3>2, ReceivesSound
    <3>4. Opens(m.to, m) /\ UNCHANGED <<sent, texts>>
      BY <2>2 DEF DecryptKnownPreKey, DecryptNewPreKey, DecryptSignal
    <3> QED BY <3>3, <3>4
  <2> QED BY <1>1, <2>1, <2>2 DEF Decrypt
<1>2. ASSUME NEW p \in Party, NEW q \in Party,
             EstablishSession(p, q) \/ FetchUnused(p, q) \/ DeleteSession(p, q)
      PROVE  UNCHANGED historyVars
  BY <1>2 DEF EstablishSession, FetchUnused, DeleteSession
<1>3. ASSUME NEW p \in Party, ReplenishKeys(p) \/ Reinstall(p)
      PROVE  UNCHANGED historyVars
  BY <1>3 DEF ReplenishKeys, Reinstall
<1>4. CASE Tick \/ UNCHANGED vars
  BY <1>4 DEF Tick, vars
<1> QED
  BY <1>1, <1>2, <1>3, <1>4 DEF Next

LEMMA StepKinds ==
    ASSUME TypeOK, TypeOK', ChainInv, ReceiverInv, [Next]_vars
    PROVE  \/ \E p, q \in Party : p # q /\ Encrypt(p, q)
           \/ \E m \in sent :
                 /\ m \notin opened[m.to] /\ Opens(m.to, m)
                 /\ UNCHANGED <<sent, texts>>
           \/ UNCHANGED historyVars
<1>1. {} \in SUBSET Message /\ RecordsInv({})
  BY DEF ReceiverInv
<1> QED
  BY <1>1, RecordKinds

\* A message is decrypted at most once, whatever is delivered again and in whatever
\* order, after sessions were archived, evicted or deleted and devices set up again.
THEOREM ReadAtMostOnce == Spec => []AtMostOnce
<1>1. Init => AtMostOnce
  BY DEF Init, AtMostOnce
<1>2. TypeOK /\ TypeOK' /\ ChainInv /\ ReceiverInv /\ AtMostOnce /\ [Next]_vars => AtMostOnce'
  <2> SUFFICES ASSUME TypeOK, TypeOK', ChainInv, ReceiverInv, AtMostOnce, [Next]_vars
               PROVE  AtMostOnce'
    OBVIOUS
  <2>1. ASSUME NEW m \in sent, m \notin opened[m.to], Opens(m.to, m)
        PROVE  AtMostOnce'
    BY <2>1 DEF Opens, AtMostOnce, TypeOK
  <2>2. ASSUME NEW p \in Party, NEW q \in Party, Encrypt(p, q)
        PROVE  AtMostOnce'
    BY <2>2 DEF Encrypt, AtMostOnce
  <2>3. CASE UNCHANGED historyVars
    BY <2>3 DEF historyVars, AtMostOnce
  <2> QED BY <2>1, <2>2, <2>3, StepKinds
<1> QED
  BY <1>1, <1>2, TypeCorrect, ChainCorrect, ReceiversSound, PTL DEF Spec

-----------------------------------------------------------------------------
(* The channel                                                             *)

\* A sender numbers its texts.
TextsNumbered ==
    /\ \A m \in sent : m.text < texts[m.from] /\ m.text < MaxTexts
    /\ \A m1, m2 \in sent : m1.from = m2.from /\ m1.text = m2.text => m1 = m2

LEMMA EncryptWrites ==
    ASSUME TypeOK, TextsNumbered, NEW p \in Party, NEW q \in Party, Encrypt(p, q)
    PROVE  \E m : /\ sent' = sent \cup {m} /\ m.from = p /\ m.to = q /\ m.text = texts[p]
                  /\ texts' = [texts EXCEPT ![p] = texts[p] + 1]
                  /\ texts[p] \in Nat /\ texts[p] < MaxTexts
                  /\ UNCHANGED <<opened, reopened>>
                  /\ \A o \in sent : o.from = p => o.text \in Nat /\ o.text < texts[p]
<1> DEFINE m == Ciphertext(p, q, records[p][q].current)
<1>1. m.from = p /\ m.to = q /\ m.text = texts[p]
  BY DEF Ciphertext
<1>2. /\ sent' = sent \cup {m} /\ texts' = [texts EXCEPT ![p] = texts[p] + 1]
      /\ texts[p] < MaxTexts /\ UNCHANGED <<opened, reopened>>
  BY DEF Encrypt
<1>3. texts[p] \in Nat
  BY DEF TypeOK
<1>4. \A o \in sent : o.text \in Nat /\ o.text < texts[o.from]
  BY DEF TypeOK, Message, TextsNumbered
<1> HIDE DEF m
<1> QED
  BY <1>1, <1>2, <1>3, <1>4

LEMMA NextNumbered ==
    ASSUME TypeOK, TypeOK', ChainInv, ReceiverInv, TextsNumbered, [Next]_vars
    PROVE  TextsNumbered'
<1>1. ASSUME NEW p \in Party, NEW q \in Party, Encrypt(p, q)
      PROVE  TextsNumbered'
  <2>1. PICK m : /\ sent' = sent \cup {m} /\ m.from = p /\ m.to = q /\ m.text = texts[p]
                 /\ texts' = [texts EXCEPT ![p] = texts[p] + 1]
                 /\ texts[p] \in Nat /\ texts[p] < MaxTexts
                 /\ UNCHANGED <<opened, reopened>>
                 /\ \A o \in sent : o.from = p => o.text \in Nat /\ o.text < texts[p]
    BY <1>1, EncryptWrites
  <2>2. ASSUME NEW o \in sent'
        PROVE  o.text < texts'[o.from] /\ o.text < MaxTexts
    <3>1. texts'[p] = texts[p] + 1 /\ \A x \in Party : x # p => texts'[x] = texts[x]
      BY <2>1 DEF TypeOK
    <3>2. CASE o = m
      BY <2>1, <3>1, <3>2
    <3>3. CASE o \in sent
      <4>1. o.from \in Party /\ o.text < texts[o.from] /\ o.text < MaxTexts
        BY <3>3, SentType DEF TextsNumbered
      <4> QED BY <2>1, <3>1, <3>3, <4>1
    <3> QED BY <2>1, <3>2, <3>3
  <2>3. ASSUME NEW m1 \in sent', NEW m2 \in sent', m1.from = m2.from, m1.text = m2.text
        PROVE  m1 = m2
    <3>1. CASE m1 \in sent /\ m2 \in sent
      BY <2>3, <3>1 DEF TextsNumbered
    <3>2. CASE m1 = m /\ m2 \in sent
      BY <2>1, <2>3, <3>2
    <3>3. CASE m2 = m /\ m1 \in sent
      BY <2>1, <2>3, <3>3
    <3> QED BY <2>1, <3>1, <3>2, <3>3
  <2> QED BY <2>2, <2>3 DEF TextsNumbered
<1>2. CASE UNCHANGED <<sent, texts>>
  BY <1>2 DEF TextsNumbered
<1> QED
  BY <1>1, <1>2, StepKinds DEF historyVars

LEMMA LettersOfUnion ==
    ASSUME NEW S, NEW m
    PROVE  Letters(S \cup {m}) = Letters(S) \cup {Letter(m)}
  BY DEF Letters

LEMMA NextChannel ==
    ASSUME TypeOK, TypeOK', ChainInv, ReceiverInv, TextsNumbered, [Next]_vars
    PROVE  [Channel!Next]_(Channel!vars)
<1> DEFINE read == UNION {opened[p] : p \in Party}
           repeated == UNION {reopened[p] : p \in Party}
<1>1. ASSUME NEW p \in Party, NEW q \in Party, p # q, Encrypt(p, q)
      PROVE  Channel!Next
  <2>1. PICK m : /\ sent' = sent \cup {m} /\ m.from = p /\ m.to = q /\ m.text = texts[p]
                 /\ texts' = [texts EXCEPT ![p] = texts[p] + 1]
                 /\ texts[p] \in Nat /\ texts[p] < MaxTexts
                 /\ UNCHANGED <<opened, reopened>>
                 /\ \A o \in sent : o.from = p => o.text \in Nat /\ o.text < texts[p]
    BY <1>1, EncryptWrites
  <2>2. texts[p] \in 0 .. MaxTexts - 1
    BY <2>1, BoundsAssumption
  <2>3. /\ Letter(m).from = p /\ Letter(m).to = q /\ Letter(m).text = texts[p]
        /\ Letter(m) \in Channel!Letter
    BY <2>1, <2>2 DEF Letter, Channel!Letter
  <2>4. \A w \in Letters(sent) : w.from = p => w.text # texts[p]
    <3>1. \A o \in sent : Letter(o).from = o.from /\ Letter(o).text = o.text
      BY DEF Letter
    <3>2. \A o \in sent : Letter(o).from = p => Letter(o).text # texts[p]
      BY <2>1, <3>1
    <3> QED BY <3>2 DEF Letters
  <2>5. Letters(sent') = Letters(sent) \cup {Letter(m)}
    BY <2>1, LettersOfUnion
  <2>6. read' = read /\ repeated' = repeated
    BY <2>1
  <2>7. Channel!Write(Letter(m))
    BY <1>1, <2>3, <2>4, <2>5, <2>6 DEF Channel!Write
  <2> QED BY <2>3, <2>7 DEF Channel!Next
<1>2. ASSUME NEW m \in sent, m \notin opened[m.to], Opens(m.to, m), UNCHANGED <<sent, texts>>
      PROVE  Channel!Next
  <2>1. /\ m.from \in Party /\ m.to \in Party /\ m.text \in Nat /\ m.text < MaxTexts
    BY SentType DEF TypeOK, Message, TextsNumbered
  <2>2. /\ opened' = [opened EXCEPT ![m.to] = @ \cup {m}] /\ reopened' = reopened
    BY <1>2 DEF Opens, TypeOK
  <2>3. read' = read \cup {m}
    BY <2>1, <2>2 DEF TypeOK
  <2>4. \A o \in read : o \in sent /\ o \in opened[o.to]
    BY DEF ReceiverInv, RecordsInv, OpenedForgotten
  <2> HIDE DEF read
  <2>5. Letter(m) \in Letters(sent) /\ Letter(m) \notin Letters(read)
    <3>1. Letter(m) \in Letters(sent)
      BY DEF Letters
    <3>2. ASSUME NEW o \in read, Letter(o) = Letter(m)
          PROVE  FALSE
      <4>1. o.from = m.from /\ o.text = m.text
        BY <3>2 DEF Letter
      <4>2. o = m
        BY <2>4, <3>2, <4>1 DEF TextsNumbered
      <4> QED BY <1>2, <2>4, <3>2, <4>2
    <3> QED BY <3>1, <3>2 DEF Letters
  <2>6. Letter(m) \in Channel!Letter
    <3>1. m.text \in 0 .. MaxTexts - 1
      BY <2>1, BoundsAssumption
    <3> QED BY <2>1, <3>1 DEF Letter, Channel!Letter
  <2>7. Letters(read') = Letters(read) \cup {Letter(m)}
    BY <2>3, LettersOfUnion
  <2>8. Channel!Read(Letter(m))
    BY <1>2, <2>2, <2>5, <2>7 DEF Channel!Read, read
  <2> QED BY <2>6, <2>8 DEF Channel!Next
<1>3. CASE UNCHANGED historyVars
  BY <1>3 DEF historyVars, Channel!vars
<1> QED
  BY <1>1, <1>2, <1>3, StepKinds

\* The devices, their records and the server that loses order and duplicates messages
\* implement the channel: a message is read by the device it was written to, at most
\* once (that it is read in the end needs fairness and is left to the model checker).
THEOREM ChannelSafety == Spec => Channel!Spec
<1>1. Init => Channel!Init /\ TextsNumbered
  BY DEF Init, Channel!Init, Letters, TextsNumbered
<1>2. Init /\ [][Next]_vars => []TextsNumbered
  <2>1. Spec => [](TypeOK /\ ChainInv /\ ReceiverInv)
    BY TypeCorrect, ChainCorrect, ReceiversSound, PTL
  <2> QED BY <1>1, <2>1, NextNumbered, PTL DEF Spec
<1>3. TypeOK /\ TypeOK' /\ ChainInv /\ ReceiverInv /\ TextsNumbered /\ [Next]_vars
        => [Channel!Next]_(Channel!vars)
  BY NextChannel
<1> QED
  BY <1>1, <1>2, <1>3, TypeCorrect, ChainCorrect, ReceiversSound, PTL DEF Spec, Channel!Spec

-----------------------------------------------------------------------------
(* What a chain keeps                                                      *)

\* set_message_keys loses nothing while there is room.
LEMMA SkipToComplete ==
    ASSUME NEW skipped \in Seq(Nat), NEW from \in Nat, NEW to \in Nat, from <= to,
           (to - from) + Len(skipped) <= MAX_MESSAGE_KEYS
    PROVE  /\ SkipTo(skipped, from, to) \in Seq(Nat)
           /\ Len(SkipTo(skipped, from, to)) = (to - from) + Len(skipped)
           /\ \A n \in Nat : from <= n /\ n < to => Contains(SkipTo(skipped, from, to), n)
           /\ \A n \in Nat : Contains(skipped, n) => Contains(SkipTo(skipped, from, to), n)
<1> DEFINE new == [i \in 1 .. to - from |-> to - i]
           kept == new \o skipped
           n0 == IF Len(kept) < MAX_MESSAGE_KEYS THEN Len(kept) ELSE MAX_MESSAGE_KEYS
           result == SubSeq(kept, 1, n0)
<1>1. /\ new \in Seq(Nat) /\ Len(new) = to - from
      /\ \A i \in 1 .. to - from : new[i] = to - i
  <2>1. to - from \in Nat /\ new \in [1 .. to - from -> Nat]
    OBVIOUS
  <2>2. new \in Seq(Nat)
    BY <2>1, SeqDef
  <2> QED BY <2>1, <2>2
<1> HIDE DEF new
<1>2. /\ kept \in Seq(Nat) /\ Len(kept) = Len(new) + Len(skipped)
      /\ \A i \in 1 .. Len(new) + Len(skipped) :
            kept[i] = IF i <= Len(new) THEN new[i] ELSE skipped[i - Len(new)]
  BY <1>1, ConcatProperties
<1>3. SkipTo(skipped, from, to) = result
  BY DEF SkipTo, new
<1>4. Len(skipped) \in Nat
  OBVIOUS
<1> HIDE DEF kept
<1>5. n0 <= Len(kept) /\ n0 \in Nat /\ n0 = (to - from) + Len(skipped)
  <2>1. Len(kept) = (to - from) + Len(skipped)
    BY <1>1, <1>2
  <2> QED BY <2>1, <1>4, LimitsAssumption
<1> HIDE DEF n0
<1>6. \A i \in 1 .. n0 : kept[i] \in Nat
  <2>1. \A i \in 1 .. n0 : i \in 1 .. Len(kept)
    BY <1>2, <1>5
  <2> QED BY <2>1, <1>2, ElementOfSeq
<1>7. /\ result \in Seq(Nat)
      /\ Len(result) = IF 1 <= n0 THEN n0 - 1 + 1 ELSE 0
      /\ \A i \in 1 .. n0 - 1 + 1 : result[i] = kept[1 + i - 1]
  <2> HIDE DEF result
  <2> QED BY <1>5, <1>6, SubSeqProperties DEF result
<1> HIDE DEF result
<1>8. Len(result) = n0 /\ \A i \in 1 .. n0 : result[i] = kept[i]
  BY <1>5, <1>7
<1>9. ASSUME NEW n \in Nat, from <= n, n < to
      PROVE  Contains(result, n)
  <2>1. to - n \in 1 .. Len(new) /\ to - n \in 1 .. n0 /\ to - n \in 1 .. Len(new) + Len(skipped)
    BY <1>1, <1>4, <1>5, <1>9
  <2>2. new[to - n] = to - (to - n)
    BY <2>1, <1>1
  <2>3. to - (to - n) = n
    BY <1>9
  <2>4. kept[to - n] = new[to - n]
    <3>1. to - n <= Len(new)
      BY <2>1
    <3> QED BY <2>1, <3>1, <1>2
  <2>5. result[to - n] = n
    BY <2>1, <2>2, <2>3, <2>4, <1>8
  <2> QED BY <2>1, <2>5, <1>8 DEF Contains
<1>10. ASSUME NEW n \in Nat, Contains(skipped, n)
       PROVE  Contains(result, n)
  <2>1. PICK j \in 1 .. Len(skipped) : skipped[j] = n
    BY <1>10 DEF Contains
  <2> DEFINE i == Len(new) + j
  <2>2. i \in 1 .. n0 /\ i \in 1 .. Len(new) + Len(skipped) /\ ~(i <= Len(new)) /\ i - Len(new) = j
    BY <1>1, <1>4, <1>5
  <2>3. kept[i] = n
    BY <2>1, <2>2, <1>2
  <2> HIDE DEF i
  <2>4. result[i] = n
    BY <2>2, <2>3, <1>8
  <2> QED BY <2>2, <2>4, <1>8 DEF Contains
<1> QED
  BY <1>3, <1>5, <1>7, <1>8, <1>9, <1>10

\* Using a chain for one message leaves every other key that could be had.
LEMMA AdvanceChainKeeps ==
    ASSUME NEW c \in ReceiverChain, NEW counter \in Nat, Derivable(c, counter),
           Len(c.skipped) <= c.index, counter <= MAX_MESSAGE_KEYS
    PROVE  LET d == AdvanceChain(c, counter)
           IN  /\ d.root = c.root /\ d.ratchet = c.ratchet
               /\ d.index \in {c.index, counter + 1} /\ d.index >= c.index /\ counter < d.index
               /\ Len(d.skipped) <= d.index
               /\ \A n \in Nat : n # counter /\ n < d.index /\ Derivable(c, n)
                     => Contains(d.skipped, n)
<1> DEFINE d == AdvanceChain(c, counter)
<1>1. /\ c.skipped \in Seq(Nat) /\ c.index \in Nat /\ Len(c.skipped) \in Nat
      /\ DOMAIN c.skipped = 1 .. Len(c.skipped)
  BY DEF ReceiverChain
<1>2. CASE c.index > counter
  <2> DEFINE i == SkippedPosition(c, counter)
             rest == RemoveAt(c.skipped, i)
  <2>1. i \in 1 .. Len(c.skipped) /\ c.skipped[i] = counter
    <3>1. Contains(c.skipped, counter)
      BY <1>1, <1>2 DEF Derivable
    <3> QED BY <1>1, <3>1 DEF SkippedPosition, Contains
  <2> HIDE DEF i
  <2>2. /\ rest \in Seq(Nat) /\ Len(rest) = Len(c.skipped) - 1
        /\ \A j \in 1 .. Len(c.skipped) - 1 :
              rest[j] = IF j < i THEN c.skipped[j] ELSE c.skipped[j + 1]
    BY <1>1, <2>1, RemoveAtProperties
  <2>3. d = [c EXCEPT !.skipped = rest]
    BY <1>2 DEF AdvanceChain, i
  <2> HIDE DEF rest, d
  <2>4. d.skipped = rest /\ d.index = c.index /\ d.root = c.root /\ d.ratchet = c.ratchet
    BY <2>3 DEF ReceiverChain
  <2>5. ASSUME NEW n \in Nat, n # counter, n < d.index, Derivable(c, n)
        PROVE  Contains(rest, n)
    <3>0. Contains(c.skipped, n)
      BY <2>4, <2>5, <1>1 DEF Derivable
    <3>1. PICK k \in 1 .. Len(c.skipped) : c.skipped[k] = n
      BY <3>0 DEF Contains
    <3>2. k # i
      BY <2>1, <2>5, <3>1
    <3>3. CASE k < i
      <4>1. k \in 1 .. Len(c.skipped) - 1
        BY <1>1, <2>1, <3>1, <3>3
      <4>2. rest[k] = n
        BY <4>1, <2>2, <3>1, <3>3
      <4> QED BY <4>1, <4>2, <2>2 DEF Contains
    <3>4. CASE k > i
      <4>1. k - 1 \in 1 .. Len(c.skipped) - 1 /\ ~(k - 1 < i) /\ (k - 1) + 1 = k
        BY <1>1, <2>1, <3>1, <3>4
      <4>2. rest[k - 1] = n
        BY <4>1, <2>2, <3>1
      <4> QED BY <4>1, <4>2, <2>2 DEF Contains
    <3> QED BY <3>1, <3>2, <3>3, <3>4, <2>1
  <2>6. Len(d.skipped) <= d.index /\ counter < d.index /\ d.index >= c.index
    BY <1>1, <1>2, <2>2, <2>4
  <2> QED BY <2>4, <2>5, <2>6 DEF d
<1>3. CASE ~(c.index > counter)
  <2> DEFINE kept == SkipTo(c.skipped, c.index, counter)
  <2>1. c.index <= counter /\ (counter - c.index) + Len(c.skipped) <= MAX_MESSAGE_KEYS
    BY <1>1, <1>3, LimitsAssumption
  <2>2. /\ kept \in Seq(Nat) /\ Len(kept) = (counter - c.index) + Len(c.skipped)
        /\ \A n \in Nat : c.index <= n /\ n < counter => Contains(kept, n)
        /\ \A n \in Nat : Contains(c.skipped, n) => Contains(kept, n)
    BY <1>1, <2>1, SkipToComplete
  <2>3. d = [c EXCEPT !.skipped = kept, !.index = counter + 1]
    BY <1>3 DEF AdvanceChain
  <2> HIDE DEF kept, d
  <2>4. d.skipped = kept /\ d.index = counter + 1 /\ d.root = c.root /\ d.ratchet = c.ratchet
    BY <2>3 DEF ReceiverChain
  <2>5. ASSUME NEW n \in Nat, n # counter, n < d.index, Derivable(c, n)
        PROVE  Contains(kept, n)
    <3>1. n < counter
      BY <2>4, <2>5
    <3> QED BY <3>1, <2>2, <2>5 DEF Derivable
  <2>6. Len(d.skipped) <= d.index /\ counter < d.index /\ d.index >= c.index
    <3>1. Len(kept) = (counter - c.index) + Len(c.skipped)
      BY <2>2
    <3> QED BY <1>1, <2>1, <2>4, <3>1
  <2> QED BY <2>4, <2>5, <2>6 DEF d
<1> QED
  BY <1>2, <1>3

-----------------------------------------------------------------------------
(* Where the chains of a session come from                                 *)

\* A chain nothing has been received on, and one used for the message m.
Unused(c) == c.index = 0 /\ c.skipped = <<>>
Taken(c, d, m) ==
    /\ c \in ReceiverChain
    /\ c.root = m.key.root /\ c.ratchet = m.ratchet
    /\ Derivable(c, m.key.index) /\ d = AdvanceChain(c, m.key.index)

\* The chain d of a session comes from the session s when it decrypts m.
Descends(s, d, m) ==
    \/ d \in ToSet(s.receivers) \/ Unused(d)
    \/ \E c : (c \in ToSet(s.receivers) \/ Unused(c)) /\ Taken(c, d, m)

\* get_or_create_chain_key adds at most a chain nothing was received on.
LEMMA WithReceiverChainAdds ==
    ASSUME NEW s \in Session, NEW ratchet \in Key, NEW fresh \in Key
    PROVE  LET s1 == WithReceiverChain(s, ratchet, fresh)
           IN  \A c \in ToSet(s1.receivers) : c \in ToSet(s.receivers) \/ Unused(c)
<1> DEFINE s1 == WithReceiverChain(s, ratchet, fresh)
<1>1. CASE HasReceiverChain(s, ratchet)
  BY <1>1 DEF WithReceiverChain
<1>2. CASE ~HasReceiverChain(s, ratchet)
  <2> DEFINE receiving == CreateChain(s.root, s.sender.ratchet, ratchet)
             chain == [ratchet |-> ratchet, root |-> receiving, index |-> 0, skipped |-> <<>>]
             chains == AddReceiverChain(s.receivers, chain)
  <2>1. s1.receivers = chains
    BY <1>2 DEF WithReceiverChain, Session
  <2>2. /\ s.root \in RootKey /\ s.sender.ratchet \in Key /\ s.receivers \in Seq(ReceiverChain)
    BY DEF Session, SenderChain
  <2>3. receiving \in RootKey
    BY <2>2, CreateChainProperties
  <2>4. chain \in ReceiverChain /\ Unused(chain)
    BY <2>3 DEF ReceiverChain, Unused
  <2> HIDE DEF receiving, chain
  <2>5. /\ chains \in Seq(ReceiverChain)
        /\ \A i \in 1 .. Len(chains) :
              chains[i] = chain \/ \E j \in 1 .. Len(s.receivers) : chains[i] = s.receivers[j]
    BY <2>2, <2>4, AddReceiverChainProperties
  <2>6. DOMAIN chains = 1 .. Len(chains) /\ DOMAIN s.receivers = 1 .. Len(s.receivers)
    BY <2>2, <2>5
  <2> HIDE DEF chains
  <2>7. \A c \in ToSet(chains) : c = chain \/ c \in ToSet(s.receivers)
    BY <2>5, <2>6 DEF ToSet
  <2> QED BY <2>1, <2>4, <2>7
<1> QED
  BY <1>1, <1>2

\* The chain decrypt_message_with_state looks the message up on.
LEMMA ChainFound ==
    ASSUME NEW s \in Session, NEW m \in Message, NEW fresh \in Key
    PROVE  LET s1 == WithReceiverChain(s, m.ratchet, fresh)
               i  == ReceiverChainIndex(s1, m.ratchet)
           IN  /\ s1.receivers \in Seq(ReceiverChain) /\ i \in 1 .. Len(s1.receivers)
               /\ s1.receivers[i] \in ReceiverChain /\ s1.receivers[i].ratchet = m.ratchet
               /\ s1.receivers[i] \in ToSet(s.receivers) \/ Unused(s1.receivers[i])
<1> DEFINE s1 == WithReceiverChain(s, m.ratchet, fresh)
           i == ReceiverChainIndex(s1, m.ratchet)
<1>1. m.ratchet \in Key
  BY DEF Message
<1>2. /\ s1 \in Session /\ HasReceiverChain(s1, m.ratchet)
      /\ \A c \in ToSet(s1.receivers) : c \in ToSet(s.receivers) \/ Unused(c)
  BY <1>1, WithReceiverChainProperties, WithReceiverChainAdds
<1> HIDE DEF s1
<1>3. /\ s1.receivers \in Seq(ReceiverChain) /\ Len(s1.receivers) \in Nat
      /\ DOMAIN s1.receivers = 1 .. Len(s1.receivers)
  BY <1>2 DEF Session
<1>4. i \in 1 .. Len(s1.receivers) /\ s1.receivers[i].ratchet = m.ratchet
  <2>1. ReceiverChains(s1, m.ratchet) \in SUBSET Nat /\ ReceiverChains(s1, m.ratchet) # {}
    BY <1>2, <1>3 DEF HasReceiverChain, ReceiverChains
  <2>2. i \in ReceiverChains(s1, m.ratchet)
    BY <2>1, MinInSet DEF ReceiverChainIndex
  <2> QED BY <2>2, <1>3 DEF ReceiverChains
<1> HIDE DEF i
<1>5. s1.receivers[i] \in ReceiverChain /\ s1.receivers[i] \in ToSet(s1.receivers)
  BY <1>3, <1>4 DEF ToSet
<1> QED
  BY <1>2, <1>3, <1>4, <1>5 DEF s1, i

\* decrypt_message_with_state, when it succeeds: the chains of the session after it.
LEMMA DecryptWithStateDescends ==
    ASSUME NEW s \in Session, NEW m \in Message, NEW fresh \in Key,
           DecryptWithState(s, m, fresh).verdict = "ok"
    PROVE  LET t == DecryptWithState(s, m, fresh).session
           IN  \A d \in ToSet(t.receivers) : Descends(s, d, m)
<1> DEFINE s1 == WithReceiverChain(s, m.ratchet, fresh)
           i == ReceiverChainIndex(s1, m.ratchet)
           c == s1.receivers[i]
           counter == m.key.index
           verdict == KeyVerdict(s, c, counter)
           macValid == MacValid(s, c, m)
           advanced == AdvanceChain(c, counter)
           s2 == [s1 EXCEPT !.receivers[i] = advanced]
           r == DecryptWithState(s, m, fresh)
<1>1. m.ratchet \in Key /\ counter \in Nat
  BY DEF Message, MessageKey
<1>2. /\ s1 \in Session /\ \A d \in ToSet(s1.receivers) : d \in ToSet(s.receivers) \/ Unused(d)
  BY <1>1, WithReceiverChainProperties, WithReceiverChainAdds
<1>3. r = IF verdict # "ok" THEN [verdict |-> verdict, session |-> s]
          ELSE IF ~macValid THEN [verdict |-> "invalid", session |-> s]
          ELSE [verdict |-> "ok", session |-> ClearPending(s2)]
  BY DEF DecryptWithState, Failed
<1>4. r.verdict = "ok"
  OBVIOUS
<1> HIDE DEF r
<1>5. verdict = "ok" /\ macValid /\ r.session = ClearPending(s2)
  <2> HIDE DEF verdict, macValid, s2
  <2> QED BY <1>3, <1>4
<1>6. m.key.root = c.root
  BY <1>5 DEF MacValid
<1>7. /\ s1.receivers \in Seq(ReceiverChain) /\ i \in 1 .. Len(s1.receivers)
      /\ c \in ReceiverChain /\ c.ratchet = m.ratchet
      /\ c \in ToSet(s.receivers) \/ Unused(c)
  BY ChainFound
<1>8. Derivable(c, counter)
  <2>1. c.index > counter => Contains(c.skipped, counter)
    BY <1>5 DEF KeyVerdict
  <2>2. c.index \in Nat
    BY <1>7 DEF ReceiverChain
  <2> HIDE DEF c
  <2> QED BY <2>1, <2>2, <1>1 DEF Derivable
<1> HIDE DEF verdict, macValid, s1, i
<1>9. Taken(c, advanced, m)
  <2> HIDE DEF c
  <2> QED BY <1>6, <1>7, <1>8 DEF Taken
<1>10. advanced \in ReceiverChain
  <2>1. c.index > counter => Contains(c.skipped, counter)
    BY <1>8, <1>7, <1>1 DEF Derivable, ReceiverChain
  <2> HIDE DEF c
  <2> QED BY <2>1, <1>1, <1>7, AdvanceChainProperties
<1> HIDE DEF advanced, c
<1>11. s2 \in Session /\ s2.receivers = [s1.receivers EXCEPT ![i] = advanced]
  <2> DEFINE chains == [s1.receivers EXCEPT ![i] = advanced]
  <2>1. chains \in Seq(ReceiverChain)
    BY <1>7, <1>10
  <2>2. s2 = [s1 EXCEPT !.receivers = chains]
    BY <1>2 DEF Session
  <2> HIDE DEF chains, s2
  <2>3. s2 \in Session /\ s2.receivers = chains
    BY <1>2, <2>1, <2>2 DEF Session
  <2> QED BY <2>3 DEF chains
<1> HIDE DEF s2
<1>12. r.session.receivers = s2.receivers
  BY <1>5, <1>11, ClearPendingFields
<1>13. \A d \in ToSet(s2.receivers) : d = advanced \/ d \in ToSet(s1.receivers)
  BY <1>7, <1>11 DEF ToSet
<1> QED
  BY <1>2, <1>7, <1>9, <1>12, <1>13 DEF Descends, r

\* A session that takes a message for a duplicate has the chain of its ratchet key,
\* which is past the message and has not kept its key.
LEMMA DuplicateOfState ==
    ASSUME NEW s \in Session, NEW m \in Message, NEW fresh \in Key,
           DecryptWithState(s, m, fresh).verdict = "duplicate"
    PROVE  \E c \in ToSet(s.receivers) :
              /\ c \in ReceiverChain /\ c.ratchet = m.ratchet
              /\ c.index > m.key.index /\ ~Contains(c.skipped, m.key.index)
<1> DEFINE s1 == WithReceiverChain(s, m.ratchet, fresh)
           i == ReceiverChainIndex(s1, m.ratchet)
           c == s1.receivers[i]
           counter == m.key.index
           verdict == KeyVerdict(s, c, counter)
<1>1. counter \in Nat
  BY DEF Message, MessageKey
<1>2. DecryptWithState(s, m, fresh).verdict \in {verdict, "invalid", "ok"}
      /\ (verdict # "ok" => DecryptWithState(s, m, fresh).verdict = verdict)
  BY DEF DecryptWithState, Failed
<1>3. verdict = "duplicate"
  BY <1>2
<1>4. c.index > counter /\ ~Contains(c.skipped, counter)
  BY <1>3 DEF KeyVerdict
<1>5. /\ c \in ReceiverChain /\ c.ratchet = m.ratchet
      /\ c \in ToSet(s.receivers) \/ Unused(c)
  BY ChainFound
<1> HIDE DEF c
<1>6. ~Unused(c)
  BY <1>1, <1>4 DEF Unused
<1> QED
  BY <1>4, <1>5, <1>6

\* decrypt_message_with_record, when it succeeds: the chains of the record after it.
LEMMA DecryptWithRecordDescends ==
    ASSUME NEW r \in Record, NEW m \in Message, NEW fresh \in Key,
           DecryptWithRecord(r, m, fresh).verdict = "ok"
    PROVE  LET q == DecryptWithRecord(r, m, fresh).record
           IN  \A u \in Sessions(q) : \A d \in ToSet(u.receivers) :
                  \E s \in Sessions(r) : Descends(s, d, m)
<1> DEFINE q == DecryptWithRecord(r, m, fresh).record
<1>1. \A s \in Sessions(r) : s \in Session /\ ClearPending(s).receivers = s.receivers
  BY SessionsOfRecord, ClearPendingFields
<1>2. ASSUME NEW u, NEW s \in Sessions(r), u.receivers = s.receivers
      PROVE  \A d \in ToSet(u.receivers) : \E v \in Sessions(r) : Descends(v, d, m)
  BY <1>2 DEF Descends
<1>3. CASE /\ r.current # NoSession
           /\ DecryptWithState(r.current, m, fresh).verdict = "ok"
           /\ q = [r EXCEPT !.current = DecryptWithState(r.current, m, fresh).session]
  <2> DEFINE s == r.current
             t == DecryptWithState(s, m, fresh).session
  <2>1. s \in Session /\ s \in Sessions(r)
    BY <1>3, SessionsOfRecord
  <2>2. t \in Session /\ \A d \in ToSet(t.receivers) : Descends(s, d, m)
    BY <1>3, <2>1, DecryptWithStateProperties, DecryptWithStateDescends
  <2>3. q = [r EXCEPT !.current = t]
    BY <1>3
  <2> HIDE DEF t, q
  <2>4. q \in Record /\ q.current = t /\ q.previous = r.previous
    BY <2>2, <2>3, ReplaceCurrentProperties
  <2>5. \A u \in Sessions(q) : u = t \/ u \in Sessions(r)
    BY <2>4, SessionsOfRecord
  <2> QED BY <2>1, <2>2, <2>5, <1>2 DEF q
<1>4. CASE \E i \in DOMAIN r.previous :
              /\ DecryptWithState(r.previous[i], m, fresh).verdict = "ok"
              /\ q = PromoteOldSession(r, i, DecryptWithState(r.previous[i], m, fresh).session)
  <2>1. PICK i \in DOMAIN r.previous :
              /\ DecryptWithState(r.previous[i], m, fresh).verdict = "ok"
              /\ q = PromoteOldSession(r, i, DecryptWithState(r.previous[i], m, fresh).session)
    BY <1>4
  <2> DEFINE s == r.previous[i]
             t == DecryptWithState(s, m, fresh).session
  <2>2. s \in Session /\ s \in Sessions(r)
    BY SessionsOfRecord
  <2>3. t \in Session /\ \A d \in ToSet(t.receivers) : Descends(s, d, m)
    BY <2>1, <2>2, DecryptWithStateProperties, DecryptWithStateDescends
  <2>4. q = PromoteOldSession(r, i, t)
    BY <2>1
  <2> HIDE DEF t, q, s
  <2>5. ASSUME NEW u \in Sessions(q), u # t
        PROVE  \E v \in Sessions(r) : u.receivers = v.receivers
    <3>1. \/ r.current # NoSession /\ u = ClearPending(r.current)
          \/ \E j \in DOMAIN r.previous : j # i /\ u = r.previous[j]
      BY <2>3, <2>4, <2>5, SessionsAfterPromoteOld
    <3> QED BY <3>1, <1>1, SessionsOfRecord
  <2> QED BY <2>2, <2>3, <2>5, <1>2 DEF q
<1> QED
  BY <1>3, <1>4, DecryptWithRecordCases

\* A record gives the verdict "duplicate" if one of its sessions does.
LEMMA DuplicateOfRecord ==
    ASSUME NEW r \in Record, NEW m \in Message, NEW fresh \in Key,
           DecryptWithRecord(r, m, fresh).verdict = "duplicate"
    PROVE  \E s \in Sessions(r) : DecryptWithState(s, m, fresh).verdict = "duplicate"
<1> DEFINE current == IF r.current = NoSession
                      THEN [verdict |-> "invalid", session |-> NoSession]
                      ELSE DecryptWithState(r.current, m, fresh)
           old == [i \in DOMAIN r.previous |-> DecryptWithState(r.previous[i], m, fresh)]
           decided == {i \in DOMAIN old : old[i].verdict # "invalid"}
           first == Min(decided)
           d == DecryptWithRecord(r, m, fresh)
<1>1. d = IF current.verdict = "ok"
          THEN [verdict |-> "ok", record |-> [r EXCEPT !.current = current.session]]
          ELSE IF current.verdict = "duplicate"
          THEN [verdict |-> "duplicate", record |-> r]
          ELSE IF (r.current # NoSession /\ m.type = "prekey") \/ decided = {}
          THEN [verdict |-> "invalid", record |-> r]
          ELSE IF old[first].verdict = "duplicate"
          THEN [verdict |-> "duplicate", record |-> r]
          ELSE [verdict |-> "ok", record |-> PromoteOldSession(r, first, old[first].session)]
  BY DEF DecryptWithRecord, Failed
<1>2. decided \in SUBSET Nat /\ decided \subseteq DOMAIN r.previous
  BY SessionsOfRecord
<1>3. \A i \in DOMAIN r.previous : old[i] = DecryptWithState(r.previous[i], m, fresh)
  OBVIOUS
<1>4. current.verdict = "duplicate" =>
        r.current # NoSession /\ current = DecryptWithState(r.current, m, fresh)
  OBVIOUS
<1>5. d.verdict = "duplicate"
  OBVIOUS
<1> HIDE DEF current, old, d, first, decided
<1>6. CASE current.verdict = "duplicate"
  BY <1>4, <1>6, SessionsOfRecord
<1>7. CASE current.verdict # "duplicate"
  <2>1. decided # {} /\ old[first].verdict = "duplicate"
    BY <1>1, <1>5, <1>7
  <2>2. first \in decided /\ first \in DOMAIN r.previous
    BY <1>2, <2>1, MinInSet DEF first
  <2>3. DecryptWithState(r.previous[first], m, fresh).verdict = "duplicate"
    BY <1>3, <2>1, <2>2
  <2> QED BY <2>2, <2>3, SessionsOfRecord
<1> QED
  BY <1>6, <1>7

-----------------------------------------------------------------------------
(* The names of chains                                                     *)

\* A session sends, or a message was sent, on the chain of this ratchet key and root.
Names(k, root) ==
    \/ \E m \in sent : m.ratchet = k /\ m.key.root = root
    \/ \E p, q \in Party : \E c \in SenderChains(records[p][q]) : c.ratchet = k /\ c.root = root

\* A ratchet key is used for one chain: a receiver that looks a message up by its
\* ratchet key finds the chain it was sent on.
RatchetsNameChains == \A k \in Key : \A a, b \in RootKey : Names(k, a) /\ Names(k, b) => a = b

\* A chain has moved on once for each message, so the bound on texts bounds it.
SendersCounted ==
    /\ \A p, q \in Party : \A c \in SenderChains(records[p][q]) : c.index <= texts[p]
    /\ \A m \in sent : m.key.index < MaxTexts

\* What a step does to the chains the devices send on: it may start one, with a key
\* pair nobody had; or it sends a message.
Begins(n) ==
    /\ n.ratchet \in Key /\ ~Known(n.ratchet) /\ n.index = 0
    /\ \A p, q \in Party : \A c \in SenderChains(records'[p][q]) :
          c \in SenderChains(records[p][q]) \/ c = n
BeginsNothing ==
    \A p, q \in Party : \A c \in SenderChains(records'[p][q]) : c \in SenderChains(records[p][q])

LEMMA EstablishBegins ==
    ASSUME TypeOK, NEW p \in Party, NEW q \in Party, EstablishSession(p, q)
    PROVE  \E n : Begins(n)
<1>1. PICK s \in Session :
        /\ NewChain(s.sender, NewKey(p, 1), published[q].signedPreKey)
        /\ StoreSession(p, q, PromoteState(FreshRecord, s))
  BY EstablishSessionDerives
<1> DEFINE r == PromoteState(FreshRecord, s)
<1>2. SenderChains(r) \subseteq {s.sender}
  BY FreshRecordProperties, PromoteStateProperties DEF SenderChains
<1> HIDE DEF r
<1>3. \A x, y \in Party : records'[x][y] = IF x = p /\ y = q THEN r ELSE records[x][y]
  BY <1>1 DEF TypeOK, StoreSession, r
<1>4. PICK fresh \in Key : fresh = NewKey(p, 1) /\ ~Known(fresh)
  BY NewKeyType, NewKeyUnknown
<1>5. s.sender.ratchet = fresh /\ s.sender.index = 0
  BY <1>1, <1>4 DEF NewChain
<1>6. Begins(s.sender)
  BY <1>2, <1>3, <1>4, <1>5 DEF Begins
<1> QED
  BY <1>6

LEMMA DecryptBegins ==
    ASSUME TypeOK, NEW m \in sent, Decrypt(m.to, m)
    PROVE  BeginsNothing \/ \E n : Begins(n)
<1>1. PICK p \in Party : p = m.to
  BY SentType
<1>2. m \in Message /\ m.from \in Party
  BY SentType
<1>3. CASE RejectReplay(p, m)
  BY <1>3 DEF RejectReplay, BeginsNothing
<1>4. ASSUME NEW r, DecryptsInto(p, m, r)
      PROVE  \E n : Begins(n)
  <2>1. PICK fresh \in Key : fresh = NewKey(p, 0) /\ ~Known(fresh)
    BY NewKeyType, NewKeyUnknown
  <2>2. \A x, y \in Party : records'[x][y] = IF x = p /\ y = m.from THEN r ELSE records[x][y]
    BY <1>2, <1>4 DEF TypeOK, StoreSession, DecryptsInto
  <2>3. \A c \in SenderChains(r) :
           \/ c \in SenderChains(records[p][m.from])
           \/ NewChain(c, fresh, m.ratchet) /\ c = r.current.sender
    BY <1>4, <2>1 DEF DecryptsInto, Derives
  <2> DEFINE n == IF NewChain(r.current.sender, fresh, m.ratchet) THEN r.current.sender
                  ELSE [ratchet |-> fresh, root |-> <<>>, index |-> 0]
  <2>4. n.ratchet = fresh /\ n.index = 0
    BY DEF NewChain
  <2>5. \A c \in SenderChains(r) : c \in SenderChains(records[p][m.from]) \/ c = n
    BY <2>3
  <2> HIDE DEF n
  <2>6. Begins(n)
    BY <1>2, <2>1, <2>2, <2>4, <2>5 DEF Begins
  <2> QED BY <2>6
<1>5. CASE DecryptKnownPreKey(p, m)
  BY <1>2, <1>4, <1>5, DecryptKnownPreKeyDerives
<1>6. CASE DecryptNewPreKey(p, m)
  BY <1>2, <1>4, <1>6, DecryptNewPreKeyDerives
<1>7. CASE DecryptSignal(p, m)
  BY <1>2, <1>4, <1>7, DecryptSignalDerives
<1>8. Decrypt(p, m)
  BY <1>1
<1> QED
  BY <1>3, <1>5, <1>6, <1>7, <1>8 DEF Decrypt

\* Every step but encrypting leaves the messages alone.
LEMMA StepBegins ==
    ASSUME TypeOK, [Next]_vars, ~\E p, q \in Party : Encrypt(p, q)
    PROVE  /\ BeginsNothing \/ \E n : Begins(n)
           /\ UNCHANGED <<sent, texts>>
<1>1. ASSUME NEW p \in Party, NEW q \in Party, EstablishSession(p, q)
      PROVE  (\E n : Begins(n)) /\ UNCHANGED <<sent, texts>>
  BY <1>1, EstablishBegins DEF EstablishSession, historyVars
<1>2. ASSUME NEW m \in sent, Decrypt(m.to, m)
      PROVE  (BeginsNothing \/ \E n : Begins(n)) /\ UNCHANGED <<sent, texts>>
  <2>1. UNCHANGED <<sent, texts>>
    BY <1>2 DEF Decrypt, DecryptKnownPreKey, DecryptNewPreKey, RejectReplay, DecryptSignal, historyVars
  <2> QED BY <1>2, <2>1, DecryptBegins
<1>3. ASSUME \A x, y \in Party : records'[x][y] \in {records[x][y], FreshRecord}
      PROVE  BeginsNothing
  BY <1>3, FreshRecordProperties DEF BeginsNothing, SenderChains
<1>4. ASSUME NEW p \in Party, NEW q \in Party, FetchUnused(p, q) \/ DeleteSession(p, q)
      PROVE  BeginsNothing /\ UNCHANGED <<sent, texts>>
  <2>1. \A x, y \in Party : records'[x][y] \in {records[x][y], FreshRecord}
    BY <1>4 DEF FetchUnused, DeleteSession, StoreSession, TypeOK, sessionVars
  <2> QED BY <1>3, <1>4, <2>1 DEF FetchUnused, DeleteSession, historyVars
<1>5. ASSUME NEW p \in Party, ReplenishKeys(p) \/ Reinstall(p)
      PROVE  BeginsNothing /\ UNCHANGED <<sent, texts>>
  <2>1. \A x, y \in Party : records'[x][y] \in {records[x][y], FreshRecord}
    BY <1>5 DEF ReplenishKeys, Reinstall, sessionVars, TypeOK
  <2> QED BY <1>3, <1>5, <2>1 DEF ReplenishKeys, Reinstall, historyVars
<1>6. CASE Tick \/ UNCHANGED vars
  BY <1>6 DEF Tick, vars, sessionVars, historyVars, BeginsNothing
<1> QED
  BY <1>1, <1>2, <1>4, <1>5, <1>6 DEF Next

\* What encrypting m on the chain s does to the chains: this one keeps its name.
SendsOn(p, q, m, s) ==
    /\ s \in SenderChains(records[p][q]) /\ s \in SenderChain
    /\ sent' = sent \cup {m} /\ m.from = p /\ m.to = q
    /\ m.ratchet = s.ratchet /\ m.key.root = s.root /\ m.key.index = s.index
    /\ \A x, y \in Party : \A c \in SenderChains(records'[x][y]) :
          \/ c \in SenderChains(records[x][y])
          \/ /\ x = p /\ y = q
             /\ c.ratchet = s.ratchet /\ c.root = s.root /\ c.index = s.index + 1
    /\ texts[p] < MaxTexts /\ texts' = [texts EXCEPT ![p] = @ + 1]
    /\ UNCHANGED <<nextKey, opened>>

LEMMA EncryptMoves ==
    ASSUME TypeOK, NEW p \in Party, NEW q \in Party, Encrypt(p, q)
    PROVE  \E m, s : SendsOn(p, q, m, s)
<1> DEFINE s == records[p][q].current
           m == Ciphertext(p, q, s)
           r == records[p][q]
           next == AdvanceSenderChain(s)
           stored == [r EXCEPT !.current = next]
<1>1. r \in Record /\ s # NoSession
  BY RecordType DEF Encrypt
<1>2. s \in Session /\ s \in Sessions(r)
  BY <1>1, SessionsOfRecord
<1>3. /\ sent' = sent \cup {m} /\ StoreSession(p, q, stored)
      /\ texts[p] < MaxTexts /\ texts' = [texts EXCEPT ![p] = @ + 1]
      /\ UNCHANGED <<nextKey, opened>>
  BY DEF Encrypt
<1>4. /\ m.from = p /\ m.to = q
      /\ m.ratchet = s.sender.ratchet /\ m.key.root = s.sender.root /\ m.key.index = s.sender.index
  BY DEF Ciphertext
<1>5. /\ next \in Session
      /\ next.sender.root = s.sender.root /\ next.sender.ratchet = s.sender.ratchet
      /\ next.sender.index = s.sender.index + 1
      /\ s.sender \in SenderChain
  BY <1>2, AdvanceSenderChainType DEF Session
<1>6. \A x, y \in Party : records'[x][y] = IF x = p /\ y = q THEN stored ELSE records[x][y]
  BY <1>3 DEF TypeOK, StoreSession
<1> HIDE DEF m, next, stored
<1>7. SenderChains(stored) \subseteq SenderChains(r) \cup {next.sender}
  BY <1>1, <1>5, ReplaceCurrentProperties DEF stored
<1>8. s.sender \in SenderChains(r)
  BY <1>2 DEF SenderChains
<1>9. ASSUME NEW x \in Party, NEW y \in Party, NEW c \in SenderChains(records'[x][y])
      PROVE  \/ c \in SenderChains(records[x][y])
             \/ /\ x = p /\ y = q
                /\ c.ratchet = s.sender.ratchet /\ c.root = s.sender.root
                /\ c.index = s.sender.index + 1
  BY <1>5, <1>6, <1>7, <1>9
<1> HIDE DEF s
<1>10. SendsOn(p, q, m, s.sender)
  BY <1>3, <1>4, <1>5, <1>8, <1>9 DEF SendsOn
<1> QED
  BY <1>10

LEMMA NextNames ==
    ASSUME TypeOK, TypeOK', ChainInv, RatchetsNameChains, [Next]_vars
    PROVE  RatchetsNameChains'
<1>1. ASSUME NEW k, NEW root, Names(k, root)
      PROVE  Known(k)
  BY <1>1 DEF Names, ChainInv, KeysKnown, KnownChain
<1>2. ASSUME NEW p \in Party, NEW q \in Party, Encrypt(p, q)
      PROVE  RatchetsNameChains'
  <2>1. PICK m, s : SendsOn(p, q, m, s)
    BY <1>2, EncryptMoves
  <2>2. Names(s.ratchet, s.root)
    BY <2>1 DEF Names, SendsOn
  <2>3. ASSUME NEW k, NEW root, Names(k, root)'
        PROVE  Names(k, root)
    <3>1. CASE \E o \in sent' : o.ratchet = k /\ o.key.root = root
      BY <2>1, <2>2, <3>1 DEF Names, SendsOn
    <3>2. CASE \E x, y \in Party : \E c \in SenderChains(records'[x][y]) : c.ratchet = k /\ c.root = root
      BY <2>1, <2>2, <3>2 DEF Names, SendsOn
    <3> QED BY <2>3, <3>1, <3>2 DEF Names
  <2> QED BY <2>3 DEF RatchetsNameChains
<1>3. CASE ~\E p, q \in Party : Encrypt(p, q)
  <2>1. (BeginsNothing \/ \E n : Begins(n)) /\ sent' = sent
    BY <1>3, StepBegins
  <2>2. CASE BeginsNothing
    <3>1. \A k, root : Names(k, root)' => Names(k, root)
      BY <2>1, <2>2 DEF BeginsNothing, Names
    <3> QED BY <3>1 DEF RatchetsNameChains
  <2>3. CASE \E n : Begins(n)
    <3>1. PICK n : Begins(n)
      BY <2>3
    <3>2. \A k, root : Names(k, root)' => Names(k, root) \/ (k = n.ratchet /\ root = n.root)
      BY <2>1, <3>1 DEF Begins, Names
    <3>3. ~Known(n.ratchet)
      BY <3>1 DEF Begins
    <3> QED BY <1>1, <3>2, <3>3 DEF RatchetsNameChains
  <2> QED BY <2>1, <2>2, <2>3
<1> QED
  BY <1>2, <1>3

LEMMA NextCounted ==
    ASSUME TypeOK, TypeOK', SendersCounted, [Next]_vars
    PROVE  SendersCounted'
<1>1. ASSUME NEW p \in Party, NEW q \in Party, Encrypt(p, q)
      PROVE  SendersCounted'
  <2>1. PICK m, s : SendsOn(p, q, m, s)
    BY <1>1, EncryptMoves
  <2>2. s.index \in Nat /\ s.index <= texts[p] /\ MaxTexts \in Nat
        /\ \A x \in Party : texts[x] \in Nat /\ texts'[x] >= texts[x]
        /\ texts'[p] = texts[p] + 1
    BY <2>1, BoundsAssumption DEF SendsOn, SenderChain, SendersCounted, TypeOK
  <2>3. ASSUME NEW x \in Party, NEW y \in Party, NEW c \in SenderChains(records'[x][y])
        PROVE  c.index <= texts'[x]
    <3>1. CASE c \in SenderChains(records[x][y])
      <4>1. c.index \in Nat /\ c.index <= texts[x]
        BY <3>1, ChainType DEF SenderChain, SendersCounted
      <4> QED BY <4>1, <2>2 DEF TypeOK
    <3>2. CASE x = p /\ y = q /\ c.index = s.index + 1
      BY <3>2, <2>2
    <3> QED BY <2>1, <3>1, <3>2 DEF SendsOn
  <2>4. m.key.index < MaxTexts
    BY <2>1, <2>2 DEF SendsOn
  <2>5. sent' = sent \cup {m}
    BY <2>1 DEF SendsOn
  <2> QED BY <2>3, <2>4, <2>5 DEF SendersCounted
<1>2. CASE ~\E p, q \in Party : Encrypt(p, q)
  <2>1. (BeginsNothing \/ \E n : Begins(n)) /\ sent' = sent /\ texts' = texts
    BY <1>2, StepBegins
  <2>2. \A x \in Party : 0 <= texts[x]
    BY DEF TypeOK
  <2> QED BY <2>1, <2>2 DEF BeginsNothing, Begins, SendersCounted
<1> QED
  BY <1>1, <1>2

-----------------------------------------------------------------------------
(* What a chain has kept                                                   *)

\* The chain c of a session with q stands where a message of q on the same ratchet
\* key left it, and every message before that is decrypted or its key is kept.
Traced(p, q, c) ==
    /\ c.index > 0 => \E m \in sent :
          /\ m.from = q /\ m.to = p /\ m.ratchet = c.ratchet
          /\ m.key = [root |-> c.root, index |-> c.index - 1]
    /\ Len(c.skipped) <= c.index
    /\ \A m \in sent : m.from = q /\ m.to = p /\ m.key.root = c.root /\ m.key.index < c.index
          => m \in opened[p] \/ Contains(c.skipped, m.key.index)
Traces ==
    \A p, q \in Party : \A s \in Sessions(records[p][q]) : \A c \in ToSet(s.receivers) :
        Traced(p, q, c)

\* r is the record of the sender, with another session current or a new one.
Reads(p, m, r) ==
    /\ r \in Record
    /\ \A u \in Sessions(r) : \A c \in ToSet(u.receivers) :
          \E s \in Sessions(records[p][m.from]) : c \in ToSet(s.receivers)

LEMMA ReadsStored ==
    ASSUME TypeOK, NEW p \in Party, NEW m \in Message
    PROVE  Reads(p, m, records[p][m.from])
  BY MessageFields, RecordType DEF Reads

LEMMA BobReceivesNothing ==
    ASSUME NEW own \in Key, NEW sender \in Key, NEW base \in Key, NEW signed \in Key,
           NEW preKey \in OptionalKey
    PROVE  /\ InitializeBob(own, sender, base, signed, preKey) \in Session
           /\ ToSet(InitializeBob(own, sender, base, signed, preKey).receivers) = {}
<1> DEFINE s == InitializeBob(own, sender, base, signed, preKey)
<1>1. s \in Session
  BY ONLY InitializeBobProperties, own \in Key, sender \in Key, base \in Key, signed \in Key,
          preKey \in OptionalKey
<1>2. s.receivers = <<>>
  BY DEF InitializeBob
<1>3. ToSet(s.receivers) = {}
  BY <1>2 DEF ToSet
<1> QED
  BY <1>1, <1>3

\* The bundle of Bob starts one chain, which nothing has been received on.
LEMMA AliceUnused ==
    ASSUME NEW local, NEW remote, NEW base, NEW ratchet, NEW signed, NEW preKey, NEW time,
           NEW d \in ToSet(InitializeAlice(local, remote, base, ratchet, signed, preKey,
                                           time).receivers)
    PROVE  Unused(d)
  BY DEF InitializeAlice, Unused, ToSet

LEMMA ReadsProcessed ==
    ASSUME TypeOK, NEW p \in Party, NEW m \in Message, m.type = "prekey"
    PROVE  Reads(p, m, ProcessPreKey(p, records[p][m.from], m))
<1> DEFINE r == records[p][m.from]
<1>1. r \in Record /\ \A s \in Sessions(r) : s \in Session /\ ClearPending(s).receivers = s.receivers
  BY MessageFields, RecordType, SessionsOfRecord, ClearPendingFields
<1>2. CASE HasMatchingSession(r, m.base)
  <2> DEFINE q == PromoteMatching(r, m.base)
  <2>1. ProcessPreKey(p, r, m) = q
    BY <1>2 DEF ProcessPreKey
  <2> HIDE DEF r
  <2>2. q \in Record
    BY <1>1, <1>2, PromoteMatchingProperties
  <2>3. \A u \in Sessions(q) : \E s \in Sessions(r) : Alike(u, s)
    BY <1>1, <1>2, SessionsAfterMatching
  <2> HIDE DEF q
  <2>4. \A u \in Sessions(q) : \E s \in Sessions(r) : u.receivers = s.receivers
    BY <1>1, <2>3 DEF Alike
  <2> QED BY <2>1, <2>2, <2>4 DEF Reads, r
<1>3. CASE ~HasMatchingSession(r, m.base)
  <2>1. PICK own, sender, base, signed, preKey :
          own = identity[p] /\ sender = m.sender /\ base = m.base
          /\ signed = m.signedPreKey /\ preKey = m.preKey
    OBVIOUS
  <2> DEFINE b == InitializeBob(own, sender, base, signed, preKey)
             q == PromoteState(r, b)
  <2>2. ProcessPreKey(p, r, m) = q
    BY <1>3, <2>1 DEF ProcessPreKey
  <2>3. b \in Session /\ ToSet(b.receivers) = {}
    <3>1. /\ own \in Key /\ sender \in Key /\ base \in Key /\ signed \in Key
          /\ preKey \in OptionalKey
      BY <2>1, MessageFields DEF TypeOK
    <3> QED BY <3>1, BobReceivesNothing
  <2> HIDE DEF b, r
  <2>4. q \in Record
    BY <1>1, <2>3, PromoteStateProperties
  <2>5. ASSUME NEW u \in Sessions(q), u # b
        PROVE  \E s \in Sessions(r) : u.receivers = s.receivers
    <3>1. \/ r.current # NoSession /\ u = ClearPending(r.current)
          \/ \E j \in DOMAIN r.previous : u = r.previous[j]
      BY <1>1, <2>3, <2>5, SessionsAfterPromote
    <3> QED BY <3>1, <1>1, SessionsOfRecord
  <2> HIDE DEF q
  <2> QED BY <2>2, <2>3, <2>4, <2>5 DEF Reads, r
<1> QED
  BY <1>2, <1>3

\* What a decryption does to the chains of the record it is stored in.
LEMMA DecryptReads ==
    ASSUME TypeOK, NEW m \in sent, Decrypt(m.to, m), ~RejectReplay(m.to, m)
    PROVE  \E r : /\ Reads(m.to, m, r)
                  /\ DecryptWithRecord(r, m, NewKey(m.to, 0)).verdict = "ok"
                  /\ StoreSession(m.to, m.from, DecryptWithRecord(r, m, NewKey(m.to, 0)).record)
                  /\ Opens(m.to, m) /\ UNCHANGED sent
<1> DEFINE p == m.to
           r0 == records[p][m.from]
           r1 == ProcessPreKey(p, r0, m)
<1>1. m \in Message /\ p \in Party
  BY SentType
<1>2. CASE DecryptSignal(p, m)
  <2>1. Reads(p, m, r0)
    BY <1>1, ReadsStored
  <2> QED BY <1>2, <2>1 DEF DecryptSignal, SignalResult
<1>3. CASE DecryptKnownPreKey(p, m) \/ DecryptNewPreKey(p, m)
  <2>1. m.type = "prekey"
    BY <1>3 DEF DecryptKnownPreKey, DecryptNewPreKey
  <2>2. Reads(p, m, r1)
    BY <1>1, <2>1, ReadsProcessed
  <2>3. /\ PreKeyResult(p, m).verdict = "ok" /\ StoreSession(p, m.from, PreKeyResult(p, m).record)
        /\ Opens(p, m) /\ UNCHANGED sent
    BY <1>3 DEF DecryptKnownPreKey, DecryptNewPreKey
  <2>4. PreKeyResult(p, m) = DecryptWithRecord(r1, m, NewKey(p, 0))
    BY DEF PreKeyResult
  <2> HIDE DEF r1
  <2> QED BY <2>2, <2>3, <2>4
<1> QED
  BY <1>2, <1>3 DEF Decrypt

\* Nobody forgets what it has decrypted, and no message is sent on a chain before
\* the place a receiver has reached.
LEMMA TracedStays ==
    ASSUME TypeOK, TypeOK', ChainInv, ReceiverInv, [Next]_vars,
           NEW p \in Party, NEW q \in Party, NEW c, c.index \in Nat, Traced(p, q, c)
    PROVE  Traced(p, q, c)'
<1>1. ASSUME NEW x \in Party, NEW y \in Party, Encrypt(x, y)
      PROVE  Traced(p, q, c)'
  <2>1. PICK m, s : SendsOn(x, y, m, s)
    BY <1>1, EncryptMoves
  <2>2. sent' = sent \cup {m} /\ opened' = opened
    BY <2>1 DEF SendsOn
  <2>3. s.index \in Nat /\ m.key.index = s.index /\ m.key.root = s.root
        /\ s \in SenderChains(records[x][y])
    BY <2>1 DEF SendsOn, SenderChain
  <2>4. ASSUME m.key.root = c.root, m.key.index < c.index
        PROVE  FALSE
    <3>1. c.index > 0
      BY <2>3, <2>4
    <3>2. PICK o \in sent : o.key = [root |-> c.root, index |-> c.index - 1]
      BY <3>1 DEF Traced
    <3>3. o.key.root = c.root /\ o.key.index = c.index - 1
      BY <3>2
    <3>4. s.index > o.key.index
      BY <2>3, <2>4, <3>2, <3>3 DEF ChainInv, ChainsAhead
    <3> QED BY <2>3, <2>4, <3>3, <3>4
  <2>5. c.index > 0 => \E o \in sent' :
          /\ o.from = q /\ o.to = p /\ o.ratchet = c.ratchet
          /\ o.key = [root |-> c.root, index |-> c.index - 1]
    BY <2>2 DEF Traced
  <2> QED BY <2>2, <2>4, <2>5 DEF Traced
<1>2. CASE UNCHANGED sent /\ opened[p] \subseteq opened'[p]
  BY <1>2 DEF Traced
<1>3. ASSUME NEW m \in sent, Opens(m.to, m), UNCHANGED <<sent, texts>>
      PROVE  Traced(p, q, c)'
  <2>1. opened[p] \subseteq opened'[p]
    BY <1>3 DEF Opens, TypeOK
  <2> QED BY <1>2, <1>3, <2>1
<1>4. CASE UNCHANGED historyVars
  BY <1>2, <1>4 DEF historyVars
<1> QED
  BY <1>1, <1>3, <1>4, StepKinds

\* A chain used for a message has kept what it could have, which is at most one key
\* for each message its sender may send.
LEMMA TracedTaken ==
    ASSUME TypeOK, ChainInv, SendersCounted, MaxTexts <= MAX_MESSAGE_KEYS,
           NEW p \in Party, NEW m \in sent, m.to = p, Opens(p, m), UNCHANGED sent,
           NEW c, Unused(c) \/ Traced(p, m.from, c), NEW d, Taken(c, d, m)
    PROVE  Traced(p, m.from, d)'
<1> DEFINE counter == m.key.index
           q == m.from
<1>1. /\ counter \in Nat /\ counter <= MAX_MESSAGE_KEYS
      /\ m.key = [root |-> m.key.root, index |-> counter]
  <2>1. m \in Message /\ m.key \in MessageKey /\ counter \in Nat
    BY MessageFields, SentType DEF MessageKey, Message
  <2>2. counter < MaxTexts
    BY DEF SendersCounted
  <2>3. m.key = [root |-> m.key.root, index |-> m.key.index]
    BY <2>1 DEF MessageKey
  <2> QED BY <2>1, <2>2, <2>3, BoundsAssumption, LimitsAssumption
<1>2. /\ c \in ReceiverChain /\ c.index \in Nat
      /\ c.root = m.key.root /\ c.ratchet = m.ratchet
      /\ Derivable(c, counter) /\ d = AdvanceChain(c, counter)
  BY DEF Taken, ReceiverChain
<1>3. Len(c.skipped) <= c.index
  BY DEF Unused, Traced
<1> HIDE DEF counter
<1>4. /\ d.root = c.root /\ d.ratchet = c.ratchet
      /\ d.index \in {c.index, counter + 1} /\ d.index >= c.index /\ counter < d.index
      /\ Len(d.skipped) <= d.index
      /\ \A n \in Nat : n # counter /\ n < d.index /\ Derivable(c, n)
            => Contains(d.skipped, n)
  BY <1>1, <1>2, <1>3, AdvanceChainKeeps
<1>5. opened'[p] = opened[p] \cup {m} /\ sent' = sent
  BY DEF Opens, TypeOK
<1>6. d.index > 0 => \E o \in sent' :
        /\ o.from = q /\ o.to = p /\ o.ratchet = d.ratchet
        /\ o.key = [root |-> d.root, index |-> d.index - 1]
  <2>1. CASE d.index = counter + 1
    <3>1. d.index - 1 = counter /\ d.root = m.key.root
      BY <1>1, <1>2, <1>4, <2>1
    <3>2. m.key = [root |-> d.root, index |-> d.index - 1]
      BY <1>1, <3>1
    <3> QED BY <1>2, <1>4, <1>5, <3>2
  <2>2. CASE d.index = c.index
    <3>1. c.index > 0 /\ ~Unused(c)
      BY <1>1, <1>2, <1>4, <2>2 DEF Unused
    <3>2. PICK o \in sent : /\ o.from = q /\ o.to = p /\ o.ratchet = c.ratchet
                            /\ o.key = [root |-> c.root, index |-> c.index - 1]
      BY <3>1 DEF Traced
    <3> QED BY <1>4, <1>5, <2>2, <3>2
  <2> QED BY <1>4, <2>1, <2>2
<1>7. ASSUME NEW o \in sent, o.from = q, o.to = p, o.key.root = d.root, o.key.index < d.index
      PROVE  o \in opened'[p] \/ Contains(d.skipped, o.key.index)
  <2>1. o.key.index \in Nat /\ o.key = [root |-> o.key.root, index |-> o.key.index]
    <3>1. o.key \in MessageKey
      BY SentType, MessageFields
    <3> QED BY <3>1 DEF MessageKey
  <2>2. CASE o.key.index = counter
    <3>1. o.key = m.key
      BY <1>1, <1>2, <1>4, <1>7, <2>1, <2>2
    <3>2. o = m
      BY <3>1 DEF ChainInv, MessageKeysUnique
    <3> QED BY <1>5, <3>2
  <2>3. CASE o.key.index # counter /\ o \notin opened[p]
    <3>1. Derivable(c, o.key.index)
      <4>1. CASE c.index <= o.key.index
        BY <4>1 DEF Derivable
      <4>2. CASE o.key.index < c.index
        <5>1. ~Unused(c)
          BY <2>1, <4>2 DEF Unused
        <5>2. o.key.root = c.root
          BY <1>4, <1>7
        <5> QED BY <1>7, <2>3, <4>2, <5>1, <5>2 DEF Traced, Derivable
      <4> QED BY <4>1, <4>2, <1>2, <2>1
    <3> QED BY <1>4, <1>7, <2>1, <2>3, <3>1
  <2> QED BY <1>5, <2>2, <2>3
<1> QED
  BY <1>4, <1>5, <1>6, <1>7 DEF Traced

\* Opening a conversation stores a session nothing has been received on.
LEMMA EstablishUnused ==
    ASSUME TypeOK, NEW p \in Party, NEW q \in Party, EstablishSession(p, q)
    PROVE  \E s \in Session : /\ StoreSession(p, q, PromoteState(FreshRecord, s))
                              /\ \A d \in ToSet(s.receivers) : Unused(d)
<1>1. PICK preKey \in OfferedPreKeys(q) :
        /\ records[p][q] = FreshRecord
        /\ LET session == InitializeAlice(identity[p], published[q].identity,
                                          NewKey(p, 0), NewKey(p, 1),
                                          published[q].signedPreKey, preKey, now)
           IN  StoreSession(p, q, PromoteState(records[p][q], session))
  BY DEF EstablishSession
<1>2. /\ identity[p] \in Key /\ published[q].identity \in Key
      /\ published[q].signedPreKey \in Key /\ now \in Nat
      /\ preKey \in OptionalKey
  BY <1>1 DEF TypeOK, Bundle, OfferedPreKeys, OptionalKey
<1>3. NewKey(p, 0) \in Key /\ NewKey(p, 1) \in Key
  BY NewKeyType
<1> DEFINE s == InitializeAlice(identity[p], published[q].identity, NewKey(p, 0),
                                NewKey(p, 1), published[q].signedPreKey, preKey, now)
<1>4. s \in Session
  BY <1>2, <1>3, InitializeAliceProperties
<1>5. StoreSession(p, q, PromoteState(FreshRecord, s))
  BY <1>1
<1>6. \A d \in ToSet(s.receivers) : Unused(d)
  BY AliceUnused
<1> HIDE DEF s
<1> QED
  BY <1>4, <1>5, <1>6

\* The chains of a record after a step are those of a record before it.
LEMMA StoredReceivers ==
    ASSUME TypeOK, NEW p \in Party, NEW q \in Party, NEW r, StoreSession(p, q, r)
    PROVE  \A x, y \in Party :
              /\ x = p /\ y = q => records'[x][y] = r
              /\ ~(x = p /\ y = q) => records'[x][y] = records[x][y]
  BY DEF TypeOK, StoreSession

LEMMA NextTraces ==
    ASSUME TypeOK, TypeOK', ChainInv, ReceiverInv, SendersCounted, Traces,
           MaxTexts <= MAX_MESSAGE_KEYS, [Next]_vars
    PROVE  Traces'
<1>1. ASSUME NEW p \in Party, NEW q \in Party, NEW s \in Sessions(records[p][q]),
             NEW c \in ToSet(s.receivers)
      PROVE  Traced(p, q, c) /\ Traced(p, q, c)'
  <2>1. Traced(p, q, c)
    BY DEF Traces
  <2>2. c.index \in Nat
    <3>1. s.receivers \in Seq(ReceiverChain)
      BY SessionType DEF Session
    <3>2. PICK i \in DOMAIN s.receivers : c = s.receivers[i]
      BY DEF ToSet
    <3>3. c \in ReceiverChain
      BY <3>1, <3>2
    <3> QED BY <3>3 DEF ReceiverChain
  <2>3. Traced(p, q, c)'
    BY <2>1, <2>2, TracedStays
  <2> QED BY <2>1, <2>3
<1>2. ASSUME NEW p \in Party, NEW q \in Party, NEW d, Unused(d)
      PROVE  Traced(p, q, d)'
  <2>1. Len(d.skipped) = 0 /\ d.index = 0
    BY <1>2 DEF Unused
  <2>2. ASSUME NEW m \in sent'
        PROVE  m.key.index \in Nat
    <3>1. m \in Message
      BY DEF TypeOK
    <3>2. m.key \in MessageKey
      BY <3>1, MessageFields
    <3> QED BY <3>2 DEF MessageKey
  <2> QED BY <2>1, <2>2 DEF Traced
<1>3. CASE \A p, q \in Party : \A u \in Sessions(records'[p][q]) :
             \/ \E s \in Sessions(records[p][q]) : u.receivers = s.receivers
             \/ \A d \in ToSet(u.receivers) : Unused(d)
  <2>1. ASSUME NEW p \in Party, NEW q \in Party, NEW u \in Sessions(records'[p][q]),
               NEW d \in ToSet(u.receivers)
        PROVE  Traced(p, q, d)'
    <3>1. CASE Unused(d)
      BY <3>1, <1>2
    <3>2. CASE ~Unused(d)
      <4>1. PICK s \in Sessions(records[p][q]) : u.receivers = s.receivers
        BY <1>3, <3>2
      <4>2. d \in ToSet(s.receivers)
        BY <4>1
      <4> QED BY <4>2, <1>1
    <3> QED BY <3>1, <3>2
  <2> QED BY <2>1 DEF Traces
<1>4. CASE \A x, y \in Party : records'[x][y] \in {records[x][y], FreshRecord}
  <2>1. Sessions(FreshRecord) = {}
    BY FreshRecordProperties
  <2> QED BY <1>3, <1>4, <2>1
<1>5. ASSUME NEW p \in Party, NEW q \in Party, EstablishSession(p, q)
      PROVE  Traces'
  <2>1. PICK s \in Session : /\ StoreSession(p, q, PromoteState(FreshRecord, s))
                             /\ \A d \in ToSet(s.receivers) : Unused(d)
    BY <1>5, EstablishUnused
  <2> DEFINE r == PromoteState(FreshRecord, s)
  <2>2. \A u \in Sessions(r) : u = s
    <3>1. FreshRecord.current = NoSession /\ DOMAIN FreshRecord.previous = {}
      BY DEF FreshRecord
    <3>2. FreshRecord \in Record
      BY FreshRecordProperties
    <3> HIDE DEF r
    <3>3. ASSUME NEW u \in Sessions(PromoteState(FreshRecord, s))
          PROVE  u = s
      BY <3>1, <3>2, SessionsAfterPromote
    <3> QED BY <3>3 DEF r
  <2>3. StoreSession(p, q, r)
    BY <2>1
  <2> HIDE DEF r
  <2>4. \A x, y \in Party :
           /\ x = p /\ y = q => records'[x][y] = r
           /\ ~(x = p /\ y = q) => records'[x][y] = records[x][y]
    BY <2>3, StoredReceivers
  <2> QED BY <1>3, <2>1, <2>2, <2>4
<1>6. ASSUME NEW p \in Party, NEW q \in Party, Encrypt(p, q)
      PROVE  Traces'
  <2> DEFINE r == records[p][q]
             s == r.current
             t == AdvanceSenderChain(s)
             stored == [r EXCEPT !.current = t]
  <2>1. r \in Record /\ s # NoSession /\ StoreSession(p, q, stored)
    BY <1>6, RecordType DEF Encrypt
  <2>2. s \in Session /\ s \in Sessions(r)
    BY <2>1, SessionsOfRecord
  <2>3. t \in Session /\ t.receivers = s.receivers
    BY <2>2, AdvanceSenderChainType
  <2> HIDE DEF t
  <2>4. stored \in Record /\ stored.current = t /\ stored.previous = r.previous
    BY <2>1, <2>3, ReplaceCurrentProperties
  <2> HIDE DEF stored
  <2>5. \A u \in Sessions(stored) : u = t \/ u \in Sessions(r)
    BY <2>1, <2>4, SessionsOfRecord
  <2>6. \A u \in Sessions(stored) : \E v \in Sessions(r) : u.receivers = v.receivers
    BY <2>2, <2>3, <2>5
  <2>7. \A x, y \in Party :
           /\ x = p /\ y = q => records'[x][y] = stored
           /\ ~(x = p /\ y = q) => records'[x][y] = records[x][y]
    BY <2>1, StoredReceivers
  <2> HIDE DEF s
  <2> QED BY <1>3, <2>6, <2>7
<1>7. ASSUME NEW m \in sent, Decrypt(m.to, m)
      PROVE  Traces'
  <2>1. CASE RejectReplay(m.to, m)
    BY <1>4, <2>1 DEF RejectReplay
  <2>2. CASE ~RejectReplay(m.to, m)
    <3>1. PICK p \in Party : p = m.to
      BY SentType
    <3>2. m \in Message /\ m.from \in Party
      BY SentType
    <3>3. PICK r : /\ Reads(p, m, r)
                   /\ DecryptWithRecord(r, m, NewKey(p, 0)).verdict = "ok"
                   /\ StoreSession(p, m.from, DecryptWithRecord(r, m, NewKey(p, 0)).record)
                   /\ Opens(p, m) /\ UNCHANGED sent
      BY <1>7, <2>2, <3>1, DecryptReads
    <3> DEFINE q == DecryptWithRecord(r, m, NewKey(p, 0)).record
    <3>4. r \in Record /\ NewKey(p, 0) \in Key
      BY <3>3, NewKeyType DEF Reads
    <3>5. \A u \in Sessions(q) : \A d \in ToSet(u.receivers) :
             \E s \in Sessions(r) : Descends(s, d, m)
      BY <3>2, <3>3, <3>4, DecryptWithRecordDescends
    <3>6. StoreSession(p, m.from, q)
      BY <3>3
    <3> HIDE DEF q
    <3>7. \A x, y \in Party :
             /\ x = p /\ y = m.from => records'[x][y] = q
             /\ ~(x = p /\ y = m.from) => records'[x][y] = records[x][y]
      BY <3>2, <3>6, StoredReceivers
    <3>8. ASSUME NEW s \in Sessions(r), NEW c \in ToSet(s.receivers)
          PROVE  Traced(p, m.from, c) /\ Traced(p, m.from, c)'
      <4>1. PICK v \in Sessions(records[p][m.from]) : c \in ToSet(v.receivers)
        BY <3>3 DEF Reads
      <4> QED BY <1>1, <3>2, <4>1
    <3>9. ASSUME NEW u \in Sessions(q), NEW d \in ToSet(u.receivers)
          PROVE  Traced(p, m.from, d)'
      <4>1. PICK s \in Sessions(r) : Descends(s, d, m)
        BY <3>5
      <4>2. CASE d \in ToSet(s.receivers)
        BY <3>8, <4>2
      <4>3. CASE Unused(d)
        BY <1>2, <3>2, <4>3
      <4>4. ASSUME NEW c, c \in ToSet(s.receivers) \/ Unused(c), Taken(c, d, m)
            PROVE  Traced(p, m.from, d)'
        <5>1. Unused(c) \/ Traced(p, m.from, c)
          BY <3>8, <4>4
        <5>2. m.to = p /\ Opens(p, m) /\ UNCHANGED sent
          BY <3>1, <3>3
        <5> QED BY <4>4, <5>1, <5>2, TracedTaken
      <4> QED BY <4>1, <4>2, <4>3, <4>4 DEF Descends
    <3>10. ASSUME NEW x \in Party, NEW y \in Party, NEW u \in Sessions(records'[x][y]),
                  NEW d \in ToSet(u.receivers)
           PROVE  Traced(x, y, d)'
      <4>1. CASE x = p /\ y = m.from
        BY <3>7, <3>9, <4>1
      <4>2. CASE ~(x = p /\ y = m.from)
        BY <1>1, <3>7, <4>2
      <4> QED BY <4>1, <4>2
    <3> QED BY <3>10 DEF Traces
  <2> QED BY <2>1, <2>2
<1>8. ASSUME NEW p \in Party, NEW q \in Party, FetchUnused(p, q) \/ DeleteSession(p, q)
      PROVE  Traces'
  <2>1. \A x, y \in Party : records'[x][y] \in {records[x][y], FreshRecord}
    <3>1. CASE FetchUnused(p, q)
      BY <3>1 DEF FetchUnused, sessionVars
    <3>2. CASE DeleteSession(p, q)
      <4>1. StoreSession(p, q, FreshRecord)
        BY <3>2 DEF DeleteSession
      <4> QED BY <4>1, StoredReceivers
    <3> QED BY <1>8, <3>1, <3>2
  <2> QED BY <1>4, <2>1
<1>9. ASSUME NEW p \in Party, ReplenishKeys(p) \/ Reinstall(p)
      PROVE  Traces'
  <2>1. \A x, y \in Party : records'[x][y] \in {records[x][y], FreshRecord}
    BY <1>9 DEF ReplenishKeys, Reinstall, sessionVars, TypeOK
  <2> QED BY <1>4, <2>1
<1>10. CASE Tick \/ UNCHANGED vars
  <2>1. records' = records
    BY <1>10 DEF Tick, vars, sessionVars
  <2> QED BY <1>4, <2>1
<1> QED
  BY <1>5, <1>6, <1>7, <1>8, <1>9, <1>10 DEF Next

LEMMA InitTraces ==
    ASSUME Init
    PROVE  RatchetsNameChains /\ SendersCounted /\ Traces
<1>1. \A p, q \in Party : records[p][q] = FreshRecord
  BY DEF Init
<1>2. Sessions(FreshRecord) = {}
  BY FreshRecordProperties
<1>3. sent = {}
  BY DEF Init
<1>4. \A p, q \in Party : SenderChains(records[p][q]) = {}
  BY <1>1, <1>2 DEF SenderChains
<1> QED
  BY <1>1, <1>2, <1>3, <1>4 DEF RatchetsNameChains, Names, SendersCounted, Traces

-----------------------------------------------------------------------------
(* The verdict                                                             *)

\* A verdict "duplicate" comes from a chain the record read for it holds.
LEMMA VerdictReads ==
    ASSUME TypeOK, NEW p \in Party, NEW m \in Message, Verdict(p, m) = "duplicate"
    PROVE  \E r : Reads(p, m, r) /\ DecryptWithRecord(r, m, NewKey(p, 0)).verdict = "duplicate"
<1> DEFINE r0 == records[p][m.from]
           r1 == ProcessPreKey(p, r0, m)
<1>1. CASE m.type = "whisper"
  <2>1. Reads(p, m, r0)
    BY ReadsStored
  <2> QED BY <1>1, <2>1 DEF Verdict, SignalResult
<1>2. CASE m.type # "whisper"
  <2>1. m.type = "prekey"
    BY <1>2 DEF Message
  <2>2. Reads(p, m, r1)
    BY <2>1, ReadsProcessed
  <2>3. PreKeyResult(p, m).verdict = "duplicate"
    BY <1>2 DEF Verdict
  <2>4. PreKeyResult(p, m) = DecryptWithRecord(r1, m, NewKey(p, 0))
    BY DEF PreKeyResult
  <2> HIDE DEF r1
  <2> QED BY <2>2, <2>3, <2>4
<1> QED
  BY <1>1, <1>2

LEMMA TracesMeanOpened ==
    ASSUME TypeOK, RatchetsNameChains, Traces
    PROVE  DuplicateMeansOpened
<1> SUFFICES ASSUME NEW m \in sent, Verdict(m.to, m) = "duplicate"
             PROVE  m \in opened[m.to]
  BY DEF DuplicateMeansOpened
<1>1. PICK p \in Party : p = m.to
  BY SentType
<1>2. m \in Message /\ m.from \in Party /\ m.ratchet \in Key /\ m.key.root \in RootKey
  BY SentType
<1>3. PICK r : Reads(p, m, r) /\ DecryptWithRecord(r, m, NewKey(p, 0)).verdict = "duplicate"
  BY <1>1, <1>2, VerdictReads
<1>4. r \in Record /\ NewKey(p, 0) \in Key
  BY <1>3, NewKeyType DEF Reads
<1>5. PICK s \in Sessions(r) : DecryptWithState(s, m, NewKey(p, 0)).verdict = "duplicate"
  BY <1>2, <1>3, <1>4, DuplicateOfRecord
<1>6. s \in Session
  BY <1>4, SessionsOfRecord
<1>7. PICK c \in ToSet(s.receivers) :
        /\ c \in ReceiverChain /\ c.ratchet = m.ratchet
        /\ c.index > m.key.index /\ ~Contains(c.skipped, m.key.index)
  BY <1>2, <1>4, <1>5, <1>6, DuplicateOfState
<1>8. PICK v \in Sessions(records[p][m.from]) : c \in ToSet(v.receivers)
  BY <1>3 DEF Reads
<1>9. Traced(p, m.from, c)
  BY <1>2, <1>8 DEF Traces
<1>10. c.index \in Nat /\ c.index > 0 /\ c.root \in RootKey
  <2>1. m.key \in MessageKey
    BY <1>2, MessageFields
  <2>2. m.key.index \in Nat
    BY <2>1 DEF MessageKey
  <2> QED BY <1>7, <2>2 DEF ReceiverChain
<1>11. PICK o \in sent : o.ratchet = c.ratchet /\ o.key = [root |-> c.root, index |-> c.index - 1]
  BY <1>9, <1>10 DEF Traced
<1>12. o.key.root = c.root
  BY <1>11
<1>13. Names(m.ratchet, m.key.root) /\ Names(m.ratchet, c.root)
  BY <1>7, <1>11, <1>12 DEF Names
<1>14. m.key.root = c.root
  BY <1>2, <1>10, <1>13 DEF RatchetsNameChains
<1> QED
  BY <1>1, <1>7, <1>9, <1>14 DEF Traced

\* While a chain has room for the key of every message its sender may still send, so
\* that none is evicted, the verdict "duplicate" is given to decrypted messages only:
\* for any number of devices, through lost and late messages, archived and promoted
\* sessions, deletion and reinstallation.
THEOREM DuplicatesOpened ==
    ASSUME MaxTexts <= MAX_MESSAGE_KEYS
    PROVE  Spec => []DuplicateMeansOpened
<1> DEFINE Inv == RatchetsNameChains /\ SendersCounted /\ Traces
<1>1. Init => Inv
  BY InitTraces
<1>2. TypeOK /\ TypeOK' /\ ChainInv /\ ReceiverInv /\ Inv /\ [Next]_vars => Inv'
  BY NextNames, NextCounted, NextTraces
<1>3. TypeOK /\ Inv => DuplicateMeansOpened
  BY TracesMeanOpened
<1> QED
  BY <1>1, <1>2, <1>3, TypeCorrect, ChainCorrect, ReceiversSound, PTL DEF Spec

=============================================================================
