------------------------ MODULE DirectSessionProofs ------------------------
(***************************************************************************)
(* Theorems about one-to-one messaging, for any devices and messages.      *)
(* First DoubleRatchet, where a call is one step: that within the limits   *)
(* no message is lost.  Then DirectSession, whose calls overlap, for any   *)
(* users, conversations and number of calls under way: its type invariant, *)
(* that no message key is used twice and that no message is read twice.    *)
(***************************************************************************)
EXTENDS DirectSession, DoubleRatchetProofs

-----------------------------------------------------------------------------
(* A session that can read a message                                       *)

\* The session receives on the chain of that ratchet key and root.
HoldsChain(s, ratchet, root) ==
    \E c \in ToSet(s.receivers) : c.ratchet = ratchet /\ c.root = root

\* get_or_create_chain_key, while there is room for another chain: all chains stay.
LEMMA WithReceiverChainKeeps ==
    ASSUME NEW s \in Session, NEW ratchet \in Key, NEW fresh \in Key,
           Len(s.receivers) < MAX_RECEIVER_CHAINS, ~HasReceiverChain(s, ratchet)
    PROVE  \E chain \in ReceiverChain :
              /\ chain.ratchet = ratchet /\ chain.index = 0
              /\ chain.root = CreateChain(s.root, s.sender.ratchet, ratchet)
              /\ WithReceiverChain(s, ratchet, fresh).receivers = Append(s.receivers, chain)
<1> DEFINE receiving == CreateChain(s.root, s.sender.ratchet, ratchet)
           sending == CreateChain(receiving, fresh, ratchet)
           chain == [ratchet |-> ratchet, root |-> receiving, index |-> 0, skipped |-> <<>>]
           chains == AddReceiverChain(s.receivers, chain)
           sender == [ratchet |-> fresh, root |-> sending, index |-> 0]
           s1 == WithReceiverChain(s, ratchet, fresh)
<1>1. /\ s.root \in RootKey /\ s.sender.ratchet \in Key
      /\ s.receivers \in Seq(ReceiverChain) /\ Len(s.receivers) \in Nat
  BY DEF Session, SenderChain
<1>2. receiving \in RootKey
  BY <1>1, CreateChainProperties
<1>3. s1 = [s EXCEPT !.root = sending, !.receivers = chains, !.sender = sender]
  BY DEF WithReceiverChain
<1> HIDE DEF receiving, sending, sender, s1
<1>4. /\ chain \in ReceiverChain /\ chain.ratchet = ratchet /\ chain.index = 0
      /\ chain.root = receiving
  BY <1>2 DEF ReceiverChain
<1> HIDE DEF chain
<1>5. Len(Append(s.receivers, chain)) = Len(s.receivers) + 1
  BY <1>1, <1>4
<1>6. chains = Append(s.receivers, chain)
  BY <1>1, <1>5, LimitsAssumption DEF AddReceiverChain
<1> HIDE DEF chains
<1>7. s1.receivers = chains
  BY <1>3 DEF Session
<1> QED
  BY <1>4, <1>6, <1>7 DEF s1, receiving

\* The chain decrypt_message_with_state finds: one of the session, or the one it splits off.
LEMMA ChainFoundRoot ==
    ASSUME NEW s \in Session, SessionSound(s), NEW m \in Message, NEW fresh \in Key
    PROVE  LET s1 == WithReceiverChain(s, m.ratchet, fresh)
               c  == s1.receivers[ReceiverChainIndex(s1, m.ratchet)]
           IN  /\ c \in ReceiverChain
               /\ \/ HasReceiverChain(s, m.ratchet) /\ c \in ToSet(s.receivers) /\ c.ratchet = m.ratchet
                  \/ /\ ~HasReceiverChain(s, m.ratchet)
                     /\ c.root = CreateChain(s.root, s.sender.ratchet, m.ratchet) /\ c.index = 0
<1> DEFINE s1 == WithReceiverChain(s, m.ratchet, fresh)
           i == ReceiverChainIndex(s1, m.ratchet)
           c == s1.receivers[i]
<1>1. m.ratchet \in Key
  BY DEF Message
<1>2. /\ s1.receivers \in Seq(ReceiverChain) /\ i \in 1 .. Len(s1.receivers)
      /\ c \in ReceiverChain /\ c.ratchet = m.ratchet
  BY ChainFound
<1> HIDE DEF i
<1>3. c \in ToSet(s1.receivers)
  BY <1>2 DEF ToSet
<1>4. CASE HasReceiverChain(s, m.ratchet)
  <2>1. s1 = s
    BY <1>4 DEF WithReceiverChain
  <2> QED BY <2>1, <1>2, <1>3, <1>4 DEF i
<1>5. CASE ~HasReceiverChain(s, m.ratchet)
  <2> DEFINE receiving == CreateChain(s.root, s.sender.ratchet, m.ratchet)
  <2>1. \/ c \in ToSet(s.receivers) /\ c.ratchet # m.ratchet
        \/ c.root = receiving /\ c.ratchet = m.ratchet /\ c.index = 0
    <3> HIDE DEF c
    <3> QED BY <1>1, <1>3, <1>5, NewReceiverChainSound
  <2> HIDE DEF s1, c
  <2>2. c.root = receiving /\ c.index = 0
    BY <2>1, <1>2
  <2> QED BY <2>2, <1>2, <1>5 DEF s1, c, i
<1> QED
  BY <1>4, <1>5

\* m is a message of the chain the session would look it up on.
Reaches(s, m) ==
    /\ m.sender = s.remote /\ m.receiver = s.local
    /\ \A c \in ToSet(s.receivers) : c.ratchet = m.ratchet => c.root = m.key.root
    /\ \/ HasReceiverChain(s, m.ratchet)
       \/ CreateChain(s.root, s.sender.ratchet, m.ratchet) = m.key.root

LEMMA ReachesIsRead ==
    ASSUME NEW s \in Session, SessionSound(s), NEW m \in Message, NEW fresh \in Key,
           Reaches(s, m), m.key.index <= MAX_FORWARD_JUMPS
    PROVE  DecryptWithState(s, m, fresh).verdict \in {"ok", "duplicate"}
<1> DEFINE s1 == WithReceiverChain(s, m.ratchet, fresh)
           c == s1.receivers[ReceiverChainIndex(s1, m.ratchet)]
           counter == m.key.index
<1>1. /\ c \in ReceiverChain
      /\ \/ HasReceiverChain(s, m.ratchet) /\ c \in ToSet(s.receivers) /\ c.ratchet = m.ratchet
         \/ /\ ~HasReceiverChain(s, m.ratchet)
            /\ c.root = CreateChain(s.root, s.sender.ratchet, m.ratchet) /\ c.index = 0
  BY ChainFoundRoot
<1>2. DecryptWithState(s, m, fresh).verdict
        = IF KeyVerdict(s, c, counter) # "ok" THEN KeyVerdict(s, c, counter)
          ELSE IF ~MacValid(s, c, m) THEN "invalid" ELSE "ok"
  BY DEF DecryptWithState, Failed
<1> HIDE DEF c
<1>3. MacValid(s, c, m)
  BY <1>1 DEF MacValid, Reaches
<1>4. counter \in Nat /\ c.index \in Nat
  BY <1>1 DEF Message, MessageKey, ReceiverChain
<1>5. KeyVerdict(s, c, counter) \in {"ok", "duplicate"}
  BY <1>4, LimitsAssumption DEF KeyVerdict
<1> QED
  BY <1>2, <1>3, <1>5

\* The session t is s after it decrypted m: every chain it received on is still there,
\* and that of m, which is of its root key or starts the next.
Receivers(s, t, m) ==
    /\ \A k, root : HoldsChain(s, k, root) => HoldsChain(t, k, root)
    /\ HoldsChain(t, m.ratchet, m.key.root)
    /\ \A d \in ToSet(t.receivers) : d.index > 0 \/ d \in ToSet(s.receivers)
Moves(s, t, m, fresh) ==
    /\ t \in Session /\ SessionSound(t)
    /\ t.local = s.local /\ t.remote = s.remote /\ t.base = s.base /\ t.pending = NoPending
    /\ Receivers(s, t, m)
    /\ \/ /\ t.root = s.root /\ t.sender = s.sender
          /\ HoldsChain(s, m.ratchet, m.key.root)
       \/ /\ ~HasReceiverChain(s, m.ratchet)
          /\ m.key.root = CreateChain(s.root, s.sender.ratchet, m.ratchet)
          /\ t.root = CreateChain(m.key.root, fresh, m.ratchet)
          /\ t.sender.ratchet = fresh

\* A list of chains one of which is used.
LEMMA UsedChains ==
    ASSUME NEW chains \in Seq(ReceiverChain), NEW i \in 1 .. Len(chains), NEW counter \in Nat
    PROVE  LET used == [chains EXCEPT ![i] = AdvanceChain(chains[i], counter)]
           IN  /\ DOMAIN used = 1 .. Len(chains)
               /\ \A j \in 1 .. Len(chains) :
                     /\ used[j].ratchet = chains[j].ratchet /\ used[j].root = chains[j].root
                     /\ j # i => used[j] = chains[j]
               /\ used[i].index > 0
<1> DEFINE d == AdvanceChain(chains[i], counter)
           used == [chains EXCEPT ![i] = d]
<1>1. chains[i] \in ReceiverChain
  OBVIOUS
<1>2. d.ratchet = chains[i].ratchet /\ d.root = chains[i].root /\ d.index > 0
  <2> DEFINE c == chains[i]
             skipped == RemoveAt(c.skipped, SkippedPosition(c, counter))
             kept == SkipTo(c.skipped, c.index, counter)
  <2>1. d = IF c.index > counter THEN [c EXCEPT !.skipped = skipped]
            ELSE [c EXCEPT !.skipped = kept, !.index = counter + 1]
    BY DEF AdvanceChain
  <2> HIDE DEF c, d, skipped, kept
  <2>2. c \in [ratchet : Key, root : RootKey, index : Nat, skipped : Seq(Nat)]
    BY <1>1 DEF c, ReceiverChain
  <2>3. d.ratchet = c.ratchet /\ d.root = c.root /\ d.index > 0
    BY <2>1, <2>2
  <2> QED BY <2>3 DEF c
<1> HIDE DEF d
<1>3. DOMAIN used = 1 .. Len(chains) /\ used[i] = d
      /\ \A j \in 1 .. Len(chains) : j # i => used[j] = chains[j]
  OBVIOUS
<1> HIDE DEF used
<1> QED
  BY <1>2, <1>3 DEF used, d

\* decrypt_message_with_state, when it succeeds, while there is room for another chain.
LEMMA DecryptWithStateMoves ==
    ASSUME NEW s \in Session, SessionSound(s), NEW m \in Message, NEW fresh \in Key,
           Len(s.receivers) < MAX_RECEIVER_CHAINS,
           DecryptWithState(s, m, fresh).verdict = "ok"
    PROVE  Moves(s, DecryptWithState(s, m, fresh).session, m, fresh)
<1> DEFINE s1 == WithReceiverChain(s, m.ratchet, fresh)
           i == ReceiverChainIndex(s1, m.ratchet)
           c == s1.receivers[i]
           counter == m.key.index
           used == [s1.receivers EXCEPT ![i] = AdvanceChain(c, counter)]
           s2 == [s1 EXCEPT !.receivers[i] = AdvanceChain(c, counter)]
           t == DecryptWithState(s, m, fresh).session
<1>1. m.ratchet \in Key /\ counter \in Nat
  BY DEF Message, MessageKey
<1>2. s1 \in Session /\ HasReceiverChain(s1, m.ratchet)
  BY <1>1, WithReceiverChainProperties
<1>3. /\ s1.receivers \in Seq(ReceiverChain) /\ i \in 1 .. Len(s1.receivers)
      /\ c.ratchet = m.ratchet
  BY ChainFound
<1>4. /\ MacValid(s, c, m) /\ t = ClearPending(s2)
  BY DEF DecryptWithState, Failed
<1>5. c.root = m.key.root /\ m.sender = s.remote /\ m.receiver = s.local
  BY <1>4 DEF MacValid
<1>6. /\ t \in Session /\ SessionSound(t)
      /\ t.local = s.local /\ t.remote = s.remote /\ t.base = s.base /\ t.pending = NoPending
  <2>1. Turns(s, t, m, fresh)
    BY DecryptWithStateTurns
  <2> HIDE DEF t
  <2> QED BY <2>1 DEF Turns
<1> HIDE DEF i, c
<1>7. /\ DOMAIN used = 1 .. Len(s1.receivers)
      /\ \A j \in 1 .. Len(s1.receivers) :
            /\ used[j].ratchet = s1.receivers[j].ratchet /\ used[j].root = s1.receivers[j].root
            /\ j # i => used[j] = s1.receivers[j]
      /\ used[i].index > 0
  BY <1>1, <1>3, UsedChains DEF c
<1>8. s2.receivers = used /\ s2.root = s1.root /\ s2.sender = s1.sender
  BY <1>2 DEF Session
<1>9. s2 \in Session
  <2>1. AdvanceChain(c, counter) \in ReceiverChain
    <3>1. c \in ReceiverChain
      BY <1>3 DEF c
    <3>2. KeyVerdict(s, c, counter) = "ok"
      BY DEF DecryptWithState, Failed, c, i
    <3>3. c.index > counter => Contains(c.skipped, counter)
      BY <3>2 DEF KeyVerdict
    <3> QED BY <1>1, <3>1, <3>3, AdvanceChainProperties
  <2>2. used \in Seq(ReceiverChain)
    BY <1>3, <2>1
  <2>3. s2 = [s1 EXCEPT !.receivers = used]
    OBVIOUS
  <2> HIDE DEF s1, s2, used
  <2> QED BY <1>2, <2>2, <2>3 DEF Session
<1>10. t.receivers = used /\ t.root = s1.root /\ t.sender = s1.sender
  BY <1>4, <1>8, <1>9, ClearPendingFields
<1> HIDE DEF s1, used, s2, t
<1>11. ASSUME NEW k, NEW root, HoldsChain(s1, k, root)
       PROVE  HoldsChain(t, k, root)
  <2>1. PICK j \in 1 .. Len(s1.receivers) : s1.receivers[j].ratchet = k /\ s1.receivers[j].root = root
    BY <1>3, <1>11 DEF HoldsChain, ToSet
  <2>2. used[j] \in ToSet(t.receivers) /\ used[j].ratchet = k /\ used[j].root = root
    BY <1>7, <1>10, <2>1 DEF ToSet
  <2> QED BY <2>2 DEF HoldsChain
<1>12. HoldsChain(s1, m.ratchet, m.key.root)
  <2>1. s1.receivers[i] \in ToSet(s1.receivers)
    BY <1>3 DEF ToSet
  <2> QED BY <2>1, <1>3, <1>5 DEF HoldsChain, c
<1>13. ASSUME NEW d \in ToSet(t.receivers)
       PROVE  d.index > 0 \/ \E j \in 1 .. Len(s1.receivers) : j # i /\ d = s1.receivers[j]
  <2>1. PICK j \in 1 .. Len(s1.receivers) : d = used[j]
    BY <1>7, <1>10, <1>13 DEF ToSet
  <2> QED BY <2>1, <1>7
<1>14. CASE HasReceiverChain(s, m.ratchet)
  <2>1. s1 = s
    BY <1>14 DEF WithReceiverChain, s1
  <2>2. t.root = s.root /\ t.sender = s.sender
    BY <2>1, <1>10
  <2>3. \A d \in ToSet(t.receivers) : d.index > 0 \/ d \in ToSet(s.receivers)
    BY <2>1, <1>3, <1>13 DEF ToSet
  <2>4. \A k, root : HoldsChain(s, k, root) => HoldsChain(t, k, root)
    BY <2>1, <1>11
  <2>5. HoldsChain(s, m.ratchet, m.key.root) /\ HoldsChain(t, m.ratchet, m.key.root)
    BY <2>1, <2>4, <1>12
  <2> QED BY <2>2, <2>3, <2>4, <2>5, <1>6 DEF Moves, Receivers, t
<1>15. CASE ~HasReceiverChain(s, m.ratchet)
  <2>1. PICK chain \in ReceiverChain :
          /\ chain.ratchet = m.ratchet /\ chain.index = 0
          /\ chain.root = CreateChain(s.root, s.sender.ratchet, m.ratchet)
          /\ s1.receivers = Append(s.receivers, chain)
    BY <1>1, <1>15, WithReceiverChainKeeps DEF s1
  <2>2. /\ s1.root = CreateChain(CreateChain(s.root, s.sender.ratchet, m.ratchet), fresh, m.ratchet)
        /\ s1.sender.ratchet = fresh
    BY <1>1, <1>15, NewReceiverChainSound DEF s1
  <2>3. s.receivers \in Seq(ReceiverChain) /\ Len(s.receivers) \in Nat
    BY DEF Session
  <2>4. /\ Len(s1.receivers) = Len(s.receivers) + 1
        /\ s1.receivers[Len(s.receivers) + 1] = chain
        /\ \A j \in 1 .. Len(s.receivers) : s1.receivers[j] = s.receivers[j]
    BY <2>1, <2>3
  <2>5. \A j \in 1 .. Len(s.receivers) : s.receivers[j] \in ToSet(s.receivers) /\ s.receivers[j].ratchet # m.ratchet
    BY <2>3, <1>15 DEF ToSet, HasReceiverChain, ReceiverChains
  <2>6. i = Len(s.receivers) + 1
    <3>1. s1.receivers[i].ratchet = m.ratchet
      BY <1>3 DEF c
    <3>2. i \in 1 .. Len(s.receivers) \/ i = Len(s.receivers) + 1
      BY <1>3, <2>3, <2>4
    <3> QED BY <3>1, <3>2, <2>4, <2>5
  <2>7. c = chain
    BY <2>4, <2>6 DEF c
  <2>8. \A d \in ToSet(t.receivers) : d.index > 0 \/ d \in ToSet(s.receivers)
    <3>1. \A j \in 1 .. Len(s1.receivers) : j # i => j \in 1 .. Len(s.receivers)
      BY <2>3, <2>4, <2>6
    <3> QED BY <3>1, <1>13, <2>4, <2>5
  <2>9. ASSUME NEW k, NEW root, HoldsChain(s, k, root)
        PROVE  HoldsChain(t, k, root)
    <3>1. PICK j \in 1 .. Len(s.receivers) : s.receivers[j].ratchet = k /\ s.receivers[j].root = root
      BY <2>3, <2>9 DEF HoldsChain, ToSet
    <3>2. j \in 1 .. Len(s1.receivers) /\ s1.receivers[j].ratchet = k /\ s1.receivers[j].root = root
      BY <3>1, <2>3, <2>4
    <3>3. HoldsChain(s1, k, root)
      BY <3>2, <1>3 DEF HoldsChain, ToSet
    <3> QED BY <3>3, <1>11
  <2>10. Receivers(s, t, m)
    BY <2>8, <2>9, <1>11, <1>12 DEF Receivers
  <2>11. m.key.root = CreateChain(s.root, s.sender.ratchet, m.ratchet)
    BY <1>5, <2>1, <2>7
  <2>12. t.root = CreateChain(m.key.root, fresh, m.ratchet) /\ t.sender.ratchet = fresh
    BY <1>10, <2>2, <2>11
  <2> QED BY <2>10, <2>11, <2>12, <1>6, <1>15 DEF Moves, t
<1> QED
  BY <1>14, <1>15 DEF t

-----------------------------------------------------------------------------
(* A record of one session of each side                                    *)

\* Two parties open a conversation once each: a record has a session that one of them
\* started and a session the other one did, at most.
FewSessions(r) ==
    /\ Len(r.previous) <= 1
    /\ r.previous # <<>> => r.current # NoSession /\ r.current.base[1] # r.previous[1].base[1]

LEMMA FewSessionsDiffer ==
    ASSUME NEW r \in Record, FewSessions(r),
           NEW u \in Sessions(r), NEW v \in Sessions(r), u.base[1] = v.base[1]
    PROVE  u = v
<1>1. /\ Len(r.previous) \in Nat /\ DOMAIN r.previous = 1 .. Len(r.previous)
      /\ \A s : s \in Sessions(r) =>
            \/ r.current # NoSession /\ s = r.current
            \/ \E i \in DOMAIN r.previous : s = r.previous[i]
  BY SessionsOfRecord
<1>2. \A i \in DOMAIN r.previous : i = 1 /\ r.previous # <<>>
  BY <1>1 DEF FewSessions
<1> QED
  BY <1>1, <1>2 DEF FewSessions

\* Of a record with one session, promoting another archives it.
LEMMA PromoteFew ==
    ASSUME NEW r \in Record, r.previous = <<>>, NEW s \in Session,
           r.current # NoSession => r.current.base[1] # s.base[1]
    PROVE  LET q == PromoteState(r, s)
           IN  /\ q.current = s /\ FewSessions(q)
               /\ \A v \in Sessions(r) : ClearPending(v) \in Sessions(q)
               /\ \A u \in Sessions(q) : u = s \/ \E v \in Sessions(r) : u = ClearPending(v)
<1> DEFINE a == ArchiveCurrent(r)
           q == PromoteState(r, s)
<1>1. q \in Record /\ q.current = s /\ q = [a EXCEPT !.current = s]
  BY PromoteStateProperties DEF PromoteState
<1>2. CASE r.current = NoSession
  <2>1. a = r
    BY <1>2 DEF ArchiveCurrent
  <2>2. q.previous = <<>>
    BY <2>1, <1>1 DEF Record
  <2> HIDE DEF q
  <2>3. Sessions(r) = {}
    BY <1>2 DEF Sessions, ToSet
  <2>4. Sessions(q) \subseteq {s}
    BY <1>1, <2>2 DEF Sessions, ToSet
  <2> QED BY <1>1, <2>2, <2>3, <2>4 DEF FewSessions, q
<1>3. CASE r.current # NoSession
  <2>1. r.current \in Session /\ ClearPending(r.current) \in Session
        /\ ClearPending(r.current).base = r.current.base
    BY <1>3, SessionsOfRecord, ClearPendingFields
  <2> DEFINE c == ClearPending(r.current)
  <2>2. a = [current |-> NoSession, previous |-> <<c>> \o r.previous]
    BY <1>3, LimitsAssumption DEF ArchiveCurrent
  <2> HIDE DEF c, a
  <2>3. <<c>> \o r.previous = <<c>>
    OBVIOUS
  <2>4. q.previous = <<c>>
    BY <2>2, <2>3, <1>1
  <2> HIDE DEF q
  <2>5. Len(q.previous) = 1 /\ q.previous[1] = c /\ q.previous # <<>>
    BY <2>4
  <2>6. Sessions(r) = {r.current}
    BY <1>3, SessionsOfRecord
  <2>7. q.current # NoSession
    BY <1>1, SentinelAssumption
  <2>8. Sessions(q) = {s, c}
    <3>1. DOMAIN q.previous = 1 .. 1
      BY <2>4
    <3>2. ToSet(q.previous) = {c}
      BY <2>5, <3>1 DEF ToSet
    <3> QED BY <1>1, <2>7, <3>2 DEF Sessions
  <2>9. q.current.base[1] # c.base[1]
    BY <1>1, <1>3, <2>1 DEF c
  <2>10. FewSessions(q)
    BY <2>5, <2>7, <2>9 DEF FewSessions
  <2> QED BY <1>1, <2>6, <2>8, <2>10 DEF c, q
<1> QED
  BY <1>2, <1>3

LEMMA PromoteOldFew ==
    ASSUME NEW r \in Record, FewSessions(r), NEW i \in DOMAIN r.previous,
           NEW s \in Session, s.base = r.previous[i].base
    PROVE  LET q == PromoteOldSession(r, i, s)
           IN  /\ q.current = s /\ FewSessions(q)
               /\ \A v \in Sessions(r) : v = r.previous[i] \/ ClearPending(v) \in Sessions(q)
               /\ \A u \in Sessions(q) :
                     u = s \/ \E v \in Sessions(r) : v # r.previous[i] /\ u = ClearPending(v)
<1> DEFINE rest == RemoveAt(r.previous, i)
           one == [r EXCEPT !.previous = rest]
           q == PromoteOldSession(r, i, s)
<1>1. /\ r.previous \in Seq(Session) /\ Len(r.previous) \in Nat
      /\ DOMAIN r.previous = 1 .. Len(r.previous)
  BY SessionsOfRecord
<1>2. i = 1 /\ Len(r.previous) = 1 /\ r.previous # <<>>
  <2>1. Len(r.previous) <= 1
    BY DEF FewSessions
  <2>2. i \in 1 .. Len(r.previous)
    BY <1>1
  <2>3. PICK n \in Nat : n = Len(r.previous)
    BY <1>1
  <2>4. n <= 1 /\ i \in 1 .. n
    BY <2>1, <2>2, <2>3
  <2>5. i = 1 /\ n = 1
    BY ONLY <2>4, n \in Nat
  <2> QED BY <1>1, <2>3, <2>5
<1>3. rest \in Seq(Session) /\ Len(rest) = 0
  BY <1>1, <1>2, RemoveAtProperties
<1>4. rest = <<>>
  BY <1>3
<1>5. r.current # NoSession /\ r.current.base[1] # r.previous[i].base[1]
  BY <1>2 DEF FewSessions
<1>6. q = PromoteState(one, s)
  BY DEF PromoteOldSession
<1> HIDE DEF rest, q
<1>7. one \in Record /\ one.previous = <<>> /\ one.current = r.current
  BY <1>3, <1>4 DEF Record
<1> HIDE DEF one
<1>8. \A v \in Sessions(one) : v = r.current
  BY <1>7 DEF Sessions, ToSet
<1>9. r.current \in Sessions(one) /\ r.current \in Sessions(r)
  BY <1>5, <1>7 DEF Sessions
<1>10. \A v \in Sessions(r) : v = r.current \/ v = r.previous[i]
  BY <1>1, <1>2, SessionsOfRecord
<1>11. /\ q.current = s /\ FewSessions(q)
       /\ \A v \in Sessions(one) : ClearPending(v) \in Sessions(q)
       /\ \A u \in Sessions(q) : u = s \/ \E v \in Sessions(one) : u = ClearPending(v)
  BY <1>5, <1>6, <1>7, PromoteFew
<1>12. r.current # r.previous[i]
  BY <1>5
<1> QED
  BY <1>8, <1>9, <1>10, <1>11, <1>12 DEF q

\* The record r becomes q by the session s, whose successor is the current one: the
\* others stay.
Replaces(r, q, s) ==
    /\ FewSessions(q) /\ q.current \in Sessions(q)
    /\ s \in Sessions(r) /\ q.current.base = s.base
    /\ \A v \in Sessions(r) : v = s \/ \E u \in Sessions(q) : Alike(u, v)
    /\ \A u \in Sessions(q) : u = q.current \/ \E v \in Sessions(r) : v # s /\ Alike(u, v)

LEMMA ReplaceFew ==
    ASSUME NEW r \in Record, FewSessions(r), r.current # NoSession,
           NEW t \in Session, t.base = r.current.base
    PROVE  Replaces(r, [r EXCEPT !.current = t], r.current)
<1> DEFINE q == [r EXCEPT !.current = t]
<1>1. q \in Record /\ q.current = t /\ q.previous = r.previous
  BY ReplaceCurrentProperties
<1> HIDE DEF q
<1>2. t # NoSession
  BY SentinelAssumption
<1>3. FewSessions(q)
  BY <1>1, <1>2 DEF FewSessions
<1>4. \A i \in DOMAIN r.previous : r.previous[i] # r.current
  <2>1. \A i \in DOMAIN r.previous : i = 1 /\ r.previous # <<>>
    BY SessionsOfRecord DEF FewSessions
  <2> QED BY <2>1 DEF FewSessions
<1>5. \A v \in Sessions(r) : v = r.current \/ v \in Sessions(q)
  BY <1>1, SessionsOfRecord
<1>6. \A u \in Sessions(q) : u = t \/ (u \in Sessions(r) /\ u # r.current)
  BY <1>1, <1>4, SessionsOfRecord
<1>7. q.current \in Sessions(q) /\ r.current \in Sessions(r)
  BY <1>1, <1>2, SessionsOfRecord
<1> QED
  BY <1>1, <1>3, <1>5, <1>6, <1>7 DEF Replaces, Alike, q

LEMMA PromoteOldReplaces ==
    ASSUME NEW r \in Record, FewSessions(r), NEW i \in DOMAIN r.previous,
           NEW s \in Session, s.base = r.previous[i].base
    PROVE  Replaces(r, PromoteOldSession(r, i, s), r.previous[i])
<1> DEFINE q == PromoteOldSession(r, i, s)
<1>1. /\ q.current = s /\ FewSessions(q)
      /\ \A v \in Sessions(r) : v = r.previous[i] \/ ClearPending(v) \in Sessions(q)
      /\ \A u \in Sessions(q) :
            u = s \/ \E v \in Sessions(r) : v # r.previous[i] /\ u = ClearPending(v)
  BY PromoteOldFew
<1>2. q \in Record
  BY PromoteOldSessionProperties
<1> HIDE DEF q
<1>3. q.current \in Sessions(q) /\ r.previous[i] \in Sessions(r)
  BY <1>1, <1>2, SessionsOfRecord, SentinelAssumption
<1> QED
  BY <1>1, <1>3 DEF Replaces, Alike, q

\* decrypt_message_with_record on such a record, when it succeeds.
LEMMA DecryptWithRecordReplaces ==
    ASSUME NEW r \in Record, FewSessions(r), NEW m \in Message, NEW fresh \in Key,
           \A s \in Sessions(r) : SessionSound(s) /\ Len(s.receivers) < MAX_RECEIVER_CHAINS,
           DecryptWithRecord(r, m, fresh).verdict = "ok"
    PROVE  LET q == DecryptWithRecord(r, m, fresh).record
           IN  \E s \in Sessions(r) :
                  /\ Replaces(r, q, s) /\ Moves(s, q.current, m, fresh)
                  /\ r.current # NoSession /\ m.type = "prekey" => s = r.current
<1> DEFINE q == DecryptWithRecord(r, m, fresh).record
<1>1. CASE /\ r.current # NoSession
           /\ DecryptWithState(r.current, m, fresh).verdict = "ok"
           /\ q = [r EXCEPT !.current = DecryptWithState(r.current, m, fresh).session]
  <2> DEFINE s == r.current
             t == DecryptWithState(s, m, fresh).session
  <2>1. s \in Session /\ s \in Sessions(r)
    BY <1>1, SessionsOfRecord
  <2>2. Moves(s, t, m, fresh)
    BY <1>1, <2>1, DecryptWithStateMoves
  <2>3. q = [r EXCEPT !.current = t]
    BY <1>1
  <2> HIDE DEF t, q
  <2>4. t \in Session /\ t.base = s.base
    BY <2>2 DEF Moves
  <2>5. Replaces(r, q, s) /\ q.current = t
    <3>1. Replaces(r, [r EXCEPT !.current = t], r.current)
      BY <1>1, <2>4, ReplaceFew
    <3>2. [r EXCEPT !.current = t].current = t
      BY <2>4, ReplaceCurrentProperties
    <3> QED BY <2>3, <3>1, <3>2
  <2> QED BY <2>1, <2>2, <2>5 DEF q
<1>2. CASE /\ ~(r.current # NoSession /\ m.type = "prekey")
           /\ \E i \in DOMAIN r.previous :
              /\ DecryptWithState(r.previous[i], m, fresh).verdict = "ok"
              /\ q = PromoteOldSession(r, i, DecryptWithState(r.previous[i], m, fresh).session)
  <2>1. PICK i \in DOMAIN r.previous :
          /\ DecryptWithState(r.previous[i], m, fresh).verdict = "ok"
          /\ q = PromoteOldSession(r, i, DecryptWithState(r.previous[i], m, fresh).session)
    BY <1>2
  <2> DEFINE s == r.previous[i]
             t == DecryptWithState(s, m, fresh).session
  <2>2. s \in Session /\ s \in Sessions(r)
    BY SessionsOfRecord
  <2>3. Moves(s, t, m, fresh)
    BY <2>1, <2>2, DecryptWithStateMoves
  <2>4. q = PromoteOldSession(r, i, t)
    BY <2>1
  <2> HIDE DEF t, q
  <2>5. t \in Session /\ t.base = s.base
    BY <2>3 DEF Moves
  <2>6. Replaces(r, q, s)
    BY <2>4, <2>5, PromoteOldReplaces
  <2>7. q.current = t
    BY <2>4, <2>5, PromoteOldSessionProperties
  <2> QED BY <1>2, <2>2, <2>3, <2>6, <2>7 DEF q
<1> QED
  BY <1>1, <1>2, DecryptWithRecordCases

\* promote_matching_session makes the session of that base key the current one.
LEMMA PromoteMatchingReplaces ==
    ASSUME NEW r \in Record, FewSessions(r), NEW base, HasMatchingSession(r, base)
    PROVE  LET q == PromoteMatching(r, base)
           IN  /\ q \in Record /\ q.current # NoSession
               /\ q.current \in Sessions(r) /\ q.current.base = base
               /\ Replaces(r, q, q.current)
<1>1. CASE MatchesCurrent(r, base)
  <2>1. PromoteMatching(r, base) = r /\ r.current # NoSession /\ r.current.base = base
    BY <1>1 DEF PromoteMatching, MatchesCurrent
  <2>2. r.current \in Session /\ r.current \in Sessions(r)
    BY <2>1, SessionsOfRecord
  <2>3. [r EXCEPT !.current = r.current] = r
    BY DEF Record
  <2>4. Replaces(r, [r EXCEPT !.current = r.current], r.current)
    BY <2>1, <2>2, ReplaceFew
  <2> QED BY <2>1, <2>2, <2>3, <2>4
<1>2. CASE ~MatchesCurrent(r, base)
  <2> DEFINE i == Min(MatchingPrevious(r, base))
             q == PromoteMatching(r, base)
             s == r.previous[i]
  <2>1. MatchingPrevious(r, base) \in SUBSET Nat /\ MatchingPrevious(r, base) # {}
    BY <1>2, SessionsOfRecord DEF HasMatchingSession, MatchingPrevious
  <2>2. i \in DOMAIN r.previous /\ s.base = base
    BY <2>1, MinInSet DEF MatchingPrevious
  <2>3. q = PromoteOldSession(r, i, s)
    BY <1>2 DEF PromoteMatching
  <2> HIDE DEF i, q
  <2>4. s \in Session /\ s \in Sessions(r)
    BY <2>2, SessionsOfRecord
  <2>5. q \in Record /\ q.current = s
    BY <2>2, <2>3, <2>4, PromoteOldSessionProperties
  <2>6. Replaces(r, PromoteOldSession(r, i, s), s)
    BY <2>2, <2>4, PromoteOldReplaces
  <2>7. s # NoSession
    BY <2>4, SentinelAssumption
  <2> HIDE DEF s
  <2> QED BY <2>2, <2>3, <2>4, <2>5, <2>6, <2>7 DEF q
<1> QED
  BY <1>1, <1>2

LEMMA AlikeAgain ==
    ASSUME NEW v \in Session, NEW w, Alike(w, v), NEW u, Alike(u, w)
    PROVE  Alike(u, v)
<1>1. ClearPending(ClearPending(v)) = ClearPending(v)
  BY DEF ClearPending, Session
<1> QED
  BY <1>1 DEF Alike

LEMMA ReplacesAgain ==
    ASSUME NEW r \in Record, FewSessions(r), NEW r1 \in Record, NEW q, NEW s \in Session,
           Replaces(r, r1, s), r1.current = s, Replaces(r1, q, s)
    PROVE  Replaces(r, q, s)
<1>1. \A v \in Sessions(r) : v \in Session
  BY SessionsOfRecord
<1>2. ASSUME NEW v \in Sessions(r), v # s
      PROVE  \E u \in Sessions(q) : Alike(u, v)
  <2>1. PICK w \in Sessions(r1) : Alike(w, v)
    BY <1>2 DEF Replaces
  <2>2. CASE w = s
    <3>1. s.base = v.base
      BY <1>1, <2>1, <2>2, ClearPendingFields DEF Alike
    <3>2. s \in Sessions(r)
      BY DEF Replaces
    <3> QED BY <1>2, <3>1, <3>2, FewSessionsDiffer
  <2> QED BY <1>1, <2>1, <2>2, AlikeAgain DEF Replaces
<1> QED
  BY <1>1, <1>2, AlikeAgain DEF Replaces

\* A session the message reaches keeps the record from refusing it: the current one
\* in any case, an archived one if the message starts no session.
LEMMA RecordReads ==
    ASSUME NEW r \in Record, NEW m \in Message, NEW fresh \in Key,
           NEW s \in Sessions(r), DecryptWithState(s, m, fresh).verdict \in {"ok", "duplicate"},
           s = r.current \/ m.type # "prekey"
    PROVE  DecryptWithRecord(r, m, fresh).verdict \in {"ok", "duplicate"}
<1> DEFINE current == IF r.current = NoSession
                      THEN [verdict |-> "invalid", session |-> NoSession]
                      ELSE DecryptWithState(r.current, m, fresh)
           old == [i \in DOMAIN r.previous |-> DecryptWithState(r.previous[i], m, fresh)]
           decided == {i \in DOMAIN old : old[i].verdict # "invalid"}
           first == Min(decided)
           d == DecryptWithRecord(r, m, fresh)
<1>1. d = IF current.verdict = "ok"
          THEN [verdict |-> "ok", record |-> [r EXCEPT !.current = current.session]]
          ELSE IF current.verdict = "duplicate"
          THEN [verdict |-> "duplicate", record |-> r]
          ELSE IF (r.current # NoSession /\ m.type = "prekey") \/ decided = {}
          THEN [verdict |-> "invalid", record |-> r]
          ELSE IF old[first].verdict = "duplicate"
          THEN [verdict |-> "duplicate", record |-> r]
          ELSE [verdict |-> "ok", record |-> PromoteOldSession(r, first, old[first].session)]
  BY DEF DecryptWithRecord, Failed
<1>2. r.current # NoSession => current = DecryptWithState(r.current, m, fresh)
  OBVIOUS
<1>3. \A i \in DOMAIN r.previous :
        DecryptWithState(r.previous[i], m, fresh).verdict \in {"ok", "duplicate"} => i \in decided
  OBVIOUS
<1> HIDE DEF current, old, d, first, decided
<1>4. \/ current.verdict \in {"ok", "duplicate"}
      \/ decided # {} /\ m.type # "prekey"
  <2>1. CASE s = r.current /\ r.current # NoSession
    BY <1>2, <2>1
  <2>2. CASE ~(s = r.current /\ r.current # NoSession)
    <3>1. PICK i \in DOMAIN r.previous : s = r.previous[i]
      BY <2>2, SessionsOfRecord
    <3>2. s # r.current
      BY <2>2, <3>1, SessionsOfRecord, SentinelAssumption
    <3> QED BY <1>3, <3>1, <3>2
  <2> QED BY <2>1, <2>2
<1> QED
  BY <1>1, <1>4 DEF d

-----------------------------------------------------------------------------
(* The two ends of a session                                               *)

\* The keys of a device that nothing replaces, and those the server has of it.
KeysKept ==
    \A p \in Party :
        /\ published[p].identity = identity[p] /\ published[p].signedPreKey = signedPreKey[p]
        /\ identity[p][1] = p /\ signedPreKey[p][1] = p
        /\ published[p].preKeys \subseteq preKeys[p]
        /\ \A k \in preKeys[p] : k[1] = p /\ k # identity[p] /\ k # signedPreKey[p]

\* Of the two ends of a session one is a turn ahead: its root key was split off the
\* other's when it received on the chain the other one sends on.
Ahead(s, t) ==
    /\ s.root = CreateChain(t.root, s.sender.ratchet, t.sender.ratchet)
    /\ HoldsChain(s, t.sender.ratchet, t.root)
TwoEnds(s, t) == Ahead(s, t) \/ Ahead(t, s)

\* The record p has for q has an end of the session of that base key.
HasEnd(p, q, base) == \E t \in Sessions(records[p][q]) : t.base = base

\* The chain on which p would receive if q sent with its signed prekey.
FirstChain(q, c) == c.ratchet = signedPreKey[q] /\ Len(c.root) = 1

\* A session of p with q is between their identities, was started by one of them, and,
\* if q started it, has its other end; p receives on chains of messages only, apart
\* from the one that starts at the signed prekey of q.
SessionPlaced(p, q, s) ==
    /\ p # q
    /\ s.local = identity[p] /\ s.remote = identity[q]
    /\ s.sender.ratchet # signedPreKey[p]
    /\ \A c \in ToSet(s.receivers) : c.index > 0 \/ FirstChain(q, c)
    /\ s.base[1] \in {p, q}
    /\ s.base[1] = q => HasEnd(q, p, s.base)
SessionsPlaced ==
    \A p, q \in Party :
        /\ FewSessions(records[p][q])
        /\ \A s \in Sessions(records[p][q]) : SessionPlaced(p, q, s)

\* What encrypts messages of the type "whisper" has its other end.
PendingUntilAnswered ==
    \A p, q \in Party :
        /\ records[p][q].current # NoSession
        /\ records[p][q].current.pending = NoPending
        => HasEnd(q, p, records[p][q].current.base)

\* A session of p that q has no end of can be answered by q: its first chain, and every
\* message on it, names prekeys q still has, and q has not answered its base key.
Offered(p, q, s, preKey) ==
    /\ s.root = CreateChain(HandshakeRoot(s.local, s.remote, s.base, signedPreKey[q], preKey),
                            s.sender.ratchet, signedPreKey[q])
    /\ s.pending # NoPending =>
          s.pending.signedPreKey = signedPreKey[q] /\ s.pending.preKey = preKey
    /\ \A m \in sent : m.from = p /\ m.to = q /\ m.type = "prekey" /\ m.base = s.base =>
          m.signedPreKey = signedPreKey[q] /\ m.preKey = preKey
    /\ s.base \notin kyberUsed[q]
Answerable(p, q, s) == \E preKey \in preKeys[q] \cup {NoKey} : Offered(p, q, s, preKey)
Paired ==
    \A p, q \in Party : \A s \in Sessions(records[p][q]) :
        /\ \A t \in Sessions(records[q][p]) : s.base = t.base => TwoEnds(s, t)
        /\ HasEnd(q, p, s.base) \/ Answerable(p, q, s)

\* A one-time prekey of q is used for one session, and not offered any more.
PreKeysApart ==
    \A p, q \in Party : \A s \in Sessions(records[p][q]) : s.base[1] = p =>
        /\ \A k \in published[q].preKeys : k \notin s.root[1]
        /\ \A o \in Party : \A t \in Sessions(records[o][q]) : t.base[1] = o /\ o # p =>
              \A k \in preKeys[q] : ~(k \in s.root[1] /\ k \in t.root[1])

\* A message was sent by a session its sender still has, on the chain it sends on now
\* or on one the other end of the session receives on.
MadeBy(m, s) ==
    /\ m.type = "prekey" => m.base = s.base
    /\ m.type = "whisper" => HasEnd(m.to, m.from, s.base)
    /\ \/ m.key.root = s.root /\ m.ratchet = s.sender.ratchet
       \/ \E t \in Sessions(records[m.to][m.from]) :
             t.base = s.base /\ HoldsChain(t, m.ratchet, m.key.root)
MessagesMade ==
    \A m \in sent :
        /\ m.sender = identity[m.from] /\ m.receiver = identity[m.to]
        /\ m.ratchet # signedPreKey[m.from]
        /\ \E s \in Sessions(records[m.from][m.to]) : MadeBy(m, s)

PairInv ==
    /\ KeysKept /\ SessionsPlaced /\ PendingUntilAnswered /\ Paired /\ PreKeysApart
    /\ MessagesMade

-----------------------------------------------------------------------------
(* What the invariant says of a message and a session                      *)

LEMMA PlacedSession ==
    ASSUME TypeOK, ReceiverInv, SessionsPlaced,
           NEW p \in Party, NEW q \in Party, NEW s \in Sessions(records[p][q])
    PROVE  /\ s \in Session /\ s.root \in RootKey /\ s.sender.ratchet \in Key /\ s.base \in Key
           /\ SessionSound(s) /\ KnownRoot(s.root) /\ OneBase({}, s) /\ IsBase({}, s.base)
           /\ s.base \in s.root[1]
           /\ SessionPlaced(p, q, s) /\ FewSessions(records[p][q])
<1>1. s \in Session /\ s.root \in RootKey /\ s.base \in Key
  BY SessionType
<1>2. s.sender.ratchet \in Key
  BY <1>1 DEF Session, SenderChain
<1>3. SessionSound(s) /\ KnownRoot(s.root) /\ OneBase({}, s) /\ s.base \in s.root[1]
  BY DEF ReceiverInv, RecordsInv, SessionsSound, HandshakeSound
<1>4. SessionPlaced(p, q, s) /\ FewSessions(records[p][q])
  BY DEF SessionsPlaced
<1>5. IsBase({}, s.base)
  BY DEF IsBase
<1> QED
  BY <1>1, <1>2, <1>3, <1>4, <1>5

\* A record has one session of a base key.
LEMMA OneEnd ==
    ASSUME TypeOK, SessionsPlaced, NEW p \in Party, NEW q \in Party,
           NEW u \in Sessions(records[p][q]), NEW v \in Sessions(records[p][q]),
           u.base[1] = v.base[1]
    PROVE  u = v
<1>1. records[p][q] \in Record
  BY RecordType
<1>2. FewSessions(records[p][q])
  BY DEF SessionsPlaced
<1> QED
  BY <1>1, <1>2, FewSessionsDiffer

LEMMA HeldRoots ==
    ASSUME NEW s \in Session, SessionSound(s), NEW k, NEW root, HoldsChain(s, k, root)
    PROVE  root \in RootKey /\ Len(root) >= 1 /\ root[1] = s.root[1]
<1>1. PICK c \in ToSet(s.receivers) : c.root = root
  BY DEF HoldsChain
<1> QED
  BY <1>1, ReceiverRoots

LEMMA CreateChainFirst ==
    ASSUME NEW root \in RootKey, Len(root) >= 1, NEW ours \in Key, NEW theirs \in Key
    PROVE  /\ CreateChain(root, ours, theirs)[1] = root[1]
           /\ Len(CreateChain(root, ours, theirs)) >= 1
<1> DEFINE longer == CreateChain(root, ours, theirs)
<1>1. Len(root) \in Nat
  BY DEF RootKey
<1>2. 1 \in 1 .. Len(root)
  BY <1>1
<1>3. Len(longer) = Len(root) + 1 /\ \A i \in 1 .. Len(root) : longer[i] = root[i]
  BY CreateChainExtends
<1> HIDE DEF longer
<1>4. longer[1] = root[1] /\ Len(longer) >= 1
  BY <1>1, <1>2, <1>3
<1> QED
  BY <1>4 DEF longer

LEMMA CreateChainCommutes ==
    ASSUME NEW root, NEW ours, NEW theirs
    PROVE  CreateChain(root, ours, theirs) = CreateChain(root, theirs, ours)
<1>1. {ours, theirs} = {theirs, ours}
  OBVIOUS
<1> QED
  BY <1>1 DEF CreateChain

\* The handshake of a message is that of the session that made it.
LEMMA MakerBase ==
    ASSUME TypeOK, ReceiverInv, SessionsPlaced, NEW p \in Party, NEW q \in Party,
           NEW m \in sent, m.from = q, m.to = p,
           NEW w \in Sessions(records[q][p]), MadeBy(m, w)
    PROVE  w.base \in m.key.root[1]
<1>1. w.base \in w.root[1]
  BY PlacedSession
<1>2. CASE m.key.root = w.root
  BY <1>1, <1>2
<1>3. CASE \E t \in Sessions(records[p][q]) :
              t.base = w.base /\ HoldsChain(t, m.ratchet, m.key.root)
  <2>1. PICK t \in Sessions(records[p][q]) :
                t.base = w.base /\ HoldsChain(t, m.ratchet, m.key.root)
    BY <1>3
  <2>2. t \in Session /\ SessionSound(t) /\ t.base \in t.root[1]
    BY PlacedSession
  <2> QED BY <2>1, <2>2, HeldRoots
<1> QED
  BY <1>2, <1>3 DEF MadeBy

LEMMA MakerOfRead ==
    ASSUME TypeOK, ReceiverInv, SessionsPlaced, NEW p \in Party, NEW q \in Party,
           NEW m \in sent, m.from = q, m.to = p,
           NEW w \in Sessions(records[q][p]), MadeBy(m, w),
           NEW s \in Sessions(records[p][q]), m.key.root[1] = s.root[1]
    PROVE  w.base = s.base
<1>1. w.base \in s.root[1]
  BY MakerBase
<1>2. IsBase({}, w.base) /\ OneBase({}, s)
  BY PlacedSession
<1> QED
  BY <1>1, <1>2 DEF OneBase

\* The other end of the session that made a message can read it.
LEMMA MakerReached ==
    ASSUME TypeOK, ReceiverInv, RatchetsNameChains, Traces, PairInv,
           NEW p \in Party, NEW q \in Party, NEW m \in sent, m.from = q, m.to = p,
           NEW w \in Sessions(records[q][p]), MadeBy(m, w),
           NEW t \in Sessions(records[p][q]), t.base = w.base
    PROVE  Reaches(t, m)
<1> USE DEF PairInv
<1>1. t \in Session /\ SessionSound(t) /\ SessionPlaced(p, q, t)
  BY PlacedSession
<1>2. m.sender = t.remote /\ m.receiver = t.local
  BY <1>1 DEF SessionPlaced, MessagesMade
<1>3. ASSUME NEW c \in ToSet(t.receivers), c.ratchet = m.ratchet
      PROVE  c.root = m.key.root
  <2>1. c \in ReceiverChain
    BY <1>1 DEF Session, ToSet
  <2>2. c.index > 0
    BY <1>1, <1>3 DEF SessionPlaced, FirstChain, MessagesMade
  <2>3. Traced(p, q, c)
    BY DEF Traces
  <2>4. PICK o \in sent : o.ratchet = c.ratchet /\ o.key = [root |-> c.root, index |-> c.index - 1]
    BY <2>2, <2>3 DEF Traced
  <2>5. o.key.root = c.root
    BY <2>4
  <2>6. Names(m.ratchet, c.root) /\ Names(m.ratchet, m.key.root)
    BY <1>3, <2>4, <2>5 DEF Names
  <2>7. m.ratchet \in Key /\ m.key.root \in RootKey /\ c.root \in RootKey
    BY <2>1, SentType DEF ReceiverChain
  <2> QED BY <2>6, <2>7 DEF RatchetsNameChains
<1>4. \/ HasReceiverChain(t, m.ratchet)
      \/ CreateChain(t.root, t.sender.ratchet, m.ratchet) = m.key.root
  <2>1. \A root : HoldsChain(t, m.ratchet, root) => HasReceiverChain(t, m.ratchet)
    BY DEF HoldsChain, HasReceiverChain, ReceiverChains, ToSet
  <2>2. CASE m.key.root = w.root /\ m.ratchet = w.sender.ratchet
    <3>1. TwoEnds(w, t)
      BY DEF Paired
    <3>2. CASE Ahead(w, t)
      BY <2>2, <3>2, CreateChainCommutes DEF Ahead
    <3>3. CASE Ahead(t, w)
      BY <2>1, <2>2, <3>3 DEF Ahead
    <3> QED BY <3>1, <3>2, <3>3 DEF TwoEnds
  <2>3. CASE \E u \in Sessions(records[p][q]) :
                u.base = w.base /\ HoldsChain(u, m.ratchet, m.key.root)
    <3>1. PICK u \in Sessions(records[p][q]) :
                  u.base = w.base /\ HoldsChain(u, m.ratchet, m.key.root)
      BY <2>3
    <3>2. u = t
      BY <3>1, OneEnd
    <3> QED BY <2>1, <3>1, <3>2
  <2> QED BY <2>2, <2>3 DEF MadeBy
<1> QED
  BY <1>2, <1>3, <1>4 DEF Reaches

LEMMA MatchingIsEnd ==
    ASSUME TypeOK, NEW p \in Party, NEW q \in Party, NEW base
    PROVE  HasMatchingSession(records[p][q], base) <=> HasEnd(p, q, base)
<1>1. records[p][q] \in Record
  BY RecordType
<1> DEFINE r == records[p][q]
<1>2. \A s : s \in Sessions(r) <=> \/ r.current # NoSession /\ s = r.current
                                   \/ \E i \in DOMAIN r.previous : s = r.previous[i]
  BY <1>1, SessionsOfRecord
<1>3. HasMatchingSession(r, base) <=> \E s \in Sessions(r) : s.base = base
  BY <1>2 DEF HasMatchingSession, MatchesCurrent, MatchingPrevious
<1> QED
  BY <1>3 DEF HasEnd

\* The session InitializeBob makes of a message.
BobOf(p, m) == InitializeBob(identity[p], m.sender, m.base, m.signedPreKey, m.preKey)

\* A message of a session this device has no end of starts one that reads it.
LEMMA NewlyAnswered ==
    ASSUME TypeOK, ReceiverInv, PairInv,
           NEW p \in Party, NEW q \in Party, NEW m \in sent, m.from = q, m.to = p,
           m.type = "prekey",
           NEW w \in Sessions(records[q][p]), MadeBy(m, w), ~HasEnd(p, q, w.base)
    PROVE  /\ Offered(q, p, w, m.preKey) /\ m.preKey \in preKeys[p] \cup {NoKey}
           /\ m.base = w.base /\ m.key.root = w.root /\ m.ratchet = w.sender.ratchet
           /\ w.local = identity[q] /\ w.remote = identity[p] /\ w.base[1] = q
           /\ CanInitializeBob(p, m) /\ ~Replayed(p, m)
           /\ BobOf(p, m) \in Session /\ SessionSound(BobOf(p, m)) /\ Reaches(BobOf(p, m), m)
<1> USE DEF PairInv
<1> DEFINE b == BobOf(p, m)
<1>1. PICK k \in preKeys[p] \cup {NoKey} : Offered(q, p, w, k)
  BY DEF Paired, Answerable
<1>2. m.base = w.base
  BY DEF MadeBy
<1>3. m.signedPreKey = signedPreKey[p] /\ m.preKey = k /\ w.base \notin kyberUsed[p]
  BY <1>1, <1>2 DEF Offered
<1>4. m.key.root = w.root /\ m.ratchet = w.sender.ratchet
  BY DEF MadeBy, HasEnd
<1>5. w.local = identity[q] /\ w.remote = identity[p] /\ w.base \in Key /\ w.base[1] \in {q, p}
  BY PlacedSession DEF SessionPlaced
<1>6. w.base[1] = q
  BY <1>2 DEF MessagesSound, ReceiverInv, RecordsInv
<1>7. m \in Message /\ m.sender = identity[q] /\ m.receiver = identity[p]
      /\ m.sender \in Key /\ m.signedPreKey \in Key /\ m.preKey \in OptionalKey /\ m.base \in Key
      /\ identity[p] \in Key
  BY SentType, MessageFields DEF MessagesMade, TypeOK
<1>8. /\ b \in Session /\ SessionSound(b)
      /\ b.local = identity[p] /\ b.remote = m.sender
      /\ b.root = HandshakeRoot(identity[p], m.sender, m.base, m.signedPreKey, m.preKey)
      /\ b.sender.ratchet = m.signedPreKey
      /\ ToSet(b.receivers) = {}
  <2>1. PICK own \in Key, sender \in Key, base \in Key, signed \in Key, preKey \in OptionalKey :
          /\ own = identity[p] /\ sender = m.sender /\ base = m.base
          /\ signed = m.signedPreKey /\ preKey = m.preKey
    BY <1>7
  <2> DEFINE o == InitializeBob(own, sender, base, signed, preKey)
  <2>2. /\ o \in Session /\ SessionSound(o)
        /\ o.local = own /\ o.remote = sender
        /\ o.root = HandshakeRoot(own, sender, base, signed, preKey)
        /\ o.sender.ratchet = signed
        /\ ToSet(o.receivers) = {}
    <3>1. o \in Session /\ SessionSound(o)
      BY ONLY <2>1, InitializeBobSound, Zenon
    <3>2. o.local = own /\ o.remote = sender
      BY DEF InitializeBob
    <3>3. o.root = HandshakeRoot(own, sender, base, signed, preKey)
      BY DEF InitializeBob
    <3>4. o.sender.ratchet = signed
      BY DEF InitializeBob
    <3>5. ToSet(o.receivers) = {}
      BY ONLY <2>1, InitializeBobSound, Zenon
    <3> HIDE DEF o
    <3> QED BY <3>1, <3>2, <3>3, <3>4, <3>5
  <2>3. b = o
    BY <2>1 DEF BobOf
  <2> HIDE DEF o, b
  <2> QED BY <2>1, <2>2, <2>3
<1> HIDE DEF b
<1>9. HandshakeRoot(identity[p], identity[q], m.base, m.signedPreKey, m.preKey)
        = HandshakeRoot(identity[q], identity[p], m.base, m.signedPreKey, m.preKey)
  <2>1. {identity[p], identity[q], m.base, m.signedPreKey, m.preKey}
          = {identity[q], identity[p], m.base, m.signedPreKey, m.preKey}
    OBVIOUS
  <2> QED BY <2>1 DEF HandshakeRoot
<1>10. CreateChain(b.root, b.sender.ratchet, m.ratchet) = m.key.root
  BY <1>1, <1>2, <1>3, <1>4, <1>5, <1>7, <1>8, <1>9, CreateChainCommutes DEF Offered
<1>11. Reaches(b, m)
  BY <1>7, <1>8, <1>10 DEF Reaches
<1> QED
  BY <1>1, <1>2, <1>3, <1>4, <1>5, <1>6, <1>8, <1>11 DEF CanInitializeBob, Replayed, b

\* Whatever is under way is read by its addressee, or has been.
LEMMA PairRead ==
    ASSUME TypeOK, ReceiverInv, RatchetsNameChains, SendersCounted, Traces, PairInv,
           MaxTexts <= MAX_FORWARD_JUMPS, NEW m \in sent
    PROVE  Verdict(m.to, m) \in {"ok", "duplicate"}
<1> USE DEF PairInv
<1>1. PICK p \in Party, q \in Party : p = m.to /\ q = m.from
  BY SentType
<1>2. PICK w \in Sessions(records[q][p]) : MadeBy(m, w)
  BY <1>1 DEF MessagesMade
<1>3. m \in Message
  BY SentType
<1> DEFINE r == records[p][q]
           fresh == NewKey(p, 0)
<1>4. r \in Record /\ FewSessions(r) /\ fresh \in Key
  BY RecordType, NewKeyType DEF SessionsPlaced
<1>5. m.key.index <= MAX_FORWARD_JUMPS
  BY <1>3, LimitsAssumption, BoundsAssumption DEF SendersCounted, Message, MessageKey
<1>6. ASSUME NEW t \in Sessions(r), t.base = w.base
      PROVE  DecryptWithState(t, m, fresh).verdict \in {"ok", "duplicate"}
  <2>1. Reaches(t, m)
    BY <1>1, <1>2, <1>6, MakerReached
  <2>2. t \in Session /\ SessionSound(t)
    BY PlacedSession
  <2> QED BY <1>3, <1>4, <1>5, <2>1, <2>2, ReachesIsRead
<1>7. CASE m.type = "whisper"
  <2>1. PICK t \in Sessions(r) : t.base = w.base
    BY <1>1, <1>2, <1>7 DEF MadeBy, HasEnd
  <2>2. DecryptWithState(t, m, fresh).verdict \in {"ok", "duplicate"}
    BY <1>6, <2>1
  <2>3. DecryptWithRecord(r, m, fresh).verdict \in {"ok", "duplicate"}
    <3> HIDE DEF r, fresh
    <3> QED BY <1>3, <1>4, <1>7, <2>2, RecordReads
  <2> QED BY <1>1, <1>7, <2>3 DEF Verdict, SignalResult
<1>8. CASE m.type = "prekey" /\ HasEnd(p, q, w.base)
  <2>1. m.base = w.base
    BY <1>2, <1>8 DEF MadeBy
  <2>2. HasMatchingSession(r, m.base)
    BY <1>8, <2>1, MatchingIsEnd
  <2> DEFINE r1 == PromoteMatching(r, m.base)
  <2>3. /\ r1 \in Record /\ r1.current # NoSession
        /\ r1.current \in Sessions(r) /\ r1.current.base = m.base
    BY <1>4, <2>2, PromoteMatchingReplaces
  <2>4. DecryptWithState(r1.current, m, fresh).verdict \in {"ok", "duplicate"}
    BY <1>6, <2>1, <2>3
  <2>5. ProcessPreKey(p, r, m) = r1
    BY <2>2 DEF ProcessPreKey
  <2>6. r1.current \in Sessions(r1)
    BY <2>3, SessionsOfRecord
  <2>7. DecryptWithRecord(r1, m, fresh).verdict \in {"ok", "duplicate"}
    <3> HIDE DEF r1, fresh
    <3> QED BY <1>3, <1>4, <2>3, <2>4, <2>6, RecordReads
  <2> QED BY <1>1, <1>8, <2>2, <2>5, <2>7 DEF Verdict, PreKeyResult
<1>9. CASE m.type = "prekey" /\ ~HasEnd(p, q, w.base)
  <2> DEFINE b == BobOf(p, m)
             r1 == PromoteState(r, b)
  <2>1. /\ m.base = w.base /\ CanInitializeBob(p, m) /\ ~Replayed(p, m)
        /\ b \in Session /\ SessionSound(b) /\ Reaches(b, m)
    BY <1>1, <1>2, <1>9, NewlyAnswered
  <2>2. ~HasMatchingSession(r, m.base)
    BY <1>9, <2>1, MatchingIsEnd
  <2>3. ProcessPreKey(p, r, m) = r1
    BY <2>2 DEF ProcessPreKey, BobOf
  <2> HIDE DEF b
  <2>4. r1 \in Record /\ r1.current = b
    BY <1>4, <2>1, PromoteStateProperties
  <2>5. b \in Sessions(r1)
    BY <2>1, <2>4, SessionsOfRecord, SentinelAssumption
  <2>6. DecryptWithState(b, m, fresh).verdict \in {"ok", "duplicate"}
    BY <1>3, <1>4, <1>5, <2>1, ReachesIsRead
  <2>7. DecryptWithRecord(r1, m, fresh).verdict \in {"ok", "duplicate"}
    <3> HIDE DEF r1, fresh
    <3> QED BY <1>3, <1>4, <2>4, <2>5, <2>6, RecordReads
  <2> QED BY <1>1, <1>9, <2>1, <2>2, <2>3, <2>7 DEF Verdict, PreKeyResult
<1>10. m.type \in {"prekey", "whisper"}
  BY <1>3 DEF Message
<1> QED
  BY <1>7, <1>8, <1>9, <1>10

LEMMA PairLosesNothing ==
    ASSUME TypeOK, ReceiverInv, RatchetsNameChains, SendersCounted, Traces, PairInv,
           MaxTexts <= MAX_FORWARD_JUMPS
    PROVE  NothingLost
<1>1. DuplicateMeansOpened
  BY TracesMeanOpened
<1> QED
  BY <1>1, PairRead DEF NothingLost, DuplicateMeansOpened

-----------------------------------------------------------------------------
(* One session of one record turns                                         *)

\* u is the session v, but for the pending prekey and the messages it has sent.
SameEnd(u, v) ==
    /\ u \in Session
    /\ u.local = v.local /\ u.remote = v.remote /\ u.base = v.base /\ u.root = v.root
    /\ u.sender.ratchet = v.sender.ratchet /\ u.receivers = v.receivers
    /\ u.pending \in {v.pending, NoPending}

LEMMA AlikeIsSameEnd ==
    ASSUME NEW v \in Session, NEW u, Alike(u, v)
    PROVE  SameEnd(u, v)
<1>1. CASE u = v
  BY <1>1 DEF SameEnd
<1>2. CASE u = ClearPending(v)
  BY <1>2, ClearPendingFields DEF SameEnd
<1> QED
  BY <1>1, <1>2 DEF Alike

LEMMA SameEnds ==
    ASSUME NEW v, NEW u, SameEnd(u, v)
    PROVE  /\ \A k, root : HoldsChain(u, k, root) <=> HoldsChain(v, k, root)
           /\ \A t : TwoEnds(v, t) => TwoEnds(u, t)
           /\ \A t : TwoEnds(t, v) => TwoEnds(t, u)
<1>1. \A k, root : HoldsChain(u, k, root) <=> HoldsChain(v, k, root)
  BY DEF HoldsChain, SameEnd
<1> QED
  BY <1>1 DEF TwoEnds, Ahead, SameEnd

\* In the record p has for q the session s becomes t and is the current one; the others
\* stay.  Where s is none of them, t is new.
Turned(p, q, s, t) ==
    /\ p # q
    /\ UNCHANGED <<identity, signedPreKey>>
    /\ \A x, y \in Party : ~(x = p /\ y = q) => records'[x][y] = records[x][y]
    /\ FewSessions(records'[p][q])
    /\ t \in Sessions(records'[p][q]) /\ t = records'[p][q].current
    /\ \A v \in Sessions(records[p][q]) :
          v = s \/ \E u \in Sessions(records'[p][q]) : SameEnd(u, v)
    /\ \A u \in Sessions(records'[p][q]) :
          u = t \/ \E v \in Sessions(records[p][q]) : v # s /\ SameEnd(u, v)
    /\ s \in Sessions(records[p][q]) =>
          /\ t.base = s.base
          /\ \A k, root : HoldsChain(s, k, root) => HoldsChain(t, k, root)

LEMMA SelfSame ==
    ASSUME TypeOK, NEW x \in Party, NEW y \in Party, NEW v \in Sessions(records[x][y])
    PROVE  SameEnd(v, v)
<1>1. v \in Session
  BY SessionType
<1> QED
  BY <1>1 DEF SameEnd

LEMMA TurnedBack ==
    ASSUME TypeOK, NEW p \in Party, NEW q \in Party, NEW s, NEW t, Turned(p, q, s, t),
           NEW x \in Party, NEW y \in Party, NEW u \in Sessions(records'[x][y])
    PROVE  \/ x = p /\ y = q /\ u = t
           \/ \E v \in Sessions(records[x][y]) : ~(x = p /\ y = q /\ v = s) /\ SameEnd(u, v)
<1>1. CASE x = p /\ y = q
  BY <1>1 DEF Turned
<1>2. CASE ~(x = p /\ y = q)
  <2>1. records'[x][y] = records[x][y]
    BY <1>2 DEF Turned
  <2> QED BY <1>2, <2>1, SelfSame
<1> QED
  BY <1>1, <1>2

LEMMA TurnedForward ==
    ASSUME TypeOK, NEW p \in Party, NEW q \in Party, NEW s, NEW t, Turned(p, q, s, t),
           NEW x \in Party, NEW y \in Party, NEW v \in Sessions(records[x][y])
    PROVE  (x = p /\ y = q /\ v = s) \/ \E u \in Sessions(records'[x][y]) : SameEnd(u, v)
<1>1. CASE x = p /\ y = q
  BY <1>1 DEF Turned
<1>2. CASE ~(x = p /\ y = q)
  <2>1. records'[x][y] = records[x][y]
    BY <1>2 DEF Turned
  <2> QED BY <2>1, SelfSame
<1> QED
  BY <1>1, <1>2

\* Every session is still there, and receives on the chains it did.
LEMMA TurnedHolds ==
    ASSUME TypeOK, NEW p \in Party, NEW q \in Party, NEW s, NEW t, Turned(p, q, s, t),
           NEW x \in Party, NEW y \in Party, NEW v \in Sessions(records[x][y])
    PROVE  \E u \in Sessions(records'[x][y]) :
              u.base = v.base /\ \A k, root : HoldsChain(v, k, root) => HoldsChain(u, k, root)
<1>1. CASE x = p /\ y = q /\ v = s
  BY <1>1 DEF Turned
<1>2. CASE \E u \in Sessions(records'[x][y]) : SameEnd(u, v)
  <2>1. PICK u \in Sessions(records'[x][y]) : SameEnd(u, v)
    BY <1>2
  <2>2. u.base = v.base /\ \A k, root : HoldsChain(v, k, root) => HoldsChain(u, k, root)
    BY <2>1, SameEnds DEF SameEnd
  <2> QED BY <2>2
<1> QED
  BY <1>1, <1>2, TurnedForward

LEMMA EndsStay ==
    ASSUME TypeOK, NEW p \in Party, NEW q \in Party, NEW s, NEW t, Turned(p, q, s, t),
           NEW x \in Party, NEW y \in Party, NEW base, HasEnd(x, y, base)
    PROVE  HasEnd(x, y, base)'
<1>1. PICK v \in Sessions(records[x][y]) : v.base = base
  BY DEF HasEnd
<1>2. \E u \in Sessions(records'[x][y]) : u.base = v.base
  BY TurnedHolds
<1> QED
  BY <1>1, <1>2 DEF HasEnd

LEMMA TurnedPlaced ==
    ASSUME TypeOK, SessionsPlaced, PendingUntilAnswered,
           NEW p \in Party, NEW q \in Party, NEW s, NEW t, Turned(p, q, s, t),
           SessionPlaced(p, q, t)', t.pending = NoPending => HasEnd(q, p, t.base)'
    PROVE  SessionsPlaced' /\ PendingUntilAnswered'
<1>1. ASSUME NEW x \in Party, NEW y \in Party
      PROVE  FewSessions(records'[x][y])
  BY DEF Turned, SessionsPlaced
<1>2. ASSUME NEW x \in Party, NEW y \in Party, NEW u \in Sessions(records'[x][y])
      PROVE  SessionPlaced(x, y, u)'
  <2>1. CASE x = p /\ y = q /\ u = t
    BY <2>1
  <2>2. CASE \E v \in Sessions(records[x][y]) : SameEnd(u, v)
    <3>1. PICK v \in Sessions(records[x][y]) : SameEnd(u, v)
      BY <2>2
    <3>2. SessionPlaced(x, y, v)
      BY DEF SessionsPlaced
    <3>3. identity' = identity /\ signedPreKey' = signedPreKey
      BY DEF Turned
    <3>4. v.base[1] = y => HasEnd(y, x, v.base)'
      BY <3>2, EndsStay DEF SessionPlaced
    <3> QED BY <3>1, <3>2, <3>3, <3>4 DEF SessionPlaced, FirstChain, SameEnd
  <2> QED BY <2>1, <2>2, TurnedBack
<1>3. ASSUME NEW x \in Party, NEW y \in Party,
             records'[x][y].current # NoSession, records'[x][y].current.pending = NoPending
      PROVE  \E v \in Sessions(records'[y][x]) : v.base = records'[x][y].current.base
  <2>1. CASE x = p /\ y = q
    <3>1. records'[x][y].current = t
      BY <2>1 DEF Turned
    <3>2. HasEnd(q, p, t.base)'
      BY <1>3, <3>1
    <3> QED BY <2>1, <3>1, <3>2 DEF HasEnd
  <2>2. CASE ~(x = p /\ y = q)
    <3>1. records'[x][y] = records[x][y]
      BY <2>2 DEF Turned
    <3>2. PICK base : base = records[x][y].current.base
      OBVIOUS
    <3>3. HasEnd(y, x, base)
      BY <1>3, <3>1, <3>2 DEF PendingUntilAnswered
    <3>4. HasEnd(y, x, base)'
      BY <3>3, EndsStay
    <3> QED BY <3>1, <3>2, <3>4 DEF HasEnd
  <2> QED BY <2>1, <2>2
<1>4. SessionsPlaced'
  BY <1>1, <1>2 DEF SessionsPlaced
<1>5. PendingUntilAnswered'
  BY <1>3 DEF PendingUntilAnswered, HasEnd
<1> QED
  BY <1>4, <1>5

\* What can still be answered, or has been.
OffersStay(p, q, s) ==
    \A x, y \in Party : \A v \in Sessions(records[x][y]) :
        ~(x = p /\ y = q /\ v = s) /\ Answerable(x, y, v)
            => HasEnd(y, x, v.base)' \/ Answerable(x, y, v)'
EndsOf(p, q, t) == \A v \in Sessions(records[q][p]) : v.base = t.base => TwoEnds(t, v)

LEMMA TurnedPaired ==
    ASSUME TypeOK, Paired, NEW p \in Party, NEW q \in Party, NEW s, NEW t, Turned(p, q, s, t),
           EndsOf(p, q, t), HasEnd(q, p, t.base)' \/ Answerable(p, q, t)', OffersStay(p, q, s)
    PROVE  Paired'
<1>1. p # q /\ records'[q][p] = records[q][p]
  BY DEF Turned
<1>2. ASSUME NEW x \in Party, NEW y \in Party, NEW u \in Sessions(records'[x][y]),
             NEW w \in Sessions(records'[y][x]), u.base = w.base
      PROVE  TwoEnds(u, w)
  <2>1. CASE x = p /\ y = q /\ u = t
    BY <1>1, <1>2, <2>1 DEF EndsOf
  <2>2. CASE y = p /\ x = q /\ w = t
    BY <1>1, <1>2, <2>2 DEF EndsOf, TwoEnds
  <2>3. CASE /\ \E v \in Sessions(records[x][y]) : SameEnd(u, v)
             /\ \E z \in Sessions(records[y][x]) : SameEnd(w, z)
    <3>1. PICK v \in Sessions(records[x][y]) : SameEnd(u, v)
      BY <2>3
    <3>2. PICK z \in Sessions(records[y][x]) : SameEnd(w, z)
      BY <2>3
    <3>3. v.base = z.base
      BY <1>2, <3>1, <3>2 DEF SameEnd
    <3>4. TwoEnds(v, z)
      BY <3>3 DEF Paired
    <3>5. TwoEnds(u, z)
      BY <3>1, <3>4, SameEnds
    <3> QED BY <3>2, <3>5, SameEnds
  <2>4. (x = p /\ y = q /\ u = t) \/ \E v \in Sessions(records[x][y]) : SameEnd(u, v)
    BY TurnedBack
  <2>5. (y = p /\ x = q /\ w = t) \/ \E z \in Sessions(records[y][x]) : SameEnd(w, z)
    BY TurnedBack
  <2> QED BY <2>1, <2>2, <2>3, <2>4, <2>5
<1>3. ASSUME NEW x \in Party, NEW y \in Party, NEW u \in Sessions(records'[x][y])
      PROVE  HasEnd(y, x, u.base)' \/ Answerable(x, y, u)'
  <2>1. CASE x = p /\ y = q /\ u = t
    BY <2>1
  <2>2. CASE \E v \in Sessions(records[x][y]) : ~(x = p /\ y = q /\ v = s) /\ SameEnd(u, v)
    <3>1. PICK v \in Sessions(records[x][y]) : ~(x = p /\ y = q /\ v = s) /\ SameEnd(u, v)
      BY <2>2
    <3>2. HasEnd(y, x, v.base) \/ Answerable(x, y, v)
      BY DEF Paired
    <3>3. HasEnd(y, x, v.base)' \/ Answerable(x, y, v)'
      BY <3>1, <3>2, EndsStay DEF OffersStay
    <3>4. u.base = v.base
      BY <3>1 DEF SameEnd
    <3>5. Answerable(x, y, v)' => Answerable(x, y, u)'
      <4>1. ASSUME Answerable(x, y, v)'
            PROVE  Answerable(x, y, u)'
        <5>1. PICK k \in preKeys'[y] \cup {NoKey} : Offered(x, y, v, k)'
          BY <4>1 DEF Answerable
        <5>2. Offered(x, y, u, k)'
          BY <3>1, <5>1 DEF Offered, SameEnd
        <5> QED BY <5>1, <5>2 DEF Answerable
      <4> QED BY <4>1
    <3> QED BY <3>3, <3>4, <3>5
  <2> QED BY <2>1, <2>2, TurnedBack
<1>4. Paired'
  BY <1>2, <1>3 DEF Paired
<1> QED
  BY <1>4

\* No session of the record, nor that of another device, names a prekey this one could.
PreKeysApartFrom(p, q, t) ==
    t.base[1] = p =>
        /\ \A k \in published'[q].preKeys : k \notin t.root[1]
        /\ \A o \in Party : \A v \in Sessions(records[o][q]) : v.base[1] = o /\ o # p =>
              \A k \in preKeys'[q] : ~(k \in t.root[1] /\ k \in v.root[1])

LEMMA TurnedPreKeys ==
    ASSUME TypeOK, PreKeysApart, NEW p \in Party, NEW q \in Party, NEW s, NEW t,
           Turned(p, q, s, t), PreKeysApartFrom(p, q, t),
           \A x \in Party : preKeys'[x] \subseteq preKeys[x]
                            /\ published'[x].preKeys \subseteq published[x].preKeys
    PROVE  PreKeysApart'
<1>1. ASSUME NEW x \in Party, NEW y \in Party, NEW u \in Sessions(records'[x][y]), u.base[1] = x
      PROVE  /\ \A k \in published'[y].preKeys : k \notin u.root[1]
             /\ \A o \in Party : \A w \in Sessions(records'[o][y]) : w.base[1] = o /\ o # x =>
                   \A k \in preKeys'[y] : ~(k \in u.root[1] /\ k \in w.root[1])
  <2>1. ASSUME NEW v \in Sessions(records[x][y]), SameEnd(u, v)
        PROVE  /\ \A k \in published'[y].preKeys : k \notin u.root[1]
               /\ \A o \in Party : \A w \in Sessions(records'[o][y]) : w.base[1] = o /\ o # x =>
                     \A k \in preKeys'[y] : ~(k \in u.root[1] /\ k \in w.root[1])
    <3>1. v.base[1] = x /\ v.root = u.root
      BY <1>1, <2>1 DEF SameEnd
    <3>2. \A k \in published'[y].preKeys : k \notin u.root[1]
      BY <3>1 DEF PreKeysApart
    <3>3. ASSUME NEW o \in Party, NEW w \in Sessions(records'[o][y]), w.base[1] = o, o # x,
                 NEW k \in preKeys'[y]
          PROVE  ~(k \in u.root[1] /\ k \in w.root[1])
      <4>1. CASE o = p /\ y = q /\ w = t
        BY <3>1, <3>3, <4>1 DEF PreKeysApartFrom
      <4>2. CASE \E z \in Sessions(records[o][y]) : SameEnd(w, z)
        <5>1. PICK z \in Sessions(records[o][y]) : SameEnd(w, z)
          BY <4>2
        <5>2. z.base[1] = o /\ z.root = w.root
          BY <3>3, <5>1 DEF SameEnd
        <5>3. k \in preKeys[y]
          OBVIOUS
        <5> QED BY <3>1, <3>3, <5>2, <5>3 DEF PreKeysApart
      <4> QED BY <4>1, <4>2, TurnedBack
    <3> QED BY <3>2, <3>3
  <2>2. CASE x = p /\ y = q /\ u = t
    <3>1. \A k \in published'[y].preKeys : k \notin u.root[1]
      BY <1>1, <2>2 DEF PreKeysApartFrom
    <3>2. ASSUME NEW o \in Party, NEW w \in Sessions(records'[o][y]), w.base[1] = o, o # x,
                 NEW k \in preKeys'[y]
          PROVE  ~(k \in u.root[1] /\ k \in w.root[1])
      <4>1. w \in Sessions(records[o][y])
        BY <2>2, <3>2 DEF Turned
      <4> QED BY <1>1, <2>2, <3>2, <4>1 DEF PreKeysApartFrom
    <3> QED BY <3>1, <3>2
  <2> QED BY <2>1, <2>2, TurnedBack
<1> QED
  BY <1>1 DEF PreKeysApart

\* The messages s has made are made by t.
MadeStay(p, q, s, t) ==
    s \in Sessions(records[p][q]) =>
        \A m \in sent : m.from = p /\ m.to = q /\ MadeBy(m, s) => MadeBy(m, t)'
\* What a step hands to the server, it has made.
MakesSent(p, q, t) ==
    \A m \in sent' : m \in sent \/
        /\ m.from = p /\ m.to = q /\ m.sender = identity[p] /\ m.receiver = identity[q]
        /\ m.ratchet # signedPreKey[p] /\ MadeBy(m, t)'

LEMMA TurnedMade ==
    ASSUME TypeOK, MessagesMade, NEW p \in Party, NEW q \in Party, NEW s, NEW t,
           Turned(p, q, s, t), MadeStay(p, q, s, t), MakesSent(p, q, t)
    PROVE  MessagesMade'
<1>1. identity' = identity /\ signedPreKey' = signedPreKey
      /\ t \in Sessions(records'[p][q])
  BY DEF Turned
<1>2. ASSUME NEW m \in sent
      PROVE  \E u \in Sessions(records'[m.from][m.to]) : MadeBy(m, u)'
  <2>1. PICK x \in Party, y \in Party : x = m.from /\ y = m.to
    BY SentType
  <2>2. PICK v \in Sessions(records[x][y]) : MadeBy(m, v)
    BY <2>1 DEF MessagesMade
  <2>3. CASE x = p /\ y = q /\ v = s
    <3>1. MadeBy(m, t)'
      BY <2>1, <2>2, <2>3 DEF MadeStay
    <3> QED BY <1>1, <2>1, <2>3, <3>1
  <2>4. CASE \E u \in Sessions(records'[x][y]) : SameEnd(u, v)
    <3>1. PICK u \in Sessions(records'[x][y]) : SameEnd(u, v)
      BY <2>4
    <3>2. u.base = v.base /\ u.root = v.root /\ u.sender.ratchet = v.sender.ratchet
      BY <3>1 DEF SameEnd
    <3>3. m.type = "whisper" => HasEnd(y, x, v.base)'
      BY <2>1, <2>2, EndsStay DEF MadeBy
    <3>4. \/ m.key.root = v.root /\ m.ratchet = v.sender.ratchet
          \/ \E z \in Sessions(records'[y][x]) :
                z.base = v.base /\ HoldsChain(z, m.ratchet, m.key.root)
      <4>1. CASE m.key.root = v.root /\ m.ratchet = v.sender.ratchet
        BY <4>1
      <4>2. CASE \E z \in Sessions(records[y][x]) :
                    z.base = v.base /\ HoldsChain(z, m.ratchet, m.key.root)
        <5>1. PICK z \in Sessions(records[y][x]) :
                      z.base = v.base /\ HoldsChain(z, m.ratchet, m.key.root)
          BY <4>2
        <5>2. \E o \in Sessions(records'[y][x]) :
                 o.base = z.base /\ \A k, root : HoldsChain(z, k, root) => HoldsChain(o, k, root)
          BY TurnedHolds
        <5> QED BY <5>1, <5>2
      <4> QED BY <2>1, <2>2, <4>1, <4>2 DEF MadeBy
    <3>5. MadeBy(m, u)'
      BY <2>1, <2>2, <3>2, <3>3, <3>4 DEF MadeBy
    <3> QED BY <2>1, <3>5
  <2> QED BY <2>3, <2>4, TurnedForward
<1>3. ASSUME NEW m \in sent'
      PROVE  /\ m.sender = identity[m.from] /\ m.receiver = identity[m.to]
             /\ m.ratchet # signedPreKey[m.from]
             /\ \E u \in Sessions(records'[m.from][m.to]) : MadeBy(m, u)'
  <2>1. CASE m \in sent
    BY <1>2, <2>1 DEF MessagesMade
  <2>2. CASE m \notin sent
    BY <1>1, <2>2 DEF MakesSent
  <2> QED BY <2>1, <2>2
<1> QED
  BY <1>1, <1>3 DEF MessagesMade

\* The session s decrypted the message m of its other end w and became t.
LEMMA MovesMaker ==
    ASSUME TypeOK, ReceiverInv, PairInv, NEW p \in Party, NEW q \in Party,
           NEW m \in sent, m.from = q, m.to = p, NEW s \in Sessions(records[p][q]),
           NEW t, NEW fresh \in Key, Moves(s, t, m, fresh),
           NEW w \in Sessions(records[q][p]), MadeBy(m, w)
    PROVE  w.base = s.base /\ t.root[1] = s.root[1]
<1> USE DEF PairInv
<1>1. /\ s \in Session /\ SessionSound(s) /\ s.root \in RootKey /\ s.sender.ratchet \in Key
      /\ Len(s.root) >= 1
  BY PlacedSession DEF SessionSound
<1>2. m.ratchet \in Key /\ m.key.root \in RootKey
  BY SentType
<1>3. m.key.root[1] = s.root[1] /\ t.root[1] = s.root[1]
  <2>1. CASE t.root = s.root /\ HoldsChain(s, m.ratchet, m.key.root)
    BY <1>1, <2>1, HeldRoots
  <2>2. CASE /\ m.key.root = CreateChain(s.root, s.sender.ratchet, m.ratchet)
             /\ t.root = CreateChain(m.key.root, fresh, m.ratchet)
    <3> DEFINE longer == CreateChain(s.root, s.sender.ratchet, m.ratchet)
    <3>1. longer[1] = s.root[1] /\ Len(longer) >= 1
      BY <1>1, <1>2, CreateChainFirst
    <3>2. m.key.root = longer
      BY <2>2
    <3> HIDE DEF longer
    <3>3. m.key.root[1] = s.root[1] /\ Len(m.key.root) >= 1
      BY <3>1, <3>2
    <3> QED BY <1>2, <2>2, <3>3, CreateChainFirst
  <2> QED BY <2>1, <2>2 DEF Moves
<1> QED
  BY <1>3, MakerOfRead

LEMMA MovesEnds ==
    ASSUME TypeOK, ReceiverInv, PairInv, NEW p \in Party, NEW q \in Party,
           NEW m \in sent, m.from = q, m.to = p, NEW s \in Sessions(records[p][q]),
           NEW t, NEW fresh \in Key, Moves(s, t, m, fresh),
           NEW w \in Sessions(records[q][p]), MadeBy(m, w)
    PROVE  /\ EndsOf(p, q, t)
           /\ \/ t.root = s.root /\ t.sender = s.sender
              \/ HoldsChain(w, s.sender.ratchet, s.root)
<1> USE DEF PairInv
<1>1. w.base = s.base
  BY MovesMaker
<1>2. t.base = s.base /\ Receivers(s, t, m)
  BY DEF Moves
<1>3. \A v \in Sessions(records[q][p]) : v.base = s.base => v = w
  BY <1>1, OneEnd
<1>4. TwoEnds(s, w)
  BY <1>1 DEF Paired
<1>5. \A k, root : HoldsChain(s, k, root) => HoldsChain(t, k, root)
  BY <1>2 DEF Receivers
<1>6. HoldsChain(t, m.ratchet, m.key.root)
  BY <1>2 DEF Receivers
<1>7. CASE t.root = s.root /\ t.sender = s.sender
  <2>1. TwoEnds(t, w)
    BY <1>4, <1>5, <1>7 DEF TwoEnds, Ahead
  <2> QED BY <1>2, <1>3, <1>7, <2>1 DEF EndsOf
<1>8. CASE /\ ~HasReceiverChain(s, m.ratchet)
           /\ t.root = CreateChain(m.key.root, fresh, m.ratchet) /\ t.sender.ratchet = fresh
  <2>1. \A root : ~HoldsChain(s, m.ratchet, root)
    BY <1>8 DEF HoldsChain, HasReceiverChain, ReceiverChains, ToSet
  <2>2. \A v \in Sessions(records[p][q]) : v.base = s.base => v = s
    BY OneEnd
  <2>3. m.key.root = w.root /\ m.ratchet = w.sender.ratchet
    BY <1>1, <2>1, <2>2 DEF MadeBy
  <2>4. Ahead(w, s)
    BY <1>4, <2>1, <2>3 DEF TwoEnds, Ahead
  <2>5. Ahead(t, w)
    BY <1>6, <1>8, <2>3 DEF Ahead
  <2> QED BY <1>2, <1>3, <2>4, <2>5 DEF EndsOf, TwoEnds, Ahead
<1> QED
  BY <1>7, <1>8 DEF Moves

LEMMA MovesMade ==
    ASSUME TypeOK, ReceiverInv, PairInv, NEW p \in Party, NEW q \in Party,
           NEW m \in sent, m.from = q, m.to = p, NEW s \in Sessions(records[p][q]),
           NEW t, NEW fresh \in Key, Moves(s, t, m, fresh), Turned(p, q, s, t),
           NEW w \in Sessions(records[q][p]), MadeBy(m, w)
    PROVE  MadeStay(p, q, s, t)
<1>1. w.base = s.base /\ t.base = s.base
  BY MovesMaker DEF Moves
<1>2. \/ t.root = s.root /\ t.sender = s.sender
      \/ HoldsChain(w, s.sender.ratchet, s.root)
  BY MovesEnds
<1>3. p # q /\ records'[q][p] = records[q][p]
  BY DEF Turned
<1>4. ASSUME NEW o \in sent, o.from = p, o.to = q, MadeBy(o, s)
      PROVE  MadeBy(o, t)'
  <2>1. HasEnd(q, p, t.base)'
    BY <1>1, <1>3 DEF HasEnd
  <2>2. \/ o.key.root = t.root /\ o.ratchet = t.sender.ratchet
        \/ \E z \in Sessions(records'[q][p]) :
              z.base = t.base /\ HoldsChain(z, o.ratchet, o.key.root)
    <3>1. CASE o.key.root = s.root /\ o.ratchet = s.sender.ratchet
      BY <1>1, <1>2, <1>3, <3>1
    <3>2. CASE \E z \in Sessions(records[q][p]) :
                  z.base = s.base /\ HoldsChain(z, o.ratchet, o.key.root)
      BY <1>1, <1>3, <3>2
    <3> QED BY <1>4, <3>1, <3>2 DEF MadeBy
  <2>3. o.type = "prekey" => o.base = t.base
    BY <1>1, <1>4 DEF MadeBy
  <2> QED BY <1>4, <2>1, <2>2, <2>3 DEF MadeBy
<1> QED
  BY <1>4 DEF MadeStay

-----------------------------------------------------------------------------
(* A decryption                                                            *)

\* No session has reached the number of chains at which it drops the oldest.
ChainsLeft ==
    \A p, q \in Party : \A s \in Sessions(records[p][q]) : Len(s.receivers) < MAX_RECEIVER_CHAINS

\* A session decrypt_message_with_state can be asked about, with room for another chain.
HasRoom(s) == SessionSound(s) /\ Len(s.receivers) < MAX_RECEIVER_CHAINS

LEMMA AlikeHasRoom ==
    ASSUME NEW v \in Session, HasRoom(v), NEW u, Alike(u, v)
    PROVE  HasRoom(u)
<1>1. CASE u = v
  BY <1>1
<1>2. CASE u = ClearPending(v)
  BY <1>2, ClearPendingFields DEF HasRoom
<1> QED
  BY <1>1, <1>2 DEF Alike

LEMMA StoredHasRoom ==
    ASSUME TypeOK, ReceiverInv, ChainsLeft, NEW p \in Party, NEW q \in Party,
           NEW s \in Sessions(records[p][q])
    PROVE  HasRoom(s)
BY DEF ReceiverInv, RecordsInv, SessionsSound, ChainsLeft, HasRoom

\* What the new record is when the decryption replaced a session of the old one.
LEMMA ReplacesTurned ==
    ASSUME TypeOK, NEW p \in Party, NEW q \in Party, p # q, UNCHANGED <<identity, signedPreKey>>,
           NEW r, StoreSession(p, q, r), NEW s, Replaces(records[p][q], r, s),
           NEW t, t = r.current, \A k, root : HoldsChain(s, k, root) => HoldsChain(t, k, root)
    PROVE  Turned(p, q, s, t)
<1>1. /\ records'[p][q] = r
      /\ \A x, y \in Party : ~(x = p /\ y = q) => records'[x][y] = records[x][y]
  BY StoredReceivers
<1>2. \A v \in Sessions(records[p][q]) : v \in Session
  BY SessionType
<1>3. FewSessions(r) /\ t \in Sessions(r) /\ t.base = s.base
  BY DEF Replaces
<1>4. ASSUME NEW v \in Sessions(records[p][q])
      PROVE  v = s \/ \E u \in Sessions(r) : SameEnd(u, v)
  BY <1>2, AlikeIsSameEnd DEF Replaces
<1>5. ASSUME NEW u \in Sessions(r)
      PROVE  u = t \/ \E v \in Sessions(records[p][q]) : v # s /\ SameEnd(u, v)
  BY <1>2, AlikeIsSameEnd DEF Replaces
<1> QED
  BY <1>1, <1>3, <1>4, <1>5 DEF Turned

LEMMA KnownTurned ==
    ASSUME TypeOK, ReceiverInv, SessionsPlaced, ChainsLeft, NEW m \in sent,
           NEW p \in Party, NEW q \in Party, p = m.to, q = m.from,
           DecryptKnownPreKey(p, m) \/ DecryptSignal(p, m),
           NEW fresh, fresh = NewKey(p, 0)
    PROVE  \E s \in Sessions(records[p][q]) : \E t :
              Turned(p, q, s, t) /\ Moves(s, t, m, fresh)
<1>1. m \in Message /\ fresh \in Key /\ p # q
  BY SentType, NewKeyType DEF ReceiverInv, RecordsInv, MessagesSound
<1>2. PICK r : r = records[p][q]
  OBVIOUS
<1>3. r \in Record /\ FewSessions(r) /\ \A v \in Sessions(r) : v \in Session /\ HasRoom(v)
  BY <1>2, RecordType, SessionType, StoredHasRoom DEF SessionsPlaced
<1>4. UNCHANGED <<identity, signedPreKey>>
  BY DEF DecryptKnownPreKey, DecryptSignal, keyVars
<1>5. ASSUME NEW n, StoreSession(p, q, n), NEW s \in Sessions(r), Replaces(r, n, s),
             Moves(s, n.current, m, fresh)
      PROVE  \E t : Turned(p, q, s, t) /\ Moves(s, t, m, fresh)
  <2>1. PICK t : t = n.current
    OBVIOUS
  <2>2. \A k, root : HoldsChain(s, k, root) => HoldsChain(t, k, root)
    BY <1>5, <2>1 DEF Moves, Receivers
  <2>3. Turned(p, q, s, t)
    BY <1>1, <1>2, <1>4, <1>5, <2>1, <2>2, ReplacesTurned
  <2> QED BY <1>5, <2>1, <2>3
<1>6. CASE DecryptSignal(p, m)
  <2>1. PICK n : n = DecryptWithRecord(r, m, fresh).record
    OBVIOUS
  <2>2. DecryptWithRecord(r, m, fresh).verdict = "ok" /\ StoreSession(p, q, n)
    BY <1>2, <1>6, <2>1 DEF DecryptSignal, SignalResult
  <2>3. \E s \in Sessions(r) : Replaces(r, n, s) /\ Moves(s, n.current, m, fresh)
    BY <1>1, <1>3, <2>1, <2>2, DecryptWithRecordReplaces DEF HasRoom
  <2> QED BY <1>2, <1>5, <2>2, <2>3
<1>7. CASE DecryptKnownPreKey(p, m)
  <2>1. PICK r1 : r1 = PromoteMatching(r, m.base)
    OBVIOUS
  <2>2. PICK n : n = DecryptWithRecord(r1, m, fresh).record
    OBVIOUS
  <2>3. m.type = "prekey" /\ HasMatchingSession(r, m.base)
    BY <1>2, <1>7 DEF DecryptKnownPreKey
  <2>4. PreKeyResult(p, m) = DecryptWithRecord(r1, m, fresh)
    BY <1>2, <2>1, <2>3 DEF PreKeyResult, ProcessPreKey
  <2>5. DecryptWithRecord(r1, m, fresh).verdict = "ok" /\ StoreSession(p, q, n)
    BY <1>7, <2>2, <2>4 DEF DecryptKnownPreKey
  <2>6. PICK s : s = r1.current
    OBVIOUS
  <2>7. r1 \in Record /\ s # NoSession /\ s \in Sessions(r) /\ Replaces(r, r1, s)
    BY <1>3, <2>1, <2>3, <2>6, PromoteMatchingReplaces
  <2>8. FewSessions(r1)
    BY <2>7 DEF Replaces
  <2>9. \A u \in Sessions(r1) : HasRoom(u)
    <3>1. \A u \in Sessions(r1) : \E v \in Sessions(r) : Alike(u, v)
      BY <1>3, <2>1, <2>3, SessionsAfterMatching
    <3> QED BY <1>3, <3>1, AlikeHasRoom
  <2>10. Replaces(r1, n, s) /\ Moves(s, n.current, m, fresh)
    BY <1>1, <2>2, <2>3, <2>5, <2>6, <2>7, <2>8, <2>9, DecryptWithRecordReplaces DEF HasRoom
  <2>11. Replaces(r, n, s)
    BY <1>3, <2>6, <2>7, <2>10, ReplacesAgain
  <2> QED BY <1>2, <1>5, <2>5, <2>7, <2>10, <2>11
<1> QED
  BY <1>6, <1>7

LEMMA OwnKeysKnown ==
    ASSUME TypeOK, ReceiverInv, NEW p \in Party
    PROVE  /\ Known(identity[p]) /\ Known(signedPreKey[p])
           /\ \A n \in Nat : NewKey(p, n) # identity[p] /\ NewKey(p, n) # signedPreKey[p]
<1>1. identity[p] \in Key /\ signedPreKey[p] \in Key
  BY DEF TypeOK
<1>2. IsOther({}, identity[p]) /\ IsOther({}, signedPreKey[p])
  BY DEF IsOther, OwnKeys
<1>3. Known(identity[p]) /\ Known(signedPreKey[p])
  BY <1>1, <1>2 DEF ReceiverInv, RecordsInv, RolesApart
<1> QED
  BY <1>3, NewKeyUnknown

\* The session that read a message is where a session of p with q may be.
LEMMA MovedPlaced ==
    ASSUME TypeOK, ReceiverInv, NEW p \in Party, NEW q \in Party, p # q,
           UNCHANGED <<identity, signedPreKey>>,
           NEW m, NEW fresh, fresh = NewKey(p, 0), NEW s, NEW t, Moves(s, t, m, fresh),
           s.local = identity[p], s.remote = identity[q],
           s.sender.ratchet # signedPreKey[p] \/ s.receivers = <<>>,
           \A c \in ToSet(s.receivers) : c.index > 0 \/ FirstChain(q, c),
           s.base[1] \in {p, q}, HasEnd(q, p, s.base)'
    PROVE  SessionPlaced(p, q, t)'
<1>1. /\ t.local = s.local /\ t.remote = s.remote /\ t.base = s.base
      /\ \A d \in ToSet(t.receivers) : d.index > 0 \/ d \in ToSet(s.receivers)
  BY DEF Moves, Receivers
<1>2. t.sender.ratchet # signedPreKey[p]
  <2>1. fresh # signedPreKey[p]
    BY OwnKeysKnown
  <2>2. s.receivers = <<>> => ~HoldsChain(s, m.ratchet, m.key.root)
    BY DEF HoldsChain, ToSet
  <2> QED BY <2>1, <2>2 DEF Moves
<1> QED
  BY <1>1, <1>2 DEF SessionPlaced, FirstChain

LEMMA KnownPair ==
    ASSUME TypeOK, ReceiverInv, PairInv, ChainsLeft, NEW m \in sent,
           DecryptKnownPreKey(m.to, m) \/ DecryptSignal(m.to, m)
    PROVE  PairInv'
<1> USE DEF PairInv
<1>1. PICK p \in Party, q \in Party : p = m.to /\ q = m.from
  BY SentType
<1>2. PICK fresh : fresh = NewKey(p, 0)
  OBVIOUS
<1>3. DecryptKnownPreKey(p, m) \/ DecryptSignal(p, m)
  BY <1>1
<1>4. PICK s \in Sessions(records[p][q]) : \E t : Turned(p, q, s, t) /\ Moves(s, t, m, fresh)
  BY <1>1, <1>2, <1>3, KnownTurned
<1>5. PICK t : Turned(p, q, s, t) /\ Moves(s, t, m, fresh)
  BY <1>4
<1>6. UNCHANGED <<identity, signedPreKey, preKeys, kyberUsed, published, sent>>
  BY <1>3 DEF DecryptKnownPreKey, DecryptSignal, keyVars
<1>7. PICK w \in Sessions(records[q][p]) : MadeBy(m, w)
  BY <1>1 DEF MessagesMade
<1>8. fresh \in Key
  BY <1>2, NewKeyType
<1>9. w.base = s.base /\ t.root[1] = s.root[1] /\ t.base = s.base
  BY <1>1, <1>5, <1>7, <1>8, MovesMaker DEF Moves
<1>10. p # q /\ HasEnd(q, p, t.base)'
  <2>1. records'[q][p] = records[q][p] /\ p # q
    BY <1>5 DEF Turned
  <2> QED BY <1>7, <1>9, <2>1 DEF HasEnd
<1>11. SessionPlaced(p, q, t)'
  <2>1. SessionPlaced(p, q, s)
    BY DEF SessionsPlaced
  <2>2. HasEnd(q, p, s.base)'
    BY <1>9, <1>10
  <2> QED BY <1>2, <1>5, <1>6, <1>10, <2>1, <2>2, MovedPlaced DEF SessionPlaced
<1>12. SessionsPlaced' /\ PendingUntilAnswered'
  BY <1>5, <1>10, <1>11, TurnedPlaced
<1>13. Paired'
  <2>1. EndsOf(p, q, t)
    BY <1>1, <1>5, <1>7, <1>8, MovesEnds
  <2>2. OffersStay(p, q, s)
    BY <1>6 DEF OffersStay, Answerable, Offered
  <2> QED BY <1>5, <1>10, <2>1, <2>2, TurnedPaired
<1>14. PreKeysApart'
  <2>1. PreKeysApartFrom(p, q, t)
    BY <1>6, <1>9 DEF PreKeysApartFrom, PreKeysApart
  <2> QED BY <1>5, <1>6, <2>1, TurnedPreKeys
<1>15. MessagesMade'
  <2>1. MadeStay(p, q, s, t)
    BY <1>1, <1>5, <1>7, <1>8, MovesMade
  <2>2. MakesSent(p, q, t)
    BY <1>6 DEF MakesSent
  <2> QED BY <1>5, <2>1, <2>2, TurnedMade
<1>16. KeysKept'
  BY <1>6 DEF KeysKept
<1> QED
  BY <1>12, <1>13, <1>14, <1>15, <1>16

\* A message that starts a session: of the record there is at most a session its
\* owner started, and the new one is put before it.
LEMMA NewTurned ==
    ASSUME TypeOK, ReceiverInv, PairInv, ChainsLeft, NEW m \in sent,
           NEW p \in Party, NEW q \in Party, p = m.to, q = m.from, DecryptNewPreKey(p, m),
           NEW fresh, fresh = NewKey(p, 0), NEW w \in Sessions(records[q][p]), MadeBy(m, w)
    PROVE  \E b, t : /\ b = BobOf(p, m) /\ b \notin Sessions(records[p][q])
                     /\ Turned(p, q, b, t) /\ Moves(b, t, m, fresh)
<1> USE DEF PairInv
<1>1. m \in Message /\ fresh \in Key /\ p # q
  BY SentType, NewKeyType DEF ReceiverInv, RecordsInv, MessagesSound
<1>2. PICK r : r = records[p][q]
  OBVIOUS
<1>3. PICK b : b = BobOf(p, m)
  OBVIOUS
<1>4. /\ m.type = "prekey" /\ ~HasMatchingSession(r, m.base)
      /\ UNCHANGED <<identity, signedPreKey>>
      /\ PreKeyResult(p, m).verdict = "ok"
      /\ StoreSession(p, q, PreKeyResult(p, m).record)
  BY <1>2 DEF DecryptNewPreKey
<1>5. m.base = w.base
  BY <1>4 DEF MadeBy
<1>6. ~HasEnd(p, q, w.base)
  BY <1>2, <1>4, <1>5, MatchingIsEnd
<1>7. w.base[1] = q /\ b \in Session /\ SessionSound(b)
  BY <1>3, <1>4, <1>6, NewlyAnswered
<1>8. b.base = m.base /\ b.receivers = <<>>
  BY <1>3 DEF BobOf, InitializeBob
<1>9. r \in Record /\ FewSessions(r) /\ \A v \in Sessions(r) : v \in Session /\ HasRoom(v)
  BY <1>2, RecordType, SessionType, StoredHasRoom DEF SessionsPlaced
<1>10. ASSUME NEW v \in Sessions(r)
       PROVE  v.base[1] # q
  <2>1. SUFFICES ASSUME v.base[1] = q PROVE FALSE
    OBVIOUS
  <2>2. PICK z \in Sessions(records[q][p]) : z.base = v.base
    BY <1>2, <2>1 DEF SessionsPlaced, SessionPlaced, HasEnd
  <2>3. z = w
    BY <1>7, <2>1, <2>2, OneEnd
  <2> QED BY <1>2, <1>6, <2>2, <2>3 DEF HasEnd
<1>11. r.previous = <<>> /\ (r.current # NoSession => r.current.base[1] # b.base[1])
  <2>1. r.current # NoSession => r.current \in Sessions(r)
    BY <1>9, SessionsOfRecord
  <2>2. r.current # NoSession => r.current.base[1] # q
    BY <1>10, <2>1
  <2>3. SUFFICES ASSUME r.previous # <<>> PROVE FALSE
    BY <1>5, <1>7, <1>8, <2>2
  <2>4. r.current # NoSession /\ r.current.base[1] # r.previous[1].base[1]
    BY <1>9, <2>3 DEF FewSessions
  <2>5. r.previous[1] \in Sessions(r)
    <3>1. r.previous \in Seq(Session) /\ DOMAIN r.previous = 1 .. Len(r.previous)
      BY <1>9, SessionsOfRecord
    <3>2. 1 \in DOMAIN r.previous
      BY <2>3, <3>1
    <3> QED BY <1>9, <3>2, SessionsOfRecord
  <2>6. SessionPlaced(p, q, r.current) /\ SessionPlaced(p, q, r.previous[1])
    BY <1>2, <2>1, <2>4, <2>5 DEF SessionsPlaced
  <2> QED BY <1>10, <2>1, <2>4, <2>5, <2>6 DEF SessionPlaced
<1>12. PICK r1 : r1 = PromoteState(r, b)
  OBVIOUS
<1>13. r1 \in Record /\ r1.current = b
  BY <1>7, <1>9, <1>12, PromoteStateProperties
<1>14. /\ FewSessions(r1)
       /\ \A v \in Sessions(r) : ClearPending(v) \in Sessions(r1)
       /\ \A u \in Sessions(r1) : u = b \/ \E v \in Sessions(r) : u = ClearPending(v)
  BY <1>7, <1>9, <1>11, <1>12, PromoteFew
<1>15. PICK n : n = DecryptWithRecord(r1, m, fresh).record
  OBVIOUS
<1>16. DecryptWithRecord(r1, m, fresh).verdict = "ok" /\ StoreSession(p, q, n)
  <2>1. PreKeyResult(p, m) = DecryptWithRecord(r1, m, fresh)
    BY <1>2, <1>3, <1>4, <1>12 DEF PreKeyResult, ProcessPreKey, BobOf
  <2> QED BY <1>4, <1>15, <2>1
<1>17. \A u \in Sessions(r1) : HasRoom(u)
  <2>1. HasRoom(b)
    BY <1>7, <1>8, LimitsAssumption DEF HasRoom
  <2> QED BY <1>9, <1>14, <2>1, AlikeHasRoom DEF Alike
<1>18. Replaces(r1, n, b) /\ Moves(b, n.current, m, fresh)
  <2>1. b # NoSession
    BY <1>7, SentinelAssumption
  <2> QED BY <1>1, <1>4, <1>13, <1>14, <1>15, <1>16, <1>17, <2>1, DecryptWithRecordReplaces DEF HasRoom
<1>19. PICK t : t = n.current
  OBVIOUS
<1>20. b \notin Sessions(r)
  BY <1>5, <1>7, <1>8, <1>10
<1>21. Turned(p, q, b, t)
  <2>1. /\ records'[p][q] = n
        /\ \A x, y \in Party : ~(x = p /\ y = q) => records'[x][y] = records[x][y]
    BY <1>16, StoredReceivers
  <2>2. FewSessions(n) /\ t \in Sessions(n)
    BY <1>18, <1>19 DEF Replaces
  <2>3. ASSUME NEW v \in Sessions(r)
        PROVE  \E u \in Sessions(n) : SameEnd(u, v)
    <3>1. v \in Session /\ ClearPending(v) \in Sessions(r1) /\ ClearPending(v).base = v.base
      BY <1>9, <1>14, ClearPendingFields
    <3>2. ClearPending(v) # b
      BY <1>5, <1>7, <1>8, <1>10, <3>1
    <3>3. PICK u \in Sessions(n) : Alike(u, ClearPending(v))
      BY <1>18, <3>1, <3>2 DEF Replaces
    <3>4. Alike(ClearPending(v), v)
      BY DEF Alike
    <3>5. Alike(u, v)
      BY <3>1, <3>3, <3>4, AlikeAgain
    <3> QED BY <3>1, <3>5, AlikeIsSameEnd
  <2>4. ASSUME NEW u \in Sessions(n), u # t
        PROVE  \E v \in Sessions(r) : v # b /\ SameEnd(u, v)
    <3>1. PICK z \in Sessions(r1) : z # b /\ Alike(u, z)
      BY <1>18, <1>19, <2>4 DEF Replaces
    <3>2. PICK v \in Sessions(r) : z = ClearPending(v)
      BY <1>14, <3>1
    <3>3. v \in Session /\ Alike(z, v)
      BY <1>9, <3>2 DEF Alike
    <3>4. Alike(u, v)
      BY <3>1, <3>3, AlikeAgain
    <3> QED BY <1>20, <3>3, <3>4, AlikeIsSameEnd
  <2> QED BY <1>1, <1>2, <1>4, <1>19, <1>20, <2>1, <2>2, <2>3, <2>4 DEF Turned
<1> QED
  BY <1>2, <1>3, <1>18, <1>19, <1>20, <1>21

\* The one-time prekey a session was offered is part of its handshake.
LEMMA OfferedPreKey ==
    ASSUME TypeOK, NEW p \in Party, NEW q \in Party, NEW s \in Sessions(records[p][q]),
           NEW k \in Key, Offered(p, q, s, k)
    PROVE  k \in s.root[1]
<1>1. s \in Session
  BY SessionType
<1>2. PICK signed \in Key : signed = signedPreKey[q]
  BY DEF TypeOK
<1>3. /\ s.local \in Key /\ s.remote \in Key /\ s.base \in Key /\ s.sender.ratchet \in Key
      /\ k \in OptionalKey /\ signed \in Key
  BY <1>1 DEF Session, SenderChain, OptionalKey
<1> DEFINE first == HandshakeRoot(s.local, s.remote, s.base, signed, k)
           longer == CreateChain(first, s.sender.ratchet, signed)
<1>4. first \in RootKey /\ Len(first) = 1
      /\ first[1] = {s.local, s.remote, s.base, signed, k} \ {NoKey}
  <2>1. PICK local \in Key, far \in Key, base \in Key :
          local = s.local /\ far = s.remote /\ base = s.base
    BY <1>3
  <2> DEFINE root == HandshakeRoot(local, far, base, signed, k)
  <2>2. root \in RootKey /\ Len(root) = 1 /\ root[1] = {local, far, base, signed, k} \ {NoKey}
    BY <1>3, HandshakeRootProperties
  <2>3. first = root
    BY <2>1
  <2> HIDE DEF first, root
  <2> QED BY <2>1, <2>2, <2>3
<1>5. s.root = longer
  BY <1>2 DEF Offered
<1> HIDE DEF first
<1>6. longer[1] = first[1]
  <2>1. Len(first) >= 1
    BY <1>4
  <2> QED BY <1>3, <1>4, <2>1, CreateChainFirst
<1> HIDE DEF longer
<1>7. k # NoKey
  BY SentinelAssumption
<1> QED
  BY <1>4, <1>5, <1>6, <1>7

LEMMA NewPair ==
    ASSUME TypeOK, ReceiverInv, PairInv, ChainsLeft, NEW m \in sent,
           DecryptNewPreKey(m.to, m)
    PROVE  PairInv'
<1> USE DEF PairInv
<1>1. PICK p \in Party, q \in Party : p = m.to /\ q = m.from
  BY SentType
<1>2. PICK fresh : fresh = NewKey(p, 0)
  OBVIOUS
<1>3. DecryptNewPreKey(p, m)
  BY <1>1
<1>4. PICK w \in Sessions(records[q][p]) : MadeBy(m, w)
  BY <1>1 DEF MessagesMade
<1>5. PICK b, t : /\ b = BobOf(p, m) /\ b \notin Sessions(records[p][q])
                  /\ Turned(p, q, b, t) /\ Moves(b, t, m, fresh)
  BY <1>1, <1>2, <1>3, <1>4, NewTurned
<1>6. /\ m.type = "prekey" /\ ~HasMatchingSession(records[p][q], m.base)
      /\ kyberUsed' = [kyberUsed EXCEPT ![p] = @ \cup {m.base}]
      /\ preKeys' = [preKeys EXCEPT ![p] = @ \ {m.preKey}]
      /\ UNCHANGED <<identity, signedPreKey, published, sent>>
  BY <1>1, <1>3 DEF DecryptNewPreKey
<1>7. m.base = w.base
  BY <1>4, <1>6 DEF MadeBy
<1>8. ~HasEnd(p, q, w.base)
  BY <1>6, <1>7, MatchingIsEnd
<1>9. /\ Offered(q, p, w, m.preKey) /\ m.preKey \in preKeys[p] \cup {NoKey}
      /\ m.key.root = w.root /\ m.ratchet = w.sender.ratchet
      /\ w.local = identity[q] /\ w.base[1] = q
  BY <1>1, <1>4, <1>6, <1>8, NewlyAnswered
<1>10. /\ b.base = m.base /\ b.local = identity[p] /\ b.remote = m.sender /\ b.receivers = <<>>
  BY <1>5 DEF BobOf, InitializeBob
<1>11. /\ t.base = w.base /\ HoldsChain(t, m.ratchet, m.key.root)
       /\ t.root = CreateChain(m.key.root, fresh, m.ratchet) /\ t.sender.ratchet = fresh
  <2>1. ~HoldsChain(b, m.ratchet, m.key.root)
    BY <1>10 DEF HoldsChain, ToSet
  <2> QED BY <1>5, <1>7, <1>10, <2>1 DEF Moves, Receivers
<1>12. p # q /\ HasEnd(q, p, t.base)' /\ HasEnd(p, q, t.base)'
  BY <1>5, <1>11 DEF Turned, HasEnd
<1>13. m.preKey # NoKey => m.preKey \in preKeys[p] /\ m.preKey \in w.root[1]
  BY <1>9, OfferedPreKey DEF TypeOK
<1>14. SessionPlaced(p, q, t)'
  <2>1. b.remote = identity[q]
    BY <1>1, <1>10 DEF MessagesMade
  <2>2. b.base[1] \in {p, q} /\ HasEnd(q, p, b.base)'
    BY <1>7, <1>9, <1>10, <1>11, <1>12
  <2>3. \A c \in ToSet(b.receivers) : c.index > 0 \/ FirstChain(q, c)
    BY <1>10 DEF ToSet
  <2> QED BY <1>2, <1>5, <1>6, <1>10, <1>12, <2>1, <2>2, <2>3, MovedPlaced
<1>15. SessionsPlaced' /\ PendingUntilAnswered'
  BY <1>5, <1>12, <1>14, TurnedPlaced
<1>16. EndsOf(p, q, t)
  <2>1. \A v \in Sessions(records[q][p]) : v.base = t.base => v = w
    BY <1>11, OneEnd
  <2>2. Ahead(t, w)
    BY <1>9, <1>11 DEF Ahead
  <2> QED BY <2>1, <2>2 DEF EndsOf, TwoEnds
<1>17. OffersStay(p, q, b)
  <2>1. SUFFICES ASSUME NEW x \in Party, NEW y \in Party, NEW v \in Sessions(records[x][y]),
                        Answerable(x, y, v)
                 PROVE  HasEnd(y, x, v.base)' \/ Answerable(x, y, v)'
    BY DEF OffersStay
  <2>2. PICK k \in preKeys[y] \cup {NoKey} : Offered(x, y, v, k)
    BY <2>1 DEF Answerable
  <2>3. v.base[1] \in {x, y} /\ (v.base[1] = y => HasEnd(y, x, v.base))
    BY DEF SessionsPlaced, SessionPlaced
  <2>4. CASE y # p
    <3>1. preKeys'[y] = preKeys[y] /\ kyberUsed'[y] = kyberUsed[y]
      BY <1>6, <2>4 DEF TypeOK
    <3>2. Offered(x, y, v, k)'
      BY <1>6, <2>2, <3>1 DEF Offered
    <3> QED BY <2>2, <3>1, <3>2 DEF Answerable
  <2>5. CASE v.base[1] = y
    BY <1>5, <2>3, <2>5, EndsStay
  <2>6. CASE y = p /\ x = q /\ v.base[1] = x
    <3>1. v = w
      BY <1>9, <2>6, OneEnd
    <3> QED BY <1>11, <1>12, <2>6, <3>1
  <2>7. CASE y = p /\ x # q /\ v.base[1] = x
    <3>1. kyberUsed'[y] = kyberUsed[y] \cup {m.base} /\ preKeys'[y] = preKeys[y] \ {m.preKey}
      BY <1>6, <2>7 DEF TypeOK
    <3>2. v.base # m.base
      BY <1>7, <1>9, <2>7
    <3>3. Offered(x, y, v, k)'
      BY <1>6, <2>2, <3>1, <3>2 DEF Offered
    <3>4. k # NoKey => k \in preKeys[y] /\ k \in v.root[1]
      BY <2>2, OfferedPreKey DEF TypeOK
    <3>5. k # NoKey => k # m.preKey
      BY <1>9, <1>13, <2>7, <3>4 DEF PreKeysApart
    <3> QED BY <2>2, <3>1, <3>3, <3>5 DEF Answerable
  <2> QED BY <2>3, <2>4, <2>5, <2>6, <2>7
<1>18. Paired'
  BY <1>5, <1>12, <1>16, <1>17, TurnedPaired
<1>19. PreKeysApart'
  <2>1. PreKeysApartFrom(p, q, t)
    BY <1>9, <1>11, <1>12 DEF PreKeysApartFrom
  <2>2. \A x \in Party : preKeys'[x] \subseteq preKeys[x]
                         /\ published'[x].preKeys \subseteq published[x].preKeys
    BY <1>6 DEF TypeOK
  <2> QED BY <1>5, <2>1, <2>2, TurnedPreKeys
<1>20. MessagesMade'
  BY <1>5, <1>6, TurnedMade DEF MadeStay, MakesSent
<1>21. KeysKept'
  <2>1. m.preKey \notin published[p].preKeys
    <3>1. NoKey \notin published[p].preKeys
      BY SentinelAssumption DEF TypeOK, Bundle
    <3> QED BY <1>9, <1>13, <3>1 DEF PreKeysApart
  <2>2. preKeys'[p] = preKeys[p] \ {m.preKey} /\ \A x \in Party : x # p => preKeys'[x] = preKeys[x]
    BY <1>6 DEF TypeOK
  <2>3. \A x \in Party : published[x].preKeys \subseteq preKeys'[x] /\ preKeys'[x] \subseteq preKeys[x]
    BY <2>1, <2>2 DEF KeysKept
  <2> QED BY <1>6, <2>3 DEF KeysKept
<1> QED
  BY <1>15, <1>18, <1>19, <1>20, <1>21

-----------------------------------------------------------------------------
(* The other steps                                                         *)

\* The session of the side that starts the conversation.
AliceFields(own, other, base, ratchet, signed, preKey, s) ==
    /\ s \in Session
    /\ s.local = own /\ s.remote = other /\ s.base = base
    /\ s.sender.ratchet = ratchet
    /\ s.root = CreateChain(HandshakeRoot(own, other, base, signed, preKey), ratchet, signed)
    /\ s.root[1] = {own, other, base, signed, preKey} \ {NoKey}
    /\ \A c \in ToSet(s.receivers) : c.ratchet = signed /\ Len(c.root) = 1
    /\ s.pending # NoPending
    /\ s.pending.signedPreKey = signed /\ s.pending.preKey = preKey

LEMMA AlicePlaced ==
    ASSUME NEW own \in Key, NEW other \in Key, NEW base \in Key, NEW ratchet \in Key,
           NEW signed \in Key, NEW preKey \in OptionalKey, NEW time \in Nat
    PROVE  AliceFields(own, other, base, ratchet, signed, preKey,
                       InitializeAlice(own, other, base, ratchet, signed, preKey, time))
<1> DEFINE first == HandshakeRoot(own, other, base, signed, preKey)
           longer == CreateChain(first, ratchet, signed)
           s == InitializeAlice(own, other, base, ratchet, signed, preKey, time)
           pending == [preKey |-> preKey, signedPreKey |-> signed, time |-> time]
<1>1. s \in Session
  BY InitializeAliceProperties
<1>2. /\ s.local = own /\ s.remote = other /\ s.base = base
      /\ s.sender.ratchet = ratchet /\ s.root = longer
      /\ s.pending = pending
      /\ s.receivers = << [ratchet |-> signed, root |-> first, index |-> 0, skipped |-> <<>>] >>
  BY DEF InitializeAlice
<1>3. pending # NoPending
  BY SentinelAssumption DEF Pending
<1>4. pending.signedPreKey = signed /\ pending.preKey = preKey
  OBVIOUS
<1>5. \A c \in ToSet(s.receivers) : c.ratchet = signed /\ Len(c.root) = 1
  <2> DEFINE chain == [ratchet |-> signed, root |-> first, index |-> 0, skipped |-> <<>>]
  <2>1. chain.ratchet = signed /\ Len(chain.root) = 1
    <3>1. Len(first) = 1
      BY HandshakeRootProperties
    <3> HIDE DEF first
    <3> QED BY <3>1
  <2>2. s.receivers = <<chain>>
    BY <1>2
  <2> HIDE DEF chain, s
  <2>3. DOMAIN s.receivers = {1} /\ s.receivers[1] = chain
    BY <2>2
  <2> QED BY <2>1, <2>3 DEF ToSet
<1>6. longer[1] = {own, other, base, signed, preKey} \ {NoKey}
  <2>1. first \in RootKey /\ Len(first) = 1
    BY HandshakeRootProperties
  <2>2. first[1] = {own, other, base, signed, preKey} \ {NoKey}
    BY DEF HandshakeRoot
  <2> HIDE DEF first
  <2>3. Len(first) >= 1
    BY <2>1
  <2>4. longer[1] = first[1]
    BY <2>1, <2>3, CreateChainFirst
  <2> QED BY <2>2, <2>4
<1> HIDE DEF s, longer, pending
<1> QED
  BY <1>1, <1>2, <1>3, <1>4, <1>5, <1>6 DEF AliceFields, s, longer

\* What the server gives out of q and p makes of it.
LEMMA EstablishTurned ==
    ASSUME TypeOK, KeysKept, NEW p \in Party, NEW q \in Party, p # q, EstablishSession(p, q)
    PROVE  \E preKey \in OptionalKey : \E t \in Session :
              /\ preKey = NoKey \/ preKey \in published[q].preKeys
              /\ FetchBundle(q, preKey)
              /\ Turned(p, q, NoSession, t)
              /\ t.local = identity[p] /\ t.remote = identity[q] /\ t.base = NewKey(p, 0)
              /\ t.sender.ratchet = NewKey(p, 1)
              /\ t.root = CreateChain(HandshakeRoot(t.local, t.remote, t.base, signedPreKey[q], preKey),
                                      t.sender.ratchet, signedPreKey[q])
              /\ t.root[1] = {t.local, t.remote, t.base, signedPreKey[q], preKey} \ {NoKey}
              /\ \A c \in ToSet(t.receivers) : FirstChain(q, c)
              /\ t.pending # NoPending
              /\ t.pending.signedPreKey = signedPreKey[q] /\ t.pending.preKey = preKey
<1>1. PICK preKey \in OfferedPreKeys(q) :
        /\ records[p][q] = FreshRecord
        /\ FetchBundle(q, preKey)
        /\ StoreSession(p, q, PromoteState(records[p][q],
              InitializeAlice(identity[p], published[q].identity, NewKey(p, 0), NewKey(p, 1),
                              published[q].signedPreKey, preKey, now)))
        /\ UNCHANGED <<identity, signedPreKey>>
  BY DEF EstablishSession
<1>2. preKey \in OptionalKey /\ (preKey = NoKey \/ preKey \in published[q].preKeys)
  BY <1>1 DEF OfferedPreKeys, TypeOK, Bundle, OptionalKey
<1>3. PICK own \in Key, other \in Key, base \in Key, ratchet \in Key, signed \in Key, time \in Nat :
        /\ own = identity[p] /\ other = identity[q] /\ base = NewKey(p, 0)
        /\ ratchet = NewKey(p, 1) /\ signed = signedPreKey[q] /\ time = now
  BY NewKeyType DEF TypeOK
<1>4. other = published[q].identity /\ signed = published[q].signedPreKey
  BY <1>3 DEF KeysKept
<1> DEFINE o == InitializeAlice(own, other, base, ratchet, signed, preKey, time)
<1>5. AliceFields(own, other, base, ratchet, signed, preKey, o)
  BY <1>2, AlicePlaced
<1>6. StoreSession(p, q, PromoteState(FreshRecord, o))
  BY <1>1, <1>3, <1>4
<1> HIDE DEF o
<1>7. PICK t \in Session : t = o
  BY <1>5 DEF AliceFields
<1>8. PICK r : r = PromoteState(FreshRecord, t)
  OBVIOUS
<1>9. FreshRecord \in Record /\ Sessions(FreshRecord) = {}
      /\ FreshRecord.previous = <<>> /\ FreshRecord.current = NoSession
  BY FreshRecordProperties DEF FreshRecord
<1>10. r \in Record /\ r.current = t /\ FewSessions(r) /\ \A u \in Sessions(r) : u = t
  BY <1>8, <1>9, PromoteFew, PromoteStateProperties
<1>11. t \in Sessions(r)
  BY <1>10, SessionsOfRecord, SentinelAssumption
<1>12. /\ records'[p][q] = r
       /\ \A x, y \in Party : ~(x = p /\ y = q) => records'[x][y] = records[x][y]
  BY <1>6, <1>7, <1>8, StoredReceivers
<1>13. Turned(p, q, NoSession, t)
  BY <1>1, <1>9, <1>10, <1>11, <1>12 DEF Turned
<1> QED
  BY <1>1, <1>2, <1>3, <1>5, <1>7, <1>13 DEF AliceFields, FirstChain

LEMMA FetchBundleLeft ==
    ASSUME TypeOK, NEW q \in Party, NEW preKey, FetchBundle(q, preKey)
    PROVE  preKey \notin published'[q].preKeys
<1> DEFINE left == published[q].preKeys \ {preKey}
           b == [published[q] EXCEPT !.preKeys = left]
<1>1. published \in [Party -> Bundle] /\ published[q] \in Bundle
  BY DEF TypeOK
<1>2. published' = [published EXCEPT ![q] = b]
  BY <1>1 DEF FetchBundle
<1>3. preKey \notin left
  OBVIOUS
<1> HIDE DEF left
<1>4. b.preKeys = left
  BY <1>1 DEF Bundle
<1> HIDE DEF b
<1> QED
  BY <1>1, <1>2, <1>3, <1>4

LEMMA EstablishPair ==
    ASSUME TypeOK, ReceiverInv, PairInv, NEW p \in Party, NEW q \in Party, p # q,
           EstablishSession(p, q)
    PROVE  PairInv'
<1> USE DEF PairInv
<1>1. PICK preKey \in OptionalKey, t \in Session :
        /\ preKey = NoKey \/ preKey \in published[q].preKeys
        /\ FetchBundle(q, preKey)
        /\ Turned(p, q, NoSession, t)
        /\ t.local = identity[p] /\ t.remote = identity[q] /\ t.base = NewKey(p, 0)
        /\ t.sender.ratchet = NewKey(p, 1)
        /\ t.root = CreateChain(HandshakeRoot(t.local, t.remote, t.base, signedPreKey[q], preKey),
                                t.sender.ratchet, signedPreKey[q])
        /\ t.root[1] = {t.local, t.remote, t.base, signedPreKey[q], preKey} \ {NoKey}
        /\ \A c \in ToSet(t.receivers) : FirstChain(q, c)
        /\ t.pending # NoPending
        /\ t.pending.signedPreKey = signedPreKey[q] /\ t.pending.preKey = preKey
  BY EstablishTurned
<1>2. UNCHANGED <<identity, signedPreKey, preKeys, kyberUsed, sent>>
  BY DEF EstablishSession, historyVars
<1>3. \A x, y \in Party : NoSession \notin Sessions(records[x][y])
  BY SessionType, SentinelAssumption
<1>4. t.base \in Key /\ t.base[1] = p /\ ~IsBase({}, t.base)
  <2>1. t.base \in Key /\ ~Known(t.base)
    BY <1>1, NewKeyType, NewKeyUnknown
  <2>2. t.base[1] = p
    BY <1>1 DEF NewKey
  <2> QED BY <2>1, <2>2 DEF ReceiverInv, RecordsInv, RolesApart
<1>5. /\ \A m \in sent : m.type = "prekey" => m.base # t.base
      /\ t.base \notin kyberUsed[q]
      /\ \A v \in Sessions(records[q][p]) : v.base # t.base
  BY <1>4 DEF IsBase
<1>6. /\ preKey \notin published'[q].preKeys
      /\ \A x \in Party :
            /\ published'[x].signedPreKey = published[x].signedPreKey
            /\ published'[x].identity = published[x].identity
            /\ published'[x].preKeys \subseteq published[x].preKeys
  BY <1>1, FetchBundleType, FetchBundleLeft
<1>7. SessionPlaced(p, q, t)'
  <2>1. t.sender.ratchet # signedPreKey[p]
    BY <1>1, OwnKeysKnown
  <2> QED BY <1>1, <1>2, <1>4, <2>1 DEF SessionPlaced, FirstChain
<1>8. SessionsPlaced' /\ PendingUntilAnswered'
  BY <1>1, <1>7, TurnedPlaced
<1>9. Answerable(p, q, t)'
  <2>1. preKey \in preKeys'[q] \cup {NoKey}
    BY <1>1, <1>2 DEF KeysKept
  <2>2. Offered(p, q, t, preKey)'
    BY <1>1, <1>2, <1>5 DEF Offered
  <2> QED BY <2>1, <2>2 DEF Answerable
<1>10. Paired'
  <2>1. EndsOf(p, q, t)
    BY <1>5 DEF EndsOf
  <2>2. OffersStay(p, q, NoSession)
    BY <1>2 DEF OffersStay, Answerable, Offered
  <2> QED BY <1>1, <1>9, <2>1, <2>2, TurnedPaired
<1>11. PreKeysApart'
  <2>1. ASSUME NEW k \in preKeys[q], k \in t.root[1]
        PROVE  k = preKey /\ k \in published[q].preKeys
    <3>1. k[1] = q /\ k # identity[q] /\ k # signedPreKey[q] /\ k # NoKey
      BY SentinelAssumption DEF KeysKept, TypeOK
    <3>2. identity[p][1] = p
      BY DEF KeysKept
    <3> QED BY <1>1, <1>4, <2>1, <3>1, <3>2
  <2>2. \A k \in published'[q].preKeys : k \in preKeys[q]
    BY <1>6 DEF KeysKept
  <2>3. PreKeysApartFrom(p, q, t)
    BY <1>2, <1>6, <2>1, <2>2 DEF PreKeysApartFrom, PreKeysApart
  <2> QED BY <1>1, <1>2, <1>6, <2>3, TurnedPreKeys
<1>12. MessagesMade'
  BY <1>1, <1>2, <1>3, TurnedMade DEF MadeStay, MakesSent
<1>13. KeysKept'
  BY <1>2, <1>6 DEF KeysKept
<1> QED
  BY <1>8, <1>10, <1>11, <1>12, <1>13

\* What changes no session, sends nothing, and at most gives out a prekey.
LEMMA QuietPair ==
    ASSUME TypeOK, PairInv,
           UNCHANGED <<identity, signedPreKey, preKeys, kyberUsed, records, sent>>,
           \A x \in Party : /\ published'[x].signedPreKey = published[x].signedPreKey
                            /\ published'[x].identity = published[x].identity
                            /\ published'[x].preKeys \subseteq published[x].preKeys
    PROVE  PairInv'
<1> USE DEF PairInv
<1>1. KeysKept'
  BY DEF KeysKept
<1>2. SessionsPlaced' /\ PendingUntilAnswered'
  BY DEF SessionsPlaced, SessionPlaced, FirstChain, PendingUntilAnswered, HasEnd
<1>3. Paired'
  BY DEF Paired, HasEnd, Answerable, Offered
<1>4. PreKeysApart'
  BY DEF PreKeysApart
<1>5. MessagesMade'
  BY DEF MessagesMade, MadeBy, HasEnd
<1> QED
  BY <1>1, <1>2, <1>3, <1>4, <1>5

LEMMA AdvancedSession ==
    ASSUME NEW s \in Session
    PROVE  SameEnd(AdvanceSenderChain(s), s) /\ AdvanceSenderChain(s).pending = s.pending
<1> DEFINE sender == [s.sender EXCEPT !.index = s.sender.index + 1]
           t == AdvanceSenderChain(s)
<1>1. t \in Session /\ t.sender.ratchet = s.sender.ratchet
  BY AdvanceSenderChainType
<1>2. t = [s EXCEPT !.sender = sender]
  BY DEF AdvanceSenderChain, Session
<1> HIDE DEF sender
<1>3. /\ t.local = s.local /\ t.remote = s.remote /\ t.base = s.base /\ t.root = s.root
      /\ t.receivers = s.receivers /\ t.pending = s.pending
  BY <1>2 DEF Session
<1> QED
  BY <1>1, <1>3 DEF SameEnd

\* message_encrypt writes the message m of the session s, which moves past it as t.
Advances(p, q, m, s, t) ==
    /\ s \in Sessions(records[p][q]) /\ s = records[p][q].current
    /\ Turned(p, q, s, t) /\ SameEnd(t, s) /\ t.pending = s.pending
    /\ sent' = sent \cup {m}
    /\ m.from = p /\ m.to = q /\ m.sender = s.local /\ m.receiver = s.remote
    /\ m.ratchet = s.sender.ratchet /\ m.key.root = s.sender.root
    /\ IF s.pending = NoPending THEN m.type = "whisper"
       ELSE /\ m.type = "prekey" /\ m.base = s.base
            /\ m.signedPreKey = s.pending.signedPreKey /\ m.preKey = s.pending.preKey

LEMMA EncryptAdvances ==
    ASSUME TypeOK, SessionsPlaced, NEW p \in Party, NEW q \in Party, p # q, Encrypt(p, q)
    PROVE  \E m, s, t : Advances(p, q, m, s, t)
<1>1. PICK r : r = records[p][q]
  OBVIOUS
<1>2. PICK s : s = r.current
  OBVIOUS
<1>3. r \in Record /\ s \in Session /\ s \in Sessions(r) /\ FewSessions(r) /\ r.current # NoSession
  <2>1. r \in Record /\ s # NoSession
    BY <1>1, <1>2, RecordType DEF Encrypt
  <2> QED BY <1>1, <1>2, <2>1, SessionsOfRecord DEF SessionsPlaced
<1>4. PICK t : t = AdvanceSenderChain(s)
  OBVIOUS
<1>5. SameEnd(t, s) /\ t.pending = s.pending
  BY <1>3, <1>4, AdvancedSession
<1>6. t \in Session /\ t.base = s.base
  BY <1>5 DEF SameEnd
<1>7. PICK n : n = [r EXCEPT !.current = t]
  OBVIOUS
<1>8. n.current = t
  BY <1>3, <1>6, <1>7, ReplaceCurrentProperties
<1>9. Replaces(r, n, s)
  BY <1>2, <1>3, <1>6, <1>7, ReplaceFew
<1>10. StoreSession(p, q, n) /\ UNCHANGED <<identity, signedPreKey>>
  BY <1>1, <1>2, <1>4, <1>7 DEF Encrypt, keyVars
<1>11. \A k, root : HoldsChain(s, k, root) => HoldsChain(t, k, root)
  BY <1>5, SameEnds
<1>12. Turned(p, q, s, t)
  BY <1>1, <1>8, <1>9, <1>10, <1>11, ReplacesTurned
<1>13. PICK m : m = Ciphertext(p, q, s)
  OBVIOUS
<1>14. sent' = sent \cup {m}
  BY <1>1, <1>2, <1>13 DEF Encrypt
<1>15. /\ m.from = p /\ m.to = q /\ m.sender = s.local /\ m.receiver = s.remote
       /\ m.ratchet = s.sender.ratchet /\ m.key.root = s.sender.root
  BY <1>13 DEF Ciphertext
<1>16. IF s.pending = NoPending THEN m.type = "whisper"
       ELSE /\ m.type = "prekey" /\ m.base = s.base
            /\ m.signedPreKey = s.pending.signedPreKey /\ m.preKey = s.pending.preKey
  BY <1>13 DEF Ciphertext
<1> QED
  BY <1>1, <1>2, <1>3, <1>5, <1>12, <1>14, <1>15, <1>16 DEF Advances

LEMMA EncryptPair ==
    ASSUME TypeOK, ReceiverInv, PairInv, NEW p \in Party, NEW q \in Party, p # q, Encrypt(p, q)
    PROVE  PairInv'
<1> USE DEF PairInv
<1>1. PICK m, s, t : Advances(p, q, m, s, t)
  BY EncryptAdvances
<1>2. s \in Sessions(records[p][q]) /\ Turned(p, q, s, t) /\ SameEnd(t, s) /\ t.pending = s.pending
  BY <1>1 DEF Advances
<1>3. /\ t.local = s.local /\ t.remote = s.remote /\ t.base = s.base /\ t.root = s.root
      /\ t.sender.ratchet = s.sender.ratchet /\ t.receivers = s.receivers
  BY <1>2 DEF SameEnd
<1>4. UNCHANGED <<identity, signedPreKey, preKeys, kyberUsed, published>>
  BY DEF Encrypt, keyVars
<1>5. sent' = sent \cup {m}
  BY <1>1 DEF Advances
<1>6. SessionPlaced(p, q, s) /\ SessionSound(s)
  BY <1>2, PlacedSession
<1>7. SessionPlaced(p, q, t)'
  <2>1. s.base[1] = q => HasEnd(q, p, s.base)'
    BY <1>2, <1>6, EndsStay DEF SessionPlaced
  <2> QED BY <1>3, <1>4, <1>6, <2>1 DEF SessionPlaced, FirstChain
<1>8. s.pending = NoPending => HasEnd(q, p, s.base)'
  <2>1. ASSUME s.pending = NoPending
        PROVE  HasEnd(q, p, s.base)'
    <3>1. records[p][q].current = s /\ s # NoSession
      BY <1>1, <1>2, SessionType, SentinelAssumption DEF Advances
    <3>2. HasEnd(q, p, s.base)
      BY <2>1, <3>1 DEF PendingUntilAnswered
    <3> QED BY <1>2, <3>2, EndsStay
  <2> QED BY <2>1
<1>9. SessionsPlaced' /\ PendingUntilAnswered'
  BY <1>2, <1>3, <1>7, <1>8, TurnedPlaced
<1>10. HasEnd(q, p, t.base)' \/ Answerable(p, q, t)'
  <2>1. CASE HasEnd(q, p, s.base)
    BY <1>2, <1>3, <2>1, EndsStay
  <2>2. CASE s.pending = NoPending
    BY <1>3, <1>8, <2>2
  <2>3. CASE Answerable(p, q, s) /\ s.pending # NoPending
    <3>1. PICK k \in preKeys[q] \cup {NoKey} : Offered(p, q, s, k)
      BY <2>3 DEF Answerable
    <3>2. m.signedPreKey = signedPreKey[q] /\ m.preKey = k
      BY <1>1, <2>3, <3>1 DEF Advances, Offered
    <3>3. Offered(p, q, t, k)'
      BY <1>2, <1>3, <1>4, <1>5, <3>1, <3>2 DEF Offered
    <3> QED BY <1>4, <3>1, <3>3 DEF Answerable
  <2> QED BY <1>2, <2>1, <2>2, <2>3 DEF Paired
<1>11. Paired'
  <2>1. EndsOf(p, q, t)
    <3>1. ASSUME NEW v \in Sessions(records[q][p]), v.base = t.base
          PROVE  TwoEnds(t, v)
      <4>1. TwoEnds(s, v)
        BY <1>2, <1>3, <3>1 DEF Paired
      <4> QED BY <1>2, <4>1, SameEnds
    <3> QED BY <3>1 DEF EndsOf
  <2>2. OffersStay(p, q, s)
    <3>1. ASSUME NEW x \in Party, NEW y \in Party, NEW v \in Sessions(records[x][y]),
                 ~(x = p /\ y = q /\ v = s), NEW k \in preKeys[y] \cup {NoKey}, Offered(x, y, v, k)
          PROVE  Offered(x, y, v, k)'
      <4>1. ~(m.from = x /\ m.to = y /\ m.type = "prekey" /\ m.base = v.base)
        <5>1. ASSUME m.from = x, m.to = y, m.type = "prekey", m.base = v.base
              PROVE  FALSE
          <6>1. x = p /\ y = q /\ v.base = s.base
            BY <1>1, <5>1 DEF Advances
          <6>2. v.base[1] = s.base[1] /\ v \in Sessions(records[p][q])
            BY <6>1
          <6>3. v = s
            BY <1>2, <6>2, OneEnd
          <6> QED BY <3>1, <6>1, <6>3
        <5> QED BY <5>1
      <4> QED BY <1>4, <1>5, <3>1, <4>1 DEF Offered
    <3> QED BY <1>4, <3>1 DEF OffersStay, Answerable
  <2> QED BY <1>2, <1>10, <2>1, <2>2, TurnedPaired
<1>12. PreKeysApart'
  <2>1. PreKeysApartFrom(p, q, t)
    BY <1>2, <1>3, <1>4 DEF PreKeysApartFrom, PreKeysApart
  <2> QED BY <1>2, <1>4, <2>1, TurnedPreKeys
<1>13. MessagesMade'
  <2>1. p # q /\ records'[q][p] = records[q][p]
    BY <1>2 DEF Turned
  <2>2. MadeStay(p, q, s, t)
    <3>1. ASSUME NEW o \in sent, o.from = p, o.to = q, MadeBy(o, s)
          PROVE  MadeBy(o, t)'
      BY <1>3, <2>1, <3>1 DEF MadeBy, HasEnd
    <3> QED BY <3>1 DEF MadeStay
  <2>3. MakesSent(p, q, t)
    <3>1. m.from = p /\ m.to = q /\ m.sender = identity[p] /\ m.receiver = identity[q]
          /\ m.ratchet # signedPreKey[p]
      BY <1>1, <1>6 DEF Advances, SessionPlaced
    <3>2. m.key.root = t.root /\ m.ratchet = t.sender.ratchet
      BY <1>1, <1>3, <1>6 DEF Advances, SessionSound
    <3>3. m.type = "prekey" => m.base = t.base
      BY <1>1, <1>3 DEF Advances
    <3>4. m.type = "whisper" => HasEnd(q, p, t.base)'
      BY <1>1, <1>3, <1>8 DEF Advances
    <3>5. MadeBy(m, t)'
      BY <3>1, <3>2, <3>3, <3>4 DEF MadeBy
    <3> QED BY <1>5, <3>1, <3>5 DEF MakesSent
  <2> QED BY <1>2, <2>2, <2>3, TurnedMade
<1>14. KeysKept'
  BY <1>4 DEF KeysKept
<1> QED
  BY <1>9, <1>11, <1>12, <1>13, <1>14

LEMMA InitPair == Init => PairInv
<1> SUFFICES ASSUME Init PROVE PairInv
  OBVIOUS
<1>1. \A p, q \in Party : records[p][q] = FreshRecord
  BY DEF Init
<1>2. \A p, q \in Party : Sessions(records[p][q]) = {} /\ FewSessions(records[p][q])
  <2>1. Sessions(FreshRecord) = {}
    BY FreshRecordProperties
  <2>2. FewSessions(FreshRecord)
    <3>1. FreshRecord.current = NoSession /\ FreshRecord.previous = <<>>
      BY DEF FreshRecord
    <3> QED BY <3>1 DEF FewSessions
  <2> QED BY <1>1, <2>1, <2>2
<1>3. KeysKept
  <2>1. ASSUME NEW p \in Party
        PROVE  /\ published[p].identity = identity[p] /\ published[p].signedPreKey = signedPreKey[p]
               /\ identity[p][1] = p /\ signedPreKey[p][1] = p
               /\ published[p].preKeys \subseteq preKeys[p]
    BY DEF Init
  <2>2. ASSUME NEW p \in Party, NEW k \in preKeys[p]
        PROVE  k[1] = p /\ k # identity[p] /\ k # signedPreKey[p]
    <3>1. preKeys[p] = {<<p, n>> : n \in 2 .. NumPreKeys + 1}
      BY DEF Init
    <3>2. PICK n \in 2 .. NumPreKeys + 1 : k = <<p, n>>
      BY <3>1
    <3>3. n # 0 /\ n # 1
      BY <3>2, BoundsAssumption
    <3>4. identity[p] = <<p, 0>> /\ signedPreKey[p] = <<p, 1>>
      BY DEF Init
    <3> QED BY <3>2, <3>3, <3>4
  <2> QED BY <2>1, <2>2 DEF KeysKept
<1>4. SessionsPlaced /\ Paired /\ PreKeysApart
  BY <1>2 DEF SessionsPlaced, Paired, PreKeysApart
<1>5. PendingUntilAnswered
  BY <1>1 DEF PendingUntilAnswered, FreshRecord
<1>6. MessagesMade
  BY DEF MessagesMade, Init
<1> QED
  BY <1>3, <1>4, <1>5, <1>6 DEF PairInv

LEMMA NextPair ==
    ASSUME TypeOK, ReceiverInv, PairInv, ChainsLeft, Disruption = {}, [Next]_vars
    PROVE  PairInv'
<1>1. ASSUME NEW p \in Party, NEW q \in Party, p # q, FetchUnused(p, q)
      PROVE  PairInv'
  <2>1. /\ UNCHANGED <<identity, signedPreKey, preKeys, kyberUsed, records, sent>>
        /\ \A x \in Party : /\ published'[x].signedPreKey = published[x].signedPreKey
                            /\ published'[x].identity = published[x].identity
                            /\ published'[x].preKeys \subseteq published[x].preKeys
    BY <1>1, FetchBundleType DEF FetchUnused, sessionVars, historyVars
  <2> QED BY <2>1, QuietPair
<1>2. ASSUME UNCHANGED <<keyVars, records, sent>>
      PROVE  PairInv'
  BY <1>2, QuietPair DEF keyVars
<1>3. ASSUME NEW m \in sent, Decrypt(m.to, m)
      PROVE  PairInv'
  <2>1. CASE RejectReplay(m.to, m)
    BY <1>2, <2>1 DEF RejectReplay, historyVars
  <2>2. CASE DecryptKnownPreKey(m.to, m) \/ DecryptSignal(m.to, m)
    BY <2>2, KnownPair
  <2>3. CASE DecryptNewPreKey(m.to, m)
    BY <2>3, NewPair
  <2> QED BY <1>3, <2>1, <2>2, <2>3 DEF Decrypt
<1>4. CASE Tick \/ UNCHANGED vars
  BY <1>2, <1>4 DEF Tick, vars, sessionVars, historyVars
<1>5. \A kind : ~Disrupts(kind)
  BY DEF Disrupts
<1>6. /\ \A p, q \in Party : ~DeleteSession(p, q)
      /\ \A p \in Party : ~ReplenishKeys(p) /\ ~Reinstall(p)
  BY <1>5 DEF DeleteSession, ReplenishKeys, Reinstall
<1>7. ASSUME NEW p \in Party, NEW q \in Party, p # q, EstablishSession(p, q) \/ Encrypt(p, q)
      PROVE  PairInv'
  BY <1>7, EstablishPair, EncryptPair
<1> QED
  BY <1>1, <1>3, <1>4, <1>6, <1>7 DEF Next

\* Each chain a session receives on is its first one or carried a message of its own.
Carries(c, q, n) ==
    IF c.index = 0 THEN n = 0
    ELSE \E m \in sent : m.from = q /\ m.key.root = c.root /\ n = m.text + 1

LEMMA FewChains ==
    ASSUME TypeOK, ReceiverInv, SessionsPlaced, Traces, TextsNumbered,
           NEW p \in Party, NEW q \in Party, NEW s \in Sessions(records[p][q])
    PROVE  Len(s.receivers) <= MaxTexts + 1
<1>1. s \in Session /\ SessionSound(s) /\ SessionPlaced(p, q, s)
  BY PlacedSession
<1>2. PICK chains \in Seq(ReceiverChain) : chains = s.receivers
  BY <1>1 DEF Session
<1>3. PICK n \in Nat : n = Len(chains)
  BY <1>2
<1>4. ASSUME NEW i \in 1 .. n
      PROVE  /\ chains[i] \in ReceiverChain /\ chains[i] \in ToSet(s.receivers)
             /\ chains[i].index \in Nat /\ IsStrictPrefix(chains[i].root, s.root)
  <2>1. i \in DOMAIN chains
    BY <1>3
  <2>2. chains[i] \in ReceiverChain
    BY <1>2, <2>1
  <2>3. chains[i] \in ToSet(s.receivers)
    BY <1>2, <2>1 DEF ToSet
  <2>4. IsStrictPrefix(chains[i].root, s.root)
    BY <1>1, <1>2, <2>1 DEF SessionSound
  <2> QED BY <2>2, <2>3, <2>4 DEF ReceiverChain
<1>5. ASSUME NEW i \in 1 .. n
      PROVE  \E k \in 0 .. MaxTexts : Carries(chains[i], q, k)
  <2>1. CASE chains[i].index = 0
    BY <2>1, BoundsAssumption DEF Carries
  <2>2. CASE chains[i].index # 0
    <3>1. chains[i].index > 0 /\ Traced(p, q, chains[i])
      BY <1>4, <2>2 DEF Traces
    <3>2. PICK m \in sent : m.from = q /\ m.key = [root |-> chains[i].root, index |-> chains[i].index - 1]
      BY <3>1 DEF Traced
    <3>3. m.text \in Nat /\ m.text < MaxTexts
      BY <3>2 DEF TextsNumbered, TypeOK, Message
    <3>4. m.text + 1 \in 0 .. MaxTexts /\ m.key.root = chains[i].root
      BY <3>2, <3>3, BoundsAssumption
    <3> QED BY <2>2, <3>2, <3>4 DEF Carries
  <2> QED BY <2>1, <2>2
<1>6. ASSUME NEW i \in 1 .. n, NEW j \in 1 .. n, NEW k \in 0 .. MaxTexts,
             Carries(chains[i], q, k), Carries(chains[j], q, k)
      PROVE  i = j
  <2>1. CASE chains[i].index = 0 /\ chains[j].index = 0
    <3>1. Len(chains[i].root) = 1 /\ Len(chains[j].root) = 1
      BY <1>1, <1>4, <2>1 DEF SessionPlaced, FirstChain
    <3>2. chains[i].root \in RootKey /\ chains[j].root \in RootKey /\ s.root \in RootKey
      BY <1>1, <1>4 DEF ReceiverChain, Session
    <3>3. chains[i].root[1] = s.root[1] /\ chains[j].root[1] = s.root[1]
      BY <1>1, <1>4, ReceiverRoots
    <3>4. chains[i].root = chains[j].root
      BY <3>1, <3>2, <3>3 DEF RootKey
    <3> QED BY <1>1, <1>2, <1>3, <3>4 DEF SessionSound
  <2>2. CASE chains[i].index # 0 /\ chains[j].index # 0
    <3>1. PICK a \in sent : a.from = q /\ a.key.root = chains[i].root /\ k = a.text + 1
      BY <1>6, <2>2 DEF Carries
    <3>2. PICK b \in sent : b.from = q /\ b.key.root = chains[j].root /\ k = b.text + 1
      BY <1>6, <2>2 DEF Carries
    <3>3. a.text \in Nat /\ b.text \in Nat
      BY DEF TypeOK, Message
    <3>4. a = b
      BY <3>1, <3>2, <3>3 DEF TextsNumbered
    <3> QED BY <1>1, <1>2, <1>3, <3>1, <3>2, <3>4 DEF SessionSound
  <2>3. ASSUME NEW x \in 1 .. n, Carries(chains[x], q, k)
        PROVE  chains[x].index = 0 <=> k = 0
    <3>1. \A m \in sent : m.text \in Nat
      BY DEF TypeOK, Message
    <3> QED BY <2>3, <3>1 DEF Carries
  <2> QED BY <1>6, <2>1, <2>2, <2>3
<1> DEFINE T == 0 .. MaxTexts
           f == [i \in 1 .. n |-> CHOOSE k \in T : Carries(chains[i], q, k)]
<1>7. \A i \in 1 .. n : f[i] \in T /\ Carries(chains[i], q, f[i])
  BY <1>5
<1>8. f \in [1 .. n -> T]
  BY <1>7
<1>9. IsFiniteSet(T) /\ Cardinality(T) = MaxTexts + 1
  BY FS_Interval, BoundsAssumption
<1>10. Cardinality(1 .. n) = n
  BY FS_Interval
<1> HIDE DEF f
<1>11. \A i, j \in 1 .. n : f[i] = f[j] => i = j
  BY <1>6, <1>7
<1> HIDE DEF T
<1>12. f \in Injection(1 .. n, T)
  BY <1>8, <1>11 DEF Injection, IsInjective
<1>13. Cardinality(1 .. n) <= Cardinality(T)
  BY <1>9, <1>12, FS_Injection
<1> QED
  BY <1>2, <1>3, <1>9, <1>10, <1>13

\* While no key or session is discarded and no limit of consts.rs is reached (a chain has
\* room for every message its sender may still send, and no session drops a chain it
\* receives on), any message still under way decrypts: however late, after whatever
\* others, and also when both sides open the conversation at once.
THEOREM NothingIsLost ==
    ASSUME Disruption = {}, MaxTexts <= MAX_MESSAGE_KEYS, MaxTexts <= MAX_FORWARD_JUMPS
    PROVE  Spec /\ []ChainsLeft => []NothingLost
<1> DEFINE Inv == RatchetsNameChains /\ SendersCounted /\ Traces /\ PairInv
<1>1. Init => Inv
  BY InitTraces, InitPair
<1>2. TypeOK /\ TypeOK' /\ ChainInv /\ ReceiverInv /\ ChainsLeft /\ Inv /\ [Next]_vars => Inv'
  BY NextNames, NextCounted, NextTraces, NextPair
<1>3. TypeOK /\ ReceiverInv /\ Inv => NothingLost
  BY PairLosesNothing
<1> QED
  BY <1>1, <1>2, <1>3, TypeCorrect, ChainCorrect, ReceiversSound, PTL DEF Spec

\* The same with bounds alone: a session has at most one chain for each message its
\* other end may send, and the one it started with, so that a record with room for
\* these loses no message.
THEOREM NothingIsLostInBounds ==
    ASSUME Disruption = {}, MaxTexts <= MAX_MESSAGE_KEYS, MaxTexts <= MAX_FORWARD_JUMPS,
           MaxTexts + 1 < MAX_RECEIVER_CHAINS
    PROVE  Spec => []NothingLost
<1> DEFINE Inv == RatchetsNameChains /\ SendersCounted /\ Traces /\ PairInv /\ TextsNumbered
<1>1. Init => Inv
  BY InitTraces, InitPair DEF Init, TextsNumbered
<1>2. TypeOK /\ ReceiverInv /\ Inv => ChainsLeft
  <2>1. ASSUME TypeOK, ReceiverInv, Inv, NEW p \in Party, NEW q \in Party,
               NEW s \in Sessions(records[p][q])
        PROVE  Len(s.receivers) < MAX_RECEIVER_CHAINS
    <3>1. s.receivers \in Seq(ReceiverChain)
      BY <2>1, SessionType DEF Session
    <3>2. Len(s.receivers) <= MaxTexts + 1
      BY <2>1, FewChains DEF PairInv
    <3> QED BY <3>1, <3>2, BoundsAssumption, LimitsAssumption
  <2> QED BY <2>1 DEF ChainsLeft
<1>3. TypeOK /\ TypeOK' /\ ChainInv /\ ReceiverInv /\ Inv /\ [Next]_vars => Inv'
  BY <1>2, NextNames, NextCounted, NextTraces, NextPair, NextNumbered
<1>4. TypeOK /\ ReceiverInv /\ Inv => NothingLost
  BY PairLosesNothing
<1> QED
  BY <1>1, <1>3, <1>4, TypeCorrect, ChainCorrect, ReceiversSound, PTL DEF Spec

-----------------------------------------------------------------------------
(* The verdict on a message                                                *)

\* The key pair a decryption generates has no part in whether it succeeds.
LEMMA StateVerdict ==
    ASSUME NEW s, NEW m, NEW a, NEW b
    PROVE  DecryptWithState(s, m, a).verdict = DecryptWithState(s, m, b).verdict
<1> DEFINE x == WithReceiverChain(s, m.ratchet, a)
           y == WithReceiverChain(s, m.ratchet, b)
<1>1. x.receivers = y.receivers
  BY DEF WithReceiverChain
<1>2. /\ ReceiverChains(x, m.ratchet) = ReceiverChains(y, m.ratchet)
  BY <1>1 DEF ReceiverChains
<1> DEFINE c == x.receivers[ReceiverChainIndex(x, m.ratchet)]
           d == y.receivers[ReceiverChainIndex(y, m.ratchet)]
<1>3. c = d
  BY <1>1, <1>2 DEF ReceiverChainIndex
<1>4. DecryptWithState(s, m, a).verdict =
        IF KeyVerdict(s, c, m.key.index) # "ok" THEN KeyVerdict(s, c, m.key.index)
        ELSE IF ~MacValid(s, c, m) THEN "invalid" ELSE "ok"
  BY DEF DecryptWithState, Failed
<1>5. DecryptWithState(s, m, b).verdict =
        IF KeyVerdict(s, d, m.key.index) # "ok" THEN KeyVerdict(s, d, m.key.index)
        ELSE IF ~MacValid(s, d, m) THEN "invalid" ELSE "ok"
  BY DEF DecryptWithState, Failed
<1> HIDE DEF c, d
<1> QED
  BY <1>3, <1>4, <1>5

LEMMA RecordVerdict ==
    ASSUME NEW r \in Record, NEW m, NEW a, NEW b
    PROVE  DecryptWithRecord(r, m, a).verdict = DecryptWithRecord(r, m, b).verdict
<1> DEFINE old(fresh) == [i \in DOMAIN r.previous |-> DecryptWithState(r.previous[i], m, fresh)]
           decided(fresh) == {i \in DOMAIN old(fresh) : old(fresh)[i].verdict # "invalid"}
           current(fresh) == IF r.current = NoSession THEN Failed("invalid", NoSession)
                             ELSE DecryptWithState(r.current, m, fresh)
<1>1. current(a).verdict = current(b).verdict
  BY StateVerdict DEF Failed
<1>2. \A i \in DOMAIN r.previous : old(a)[i].verdict = old(b)[i].verdict
  BY StateVerdict
<1>3. decided(a) = decided(b) /\ decided(a) \subseteq DOMAIN r.previous
  BY <1>2
<1> DEFINE result(fresh) ==
        IF current(fresh).verdict = "ok" THEN "ok"
        ELSE IF current(fresh).verdict = "duplicate" THEN "duplicate"
        ELSE IF (r.current # NoSession /\ m.type = "prekey") \/ decided(fresh) = {} THEN "invalid"
        ELSE IF old(fresh)[Min(decided(fresh))].verdict = "duplicate" THEN "duplicate" ELSE "ok"
<1>4. ASSUME NEW fresh
      PROVE  DecryptWithRecord(r, m, fresh).verdict = result(fresh)
  BY DEF DecryptWithRecord
<1>5. CASE decided(a) = {}
  <2>1. result(a) = result(b)
    BY <1>1, <1>3, <1>5
  <2> QED BY <2>1, <1>4
<1>6. CASE decided(a) # {}
  <2>1. decided(a) \in SUBSET Nat
    BY <1>3, SessionsOfRecord
  <2>2. Min(decided(a)) \in decided(a)
    BY <1>6, <2>1, MinInSet
  <2>3. Min(decided(a)) = Min(decided(b)) /\ Min(decided(a)) \in DOMAIN r.previous
    BY <1>3, <2>2
  <2>4. old(a)[Min(decided(a))].verdict = old(b)[Min(decided(b))].verdict
    BY <1>2, <2>3
  <2> HIDE DEF old, decided, current
  <2>5. result(a) = result(b)
    BY <1>1, <1>3, <1>6, <2>4
  <2> QED BY <2>5, <1>4
<1> QED
  BY <1>5, <1>6

-----------------------------------------------------------------------------
(* The calls under way and their types                                     *)

\* what is known of a call that has come as far as its step
Deciphered(e) == e.kind = "decrypt" /\ e.step \in {"save", "check", "mark", "remove", "store"}
CallSound(e) ==
    /\ e.kind = "establish" => \A b \in e.todo \cup {e.bundle} : b.party # Me
    /\ e.kind = "encrypt" =>
          /\ e.object \in 1 .. Len(objects)
          /\ e.step \in {"trust", "save", "store"} => e.record.current # NoSession
          /\ \A m \in e.slices : m.from # m.to
    /\ e.kind = "decrypt" =>
          /\ e.message \in sent /\ e.message.to = Me
          /\ IF e.step = "lookup" THEN e.object = 0 ELSE e.object \in 1 .. Len(objects)
          /\ e.step \in {"keys", "check", "mark", "remove"} => e.message.type = "prekey"
    /\ Deciphered(e) => Result(e).verdict = "ok"

NoneToSelf == \A m \in sent : m.from # m.to
CacheTyped ==
    /\ remote \in User \cup {None}
    /\ ciphers \in [Id -> 0 .. Len(objects)]
    /\ addresses \in [Id -> Party \cup {None}]
    /\ objects \in Seq(Party)
PageTyped == CacheTyped /\ abandoned \subseteq Key /\ closings \in Nat
FlowTyped == flow \in [Flow -> FlowState] /\ \A f \in Flow : CallSound(flow[f])
DirectInv == TypeOK /\ PageTyped /\ FlowTyped /\ NoneToSelf

LEMMA InvGivesType == DirectInv => DirectTypeOK
<1> SUFFICES ASSUME DirectInv
             PROVE  DirectTypeOK
  OBVIOUS
<1>1. ASSUME NEW f \in Flow, flow[f].kind \in {"encrypt", "decrypt"}
      PROVE  flow[f].object <= Len(objects)
  <2>1. CallSound(flow[f]) /\ Len(objects) \in Nat
    BY DEF DirectInv, FlowTyped, PageTyped, CacheTyped
  <2> QED BY <2>1, <1>1 DEF CallSound
<1> QED
  BY <1>1 DEF DirectInv, PageTyped, CacheTyped, FlowTyped, DirectTypeOK

LEMMA FlowKinds ==
    ASSUME NEW e \in FlowState
    PROVE  /\ e.kind = "idle" => e = Idle
           /\ e.kind = "establish" => e \in Establishing
           /\ e.kind = "encrypt" => e \in Encrypting
           /\ e.kind = "decrypt" => e \in Decrypting
           /\ e.kind \in {"idle", "establish", "encrypt", "decrypt"}
  BY DEF FlowState, Idle, Establishing, Encrypting, Decrypting

\* the record a decryption works on
RecordFor(e) ==
    IF e.message.type = "prekey" THEN ProcessPreKey(Me, e.record, e.message) ELSE e.record

LEMMA ResultDerives ==
    ASSUME TypeOK, NEW e, e.record \in Record, e.message \in Message
    PROVE  /\ RecordFor(e) \in Record
           /\ Result(e) = DecryptWithRecord(RecordFor(e), e.message, NewKey(Me, 0))
           /\ Result(e).verdict = "ok"
                 => Derives(e.record, Result(e).record, e.message, NewKey(Me, 0))
<1> DEFINE r == e.record
           m == e.message
           q == RecordFor(e)
           s == InitializeBob(identity[Me], m.sender, m.base, m.signedPreKey, m.preKey)
<1>1. NewKey(Me, 0) \in Key /\ identity[Me] \in Key
  BY PageAssumption, NewKeyType DEF TypeOK
<1>2. Result(e) = DecryptWithRecord(q, m, NewKey(Me, 0))
  BY DEF Result, RecordFor
<1>3. m.type = "prekey" => /\ m.sender \in Key /\ m.base \in Key /\ m.signedPreKey \in Key
                           /\ m.preKey \in OptionalKey
  BY MessageFields
<1>4. CASE m.type # "prekey"
  <2>1. q = r
    BY <1>4 DEF RecordFor
  <2> QED BY <2>1, <1>1, <1>2, DecryptWithRecordDerives
<1>5. CASE m.type = "prekey" /\ HasMatchingSession(r, m.base)
  <2>1. q = PromoteMatching(r, m.base)
    BY <1>5 DEF RecordFor, ProcessPreKey
  <2>2. /\ q \in Record
        /\ SenderChains(q) \subseteq SenderChains(r)
        /\ ChainsDistinct(r) => ChainsDistinct(q)
        /\ RecordWithinLimits(r) => RecordWithinLimits(q)
    BY <2>1, <1>5, PromoteMatchingProperties
  <2> HIDE DEF q
  <2>3. Result(e).verdict = "ok" => Derives(q, Result(e).record, m, NewKey(Me, 0))
    BY <2>2, <1>1, <1>2, DecryptWithRecordDerives
  <2>4. Result(e).verdict = "ok" => Derives(r, Result(e).record, m, NewKey(Me, 0))
    BY <2>2, <2>3 DEF Derives, UnusedKey
  <2> QED BY <2>2, <2>4, <1>2 DEF q
<1>6. CASE m.type = "prekey" /\ ~HasMatchingSession(r, m.base)
  <2> DEFINE own == identity[Me]
             sender == m.sender
             base == m.base
             signed == m.signedPreKey
             preKey == m.preKey
             t == InitializeBob(own, sender, base, signed, preKey)
  <2>1. q = PromoteState(r, t)
    BY <1>6 DEF RecordFor, ProcessPreKey
  <2>2. own \in Key /\ sender \in Key /\ base \in Key /\ signed \in Key /\ preKey \in OptionalKey
    BY <1>1, <1>3, <1>6
  <2> HIDE DEF own, sender, base, signed, preKey
  <2>3. t \in Session /\ SessionWithinLimits(t) /\ t.receivers = <<>>
    BY <2>2, InitializeBobProperties
  <2> HIDE DEF t
  <2>4. q \in Record
    BY <2>1, <2>3, PromoteStateProperties
  <2>5. Result(e).verdict = "ok" => Derives(r, Result(e).record, m, NewKey(Me, 0))
    BY <2>1, <2>3, <1>1, <1>2, <1>6, DecryptNewSessionDerives
  <2> QED BY <2>4, <2>5, <1>2
<1> QED
  BY <1>4, <1>5, <1>6

LEMMA ResultStays ==
    ASSUME TypeOK, NEW e, e.record \in Record, e.message \in Message,
           identity'[Me] = identity[Me]
    PROVE  (Result(e).verdict)' = Result(e).verdict
<1> DEFINE a == NewKey(Me, 0)
           b == NewKey(Me, 0)'
           q == RecordFor(e)
<1>1. q \in Record /\ Result(e) = DecryptWithRecord(q, e.message, a)
  BY ResultDerives
<1>2. RecordFor(e)' = q
  BY DEF RecordFor, ProcessPreKey
<1>3. Result(e)' = DecryptWithRecord(RecordFor(e)', e.message, b)
  BY DEF Result, RecordFor
<1> HIDE DEF a, b, q
<1>4. DecryptWithRecord(q, e.message, a).verdict = DecryptWithRecord(q, e.message, b).verdict
  BY <1>1, RecordVerdict
<1> QED
  BY <1>1, <1>2, <1>3, <1>4

\* what other calls and other devices leave alone
PageGrows ==
    /\ sent \subseteq sent' /\ identity'[Me] = identity[Me]
    /\ Len(objects) \in Nat /\ Len(objects') \in Nat /\ Len(objects) <= Len(objects')

LEMMA CallStays ==
    ASSUME TypeOK, PageGrows, NEW e \in FlowState, CallSound(e)
    PROVE  CallSound(e)'
<1>1. CASE e.kind = "encrypt"
  BY <1>1 DEF CallSound, PageGrows, Deciphered
<1>2. CASE e.kind = "decrypt"
  <2>1. e.record \in Record /\ e.message \in Message
    BY <1>2, FlowKinds DEF Decrypting
  <2>2. Result(e)'.verdict = Result(e).verdict
    BY <2>1, ResultStays DEF PageGrows
  <2> QED BY <1>2, <2>2 DEF CallSound, PageGrows, Deciphered
<1>3. CASE e.kind \notin {"encrypt", "decrypt"}
  BY <1>3 DEF CallSound, Deciphered
<1> QED
  BY <1>1, <1>2, <1>3

LEMMA IdleSound == Idle \in FlowState /\ CallSound(Idle) /\ CallSound(Idle)'
  BY DEF Idle, FlowState, CallSound, Deciphered

\* one call moves on to e
LEMMA FlowMoves ==
    ASSUME TypeOK, FlowTyped, PageGrows, NEW f \in Flow, NEW e,
           flow' = [flow EXCEPT ![f] = e], e \in FlowState, CallSound(e)'
    PROVE  FlowTyped'
<1>1. flow' \in [Flow -> FlowState]
  BY DEF FlowTyped
<1>2. ASSUME NEW g \in Flow
      PROVE  CallSound(flow[g])'
  <2>1. CASE g = f
    <3>1. flow'[g] = e
      BY <2>1 DEF FlowTyped
    <3> QED BY <3>1
  <2>2. CASE g # f
    <3>1. flow'[g] = flow[g] /\ flow[g] \in FlowState /\ CallSound(flow[g])
      BY <2>2 DEF FlowTyped
    <3>2. PICK c : c = flow[g]
      OBVIOUS
    <3>3. CallSound(c)'
      BY <3>1, <3>2, CallStays
    <3>4. flow'[g] = c
      BY <3>1, <3>2
    <3> QED BY <3>3, <3>4
  <2> QED BY <2>1, <2>2
<1> QED
  BY <1>1, <1>2 DEF FlowTyped

LEMMA FlowStays ==
    ASSUME TypeOK, FlowTyped, PageGrows, UNCHANGED flow
    PROVE  FlowTyped'
<1>1. ASSUME NEW g \in Flow
      PROVE  CallSound(flow[g])'
  <2>1. flow'[g] = flow[g] /\ flow[g] \in FlowState /\ CallSound(flow[g])
    BY DEF FlowTyped
  <2>2. PICK c : c = flow[g]
    OBVIOUS
  <2>3. CallSound(c)'
    BY <2>1, <2>2, CallStays
  <2>4. flow'[g] = c
    BY <2>1, <2>2
  <2> QED BY <2>3, <2>4
<1> QED
  BY <1>1 DEF FlowTyped

\* the call c at another step, with the record r
Moved(c, step, r) == [c EXCEPT !.step = step, !.record = r]

LEMMA MovedEstablishing ==
    ASSUME NEW c \in Establishing, NEW r \in Record,
           NEW step \in {"existing", "trust", "load", "save", "store"},
           NEW e, e = Moved(c, step, r)
    PROVE  /\ e \in Establishing /\ e \in FlowState /\ e.kind = "establish" /\ e.step = step
           /\ e.todo = c.todo /\ e.bundle = c.bundle /\ e.address = c.address
           /\ e.record = r
  BY DEF Moved, Establishing, FlowState

LEMMA MovedEncrypting ==
    ASSUME NEW c \in Encrypting, NEW r \in Record,
           NEW step \in {"load", "trust", "save", "store", "emit"},
           NEW e, e = Moved(c, step, r)
    PROVE  /\ e \in Encrypting /\ e \in FlowState /\ e.kind = "encrypt" /\ e.step = step
           /\ e.remote = c.remote /\ e.text = c.text /\ e.done = c.done
           /\ e.device = c.device /\ e.object = c.object /\ e.slices = c.slices
           /\ e.record = r
  BY DEF Moved, Encrypting, FlowState

LEMMA MovedDecrypting ==
    ASSUME NEW c \in Decrypting, NEW r \in Record,
           NEW step \in {"lookup", "load", "keys", "save", "check", "mark", "remove", "store"},
           NEW e, e = Moved(c, step, r)
    PROVE  /\ e \in Decrypting /\ e \in FlowState /\ e.kind = "decrypt" /\ e.step = step
           /\ e.message = c.message /\ e.object = c.object /\ e.record = r
  BY DEF Moved, Decrypting, FlowState

LEMMA GoMoves ==
    ASSUME NEW f \in Flow, flow \in [Flow -> FlowState], flow[f].kind # "idle", NEW step
    PROVE  /\ \A r : GoWith(f, step, r) => flow' = [flow EXCEPT ![f] = Moved(flow[f], step, r)]
           /\ Go(f, step) => flow' = [flow EXCEPT ![f] = Moved(flow[f], step, flow[f].record)]
<1>1. flow[f] \in Establishing \cup Encrypting \cup Decrypting
  BY FlowKinds
<1>2. \A r : GoWith(f, step, r) => flow' = [flow EXCEPT ![f] = Moved(flow[f], step, r)]
  BY DEF GoWith, Moved
<1>3. [flow[f] EXCEPT !.step = step] = Moved(flow[f], step, flow[f].record)
  BY <1>1 DEF Moved, Establishing, Encrypting, Decrypting
<1>4. Go(f, step) => flow' = [flow EXCEPT ![f] = [flow[f] EXCEPT !.step = step]]
  BY DEF Go
<1> QED
  BY <1>2, <1>3, <1>4

LEMMA AddressOfType ==
    ASSUME CacheTyped, NEW p \in Party \ {Me}
    PROVE  /\ DeviceId[p] \in Id /\ AddressOf(p) \in Party
           /\ CacheAddress(p) => addresses' \in [Id -> Party \cup {None}]
<1>1. DeviceId[p] \in Id
  BY DEF Id
<1>2. AddressOf(p) \in Party
  BY <1>1 DEF AddressOf, CacheTyped
<1> QED
  BY <1>1, <1>2 DEF CacheAddress, CacheTyped

LEMMA NewCipherType ==
    ASSUME CacheTyped, NEW d \in Id, NEW a \in Party, NewCipher(d, a)
    PROVE  /\ objects' \in Seq(Party) /\ Len(objects') = Len(objects) + 1 /\ Len(objects) \in Nat
           /\ ciphers' \in [Id -> 0 .. Len(objects')]
           /\ objects'[Len(objects) + 1] = a
           /\ \A i \in 1 .. Len(objects) : objects'[i] = objects[i]
<1>1. /\ objects' \in Seq(Party) /\ Len(objects') = Len(objects) + 1 /\ Len(objects) \in Nat
      /\ objects'[Len(objects) + 1] = a
      /\ \A i \in 1 .. Len(objects) : objects'[i] = objects[i]
  BY DEF CacheTyped, NewCipher
<1>2. /\ ciphers' = [ciphers EXCEPT ![d] = Len(objects) + 1]
      /\ ciphers \in [Id -> 0 .. Len(objects)]
  BY DEF CacheTyped, NewCipher
<1>3. Len(objects) + 1 \in 0 .. Len(objects') /\ 0 .. Len(objects) \subseteq 0 .. Len(objects')
  BY <1>1
<1> QED
  BY <1>1, <1>2, <1>3

LEMMA EnsureCipherType ==
    ASSUME CacheTyped, NEW d \in Id, NEW a \in Party, EnsureCipher(d, a)
    PROVE  /\ objects' \in Seq(Party) /\ Len(objects') \in Nat /\ Len(objects) \in Nat
           /\ Len(objects) <= Len(objects')
           /\ ciphers' \in [Id -> 0 .. Len(objects')]
           /\ \A i \in 1 .. Len(objects) : objects'[i] = objects[i]
<1>1. CASE NewCipher(d, a)
  BY <1>1, NewCipherType
<1>2. CASE UNCHANGED <<ciphers, objects>>
  BY <1>2 DEF CacheTyped
<1> QED
  BY <1>1, <1>2 DEF EnsureCipher

\* what a call leaves alone when it touches neither caches nor keys
LEMMA QuietPage ==
    ASSUME DirectInv, UNCHANGED <<cacheVars, identity>>, sent \subseteq sent'
    PROVE  PageGrows /\ (UNCHANGED remote => CacheTyped')
  BY DEF DirectInv, PageTyped, CacheTyped, PageGrows, cacheVars

LEMMA TypeStays ==
    ASSUME TypeOK, UNCHANGED vars
    PROVE  TypeOK'
  BY DEF vars, TypeOK, keyVars, sessionVars, historyVars, boundVars

\* a call that changes nothing but where it stands
LEMMA QuietMove ==
    ASSUME DirectInv, UNCHANGED <<vars, remote, cacheVars, abandoned, closings>>,
           NEW f \in Flow, NEW e \in FlowState, CallSound(e), flow' = [flow EXCEPT ![f] = e]
    PROVE  DirectInv'
<1>1. UNCHANGED <<vars, identity, sent>>
  BY DEF vars, keyVars, historyVars
<1>2. TypeOK' /\ NoneToSelf'
  BY <1>1, TypeStays DEF DirectInv, NoneToSelf
<1>3. PageGrows /\ CacheTyped'
  BY <1>1, QuietPage
<1>4. PageTyped'
  BY <1>3 DEF DirectInv, PageTyped
<1>5. CallSound(e)'
  BY <1>3, CallStays DEF DirectInv
<1>6. FlowTyped'
  BY <1>3, <1>5, FlowMoves DEF DirectInv
<1> QED
  BY <1>2, <1>4, <1>6 DEF DirectInv

LEMMA QuietReturn ==
    ASSUME DirectInv, UNCHANGED <<vars, remote, cacheVars, abandoned, closings>>,
           NEW f \in Flow, Return(f)
    PROVE  DirectInv'
  BY QuietMove, IdleSound DEF Return

\* a call that changes the store, not the caches
LEMMA StoreMove ==
    ASSUME DirectInv, TypeOK', UNCHANGED <<identity, remote, cacheVars, abandoned, closings>>,
           sent \subseteq sent', \A m \in sent' \ sent : m.from # m.to,
           NEW f \in Flow, NEW e \in FlowState, CallSound(e), flow' = [flow EXCEPT ![f] = e]
    PROVE  DirectInv'
<1>1. NoneToSelf'
  BY DEF DirectInv, NoneToSelf
<1>2. PageGrows /\ CacheTyped'
  BY QuietPage
<1>3. PageTyped'
  BY <1>2 DEF DirectInv, PageTyped
<1>4. CallSound(e)'
  BY <1>2, CallStays DEF DirectInv
<1>5. FlowTyped'
  BY <1>2, <1>4, FlowMoves DEF DirectInv
<1> QED
  BY <1>1, <1>3, <1>5 DEF DirectInv

-----------------------------------------------------------------------------
(* establishSession                                                        *)

LEMMA StartEstablishType ==
    ASSUME DirectInv, NEW f \in Flow, StartEstablish(f)
    PROVE  DirectInv'
<1>1. TypeOK /\ CacheTyped /\ remote \in User
  BY DEF DirectInv, PageTyped, CacheTyped, StartEstablish
<1>2. PICK preKey \in [Devices(remote) -> UNION {OfferedPreKeys(p) : p \in Devices(remote)}] :
        /\ \A p \in Devices(remote) : preKey[p] \in OfferedPreKeys(p)
        /\ published' = [p \in Party |->
              IF p \in Devices(remote) THEN [published[p] EXCEPT !.preKeys = @ \ {preKey[p]}]
              ELSE published[p]]
        /\ LET bundles == {[party |-> p, identity |-> published[p].identity,
                            signedPreKey |-> published[p].signedPreKey,
                            preKey |-> preKey[p]] : p \in Devices(remote)}
           IN  \E b \in bundles :
                  /\ Starts(f, [kind |-> "establish", step |-> "existing",
                                todo |-> bundles \ {b}, bundle |-> b,
                                address |-> AddressOf(b.party), record |-> FreshRecord])
                  /\ CacheAddress(b.party)
  BY DEF StartEstablish
<1> DEFINE bundles == {[party |-> p, identity |-> published[p].identity,
                        signedPreKey |-> published[p].signedPreKey,
                        preKey |-> preKey[p]] : p \in Devices(remote)}
<1>3. \A p \in Devices(remote) : p \in Party \ {Me} /\ preKey[p] \in OptionalKey
  BY <1>1, <1>2 DEF Devices, OfferedPreKeys, TypeOK, Bundle, OptionalKey
<1>4. bundles \in SUBSET Bundles
  BY <1>1, <1>3 DEF Bundles, TypeOK, Bundle
<1>5. published' \in [Party -> Bundle]
  <2>1. \A p \in Party : published'[p] \in Bundle
    BY <1>1, <1>2 DEF TypeOK, Bundle
  <2> QED BY <1>2, <2>1
<1>6. PICK b \in bundles :
        /\ Starts(f, [kind |-> "establish", step |-> "existing",
                      todo |-> bundles \ {b}, bundle |-> b,
                      address |-> AddressOf(b.party), record |-> FreshRecord])
        /\ CacheAddress(b.party)
  BY <1>2
<1>7. b.party \in Party \ {Me} /\ b \in Bundles
  BY <1>3, <1>4, <1>6
<1> HIDE DEF bundles
<1>0. PICK e : e = [kind |-> "establish", step |-> "existing",
                    todo |-> bundles \ {b}, bundle |-> b,
                    address |-> AddressOf(b.party), record |-> FreshRecord]
  OBVIOUS
<1>8. AddressOf(b.party) \in Party /\ addresses' \in [Id -> Party \cup {None}]
  BY <1>1, <1>6, <1>7, AddressOfType
<1>9. e \in FlowState
  BY <1>0, <1>4, <1>7, <1>8, FreshRecordProperties DEF FlowState, Establishing
<1>10. CallSound(e)'
  <2>1. \A x \in bundles : x.party # Me
    BY <1>3 DEF bundles
  <2> QED BY <1>0, <1>6, <2>1 DEF CallSound, Deciphered
<1>11. flow' = [flow EXCEPT ![f] = e]
  BY <1>0, <1>6 DEF Starts
<1>12. /\ UNCHANGED <<identity, signedPreKey, preKeys, kyberUsed, sessionVars, nextKey,
                     historyVars, boundVars, remote, ciphers, objects, abandoned, closings>>
  BY DEF StartEstablish
<1>13. TypeOK' /\ NoneToSelf'
  BY <1>1, <1>5, <1>12 DEF TypeOK, sessionVars, historyVars, boundVars, DirectInv, NoneToSelf
<1>14. PageGrows /\ PageTyped'
  BY <1>1, <1>8, <1>12 DEF PageGrows, historyVars, DirectInv, PageTyped, CacheTyped
<1>15. FlowTyped'
  BY <1>9, <1>10, <1>11, <1>14, FlowMoves DEF DirectInv
<1> QED
  BY <1>13, <1>14, <1>15 DEF DirectInv

\* the next turn of the loop over the bundles
LEMMA NextBundleType ==
    ASSUME CacheTyped, NEW e \in Establishing, CallSound(e), NEW next \in NextBundle(e)
    PROVE  /\ next \in Establishing /\ next \in FlowState /\ CallSound(next)'
           /\ next.bundle \in e.todo /\ next.todo = e.todo \ {next.bundle}
           /\ next.bundle.party \in Party \ {Me}
           /\ next.address = AddressOf(next.bundle.party)
           /\ next.step = "existing" /\ next.record = e.record
<1>1. PICK b \in e.todo :
        next = [e EXCEPT !.step = "existing", !.todo = @ \ {b}, !.bundle = b,
                         !.address = AddressOf(b.party)]
  BY DEF NextBundle
<1>2. e.kind = "establish" /\ e.todo \in SUBSET Bundles /\ e.record \in Record
  BY DEF Establishing
<1>3. b \in Bundles /\ b.party \in Party \ {Me}
  BY <1>2 DEF CallSound, Bundles
<1>4. AddressOf(b.party) \in Party
  BY <1>3, AddressOfType
<1>5. /\ next.kind = "establish" /\ next.step = "existing" /\ next.todo = e.todo \ {b}
      /\ next.bundle = b /\ next.address = AddressOf(b.party) /\ next.record = e.record
  BY <1>1 DEF Establishing
<1>6. next \in Establishing
  BY <1>1, <1>2, <1>3, <1>4 DEF Establishing
<1>7. CallSound(next)'
  BY <1>2, <1>3, <1>5 DEF CallSound, Deciphered
<1> QED
  BY <1>3, <1>5, <1>6, <1>7 DEF FlowState

LEMMA EndTurnType ==
    ASSUME DirectInv, TypeOK', NEW f \in Flow, flow[f].kind = "establish", EndTurn(f),
           UNCHANGED <<identity, sent, remote, abandoned, closings>>
    PROVE  DirectInv'
<1>1. PICK e : e = flow[f]
  OBVIOUS
<1>2. e \in Establishing /\ CallSound(e)
  BY <1>1, FlowKinds DEF DirectInv, FlowTyped
<1>3. e.bundle.party \in Party \ {Me} /\ e.address \in Party
  BY <1>2 DEF CallSound, Establishing, Bundles
<1>4. TypeOK /\ CacheTyped /\ FlowTyped
  BY DEF DirectInv, PageTyped
<1>5. DeviceId[e.bundle.party] \in Id /\ EnsureCipher(DeviceId[e.bundle.party], e.address)
  BY <1>1, <1>3, <1>4, AddressOfType DEF EndTurn
<1>6. /\ objects' \in Seq(Party) /\ Len(objects') \in Nat /\ Len(objects) \in Nat
      /\ Len(objects) <= Len(objects')
      /\ ciphers' \in [Id -> 0 .. Len(objects')]
  BY <1>3, <1>4, <1>5, EnsureCipherType
<1>7. PageGrows /\ NoneToSelf'
  BY <1>6 DEF PageGrows, DirectInv, NoneToSelf
<1>8. CASE e.todo = {}
  <2>1. flow' = [flow EXCEPT ![f] = Idle] /\ UNCHANGED addresses
    BY <1>1, <1>8 DEF EndTurn, Return
  <2>2. FlowTyped'
    BY <2>1, <1>4, <1>7, FlowMoves, IdleSound
  <2>3. PageTyped'
    BY <2>1, <1>6, <1>4 DEF CacheTyped, PageTyped, DirectInv
  <2> QED BY <2>2, <2>3, <1>7 DEF DirectInv
<1>9. CASE e.todo # {}
  <2>1. PICK next \in NextBundle(e) :
          flow' = [flow EXCEPT ![f] = next] /\ CacheAddress(next.bundle.party)
    BY <1>1, <1>9 DEF EndTurn
  <2>2. next \in FlowState /\ CallSound(next)' /\ next.bundle.party \in Party \ {Me}
    BY <1>2, <1>4, NextBundleType
  <2>3. FlowTyped'
    BY <2>1, <2>2, <1>4, <1>7, FlowMoves
  <2>4. addresses' \in [Id -> Party \cup {None}]
    BY <2>1, <2>2, <1>4, AddressOfType
  <2>5. PageTyped'
    BY <2>4, <1>6, <1>4 DEF CacheTyped, PageTyped, DirectInv
  <2> QED BY <2>3, <2>5, <1>7 DEF DirectInv
<1> QED
  BY <1>8, <1>9

LEMMA EstablishType ==
    ASSUME DirectInv, NEW f \in Flow, Establish(f)
    PROVE  DirectInv'
<1>1. CASE StartEstablish(f)
  BY <1>1, StartEstablishType
<1> SUFFICES ASSUME ~StartEstablish(f)
             PROVE  DirectInv'
  BY <1>1
<1>2. PICK e : e = flow[f]
  OBVIOUS
<1>3. e.kind = "establish" /\ e \in Establishing /\ CallSound(e) /\ e.record \in Record
  <2>1. e.kind = "establish"
    BY <1>2 DEF Establish, At, EstablishNeedless, EstablishNeeded, EstablishTrust, EstablishLoad,
                EstablishSave, EstablishStore
  <2>2. e \in Establishing
    BY <2>1, <1>2, FlowKinds DEF DirectInv, FlowTyped
  <2> QED BY <2>1, <2>2, <1>2 DEF DirectInv, FlowTyped, Establishing
<1>4. flow \in [Flow -> FlowState] /\ flow[f].kind # "idle" /\ TypeOK
  BY <1>2, <1>3 DEF DirectInv, FlowTyped
<1>5. ASSUME NEW step \in {"existing", "trust", "load", "save", "store"}, NEW r \in Record
      PROVE  Moved(e, step, r) \in FlowState /\ CallSound(Moved(e, step, r))
  <2>1. PICK c : c = Moved(e, step, r)
    OBVIOUS
  <2>2. /\ c \in FlowState /\ c.kind = "establish" /\ c.step = step
        /\ c.todo = e.todo /\ c.bundle = e.bundle
    BY <2>1, <1>3 DEF Moved, Establishing, FlowState
  <2> QED BY <2>1, <2>2, <1>3 DEF CallSound, Deciphered
<1>6. e.bundle.party \in Party /\ e.address \in Party /\ e.bundle.identity \in Key
      /\ e.bundle.signedPreKey \in Key /\ e.bundle.preKey \in OptionalKey
  BY <1>3 DEF Establishing, Bundles
<1>7. CASE EstablishNeedless(f)
  <2>1. UNCHANGED <<identity, sent, remote, abandoned, closings>> /\ TypeOK'
    BY <1>4, <1>7, TypeStays DEF EstablishNeedless, vars, keyVars, historyVars
  <2> QED BY <2>1, <1>2, <1>3, <1>7, EndTurnType DEF EstablishNeedless
<1>8. CASE EstablishNeeded(f)
  <2>1. flow' = [flow EXCEPT ![f] = Moved(e, "trust", e.record)]
    BY <1>2, <1>4, <1>8, GoMoves DEF EstablishNeeded
  <2> QED BY <2>1, <1>3, <1>5, <1>8, QuietMove DEF EstablishNeeded
<1>9. CASE EstablishTrust(f)
  <2>1. CASE Return(f)
    BY <2>1, <1>9, QuietReturn DEF EstablishTrust
  <2>2. CASE Go(f, "load")
    <3>1. flow' = [flow EXCEPT ![f] = Moved(e, "load", e.record)]
      BY <2>2, <1>2, <1>4, GoMoves
    <3> QED BY <3>1, <1>3, <1>5, <1>9, QuietMove DEF EstablishTrust
  <2> QED BY <2>1, <2>2, <1>9 DEF EstablishTrust
<1>10. CASE EstablishLoad(f)
  <2>1. PICK r \in Record : r = records[Me][e.address]
    BY <1>4, <1>6, PageAssumption, RecordType
  <2>2. flow' = [flow EXCEPT ![f] = Moved(e, "save", r)]
    BY <2>1, <1>2, <1>4, <1>10, GoMoves DEF EstablishLoad
  <2> QED BY <2>2, <1>5, <1>10, QuietMove DEF EstablishLoad
<1>11. CASE EstablishSave(f)
  <2>1. flow' = [flow EXCEPT ![f] = Moved(e, "store", e.record)]
    BY <1>2, <1>4, <1>11, GoMoves DEF EstablishSave
  <2>2. pinned' \in [Party -> [Party -> OptionalKey]]
    BY <1>2, <1>4, <1>6, <1>11, PageAssumption DEF EstablishSave, SaveIdentity, TypeOK, OptionalKey
  <2>3. TypeOK' /\ UNCHANGED <<identity, sent>>
    BY <2>2, <1>4, <1>11 DEF EstablishSave, TypeOK, keyVars, historyVars, boundVars
  <2> QED BY <2>1, <2>3, <1>3, <1>5, <1>11, StoreMove DEF EstablishSave
<1>12. CASE EstablishStore(f)
  <2>1. PICK k0 \in Key : k0 = NewKey(Me, 0)
    BY <1>4, PageAssumption, NewKeyType
  <2>2. PICK k1 \in Key : k1 = NewKey(Me, 1)
    BY <1>4, PageAssumption, NewKeyType
  <2>3. PICK own \in Key : own = identity[Me]
    BY <1>4, PageAssumption DEF TypeOK
  <2>4. PICK b : b = e.bundle
    OBVIOUS
  <2>5. PICK time \in Nat : time = now
    BY <1>4 DEF TypeOK
  <2>6. PICK s : s = InitializeAlice(own, b.identity, k0, k1, b.signedPreKey, b.preKey, time)
    OBVIOUS
  <2>7. s \in Session
    <3>1. b.identity \in Key /\ b.signedPreKey \in Key /\ b.preKey \in OptionalKey
      BY <2>4, <1>6
    <3> QED BY <2>6, <3>1, InitializeAliceProperties
  <2>8. PromoteState(e.record, s) \in Record
    BY <2>7, <1>3, PromoteStateProperties
  <2>9. StoreSession(Me, e.address, PromoteState(e.record, s))
    BY <2>1, <2>2, <2>3, <2>4, <2>5, <2>6, <1>2, <1>12 DEF EstablishStore
  <2>10. records' \in [Party -> [Party -> Record]]
    BY <2>8, <2>9, <1>4, <1>6 DEF StoreSession, TypeOK
  <2>11. nextKey' \in [Party -> Nat]
    <3>1. nextKey' = [nextKey EXCEPT ![Me] = @ + 2]
      BY <1>12 DEF EstablishStore
    <3> QED BY <3>1, <1>4, PageAssumption DEF TypeOK
  <2>12. TypeOK' /\ UNCHANGED <<identity, sent>>
    BY <2>10, <2>11, <1>4, <1>12 DEF EstablishStore, TypeOK, keyVars, historyVars, boundVars
  <2> QED BY <2>12, <1>2, <1>3, <1>12, EndTurnType DEF EstablishStore
<1> QED
  BY <1>7, <1>8, <1>9, <1>10, <1>11, <1>12 DEF Establish

-----------------------------------------------------------------------------
(* encryptMessage                                                          *)

LEMMA MessageOf ==
    ASSUME NEW from \in Party, NEW to \in Party, NEW type \in {"prekey", "whisper"},
           NEW text \in Nat, NEW sender \in Key, NEW receiver \in Key, NEW ratchet \in Key,
           NEW key \in MessageKey, NEW base \in OptionalKey, NEW signed \in OptionalKey,
           NEW preKey \in OptionalKey, type = "prekey" => base \in Key /\ signed \in Key,
           NEW m, m = [from |-> from, to |-> to, type |-> type, text |-> text, sender |-> sender,
                       receiver |-> receiver, ratchet |-> ratchet, key |-> key, base |-> base,
                       signedPreKey |-> signed, preKey |-> preKey]
    PROVE  m \in Message
  BY DEF Message

\* the ciphertext for q, with the text of the call
Slice(q, s, text) == [Ciphertext(Me, q, s) EXCEPT !.text = text]

LEMMA SliceFields ==
    ASSUME NEW s, NEW q, NEW text, NEW m, m = Slice(q, s, text)
    PROVE  /\ m.ratchet = s.sender.ratchet
           /\ m.key = [root |-> s.sender.root, index |-> s.sender.index]
           /\ m.key.root = s.sender.root /\ m.key.index = s.sender.index
           /\ m.sender = s.local
           /\ m.type = "prekey" => s.pending # NoPending /\ m.base = s.base
  BY DEF Slice, Ciphertext

LEMMA SliceType ==
    ASSUME TypeOK, NEW s \in Session, NEW q \in Party, NEW text \in Nat,
           NEW m, m = Slice(q, s, text)
    PROVE  m \in Message /\ m.from = Me /\ m.to = q
<1>1. /\ s.local \in Key /\ s.remote \in Key /\ s.base \in Key /\ s.sender \in SenderChain
      /\ s.pending # NoPending => s.pending \in Pending
  BY DEF Session
<1>2. /\ s.sender.ratchet \in Key /\ s.sender.root \in RootKey /\ s.sender.index \in Nat
      /\ texts[Me] \in Nat /\ Me \in Party
  BY <1>1, PageAssumption DEF SenderChain, TypeOK
<1>3. s.pending # NoPending => s.pending.signedPreKey \in Key /\ s.pending.preKey \in OptionalKey
  BY <1>1 DEF Pending
<1>4. m = [from |-> Me, to |-> q, text |-> text, sender |-> s.local, receiver |-> s.remote,
           ratchet |-> s.sender.ratchet,
           key |-> [root |-> s.sender.root, index |-> s.sender.index],
           type |-> IF s.pending = NoPending THEN "whisper" ELSE "prekey",
           base |-> IF s.pending = NoPending THEN NoKey ELSE s.base,
           signedPreKey |-> IF s.pending = NoPending THEN NoKey ELSE s.pending.signedPreKey,
           preKey |-> IF s.pending = NoPending THEN NoKey ELSE s.pending.preKey]
  BY DEF Ciphertext, Slice
<1>5. PICK type \in {"prekey", "whisper"}, base \in OptionalKey, signed \in OptionalKey,
           preKey \in OptionalKey :
        /\ type = IF s.pending = NoPending THEN "whisper" ELSE "prekey"
        /\ base = IF s.pending = NoPending THEN NoKey ELSE s.base
        /\ signed = IF s.pending = NoPending THEN NoKey ELSE s.pending.signedPreKey
        /\ preKey = IF s.pending = NoPending THEN NoKey ELSE s.pending.preKey
        /\ type = "prekey" => base \in Key /\ signed \in Key
  BY <1>1, <1>3, Zenon DEF OptionalKey
<1>6. PICK local \in Key, far \in Key, ratchet \in Key, root \in RootKey, index \in Nat :
        /\ local = s.local /\ far = s.remote /\ ratchet = s.sender.ratchet
        /\ root = s.sender.root /\ index = s.sender.index
  BY <1>1, <1>2
<1>7. PICK key \in MessageKey : key = [root |-> root, index |-> index]
  BY DEF MessageKey
<1>8. PICK v : v = [from |-> Me, to |-> q, type |-> type, text |-> text, sender |-> local,
                    receiver |-> far, ratchet |-> ratchet, key |-> key, base |-> base,
                    signedPreKey |-> signed, preKey |-> preKey]
  OBVIOUS
<1>9. m \in Message
  <2>1. m = v
    BY <1>4, <1>5, <1>6, <1>7, <1>8
  <2>2. Me \in Party /\ (type = "prekey" => base \in Key /\ signed \in Key)
    BY <1>2, <1>5
  <2>3. v \in Message
    BY <2>2, <1>8, MessageOf, Zenon
  <2> QED BY <2>1, <2>3
<1> QED
  BY <1>4, <1>9

LEMMA SlicesType ==
    ASSUME TypeOK, NEW e \in Encrypting, e.record.current # NoSession
    PROVE  /\ Slices(e) \in SUBSET Message
           /\ \A m \in Slices(e) : m.from = Me /\ m.to \in Devices(e.remote)
<1>1. e.record \in Record /\ e.text \in Nat
  BY DEF Encrypting
<1>2. e.record.current \in Session
  BY <1>1, SessionsOfRecord
<1>3. PICK s \in Session, text \in Nat : s = e.record.current /\ text = e.text
  BY <1>1, <1>2
<1>4. ASSUME NEW p \in Party, NEW m, m = Slice(p, s, text)
      PROVE  m \in Message /\ m.from = Me /\ m.to = p
  BY <1>4, SliceType
<1>5. Slices(e) = {Slice(p, s, text) :
                      p \in {q \in Devices(e.remote) : DeviceId[q] = e.device}}
  BY <1>3 DEF Slices, Slice
<1>6. Devices(e.remote) \subseteq Party
  BY DEF Devices
<1>7. ASSUME NEW m \in Slices(e)
      PROVE  m \in Message /\ m.from = Me /\ m.to \in Devices(e.remote)
  <2>1. PICK p \in Devices(e.remote) : m = Slice(p, s, text)
    BY <1>5
  <2> QED BY <2>1, <1>4, <1>6
<1> QED
  BY <1>7

\* the loop over the ciphers goes on, or throws, or ends
LEMMA NextCipherType ==
    ASSUME CacheTyped, NEW e \in Encrypting, CallSound(e), NEW next \in NextCipher(e)
    PROVE  \/ next = Idle
           \/ /\ next = Moved(e, "emit", e.record) /\ next \in Encrypting
              /\ next.kind = "encrypt" /\ next.step = "emit" /\ next.object = e.object
              /\ next.slices = e.slices /\ next.record = e.record
           \/ /\ next \in Encrypting /\ next.kind = "encrypt" /\ next.step = "load"
              /\ next.slices = e.slices /\ next.record = e.record
              /\ next.object \in 1 .. Len(objects) /\ ~Borrowed(next.object)
              /\ \E d \in Cached : next.object = ciphers[d]
<1>1. CASE next = [e EXCEPT !.step = "emit"]
  BY <1>1 DEF Moved, Encrypting
<1>2. ASSUME NEW d \in Cached \ e.done,
             next = IF Borrowed(ciphers[d]) THEN Idle
                    ELSE [e EXCEPT !.step = "load", !.done = @ \cup {d}, !.device = d,
                                   !.object = ciphers[d]]
      PROVE  \/ next = Idle
             \/ /\ next \in Encrypting /\ next.kind = "encrypt" /\ next.step = "load"
                /\ next.slices = e.slices /\ next.record = e.record
                /\ next.object \in 1 .. Len(objects) /\ ~Borrowed(next.object)
                /\ next.object = ciphers[d]
  <2>1. d \in Id /\ ciphers[d] \in 1 .. Len(objects) /\ ciphers[d] \in Nat
    BY DEF CacheTyped, Cached
  <2>2. CASE ~Borrowed(ciphers[d])
    <3>1. PICK o \in Nat : o = ciphers[d]
      BY <2>1
    <3>2. next = [e EXCEPT !.step = "load", !.done = @ \cup {d}, !.device = d, !.object = o]
      BY <2>2, <3>1, <1>2
    <3>3. /\ next.kind = "encrypt" /\ next.step = "load" /\ next.slices = e.slices
          /\ next.record = e.record /\ next.object = o /\ next.done = e.done \cup {d}
          /\ next.device = d /\ next.remote = e.remote /\ next.text = e.text
          /\ next = [kind |-> "encrypt", step |-> "load", remote |-> e.remote, text |-> e.text,
                     done |-> e.done \cup {d}, device |-> d, object |-> o,
                     record |-> e.record, slices |-> e.slices]
      BY <3>2 DEF Encrypting
    <3>4. next \in Encrypting
      BY <2>1, <3>3 DEF Encrypting
    <3> QED BY <2>1, <2>2, <3>1, <3>3, <3>4
  <2> QED BY <2>2, <1>2
<1>3. next = [e EXCEPT !.step = "emit"] \/ \E d \in Cached \ e.done :
             next = IF Borrowed(ciphers[d]) THEN Idle
                    ELSE [e EXCEPT !.step = "load", !.done = @ \cup {d}, !.device = d,
                                   !.object = ciphers[d]]
  BY DEF NextCipher
<1> QED
  BY <1>1, <1>2, <1>3

LEMMA StartEncryptType ==
    ASSUME DirectInv, NEW f \in Flow, StartEncrypt(f)
    PROVE  DirectInv'
<1>1. TypeOK /\ CacheTyped /\ remote \in User /\ Me \in Party
  BY PageAssumption DEF DirectInv, PageTyped, CacheTyped, StartEncrypt
<1>2. PICK d \in Cached :
        Starts(f, [kind |-> "encrypt", step |-> "load", remote |-> remote,
                   text |-> texts[Me], done |-> {d}, device |-> d, object |-> ciphers[d],
                   record |-> FreshRecord, slices |-> {}])
  BY DEF StartEncrypt
<1>3. PICK e : e = [kind |-> "encrypt", step |-> "load", remote |-> remote,
                    text |-> texts[Me], done |-> {d}, device |-> d, object |-> ciphers[d],
                    record |-> FreshRecord, slices |-> {}]
  OBVIOUS
<1>4. d \in Id /\ ciphers[d] \in 1 .. Len(objects) /\ ciphers[d] \in Nat
  BY <1>1 DEF CacheTyped, Cached
<1>5. texts[Me] \in Nat /\ texts' \in [Party -> Nat]
  BY <1>1 DEF TypeOK, StartEncrypt
<1>6. e \in FlowState /\ CallSound(e)
  <2>1. e \in Encrypting
    BY <1>1, <1>3, <1>4, <1>5, FreshRecordProperties DEF Encrypting
  <2> QED BY <2>1, <1>3, <1>4 DEF FlowState, CallSound, Deciphered
<1>7. TypeOK' /\ UNCHANGED <<identity, sent, remote, cacheVars, abandoned, closings>>
  BY <1>1, <1>5 DEF TypeOK, StartEncrypt, keyVars, sessionVars, boundVars
<1>8. flow' = [flow EXCEPT ![f] = e]
  BY <1>2, <1>3 DEF Starts
<1> QED
  BY <1>6, <1>7, <1>8, StoreMove

LEMMA EncryptType ==
    ASSUME DirectInv, NEW f \in Flow, EncryptMessage(f)
    PROVE  DirectInv'
<1>1. CASE StartEncrypt(f)
  BY <1>1, StartEncryptType
<1> SUFFICES ASSUME ~StartEncrypt(f)
             PROVE  DirectInv'
  BY <1>1
<1>2. PICK e : e = flow[f]
  OBVIOUS
<1>3. e.kind = "encrypt" /\ e \in Encrypting /\ CallSound(e) /\ e.record \in Record
  <2>1. e.kind = "encrypt"
    BY <1>2 DEF EncryptMessage, At, EncryptLoad, EncryptTrust, EncryptSave, EncryptStore, Emit
  <2>2. e \in Encrypting
    BY <2>1, <1>2, FlowKinds DEF DirectInv, FlowTyped
  <2> QED BY <2>1, <2>2, <1>2 DEF DirectInv, FlowTyped, Encrypting
<1>4. /\ flow \in [Flow -> FlowState] /\ flow[f].kind # "idle" /\ TypeOK /\ CacheTyped
      /\ Me \in Party
  BY <1>2, <1>3, PageAssumption DEF DirectInv, FlowTyped, PageTyped
<1>5. PICK a \in Party : a = objects[e.object] /\ CallAddress(f) = a
  BY <1>2, <1>3, <1>4 DEF CallSound, CallAddress, CacheTyped
<1>6. ASSUME NEW step \in {"load", "trust", "save", "store", "emit"}, NEW r \in Record,
             step \in {"trust", "save", "store"} => r.current # NoSession
      PROVE  Moved(e, step, r) \in FlowState /\ CallSound(Moved(e, step, r))
  <2>1. PICK c : c = Moved(e, step, r)
    OBVIOUS
  <2>2. /\ c \in FlowState /\ c.kind = "encrypt" /\ c.step = step
        /\ c.object = e.object /\ c.slices = e.slices /\ c.record = r
    BY <2>1, <1>3 DEF Moved, Encrypting, FlowState
  <2> QED BY <2>1, <2>2, <1>3, <1>6 DEF CallSound, Deciphered
<1>7. CASE EncryptLoad(f)
  <2>1. PICK r \in Record : r = records[Me][a]
    BY <1>4, <1>5, RecordType
  <2>2. CASE Return(f)
    BY <2>2, <1>7, QuietReturn DEF EncryptLoad
  <2>3. CASE GoWith(f, "trust", r) /\ r.current # NoSession
    <3>1. flow' = [flow EXCEPT ![f] = Moved(e, "trust", r)]
      BY <2>3, <1>2, <1>4, GoMoves
    <3> QED BY <3>1, <2>3, <1>6, <1>7, QuietMove DEF EncryptLoad
  <2> QED BY <2>1, <2>2, <2>3, <1>5, <1>7 DEF EncryptLoad
<1>8. CASE EncryptTrust(f)
  <2>1. CASE Return(f)
    BY <2>1, <1>8, QuietReturn DEF EncryptTrust
  <2>2. CASE Go(f, "save")
    <3>1. flow' = [flow EXCEPT ![f] = Moved(e, "save", e.record)]
      BY <2>2, <1>2, <1>4, GoMoves
    <3>2. e.record.current # NoSession
      BY <1>2, <1>3, <1>8 DEF EncryptTrust, At, CallSound
    <3> QED BY <3>1, <3>2, <1>3, <1>6, <1>8, QuietMove DEF EncryptTrust
  <2> QED BY <2>1, <2>2, <1>8 DEF EncryptTrust
<1>9. CASE EncryptSave(f)
  <2>1. flow' = [flow EXCEPT ![f] = Moved(e, "store", e.record)]
    BY <1>2, <1>4, <1>9, GoMoves DEF EncryptSave
  <2>2. e.record.current # NoSession
    BY <1>2, <1>3, <1>9 DEF EncryptSave, At, CallSound
  <2>3. e.record.current.remote \in Key
    BY <2>2, <1>3, SessionsOfRecord DEF Session
  <2>4. pinned' \in [Party -> [Party -> OptionalKey]]
    BY <2>3, <1>2, <1>4, <1>5, <1>9 DEF EncryptSave, SaveIdentity, TypeOK, OptionalKey
  <2>5. TypeOK' /\ UNCHANGED <<identity, sent>>
    BY <2>4, <1>4, <1>9 DEF EncryptSave, TypeOK, keyVars, historyVars, boundVars
  <2> QED BY <2>1, <2>2, <2>5, <1>3, <1>6, <1>9, StoreMove DEF EncryptSave
<1>10. CASE EncryptStore(f)
  <2>1. e.record.current # NoSession
    BY <1>2, <1>3, <1>10 DEF EncryptStore, At, CallSound
  <2>0. PICK t \in Session : t = AdvanceSenderChain(e.record.current)
    <3>1. PICK s \in Session : s = e.record.current
      BY <2>1, <1>3, SessionsOfRecord
    <3>2. AdvanceSenderChain(s) \in Session
      BY AdvanceSenderChainType
    <3> QED BY <3>1, <3>2
  <2>2. PICK r \in Record : r = [e.record EXCEPT !.current = AdvanceSenderChain(@)]
    <3>1. [e.record EXCEPT !.current = t] \in Record
      BY <1>3 DEF Record
    <3>2. [e.record EXCEPT !.current = AdvanceSenderChain(@)] = [e.record EXCEPT !.current = t]
      BY <2>0, <1>3 DEF Record
    <3> QED BY <3>1, <3>2
  <2>3. StoreSession(Me, a, r)
    BY <2>2, <1>2, <1>5, <1>10 DEF EncryptStore
  <2>4. records' \in [Party -> [Party -> Record]]
    BY <2>3, <1>4, <1>5 DEF StoreSession, TypeOK
  <2>5. TypeOK' /\ UNCHANGED <<identity, sent>>
    BY <2>4, <1>4, <1>10 DEF EncryptStore, TypeOK, keyVars, historyVars, boundVars
  <2>6. PICK slices : slices = Slices(e)
    OBVIOUS
  <2>7. slices \in SUBSET Message /\ \A m \in slices : m.from # m.to
    BY <2>1, <2>6, <1>3, <1>4, SlicesType DEF Devices
  <2>8. PICK c : c = [e EXCEPT !.slices = @ \cup slices]
    OBVIOUS
  <2>9. /\ c \in Encrypting /\ c.kind = "encrypt" /\ c.object = e.object /\ c.record = e.record
        /\ c.slices = e.slices \cup slices /\ c.step = "store"
    BY <2>7, <2>8, <1>2, <1>3, <1>10 DEF Encrypting, EncryptStore, At
  <2>10. CallSound(c)
    BY <2>1, <2>7, <2>9, <1>3 DEF CallSound, Deciphered
  <2>11. PICK next \in NextCipher(c) : flow' = [flow EXCEPT ![f] = next]
    BY <2>6, <2>8, <1>2, <1>10 DEF EncryptStore
  <2>12. next \in FlowState /\ CallSound(next)
    <3>1. CASE next = Idle
      BY <3>1, IdleSound
    <3>2. CASE /\ next \in Encrypting /\ next.kind = "encrypt" /\ next.slices = c.slices
               /\ next.step \in {"emit", "load"} /\ next.object \in 1 .. Len(objects)
      BY <3>2, <2>10, <2>9 DEF FlowState, CallSound, Deciphered
    <3>3. c.object \in 1 .. Len(objects)
      BY <2>9, <2>10 DEF CallSound
    <3> QED BY <3>1, <3>2, <3>3, <2>9, <2>10, <1>4, NextCipherType
  <2> QED BY <2>5, <2>11, <2>12, <1>10, StoreMove DEF EncryptStore
<1>11. CASE Emit(f)
  <2>1. e.slices \in SUBSET Message /\ \A m \in e.slices : m.from # m.to
    BY <1>3 DEF CallSound, Encrypting
  <2>2. sent' = sent \cup e.slices /\ flow' = [flow EXCEPT ![f] = Idle]
    BY <1>2, <1>11 DEF Emit, Return
  <2>3. UNCHANGED <<keyVars, sessionVars, nextKey, opened, reopened, texts, boundVars,
                    remote, cacheVars, abandoned, closings>>
    BY <1>11 DEF Emit
  <2>4. TypeOK'
    BY <2>1, <2>2, <2>3, <1>4 DEF TypeOK, keyVars, sessionVars, boundVars
  <2>5. UNCHANGED <<identity, remote, cacheVars, abandoned, closings>>
    BY <2>3 DEF keyVars
  <2> QED BY <2>1, <2>2, <2>4, <2>5, IdleSound, StoreMove
<1> QED
  BY <1>7, <1>8, <1>9, <1>10, <1>11 DEF EncryptMessage

-----------------------------------------------------------------------------
(* decryptMessage                                                          *)

LEMMA SameResult ==
    ASSUME NEW x, NEW y, x.message = y.message, x.record = y.record
    PROVE  Result(x) = Result(y) /\ StartsSession(x) = StartsSession(y)
  BY DEF Result, ProcessPreKey, StartsSession

LEMMA StartDecryptType ==
    ASSUME DirectInv, NEW f \in Flow, NEW m \in sent, StartDecrypt(f, m)
    PROVE  DirectInv'
<1>1. TypeOK /\ CacheTyped /\ m \in Message
  BY DEF DirectInv, PageTyped, TypeOK
<1>2. m.from \in Party \ {Me} /\ m.to = Me
  BY <1>1, MessageFields DEF StartDecrypt, DirectInv, NoneToSelf
<1>3. PICK o : o = ciphers[DeviceId[m.from]]
  OBVIOUS
<1>4. o \in 0 .. Len(objects) /\ o \in Nat
  BY <1>1, <1>2, <1>3, AddressOfType DEF CacheTyped
<1>5. PICK e : e = [kind |-> "decrypt", step |-> IF o = 0 THEN "lookup" ELSE "load",
                    message |-> m, object |-> o, record |-> FreshRecord]
  OBVIOUS
<1>6. e \in FlowState /\ CallSound(e)
  <2>1. e \in Decrypting
    BY <1>1, <1>4, <1>5, FreshRecordProperties DEF Decrypting
  <2>2. e.step = "lookup" => o = 0
    BY <1>5
  <2>3. e.step # "lookup" => o \in 1 .. Len(objects)
    BY <1>4, <1>5
  <2> QED BY <2>1, <2>2, <2>3, <1>2, <1>5 DEF FlowState, CallSound, Deciphered
<1>7. flow' = [flow EXCEPT ![f] = e]
  BY <1>3, <1>5 DEF StartDecrypt, Starts
<1> QED
  BY <1>6, <1>7, QuietMove DEF StartDecrypt

LEMMA LookupType ==
    ASSUME DirectInv, NEW f \in Flow, DecryptLookup(f)
    PROVE  DirectInv'
<1>1. TypeOK /\ CacheTyped /\ FlowTyped
  BY DEF DirectInv, PageTyped
<1>2. PICK e : e = flow[f]
  OBVIOUS
<1>3. e \in Decrypting /\ CallSound(e) /\ e.step = "lookup"
  BY <1>1, <1>2, FlowKinds DEF FlowTyped, DecryptLookup, At
<1>4. PICK m \in Message : m = e.message /\ m \in sent /\ m.to = Me
  BY <1>3 DEF CallSound, Decrypting
<1>5. m.from \in Party \ {Me}
  BY <1>4, MessageFields DEF DirectInv, NoneToSelf
<1>6. CASE Return(f) /\ UNCHANGED cacheVars
  BY <1>6, QuietReturn DEF DecryptLookup
<1>7. CASE /\ CacheAddress(m.from)
           /\ NewCipher(DeviceId[m.from], AddressOf(m.from))
           /\ flow' = [flow EXCEPT ![f].step = "load", ![f].object = Len(objects) + 1]
  <2>1. /\ DeviceId[m.from] \in Id /\ AddressOf(m.from) \in Party
        /\ addresses' \in [Id -> Party \cup {None}]
    BY <1>1, <1>5, <1>7, AddressOfType
  <2>2. /\ objects' \in Seq(Party) /\ Len(objects') = Len(objects) + 1 /\ Len(objects) \in Nat
        /\ ciphers' \in [Id -> 0 .. Len(objects')]
    BY <2>1, <1>1, <1>7, NewCipherType
  <2>3. UNCHANGED <<vars, identity, sent, remote, abandoned, closings>>
    BY DEF DecryptLookup, vars, keyVars, historyVars
  <2>4. PageGrows /\ NoneToSelf' /\ TypeOK'
    BY <2>2, <2>3, <1>1, TypeStays DEF PageGrows, DirectInv, NoneToSelf
  <2>5. PageTyped'
    BY <2>1, <2>2, <2>3, <1>1 DEF CacheTyped, PageTyped, DirectInv
  <2>6. PICK o : o = Len(objects) + 1
    OBVIOUS
  <2>7. PICK c : c = [e EXCEPT !.step = "load", !.object = o]
    OBVIOUS
  <2>8. flow' = [flow EXCEPT ![f] = c]
    BY <2>6, <2>7, <1>2, <1>7
  <2>9. /\ c \in Decrypting /\ c.kind = "decrypt" /\ c.step = "load" /\ c.object = o
        /\ c.message = m
    <3>1. o \in Nat
      BY <2>2, <2>6
    <3>2. c = [kind |-> "decrypt", step |-> "load", message |-> m, object |-> o,
               record |-> e.record]
      BY <2>7, <1>3, <1>4 DEF Decrypting
    <3>3. e.record \in Record
      BY <1>3 DEF Decrypting
    <3> QED BY <3>1, <3>2, <3>3 DEF Decrypting
  <2>10. CallSound(c)'
    BY <2>2, <2>3, <2>6, <2>9, <1>4 DEF CallSound, Deciphered
  <2>11. FlowTyped'
    BY <2>4, <2>8, <2>9, <2>10, <1>1, FlowMoves DEF FlowState
  <2> QED BY <2>4, <2>5, <2>11 DEF DirectInv
<1> QED
  BY <1>2, <1>4, <1>6, <1>7 DEF DecryptLookup

LEMMA DecryptMessageType ==
    ASSUME DirectInv, NEW f \in Flow, DecryptMessage(f)
    PROVE  DirectInv'
<1>0. CASE DecryptLookup(f) \/ \E m \in sent : StartDecrypt(f, m)
  BY <1>0, StartDecryptType, LookupType
<1> SUFFICES ASSUME ~DecryptLookup(f), ~ \E m \in sent : StartDecrypt(f, m)
             PROVE  DirectInv'
  BY <1>0
<1>2. PICK e : e = flow[f]
  OBVIOUS
<1>3. /\ e.kind = "decrypt" /\ e \in Decrypting /\ CallSound(e) /\ e.record \in Record
      /\ e.step \in {"load", "keys", "save", "check", "mark", "remove", "store"}
  <2>1. /\ e.kind = "decrypt"
        /\ e.step \in {"load", "keys", "save", "check", "mark", "remove", "store"}
    BY <1>2 DEF DecryptMessage, At, DecryptLoad, DecryptKeys, DecryptSave, DecryptCheck,
                DecryptMark, DecryptRemove, DecryptStore
  <2>2. e \in Decrypting
    BY <2>1, <1>2, FlowKinds DEF DirectInv, FlowTyped
  <2> QED BY <2>1, <2>2, <1>2 DEF DirectInv, FlowTyped, Decrypting
<1>4. /\ flow \in [Flow -> FlowState] /\ flow[f].kind # "idle" /\ TypeOK /\ CacheTyped
      /\ Me \in Party
  BY <1>2, <1>3, PageAssumption DEF DirectInv, FlowTyped, PageTyped
<1>5. PICK a \in Party : a = objects[e.object] /\ CallAddress(f) = a
  BY <1>2, <1>3, <1>4 DEF CallSound, CallAddress, CacheTyped
<1>m. PICK m \in Message : m = e.message
  BY <1>3 DEF Decrypting
<1>6. ASSUME NEW step \in {"keys", "save", "check", "mark", "remove", "store"}, NEW r \in Record,
             step # "keys" => \E x : x.message = m /\ x.record = r /\ Result(x).verdict = "ok",
             step \in {"keys", "check", "mark", "remove"} => m.type = "prekey"
      PROVE  Moved(e, step, r) \in FlowState /\ CallSound(Moved(e, step, r))
  <2>1. PICK c : c = Moved(e, step, r)
    OBVIOUS
  <2>2. /\ c \in FlowState /\ c.kind = "decrypt" /\ c.step = step
        /\ c.object = e.object /\ c.message = m /\ c.record = r
    BY <2>1, <1>3, <1>m DEF Moved, Decrypting, FlowState
  <2>3. step # "keys" => Result(c).verdict = "ok"
    BY <2>2, <1>6, SameResult, Zenon
  <2> QED BY <2>1, <2>2, <2>3, <1>3, <1>6, <1>m DEF CallSound, Deciphered
<1>7. CASE DecryptLoad(f)
  <2>1. PICK r \in Record : r = records[Me][a]
    BY <1>4, <1>5, RecordType
  <2>2. PICK x : x = [e EXCEPT !.record = r]
    OBVIOUS
  <2>3. x.message = m /\ x.record = r
    BY <2>2, <1>3, <1>m DEF Decrypting
  <2>4. \/ StartsSession(x) /\ GoWith(f, "keys", r)
        \/ Result(x).verdict = "ok" /\ GoWith(f, "save", r)
        \/ Return(f)
    BY <2>1, <2>2, <1>2, <1>5, <1>7 DEF DecryptLoad
  <2>5. CASE Return(f)
    BY <2>5, <1>7, QuietReturn DEF DecryptLoad
  <2>6. CASE StartsSession(x) /\ GoWith(f, "keys", r)
    <3>1. flow' = [flow EXCEPT ![f] = Moved(e, "keys", r)]
      BY <2>6, <1>2, <1>4, GoMoves
    <3>2. m.type = "prekey"
      BY <2>6, <2>3 DEF StartsSession
    <3> QED BY <3>1, <3>2, <1>6, <1>7, QuietMove DEF DecryptLoad
  <2>7. CASE Result(x).verdict = "ok" /\ GoWith(f, "save", r)
    <3>1. flow' = [flow EXCEPT ![f] = Moved(e, "save", r)]
      BY <2>7, <1>2, <1>4, GoMoves
    <3>2. Moved(e, "save", r) \in FlowState /\ CallSound(Moved(e, "save", r))
      BY <2>3, <2>7, <1>6
    <3> QED BY <3>1, <3>2, <1>7, QuietMove DEF DecryptLoad
  <2> QED BY <2>4, <2>5, <2>6, <2>7
<1>8. CASE DecryptKeys(f)
  <2>1. CASE Return(f)
    BY <2>1, <1>8, QuietReturn DEF DecryptKeys
  <2>2. CASE Result(e).verdict = "ok" /\ Go(f, "save")
    <3>1. flow' = [flow EXCEPT ![f] = Moved(e, "save", e.record)]
      BY <2>2, <1>2, <1>4, GoMoves
    <3>2. Moved(e, "save", e.record) \in FlowState /\ CallSound(Moved(e, "save", e.record))
      BY <2>2, <1>3, <1>m, <1>6
    <3> QED BY <3>1, <3>2, <1>8, QuietMove DEF DecryptKeys
  <2> QED BY <2>1, <2>2, <1>2, <1>8 DEF DecryptKeys
<1> SUFFICES ASSUME ~DecryptLoad(f), ~DecryptKeys(f)
             PROVE  DirectInv'
  BY <1>7, <1>8
<1>9. e.step \in {"save", "check", "mark", "remove", "store"} /\ Result(e).verdict = "ok"
  <2>1. e.step \in {"save", "check", "mark", "remove", "store"}
    BY <1>2 DEF DecryptMessage, At, DecryptSave, DecryptCheck, DecryptMark, DecryptRemove, DecryptStore
  <2> QED BY <2>1, <1>3 DEF CallSound, Deciphered
<1>10. e.step \in {"check", "mark", "remove"} => m.type = "prekey" /\ m.base \in Key
  BY <1>3, <1>m, MessageFields DEF CallSound
<1>11. ASSUME NEW step \in {"check", "mark", "remove", "store"},
              step \in {"check", "mark", "remove"} => m.type = "prekey"
       PROVE  /\ Moved(e, step, e.record) \in FlowState /\ CallSound(Moved(e, step, e.record))
              /\ Go(f, step) => flow' = [flow EXCEPT ![f] = Moved(e, step, e.record)]
  BY <1>2, <1>3, <1>4, <1>m, <1>6, <1>9, <1>11, GoMoves
<1>12. PICK r : r = Result(e).record
  OBVIOUS
<1>13. r \in Record /\ r.current \in Session
  <2>1. Derives(e.record, r, m, NewKey(Me, 0))
    BY <1>3, <1>4, <1>9, <1>12, <1>m, ResultDerives
  <2> QED BY <2>1 DEF Derives
<1>14. CASE DecryptSave(f)
  <2>1. PICK k \in OptionalKey : SaveIdentity(Me, a, k)
    <3>1. m.sender \in OptionalKey /\ r.current.remote \in OptionalKey
      BY <1>13, MessageFields DEF Session, OptionalKey
    <3> QED BY <3>1, <1>2, <1>5, <1>12, <1>14, <1>m DEF DecryptSave
  <2>2. pinned' \in [Party -> [Party -> OptionalKey]]
    BY <2>1, <1>4, <1>5 DEF SaveIdentity, TypeOK
  <2>3. TypeOK' /\ UNCHANGED <<identity, sent>>
    BY <2>2, <1>4, <1>14 DEF DecryptSave, TypeOK, keyVars, historyVars, boundVars
  <2>4. PICK step \in {"check", "store"} : Go(f, step) /\ (step = "check" => m.type = "prekey")
    BY <1>2, <1>14, <1>m DEF DecryptSave, StartsSession
  <2>5. PICK c : c = Moved(e, step, e.record)
    OBVIOUS
  <2>6. c \in FlowState /\ CallSound(c) /\ flow' = [flow EXCEPT ![f] = c]
    BY <2>4, <2>5, <1>11
  <2> QED BY <2>3, <2>6, <1>14, StoreMove DEF DecryptSave
<1>15. CASE DecryptCheck(f)
  <2>1. CASE Return(f)
    BY <2>1, <1>15, QuietReturn DEF DecryptCheck
  <2>2. CASE Go(f, "mark")
    <3>1. m.type = "prekey"
      BY <1>2, <1>10, <1>15 DEF DecryptCheck, At
    <3>2. PICK c : c = Moved(e, "mark", e.record)
      OBVIOUS
    <3>3. c \in FlowState /\ CallSound(c) /\ flow' = [flow EXCEPT ![f] = c]
      BY <3>1, <3>2, <2>2, <1>11
    <3> QED BY <3>3, <1>15, QuietMove DEF DecryptCheck
  <2> QED BY <2>1, <2>2, <1>15 DEF DecryptCheck
<1>16. CASE DecryptMark(f)
  <2>1. m.type = "prekey" /\ m.base \in Key
    BY <1>2, <1>10, <1>16 DEF DecryptMark, At
  <2>2. kyberUsed' = [kyberUsed EXCEPT ![Me] = @ \cup {m.base}]
    BY <1>2, <1>16, <1>m DEF DecryptMark
  <2>3. TypeOK' /\ UNCHANGED <<identity, sent>>
    BY <2>1, <2>2, <1>4, <1>16 DEF DecryptMark, TypeOK, sessionVars, historyVars, boundVars
  <2>4. PICK step \in {"remove", "store"} : Go(f, step)
    BY <1>16 DEF DecryptMark
  <2>5. PICK c : c = Moved(e, step, e.record)
    OBVIOUS
  <2>6. c \in FlowState /\ CallSound(c) /\ flow' = [flow EXCEPT ![f] = c]
    BY <2>1, <2>4, <2>5, <1>11
  <2> QED BY <2>3, <2>6, <1>16, StoreMove DEF DecryptMark
<1>17. CASE DecryptRemove(f)
  <2>1. preKeys' \in [Party -> SUBSET Key]
    BY <1>4, <1>17 DEF DecryptRemove, TypeOK
  <2>2. TypeOK' /\ UNCHANGED <<identity, sent>>
    BY <2>1, <1>4, <1>17 DEF DecryptRemove, TypeOK, sessionVars, historyVars, boundVars
  <2>3. PICK c : c = Moved(e, "store", e.record)
    OBVIOUS
  <2>4. c \in FlowState /\ CallSound(c) /\ flow' = [flow EXCEPT ![f] = c]
    BY <2>3, <1>11, <1>17 DEF DecryptRemove
  <2> QED BY <2>2, <2>4, <1>17, StoreMove DEF DecryptRemove
<1>18. CASE DecryptStore(f)
  <2>1. StoreSession(Me, a, r) /\ UseNewKey(Me, m.from, r) /\ Opens(Me, m) /\ Return(f)
    BY <1>2, <1>5, <1>12, <1>18, <1>m DEF DecryptStore
  <2>2. records' \in [Party -> [Party -> Record]]
    BY <2>1, <1>4, <1>5, <1>13 DEF StoreSession, TypeOK
  <2>3. nextKey' \in [Party -> Nat]
    BY <2>1, <1>4 DEF UseNewKey, TypeOK
  <2>4. opened' \in [Party -> SUBSET Message] /\ reopened' \in [Party -> SUBSET Message]
    BY <2>1, <1>4 DEF Opens, TypeOK
  <2>5. TypeOK' /\ UNCHANGED <<identity, sent>>
    BY <2>2, <2>3, <2>4, <1>4, <1>18 DEF DecryptStore, TypeOK, keyVars, boundVars
  <2>6. flow' = [flow EXCEPT ![f] = Idle]
    BY <2>1 DEF Return
  <2> QED BY <2>5, <2>6, <1>18, IdleSound, StoreMove DEF DecryptStore
<1> QED
  BY <1>14, <1>15, <1>16, <1>17, <1>18 DEF DecryptMessage

-----------------------------------------------------------------------------
(* The page and the other devices                                          *)

LEMMA CloseType ==
    ASSUME DirectInv, Close
    PROVE  DirectInv'
<1>1. TypeOK /\ FlowTyped /\ UNCHANGED <<vars, identity, sent>>
  BY DEF DirectInv, Close, vars, keyVars, historyVars
<1>2. TypeOK' /\ NoneToSelf'
  BY <1>1, TypeStays DEF DirectInv, NoneToSelf
<1>3. CacheTyped'
  <2>1. objects' = <<>> /\ ciphers' = [d \in Id |-> 0] /\ addresses' = [d \in Id |-> None]
        /\ remote' = None
    BY DEF Close, ClearCaches
  <2>2. objects' \in Seq(Party) /\ Len(objects') = 0
    BY <2>1
  <2> QED BY <2>1, <2>2 DEF CacheTyped
<1>4. ASSUME NEW f \in Flow, Committed(flow[f])
      PROVE  flow[f].message.base \in Key
  <2>1. PICK e : e = flow[f]
    OBVIOUS
  <2>2. e \in Decrypting /\ e.message.type = "prekey"
    BY <2>1, <1>1, <1>4, FlowKinds DEF FlowTyped, Committed, StartsSession
  <2>3. e.message \in Message
    BY <2>2 DEF Decrypting
  <2>4. e.message.base \in Key
    BY <2>2, <2>3, MessageFields
  <2> QED BY <2>1, <2>4
<1>5. abandoned' \subseteq Key /\ closings' \in Nat
  BY <1>4 DEF Close, DirectInv, PageTyped
<1>6. FlowTyped'
  <2>1. flow' = [f \in Flow |-> Idle]
    BY DEF Close
  <2> QED BY <2>1, IdleSound DEF FlowTyped
<1> QED
  BY <1>2, <1>3, <1>5, <1>6 DEF DirectInv, PageTyped

\* a call of another device is a step of DoubleRatchet between it and this page
LEMMA OthersStep ==
    ASSUME Others, \A m \in sent : m.from # m.to
    PROVE  /\ Next /\ UNCHANGED pageVars /\ UNCHANGED identity
           /\ sent \subseteq sent' /\ \A m \in sent' \ sent : m.from # Me /\ m.to = Me
<1>1. PICK p \in Online :
        \/ EstablishSession(p, Me)
        \/ FetchUnused(p, Me)
        \/ Encrypt(p, Me)
        \/ \E m \in sent : m.to = p /\ Decrypt(p, m)
  BY DEF Others
<1>2. p \in Party \ {Me} /\ Me \in Party
  BY PageAssumption
<1>3. Next
  BY <1>1, <1>2 DEF Next
<1>4. CASE EstablishSession(p, Me) \/ FetchUnused(p, Me)
  BY <1>3, <1>4 DEF EstablishSession, FetchUnused, historyVars, Others
<1>5. CASE Encrypt(p, Me)
  <2>1. PICK m : m = Ciphertext(p, Me, records[p][Me].current)
    OBVIOUS
  <2>2. sent' = sent \cup {m} /\ UNCHANGED identity
    BY <2>1, <1>5 DEF Encrypt, keyVars
  <2>3. m.from = p /\ m.to = Me
    BY <2>1 DEF Ciphertext
  <2> QED BY <2>2, <2>3, <1>2, <1>3 DEF Others
<1>6. CASE \E m \in sent : m.to = p /\ Decrypt(p, m)
  <2>1. UNCHANGED <<identity, sent>>
    BY <1>6 DEF Decrypt, DecryptKnownPreKey, DecryptNewPreKey, RejectReplay, DecryptSignal,
                keyVars, historyVars
  <2> QED BY <2>1, <1>3 DEF Others
<1> QED
  BY <1>1, <1>4, <1>5, <1>6

LEMMA OthersType ==
    ASSUME DirectInv, Others
    PROVE  DirectInv'
<1>1. /\ Next /\ UNCHANGED pageVars /\ UNCHANGED identity
      /\ sent \subseteq sent' /\ \A m \in sent' \ sent : m.from # Me /\ m.to = Me
  BY OthersStep DEF DirectInv, NoneToSelf
<1>2. TypeOK'
  BY <1>1, NextType DEF DirectInv
<1>3. UNCHANGED <<remote, cacheVars, flow, abandoned, closings>>
  BY <1>1 DEF pageVars
<1>4. PageGrows /\ CacheTyped'
  BY <1>1, <1>3, QuietPage
<1>5. FlowTyped'
  BY <1>3, <1>4, FlowStays DEF DirectInv
<1>6. PageTyped' /\ NoneToSelf'
  BY <1>1, <1>3, <1>4 DEF DirectInv, PageTyped, NoneToSelf
<1> QED
  BY <1>2, <1>5, <1>6 DEF DirectInv

LEMMA DirectInitInv == DirectInit => DirectInv
<1> SUFFICES ASSUME DirectInit
             PROVE  DirectInv
  OBVIOUS
<1>1. TypeOK
  BY InitType DEF DirectInit
<1>2. objects \in Seq(Party) /\ Len(objects) = 0
  BY DEF DirectInit
<1>3. PageTyped
  BY <1>2 DEF DirectInit, PageTyped, CacheTyped
<1>4. FlowTyped
  BY IdleSound DEF FlowTyped, DirectInit
<1>5. NoneToSelf
  BY DEF NoneToSelf, DirectInit, Init
<1> QED
  BY <1>1, <1>3, <1>4, <1>5 DEF DirectInv

LEMMA DirectNextInv == DirectInv /\ [DirectNext]_directVars => DirectInv'
<1> SUFFICES ASSUME DirectInv, [DirectNext]_directVars
             PROVE  DirectInv'
  OBVIOUS
<1>1. CASE \E f \in Flow : Establish(f) \/ EncryptMessage(f) \/ DecryptMessage(f)
  BY <1>1, EstablishType, EncryptType, DecryptMessageType
<1>2. CASE Switch
  <2>1. UNCHANGED <<vars, identity, sent>> /\ UNCHANGED <<cacheVars, flow, abandoned, closings>>
    BY <1>2 DEF Switch, vars, keyVars, historyVars
  <2>2. TypeOK' /\ NoneToSelf'
    BY <2>1, TypeStays DEF DirectInv, NoneToSelf
  <2>3. PageGrows
    BY <2>1, QuietPage
  <2>4. PageTyped'
    BY <2>1, <1>2 DEF DirectInv, PageTyped, CacheTyped, cacheVars, Switch
  <2>5. FlowTyped'
    BY <2>1, <2>3, FlowStays DEF DirectInv
  <2> QED BY <2>2, <2>4, <2>5 DEF DirectInv
<1>3. CASE Close
  BY <1>3, CloseType
<1>4. CASE Others
  BY <1>4, OthersType
<1>5. CASE UNCHANGED directVars
  <2>1. UNCHANGED <<vars, identity, sent>> /\ UNCHANGED <<remote, cacheVars, flow, abandoned, closings>>
    BY <1>5 DEF directVars, pageVars, vars, keyVars, historyVars
  <2>2. TypeOK' /\ NoneToSelf'
    BY <2>1, TypeStays DEF DirectInv, NoneToSelf
  <2>3. PageGrows /\ CacheTyped'
    BY <2>1, QuietPage
  <2>4. FlowTyped' /\ PageTyped'
    BY <2>1, <2>3, FlowStays DEF DirectInv, PageTyped
  <2> QED BY <2>2, <2>4 DEF DirectInv
<1> QED
  BY <1>1, <1>2, <1>3, <1>4, <1>5 DEF DirectNext

\* Whatever calls overlap, the caches, the objects and the calls of the page hold
\* values of their types: no call uses a cipher object that was never made, and what
\* another call or another device does meanwhile never turns the verdict a
\* decryption has reached on the record it loaded into another.
THEOREM DirectTypeCorrect == DirectSpec => []DirectTypeOK
<1>1. DirectInit => DirectInv
  BY DirectInitInv
<1>2. DirectInv /\ [DirectNext]_directVars => DirectInv'
  BY DirectNextInv
<1>3. DirectInv => DirectTypeOK
  BY InvGivesType
<1> QED
  BY <1>1, <1>2, <1>3, PTL DEF DirectSpec

-----------------------------------------------------------------------------
(* Calls that overlap work on different records                            *)

\* the calls that hold an object, and those that have loaded their record
Live(e) == e.kind \in {"encrypt", "decrypt"} /\ e.step \notin {"lookup", "emit"}
Loaded(e) ==
    \/ e.kind = "encrypt" /\ e.step \in {"trust", "save", "store"}
    \/ e.kind = "decrypt" /\ e.step \in {"keys", "save", "check", "mark", "remove", "store"}

\* what a call has read is still what the store and the caches hold
CallFits(e) ==
    /\ e.kind = "establish" =>
          /\ e.address = addresses[DeviceId[e.bundle.party]]
          /\ \A b \in e.todo \cup {e.bundle} : Known(b.signedPreKey)
          /\ e.step # "existing" => records[Me][e.bundle.party] = FreshRecord
          /\ e.step \in {"save", "store"} => e.record = records[Me][e.address]
    /\ e.kind = "decrypt" /\ e.step = "lookup" => ciphers[DeviceId[e.message.from]] = 0
    /\ Loaded(e) => e.record = records[Me][objects[e.object]]

\* one object for each device id, for the address cached for it
Sound(adr, cip, obj) ==
    /\ \A d \in Id : adr[d] # None => DeviceId[adr[d]] = d
    /\ \A d \in Id : cip[d] # 0 => adr[d] # None /\ obj[cip[d]] = adr[d]
    /\ \A o \in 1 .. Len(obj) : \E d \in Id : cip[d] = o
CachesSound == Sound(addresses, ciphers, objects)

ObjectsApart ==
    \A f, g \in Flow : f # g /\ Live(flow[f]) /\ Live(flow[g]) => flow[f].object # flow[g].object
OpensAlone == \A f \in Flow : Opening(flow[f]) => \A g \in Flow \ {f} : flow[g] = Idle
PageInv ==
    /\ CachesSound /\ ObjectsApart /\ OpensAlone
    /\ \A f \in Flow : CallFits(flow[f])

\* Different objects are for different addresses.
LEMMA AddressesApart ==
    ASSUME CacheTyped, CachesSound, NEW o \in 1 .. Len(objects), NEW q \in 1 .. Len(objects), o # q
    PROVE  objects[o] # objects[q]
<1>1. PICK d \in Id, x \in Id : ciphers[d] = o /\ ciphers[x] = q
  BY DEF CachesSound, Sound
<1>2. o # 0 /\ q # 0
  BY DEF CacheTyped
<1>3. /\ DeviceId[objects[o]] = d /\ DeviceId[objects[q]] = x
  BY <1>1, <1>2 DEF CachesSound, Sound
<1> QED
  BY <1>1, <1>3

\* the address cached for d, unless there is one, and the object cached for d
WithAddress(adr, d, p) == [adr EXCEPT ![d] = IF adr[d] = None THEN p ELSE adr[d]]
WithCipher(cip, d, n) == [cip EXCEPT ![d] = n]

LEMMA SoundAddress ==
    ASSUME NEW adr \in [Id -> Party \cup {None}], NEW cip, NEW obj, Sound(adr, cip, obj),
           NEW p \in Party, NEW d \in Id, DeviceId[p] = d,
           NEW new, new = WithAddress(adr, d, p)
    PROVE  /\ Sound(new, cip, obj)
           /\ \A x \in Id : adr[x] # None => new[x] = adr[x]
           /\ new[d] \in Party /\ new[d] = IF adr[d] = None THEN p ELSE adr[d]
<1>1. /\ \A x \in Id : x # d => new[x] = adr[x]
      /\ new[d] = IF adr[d] = None THEN p ELSE adr[d]
  BY DEF WithAddress
<1>2. new[d] \in Party /\ new[d] # None
  BY <1>1, PageAssumption
<1> QED
  BY <1>1, <1>2 DEF Sound

LEMMA OpeningShrinks ==
    ASSUME NEW c \in FlowState, Opening(c)',
           \A q \in Party : records'[Me][q] = FreshRecord => records[Me][q] = FreshRecord
    PROVE  Opening(c)
<1>1. CASE c.kind = "establish"
  <2>1. \A b \in c.todo \cup {c.bundle} : b.party \in Party
    BY <1>1, FlowKinds DEF Establishing, Bundles
  <2> QED BY <2>1, <1>1 DEF Opening
<1>2. CASE c.kind = "decrypt"
  <2>1. c.message.from \in Party
    BY <1>2, FlowKinds, MessageFields DEF Decrypting
  <2> QED BY <2>1, <1>2 DEF Opening
<1> QED
  BY <1>1, <1>2 DEF Opening

\* what another call's step may do to the caches and the store
CachesGrow ==
    /\ \A d \in Id : addresses[d] # None => addresses'[d] = addresses[d]
    /\ \A o \in 1 .. Len(objects) : objects'[o] = objects[o]
StoreGrows ==
    /\ \A p \in Party : nextKey[p] <= nextKey'[p]
    /\ \A q \in Party : records'[Me][q] = FreshRecord => records[Me][q] = FreshRecord

\* A call that opens nothing stays as it fits while the record of its object is
\* left alone.
LEMMA CallKeepsFitting ==
    ASSUME TypeOK, TypeOK', CacheTyped, CachesGrow, StoreGrows,
           NEW c \in FlowState, CallSound(c), CallFits(c), ~Opening(c),
           Live(c) => records'[Me][objects[c.object]] = records[Me][objects[c.object]]
    PROVE  CallFits(c)'
<1>1. CASE c.kind = "establish"
  <2>1. /\ c.address \in Party /\ c.bundle \in Bundles /\ c.todo \in SUBSET Bundles
        /\ \A b \in c.todo \cup {c.bundle} : b.party # Me
    BY <1>1, FlowKinds DEF Establishing, CallSound
  <2>2. DeviceId[c.bundle.party] \in Id
    BY <2>1, AddressOfType DEF Bundles
  <2>3. c.address = addresses'[DeviceId[c.bundle.party]]
    BY <2>1, <2>2, <1>1, PageAssumption DEF CallFits, CachesGrow
  <2>4. ASSUME NEW b \in c.todo \cup {c.bundle}
        PROVE  Known(b.signedPreKey)'
    <3>1. PICK k \in Key : k = b.signedPreKey /\ Known(k)
      BY <2>1, <1>1 DEF Bundles, CallFits
    <3>2. Known(k)'
      BY <3>1, KnownStays DEF StoreGrows
    <3> QED BY <3>1, <3>2
  <2>5. records[Me][c.bundle.party] # FreshRecord
    BY <1>1 DEF Opening
  <2>6. c.step = "existing"
    BY <2>5, <1>1 DEF CallFits
  <2> QED BY <2>3, <2>4, <2>6, <1>1 DEF CallFits, Loaded
<1>2. CASE c.kind # "establish"
  <2>1. c.kind = "decrypt" => c.step # "lookup"
    BY DEF Opening
  <2>2. Loaded(c) => Live(c) /\ c.object \in 1 .. Len(objects)
    BY DEF Loaded, Live, CallSound
  <2>3. Loaded(c) => c.record = records'[Me][objects'[c.object]]
    BY <2>2, <1>2 DEF CallFits, CachesGrow
  <2> QED BY <2>1, <2>3, <1>2 DEF CallFits, Loaded
<1> QED
  BY <1>1, <1>2

LEMMA IdleFits == CallFits(Idle) /\ CallFits(Idle)' /\ ~Opening(Idle) /\ ~Opening(Idle)' /\ ~Live(Idle)
  BY DEF Idle, CallFits, Opening, Live, Loaded

\* one call moves on to e, while the others open nothing and keep their records
LEMMA PageStep ==
    ASSUME DirectInv, DirectInv', PageInv, CachesGrow, StoreGrows, CachesSound',
           NEW f \in Flow, NEW e, flow' = [flow EXCEPT ![f] = e], CallFits(e)',
           \A g \in Flow \ {f} : flow[g] # Idle =>
              /\ ~Opening(flow[g]) /\ ~Opening(e)'
              /\ Live(flow[g]) =>
                    /\ records'[Me][objects[flow[g].object]] = records[Me][objects[flow[g].object]]
                    /\ Live(e) => flow[g].object # e.object
    PROVE  PageInv'
<1>1. TypeOK /\ TypeOK' /\ CacheTyped /\ flow \in [Flow -> FlowState]
      /\ \A g \in Flow : CallSound(flow[g])
  BY DEF DirectInv, PageTyped, FlowTyped
<1>2. \A g \in Flow : flow'[g] = IF g = f THEN e ELSE flow[g]
  BY <1>1
<1>3. ASSUME NEW g \in Flow
      PROVE  CallFits(flow[g])'
  <2>1. CASE g = f
    BY <2>1, <1>2
  <2>2. CASE g # f /\ flow[g] = Idle
    <3>1. flow'[g] = Idle
      BY <2>2, <1>2
    <3> QED BY <3>1, IdleFits
  <2>3. CASE g # f /\ flow[g] # Idle
    <3>1. PICK c \in FlowState : c = flow[g]
      BY <1>1
    <3>2. /\ CallSound(c) /\ CallFits(c) /\ ~Opening(c)
          /\ Live(c) => records'[Me][objects[c.object]] = records[Me][objects[c.object]]
      BY <2>3, <3>1, <1>1 DEF PageInv
    <3>3. CallFits(c)'
      BY <3>2, <1>1, CallKeepsFitting
    <3>4. flow'[g] = c
      BY <2>3, <3>1, <1>2
    <3> QED BY <3>3, <3>4
  <2> QED BY <2>1, <2>2, <2>3
<1>4. ObjectsApart'
  BY <1>2, IdleFits DEF PageInv, ObjectsApart, Live
<1>5. OpensAlone'
  <2>1. ASSUME NEW g \in Flow, g # f
        PROVE  ~Opening(flow[g])'
    <3>1. PICK c \in FlowState : c = flow[g]
      BY <1>1
    <3>2. ~Opening(c)
      BY <2>1, <3>1, IdleFits
    <3>3. ~Opening(c)'
      BY <3>2, OpeningShrinks DEF StoreGrows
    <3>4. flow'[g] = c
      BY <2>1, <3>1, <1>2
    <3> QED BY <3>3, <3>4
  <2>2. ASSUME Opening(flow[f])'
        PROVE  \A g \in Flow \ {f} : flow'[g] = Idle
    <3>1. Opening(e)'
      BY <2>2, <1>2
    <3> QED BY <3>1, <1>2
  <2> QED BY <2>1, <2>2 DEF OpensAlone
<1> QED
  BY <1>3, <1>4, <1>5 DEF PageInv

\* Two calls that hold an object work on different records.
LEMMA CallsApart ==
    ASSUME DirectInv, PageInv, NEW f \in Flow, NEW g \in Flow \ {f}, Live(flow[f]), Live(flow[g])
    PROVE  objects[flow[g].object] # objects[flow[f].object]
<1>1. flow[f].object \in 1 .. Len(objects) /\ flow[g].object \in 1 .. Len(objects)
  BY DEF DirectInv, FlowTyped, CallSound, Live
<1>2. flow[f].object # flow[g].object
  BY DEF PageInv, ObjectsApart
<1> QED
  BY <1>1, <1>2, AddressesApart DEF DirectInv, PageTyped, PageInv

LEMMA OthersOpenNothing ==
    ASSUME PageInv, NEW f \in Flow, flow[f] # Idle, NEW g \in Flow \ {f}, flow[g] # Idle
    PROVE  ~Opening(flow[f]) /\ ~Opening(flow[g])
  BY DEF PageInv, OpensAlone

-----------------------------------------------------------------------------
(* Message keys                                                            *)

\* the messages made: those sent, and those a call still holds
Held(e) == IF e.kind = "encrypt" THEN e.slices ELSE {}
Made == sent \cup UNION {Held(flow[f]) : f \in Flow}

ChainsSound ==
    /\ \A p \in Party : Known(published[p].signedPreKey)
    /\ \A p, q \in Party : \A c \in SenderChains(records[p][q]) : KnownChain(c.ratchet, c.root)
    /\ ChainsApart
Behind(m) ==
    /\ KnownChain(m.ratchet, m.key.root)
    /\ \A p, q \in Party : \A c \in SenderChains(records[p][q]) :
          c.root = m.key.root => c.index > m.key.index
KeysDiffer(S) == \A m1, m2 \in S : m1.key = m2.key => m1 = m2
MadeInv == ChainsSound /\ (\A m \in Made : Behind(m)) /\ KeysDiffer(Made)

LEMMA MadeGivesChains ==
    /\ MadeInv => ChainInv
    /\ ChainInv => ChainsSound /\ (\A m \in sent : Behind(m)) /\ KeysDiffer(sent)
  BY DEF MadeInv, Made, ChainsSound, Behind, KeysDiffer, ChainInv, KeysKnown, ChainsAhead,
         MessageKeysUnique

LEMMA MadeType ==
    ASSUME TypeOK, flow \in [Flow -> FlowState]
    PROVE  Made \in SUBSET Message
<1>1. ASSUME NEW f \in Flow
      PROVE  Held(flow[f]) \in SUBSET Message
  <2>1. PICK e \in FlowState : e = flow[f]
    OBVIOUS
  <2>2. Held(e) \in SUBSET Message
    BY FlowKinds DEF Held, Encrypting
  <2> QED BY <2>1, <2>2
<1> QED
  BY <1>1 DEF TypeOK, Made

\* A step that starts no session and advances no chain.
LEMMA QuietMade ==
    ASSUME MadeInv, UNCHANGED <<records, nextKey>>, Made' \subseteq Made,
           \A p \in Party : published'[p].signedPreKey = published[p].signedPreKey
    PROVE  MadeInv'
<1>1. ChainsSound'
  BY DEF MadeInv, ChainsSound, ChainsApart, KnownChain, Known
<1>2. ASSUME NEW m \in Made'
      PROVE  Behind(m)'
  <2>1. Behind(m)
    BY <1>2 DEF MadeInv
  <2> QED BY <2>1 DEF Behind, KnownChain, Known
<1>3. KeysDiffer(Made)'
  BY DEF MadeInv, KeysDiffer
<1> QED
  BY <1>1, <1>2, <1>3 DEF MadeInv

\* A step that moves chains, and adds no message.
LEMMA MovedMade ==
    ASSUME TypeOK, TypeOK', flow \in [Flow -> FlowState], MadeInv, ChainsMove, ChainsSound',
           Made' \subseteq Made
    PROVE  MadeInv'
<1>1. ASSUME NEW m \in Made'
      PROVE  Behind(m)'
  <2>1. m \in Message /\ Behind(m)
    BY <1>1, MadeType DEF MadeInv
  <2> QED BY <2>1, MessageStays DEF Behind
<1>2. KeysDiffer(Made)'
  BY DEF MadeInv, KeysDiffer
<1> QED
  BY <1>1, <1>2 DEF MadeInv

LEMMA MadeMoves ==
    ASSUME flow \in [Flow -> FlowState], NEW f \in Flow, NEW e, flow' = [flow EXCEPT ![f] = e],
           NEW X, Held(e) \subseteq Held(flow[f]) \cup X, sent' \subseteq sent \cup Held(flow[f])
    PROVE  Made' \subseteq Made \cup X
<1>1. \A g \in Flow : flow'[g] = IF g = f THEN e ELSE flow[g]
  OBVIOUS
<1>2. \A g \in Flow : Held(flow'[g]) \subseteq Held(flow[g]) \cup X
  BY <1>1
<1>3. Made' = sent' \cup UNION {Held(flow'[g]) : g \in Flow}
  BY DEF Made, Held
<1> QED
  BY <1>2, <1>3 DEF Made

KeysInv == PageInv /\ MadeInv

\* a call that changes neither records nor caches
LEMMA QuietFits ==
    ASSUME DirectInv, DirectInv', KeysInv, UNCHANGED <<records, nextKey, cacheVars>>,
           \A p \in Party : published'[p].signedPreKey = published[p].signedPreKey,
           NEW f \in Flow, NEW c, c = flow[f], c # Idle, sent' \subseteq sent \cup Held(c),
           NEW e, flow' = [flow EXCEPT ![f] = e], Held(e) \subseteq Held(c),
           Opening(e) => Opening(c), Live(e) => Live(c) /\ e.object = c.object, CallFits(e)
    PROVE  KeysInv'
<1>1. flow \in [Flow -> FlowState]
  BY DEF DirectInv, FlowTyped
<1>2. MadeInv'
  <2>1. Made' \subseteq Made \cup {}
    BY <1>1, MadeMoves
  <2> QED BY <2>1, QuietMade DEF KeysInv
<1>3. UNCHANGED <<ciphers, addresses, objects>>
  BY DEF cacheVars
<1>4. CachesGrow /\ StoreGrows /\ CachesSound'
  BY <1>3 DEF CachesGrow, StoreGrows, CachesSound, KeysInv, PageInv, DirectInv, TypeOK
<1>5. CallFits(e)'
  BY <1>3 DEF CallFits, Known
<1>6. ASSUME NEW g \in Flow \ {f}, flow[g] # Idle
      PROVE  /\ ~Opening(flow[g]) /\ ~Opening(e)'
             /\ Live(flow[g]) =>
                   /\ records'[Me][objects[flow[g].object]] = records[Me][objects[flow[g].object]]
                   /\ Live(e) => flow[g].object # e.object
  <2>1. ~Opening(flow[g]) /\ ~Opening(c)
    BY <1>6, OthersOpenNothing DEF KeysInv
  <2>2. ~Opening(e)'
    BY <2>1 DEF Opening
  <2>3. Live(flow[g]) /\ Live(e) => flow[g].object # e.object
    BY <1>6 DEF KeysInv, PageInv, ObjectsApart
  <2> QED BY <2>1, <2>2, <2>3
<1>7. PageInv'
  BY <1>4, <1>5, <1>6, PageStep DEF KeysInv
<1> QED
  BY <1>2, <1>7 DEF KeysInv

\* a call that starts
LEMMA StartFits ==
    ASSUME ~OpeningRace, DirectInv, DirectInv', KeysInv, UNCHANGED <<records, nextKey, sent>>,
           \A p \in Party : published'[p].signedPreKey = published[p].signedPreKey,
           CachesGrow, CachesSound',
           NEW f \in Flow, NEW e, Starts(f, e), Held(e) = {},
           Live(e) => ~Borrowed(e.object), CallFits(e)'
    PROVE  KeysInv'
<1>1. flow \in [Flow -> FlowState] /\ flow' = [flow EXCEPT ![f] = e]
  BY DEF DirectInv, FlowTyped, Starts
<1>2. MadeInv'
  <2>1. Made' \subseteq Made \cup {}
    BY <1>1, MadeMoves
  <2> QED BY <2>1, QuietMade DEF KeysInv
<1>3. StoreGrows
  BY DEF StoreGrows, DirectInv, TypeOK
<1>4. ASSUME NEW g \in Flow \ {f}, flow[g] # Idle
      PROVE  /\ ~Opening(flow[g]) /\ ~Opening(e)'
             /\ Live(flow[g]) =>
                   /\ records'[Me][objects[flow[g].object]] = records[Me][objects[flow[g].object]]
                   /\ Live(e) => flow[g].object # e.object
  <2>1. ~Opening(flow[g]) /\ ~Opening(e)
    BY <1>4 DEF Starts
  <2>2. ~Opening(e)'
    BY <2>1 DEF Opening
  <2>3. Live(flow[g]) /\ Live(e) => flow[g].object # e.object
    BY DEF Live, Borrowed
  <2> QED BY <2>1, <2>2, <2>3
<1>5. PageInv'
  BY <1>1, <1>3, <1>4, PageStep DEF KeysInv
<1> QED
  BY <1>2, <1>5 DEF KeysInv

-----------------------------------------------------------------------------
(* establishSession keeps apart                                            *)

LEMMA CacheAddressFits ==
    ASSUME CacheTyped, NEW cip, NEW obj, Sound(addresses, cip, obj),
           NEW p \in Party \ {Me}, CacheAddress(p)
    PROVE  /\ Sound(addresses', cip, obj)
           /\ \A d \in Id : addresses[d] # None => addresses'[d] = addresses[d]
           /\ addresses'[DeviceId[p]] = AddressOf(p) /\ AddressOf(p) \in Party
           /\ addresses'[DeviceId[p]] # None
<1>1. DeviceId[p] \in Id /\ p \in Party
  BY DEF Id
<1>2. PICK d \in Id : d = DeviceId[p]
  BY <1>1
<1>3. PICK adr \in [Id -> Party \cup {None}] : adr = addresses
  BY DEF CacheTyped
<1>4. PICK new : new = addresses'
  OBVIOUS
<1>5. new = WithAddress(adr, d, p)
  BY <1>2, <1>3, <1>4 DEF CacheAddress, AddressOf, WithAddress
<1>6. Sound(adr, cip, obj)
  BY <1>3
<1>7. /\ Sound(new, cip, obj)
      /\ \A x \in Id : adr[x] # None => new[x] = adr[x]
      /\ new[d] \in Party /\ new[d] = IF adr[d] = None THEN p ELSE adr[d]
  BY <1>1, <1>2, <1>5, <1>6, SoundAddress
<1>8. AddressOf(p) = new[d]
  BY <1>2, <1>3, <1>7 DEF AddressOf
<1>9. new[d] # None
  BY <1>7, PageAssumption
<1> QED
  BY <1>2, <1>3, <1>4, <1>7, <1>8, <1>9

\* A cipher is made for the address cached for the device id.
LEMMA NewCipherFits ==
    ASSUME CacheTyped, NEW adr, Sound(adr, ciphers, objects), NEW d \in Id, ciphers[d] = 0,
           adr[d] \in Party, NewCipher(d, adr[d])
    PROVE  /\ Sound(adr, ciphers', objects')
           /\ \A o \in 1 .. Len(objects) : objects'[o] = objects[o]
<1>1. PICK obj \in Seq(Party) : obj = objects
  BY DEF CacheTyped
<1>2. PICK cip \in [Id -> 0 .. Len(obj)] : cip = ciphers
  BY <1>1 DEF CacheTyped
<1>3. PICK newCip, newObj : newCip = ciphers' /\ newObj = objects'
  OBVIOUS
<1>4. PICK a \in Party : a = adr[d]
  OBVIOUS
<1>5. newCip = WithCipher(cip, d, Len(obj) + 1) /\ newObj = Append(obj, a)
  BY <1>1, <1>2, <1>3, <1>4 DEF NewCipher, WithCipher
<1>6. Sound(adr, cip, obj) /\ cip[d] = 0
  BY <1>1, <1>2
<1>7. /\ Len(newObj) = Len(obj) + 1 /\ Len(obj) \in Nat
      /\ newObj[Len(obj) + 1] = a /\ a # None
      /\ \A o \in 1 .. Len(obj) : newObj[o] = obj[o]
  BY <1>5, PageAssumption
<1>8. /\ newCip[d] = Len(obj) + 1
      /\ \A x \in Id : x # d => newCip[x] = cip[x] /\ cip[x] \in 0 .. Len(obj)
  BY <1>5 DEF WithCipher
<1>9. \A x \in Id : newCip[x] # 0 => adr[x] # None /\ newObj[newCip[x]] = adr[x]
  BY <1>4, <1>6, <1>7, <1>8 DEF Sound
<1>10. ASSUME NEW o \in 1 .. Len(newObj)
       PROVE  \E x \in Id : newCip[x] = o
  <2>1. CASE o = Len(obj) + 1
    BY <2>1, <1>8
  <2>2. CASE o \in 1 .. Len(obj)
    <3>1. PICK x \in Id : cip[x] = o
      BY <2>2, <1>6 DEF Sound
    <3>2. x # d
      BY <2>2, <3>1, <1>6
    <3> QED BY <3>1, <3>2, <1>8
  <2> QED BY <2>1, <2>2, <1>7
<1>11. Sound(adr, newCip, newObj)
  BY <1>6, <1>9, <1>10 DEF Sound
<1> QED
  BY <1>1, <1>3, <1>7, <1>11

LEMMA StartEstablishFits ==
    ASSUME ~OpeningRace, DirectInv, DirectInv', KeysInv, NEW f \in Flow, StartEstablish(f)
    PROVE  KeysInv'
<1>1. TypeOK /\ CacheTyped /\ CachesSound /\ MadeInv /\ ChainsSound
  BY DEF DirectInv, PageTyped, KeysInv, PageInv, MadeInv
<1>2. PICK preKey :
        /\ published' = [p \in Party |->
              IF p \in Devices(remote) THEN [published[p] EXCEPT !.preKeys = @ \ {preKey[p]}]
              ELSE published[p]]
        /\ LET bundles == {[party |-> p, identity |-> published[p].identity,
                            signedPreKey |-> published[p].signedPreKey,
                            preKey |-> preKey[p]] : p \in Devices(remote)}
           IN  \E b \in bundles :
                  /\ Starts(f, [kind |-> "establish", step |-> "existing",
                                todo |-> bundles \ {b}, bundle |-> b,
                                address |-> AddressOf(b.party), record |-> FreshRecord])
                  /\ CacheAddress(b.party)
  BY DEF StartEstablish
<1> DEFINE bundles == {[party |-> p, identity |-> published[p].identity,
                        signedPreKey |-> published[p].signedPreKey,
                        preKey |-> preKey[p]] : p \in Devices(remote)}
<1>3. \A b \in bundles : b.party \in Party \ {Me} /\ b.signedPreKey = published[b.party].signedPreKey
  BY DEF Devices
<1>4. PICK b \in bundles :
        /\ Starts(f, [kind |-> "establish", step |-> "existing",
                      todo |-> bundles \ {b}, bundle |-> b,
                      address |-> AddressOf(b.party), record |-> FreshRecord])
        /\ CacheAddress(b.party)
  BY <1>2
<1>5. PICK all : all = bundles
  OBVIOUS
<1>6. \A x \in all : x.party \in Party \ {Me} /\ x.signedPreKey = published[x.party].signedPreKey
  BY <1>3, <1>5
<1>7. PICK e : e = [kind |-> "establish", step |-> "existing", todo |-> all \ {b}, bundle |-> b,
                    address |-> AddressOf(b.party), record |-> FreshRecord]
  OBVIOUS
<1>8. Starts(f, e) /\ b \in all
  BY <1>4, <1>5, <1>7
<1> HIDE DEF bundles
<1>9. UNCHANGED <<records, nextKey, sent, ciphers, objects>>
  BY DEF StartEstablish, sessionVars, historyVars
<1>10. \A p \in Party : published'[p].signedPreKey = published[p].signedPreKey
  BY <1>1, <1>2 DEF TypeOK, Bundle
<1>11. /\ Sound(addresses', ciphers, objects)
       /\ \A d \in Id : addresses[d] # None => addresses'[d] = addresses[d]
       /\ addresses'[DeviceId[b.party]] = AddressOf(b.party)
  BY <1>1, <1>4, <1>6, <1>8, CacheAddressFits DEF CachesSound
<1>12. CachesGrow /\ CachesSound'
  BY <1>9, <1>11 DEF CachesGrow, CachesSound
<1>13. CallFits(e)'
  <2>1. \A x \in all : Known(x.signedPreKey)'
    BY <1>1, <1>6, <1>9 DEF ChainsSound, Known
  <2>2. e.todo \cup {e.bundle} \subseteq all
    BY <1>7, <1>8
  <2> QED BY <2>1, <2>2, <1>7, <1>11 DEF CallFits, Loaded
<1>14. Held(e) = {} /\ ~Live(e)
  BY <1>7 DEF Held, Live
<1> QED
  BY <1>8, <1>9, <1>10, <1>12, <1>13, <1>14, StartFits

LEMMA EndTurnFits ==
    ASSUME DirectInv, DirectInv', KeysInv, StoreGrows, NEW f \in Flow, flow[f].kind = "establish",
           EndTurn(f), UNCHANGED records \/ \A g \in Flow \ {f} : flow[g] = Idle
    PROVE  /\ PageInv'
           /\ \E e : flow' = [flow EXCEPT ![f] = e] /\ Held(e) = {}
<1>1. TypeOK /\ TypeOK' /\ CacheTyped /\ CachesSound /\ flow \in [Flow -> FlowState]
  BY DEF DirectInv, PageTyped, FlowTyped, KeysInv, PageInv
<1>2. PICK e \in Establishing : e = flow[f] /\ CallSound(e) /\ CallFits(e) /\ e # Idle
  BY <1>1, FlowKinds DEF DirectInv, FlowTyped, KeysInv, PageInv, Idle, Establishing
<1>3. /\ e.kind = "establish" /\ e.bundle \in Bundles /\ e.todo \in SUBSET Bundles
      /\ e.address \in Party
      /\ \A b \in e.todo \cup {e.bundle} : b.party \in Party \ {Me} /\ b.signedPreKey \in Key
  BY <1>2 DEF Establishing, CallSound, Bundles
<1>4. PICK d \in Id : d = DeviceId[e.bundle.party]
  BY <1>1, <1>3, AddressOfType
<1>5. addresses[d] = e.address /\ EnsureCipher(d, addresses[d])
  BY <1>2, <1>3, <1>4 DEF CallFits, EndTurn
<1>6. Sound(addresses, ciphers', objects') /\ \A o \in 1 .. Len(objects) : objects'[o] = objects[o]
  <2>1. CASE ciphers[d] = 0
    <3>1. NewCipher(d, addresses[d]) /\ addresses[d] \in Party
      BY <2>1, <1>3, <1>5 DEF EnsureCipher
    <3> QED BY <2>1, <3>1, <1>1, NewCipherFits DEF CachesSound
  <2>2. CASE ciphers[d] # 0
    BY <2>2, <1>1, <1>5 DEF EnsureCipher, CachesSound
  <2> QED BY <2>1, <2>2
<1>7. ASSUME NEW b \in e.todo
      PROVE  Known(b.signedPreKey)'
  <2>1. PICK k \in Key : k = b.signedPreKey /\ Known(k)
    BY <1>2, <1>3 DEF CallFits
  <2>2. Known(k)'
    BY <2>1, <1>1, KnownStays DEF StoreGrows
  <2> QED BY <2>1, <2>2
<1>8. ASSUME NEW g \in Flow \ {f}, flow[g] # Idle
      PROVE  /\ ~Opening(flow[g]) /\ ~Opening(e)
             /\ Live(flow[g]) =>
                   records'[Me][objects[flow[g].object]] = records[Me][objects[flow[g].object]]
  BY <1>2, <1>8, OthersOpenNothing DEF KeysInv
<1>9. CASE e.todo = {}
  <2>1. flow' = [flow EXCEPT ![f] = Idle] /\ UNCHANGED addresses
    BY <1>2, <1>9 DEF EndTurn, Return
  <2>2. CachesGrow /\ CachesSound'
    BY <2>1, <1>6 DEF CachesGrow, CachesSound
  <2>3. PageInv'
    BY <2>1, <2>2, <1>8, IdleFits, PageStep DEF KeysInv
  <2>4. Held(Idle) = {}
    BY DEF Held, Idle
  <2> QED BY <2>1, <2>3, <2>4
<1>10. CASE e.todo # {}
  <2>1. PICK next \in NextBundle(e) :
          flow' = [flow EXCEPT ![f] = next] /\ CacheAddress(next.bundle.party)
    BY <1>2, <1>10 DEF EndTurn
  <2>2. /\ next \in Establishing /\ next.bundle \in e.todo /\ next.todo = e.todo \ {next.bundle}
        /\ next.bundle.party \in Party \ {Me}
        /\ next.address = AddressOf(next.bundle.party) /\ next.step = "existing"
    BY <1>1, <1>2, NextBundleType
  <2>3. next.kind = "establish" /\ next.todo \cup {next.bundle} \subseteq e.todo
    BY <2>2 DEF Establishing
  <2>4. PICK cip, obj : cip = ciphers' /\ obj = objects'
    OBVIOUS
  <2>5. Sound(addresses, cip, obj)
    BY <2>4, <1>6
  <2>6. PICK p \in Party \ {Me} : p = next.bundle.party
    BY <2>2
  <2>7. CacheAddress(p)
    BY <2>1, <2>6
  <2>8. /\ Sound(addresses', cip, obj)
        /\ \A x \in Id : addresses[x] # None => addresses'[x] = addresses[x]
        /\ addresses'[DeviceId[p]] = AddressOf(p)
    BY <2>5, <2>7, <1>1, CacheAddressFits
  <2>9. CachesGrow /\ CachesSound'
    BY <2>4, <2>8, <1>6 DEF CachesGrow, CachesSound
  <2>10. CallFits(next)'
    BY <2>2, <2>3, <2>6, <2>8, <1>7 DEF CallFits, Loaded
  <2>11. Opening(next)' => Opening(e)
    BY <2>3, <1>3 DEF Opening, StoreGrows
  <2>12. ~Live(next) /\ Held(next) = {}
    BY <2>3 DEF Live, Held
  <2>13. PageInv'
    BY <2>1, <2>9, <2>10, <2>11, <2>12, <1>8, PageStep DEF KeysInv
  <2> QED BY <2>1, <2>12, <2>13
<1> QED
  BY <1>9, <1>10

\* The session is stored into the record that was loaded: no other call is under way.
LEMMA EstablishStoreKeeps ==
    ASSUME DirectInv, DirectInv', KeysInv, NEW f \in Flow, EstablishStore(f)
    PROVE  /\ StoreGrows /\ ChainsMove /\ ChainsSound' /\ UNCHANGED sent
           /\ \A g \in Flow \ {f} : flow[g] = Idle
<1>1. TypeOK /\ TypeOK' /\ flow \in [Flow -> FlowState] /\ ChainInv
  BY MadeGivesChains DEF DirectInv, FlowTyped, KeysInv
<1>2. PICK e : e = flow[f] /\ e.kind = "establish" /\ e.step = "store"
  BY DEF EstablishStore, At
<1>3. e \in Establishing /\ CallFits(e)
  BY <1>1, <1>2, FlowKinds DEF KeysInv, PageInv
<1>4. PICK q \in Party, b \in Bundles : q = e.address /\ b = e.bundle
  BY <1>3 DEF Establishing
<1>5. /\ b.identity \in Key /\ b.preKey \in OptionalKey
      /\ e.record = records[Me][q] /\ records[Me][b.party] = FreshRecord
  BY <1>2, <1>3, <1>4 DEF Establishing, Bundles, CallFits
<1>6. PICK signed \in Key : signed = b.signedPreKey /\ Known(signed)
  BY <1>2, <1>3, <1>4 DEF Establishing, Bundles, CallFits
<1>7. PICK k0 \in Key, k1 \in Key : k0 = NewKey(Me, 0) /\ k1 = NewKey(Me, 1)
  BY <1>1, PageAssumption, NewKeyType
<1>8. PICK own \in Key, time \in Nat : own = identity[Me] /\ time = now
  BY <1>1, PageAssumption DEF TypeOK
<1>9. PICK s : s = InitializeAlice(own, b.identity, k0, k1, signed, b.preKey, time)
  OBVIOUS
<1>10. s \in Session /\ NewChain(s.sender, k1, signed)
  BY <1>5, <1>9, InitializeAliceProperties
<1>11. PICK r \in Record : r = records[Me][q]
  BY <1>1, PageAssumption, RecordType
<1>12. PICK new : new = PromoteState(r, s)
  OBVIOUS
<1>13. StoreSession(Me, q, new) /\ nextKey' = [nextKey EXCEPT ![Me] = @ + 2]
       /\ UNCHANGED <<sent, published>>
  BY <1>2, <1>4, <1>5, <1>6, <1>7, <1>8, <1>9, <1>11, <1>12 DEF EstablishStore, keyVars, historyVars
<1>14. /\ new.current = s /\ s # NoSession
       /\ SenderChains(new) \subseteq SenderChains(r) \cup {s.sender}
       /\ (/\ ChainsDistinct(r)
           /\ \A c \in SenderChains(r) : c.root # s.sender.root) => ChainsDistinct(new)
  BY <1>10, <1>12, PromoteStateProperties, SentinelAssumption
<1>15. /\ \A x \in Party : nextKey[x] <= nextKey'[x]
       /\ nextKey'[Me] > nextKey[Me] + 1
  BY <1>1, <1>13, PageAssumption DEF TypeOK
<1>16. SplitOff(s.sender)
  <2>1. NewChain(s.sender, NewKey(Me, 1), signed)
    BY <1>7, <1>10
  <2> QED BY <2>1, <1>1, <1>6, <1>15, PageAssumption, NewChainSplitOff
<1>17. \A x, y \in Party : records'[x][y] = IF x = Me /\ y = q THEN new ELSE records[x][y]
  BY <1>1, <1>13, PageAssumption DEF TypeOK, StoreSession
<1>18. \A c \in SenderChains(r) : c.root # s.sender.root
  BY <1>1, <1>11, <1>16, PageAssumption DEF ChainInv, KeysKnown, KnownChain, SplitOff
<1>19. \A x, y \in Party : ChainsDistinct(records'[x][y])
  BY <1>1, <1>11, <1>14, <1>17, <1>18 DEF ChainInv, ChainsApart
<1>20. \A x, y \in Party : \A c \in SenderChains(records'[x][y]) :
          c \in SenderChains(records[x][y]) \/ (x = Me /\ y = q /\ SplitOff(c))
  BY <1>11, <1>14, <1>16, <1>17
<1>21. \A x \in Party : Known(published[x].signedPreKey)'
  <2>1. ASSUME NEW x \in Party
        PROVE  Known(published[x].signedPreKey)'
    <3>1. PICK k \in Key : k = published[x].signedPreKey /\ Known(k)
      BY <1>1 DEF TypeOK, Bundle, ChainInv, KeysKnown
    <3>2. Known(k)'
      BY <3>1, <1>1, <1>15, KnownStays
    <3> QED BY <3>1, <3>2, <1>13
  <2> QED BY <2>1
<1>22. ChainInv' /\ ChainsSound'
  <2>1. PICK p \in Party : p = Me
    BY PageAssumption
  <2>2. \A x, y \in Party : \A c \in SenderChains(records'[x][y]) :
          c \in SenderChains(records[x][y]) \/ (x = p /\ y = q /\ SplitOff(c))
    BY <2>1, <1>20
  <2>3. ChainInv'
    BY <2>2, <1>1, <1>13, <1>15, <1>19, <1>21, ChainStep
  <2> QED BY <2>3 DEF ChainInv, ChainsSound, KeysKnown
<1>23. ChainsMove
  BY <1>15, <1>20 DEF ChainsMove, ChainMoves
<1>24. StoreGrows
  <2>1. new # FreshRecord
    BY <1>14 DEF FreshRecord
  <2> QED BY <2>1, <1>15, <1>17, PageAssumption DEF StoreGrows
<1>25. Opening(flow[f])
  BY <1>2, <1>4, <1>5 DEF Opening
<1> QED
  BY <1>13, <1>22, <1>23, <1>24, <1>25 DEF KeysInv, PageInv, OpensAlone

LEMMA EstablishFits ==
    ASSUME ~OpeningRace, DirectInv, DirectInv', KeysInv, NEW f \in Flow, Establish(f)
    PROVE  KeysInv'
<1>1. CASE StartEstablish(f)
  BY <1>1, StartEstablishFits
<1> SUFFICES ASSUME ~StartEstablish(f)
             PROVE  KeysInv'
  BY <1>1
<1>2. PICK e : e = flow[f] /\ e.kind = "establish"
  BY DEF Establish, At, EstablishNeedless, EstablishNeeded, EstablishTrust, EstablishLoad,
         EstablishSave, EstablishStore
<1>3. /\ e \in Establishing /\ CallFits(e) /\ e # Idle /\ flow \in [Flow -> FlowState]
      /\ flow[f].kind # "idle" /\ TypeOK /\ TypeOK' /\ e.record \in Record /\ MadeInv
  BY <1>2, FlowKinds DEF KeysInv, PageInv, DirectInv, FlowTyped, Idle, Establishing
<1>4. CASE EstablishNeedless(f)
  <2>1. UNCHANGED <<records, nextKey, sent, published>> /\ EndTurn(f)
    BY <1>4 DEF EstablishNeedless, vars, keyVars, sessionVars, historyVars
  <2>2. StoreGrows
    BY <2>1, <1>3 DEF StoreGrows, TypeOK
  <2>3. PageInv' /\ \E c : flow' = [flow EXCEPT ![f] = c] /\ Held(c) = {}
    BY <2>1, <2>2, <1>2, EndTurnFits
  <2>4. PICK c : flow' = [flow EXCEPT ![f] = c] /\ Held(c) = {}
    BY <2>3
  <2>5. Made' \subseteq Made \cup {}
    BY <2>1, <2>4, <1>3, MadeMoves
  <2>6. MadeInv'
    BY <2>1, <2>5, <1>3, QuietMade
  <2> QED BY <2>3, <2>6 DEF KeysInv
<1>5. CASE EstablishStore(f)
  <2>1. /\ StoreGrows /\ ChainsMove /\ ChainsSound' /\ UNCHANGED sent
        /\ \A g \in Flow \ {f} : flow[g] = Idle
    BY <1>5, EstablishStoreKeeps
  <2>2. PageInv' /\ \E c : flow' = [flow EXCEPT ![f] = c] /\ Held(c) = {}
    BY <2>1, <1>2, <1>5, EndTurnFits DEF EstablishStore
  <2>3. PICK c : flow' = [flow EXCEPT ![f] = c] /\ Held(c) = {}
    BY <2>2
  <2>4. Made' \subseteq Made \cup {}
    BY <2>1, <2>3, <1>3, MadeMoves
  <2>5. MadeInv'
    BY <2>1, <2>4, <1>3, MovedMade
  <2> QED BY <2>2, <2>5 DEF KeysInv
<1>6. CASE EstablishNeeded(f) \/ EstablishTrust(f) \/ EstablishLoad(f) \/ EstablishSave(f)
  <2>1. UNCHANGED <<records, nextKey, sent, published, cacheVars>>
    BY <1>6 DEF EstablishNeeded, EstablishTrust, EstablishLoad, EstablishSave,
                vars, keyVars, sessionVars, historyVars
  <2>2. PICK c : /\ flow' = [flow EXCEPT ![f] = c] /\ CallFits(c)
                 /\ c = Idle \/ /\ c.kind = "establish" /\ c.todo = e.todo /\ c.bundle = e.bundle
                                /\ e.kind = "establish"
    <3>1. CASE EstablishTrust(f) /\ Return(f)
      BY <3>1, IdleFits DEF Return
    <3>2. ASSUME NEW step \in {"trust", "load", "save", "store"}, NEW r \in Record,
                 flow' = [flow EXCEPT ![f] = Moved(e, step, r)],
                 records[Me][e.bundle.party] = FreshRecord,
                 step \in {"save", "store"} => r = records[Me][e.address]
          PROVE  \E c : /\ flow' = [flow EXCEPT ![f] = c] /\ CallFits(c)
                        /\ c = Idle \/ /\ c.kind = "establish" /\ c.todo = e.todo
                                       /\ c.bundle = e.bundle /\ e.kind = "establish"
      <4>1. PICK c : c = Moved(e, step, r)
        OBVIOUS
      <4>2. /\ c.kind = "establish" /\ c.step = step /\ c.todo = e.todo /\ c.bundle = e.bundle
            /\ c.address = e.address /\ c.record = r
        BY <4>1, <1>3 DEF Moved, Establishing
      <4>3. CallFits(c)
        BY <4>2, <3>2, <1>2, <1>3 DEF CallFits, Loaded
      <4> QED BY <4>1, <4>2, <4>3, <3>2, <1>2
    <3>3. CASE EstablishNeeded(f)
      <4>1. flow' = [flow EXCEPT ![f] = Moved(e, "trust", e.record)]
        BY <3>3, <1>2, <1>3, GoMoves DEF EstablishNeeded
      <4>2. records[Me][e.bundle.party] = FreshRecord
        BY <3>3, <1>2 DEF EstablishNeeded, HasSession
      <4> QED BY <4>1, <4>2, <3>2, <1>3
    <3>4. CASE EstablishTrust(f) /\ Go(f, "load")
      <4>1. flow' = [flow EXCEPT ![f] = Moved(e, "load", e.record)]
        BY <3>4, <1>2, <1>3, GoMoves
      <4>2. records[Me][e.bundle.party] = FreshRecord
        BY <3>4, <1>2, <1>3 DEF EstablishTrust, At, CallFits
      <4> QED BY <4>1, <4>2, <3>2, <1>3
    <3>5. CASE EstablishLoad(f)
      <4>1. PICK r \in Record : r = records[Me][e.address]
        BY <1>3, PageAssumption, RecordType DEF Establishing
      <4>2. flow' = [flow EXCEPT ![f] = Moved(e, "save", r)]
        BY <4>1, <3>5, <1>2, <1>3, GoMoves DEF EstablishLoad
      <4>3. records[Me][e.bundle.party] = FreshRecord
        BY <3>5, <1>2, <1>3 DEF EstablishLoad, At, CallFits
      <4> QED BY <4>1, <4>2, <4>3, <3>2
    <3>6. CASE EstablishSave(f)
      <4>1. flow' = [flow EXCEPT ![f] = Moved(e, "store", e.record)]
        BY <3>6, <1>2, <1>3, GoMoves DEF EstablishSave
      <4>2. records[Me][e.bundle.party] = FreshRecord /\ e.record = records[Me][e.address]
        BY <3>6, <1>2, <1>3 DEF EstablishSave, At, CallFits
      <4> QED BY <4>1, <4>2, <3>2, <1>3
    <3> QED BY <1>6, <3>1, <3>3, <3>4, <3>5, <3>6 DEF EstablishTrust
  <2>3. Held(c) = {} /\ ~Live(c) /\ (Opening(c) => Opening(e))
    BY <2>2 DEF Held, Live, Opening, Idle
  <2>4. \A p \in Party : published'[p].signedPreKey = published[p].signedPreKey
    BY <2>1
  <2>5. Held(c) \subseteq Held(e) /\ sent' \subseteq sent \cup Held(e)
    BY <2>1, <2>3
  <2> QED BY <2>1, <2>2, <2>3, <2>4, <2>5, <1>2, <1>3, QuietFits
<1> QED
  BY <1>4, <1>5, <1>6 DEF Establish

-----------------------------------------------------------------------------
(* encryptMessage keeps apart                                              *)

\* the ciphertext of a turn is labelled for one device
LEMMA OneSlice ==
    ASSUME NEW e, NEW m1 \in Slices(e), NEW m2 \in Slices(e)
    PROVE  m1 = m2
<1>1. PICK p \in Devices(e.remote) :
        m1 = [Ciphertext(Me, p, e.record.current) EXCEPT !.text = e.text] /\ DeviceId[p] = e.device
  BY DEF Slices
<1>2. PICK q \in Devices(e.remote) :
        m2 = [Ciphertext(Me, q, e.record.current) EXCEPT !.text = e.text] /\ DeviceId[q] = e.device
  BY DEF Slices
<1>3. p = q
  BY <1>1, <1>2, PageAssumption DEF Devices
<1> QED
  BY <1>1, <1>2, <1>3

\* at most one message is made from the chain d, and the chain moves past it
MadeOn(S, d) ==
    /\ \A m \in S : m.ratchet = d.ratchet /\ m.key.root = d.root /\ m.key.index = d.index
    /\ \A m1, m2 \in S : m1 = m2
MovesPast(d) ==
    \A x, y \in Party : \A c \in SenderChains(records'[x][y]) :
       c.root = d.root => c.index = d.index + 1

LEMMA NewMade ==
    ASSUME TypeOK, TypeOK', flow \in [Flow -> FlowState], MadeInv, ChainsMove, ChainsSound',
           NEW p \in Party, NEW q \in Party, NEW d \in SenderChains(records[p][q]), MovesPast(d),
           NEW S, MadeOn(S, d), Made' \subseteq Made \cup S
    PROVE  MadeInv'
<1>1. d \in SenderChain /\ d.index \in Nat /\ d.ratchet \in Key /\ d.root \in RootKey
  BY ChainType DEF SenderChain
<1>2. KnownChain(d.ratchet, d.root)
  BY DEF MadeInv, ChainsSound
<1>3. KnownChain(d.ratchet, d.root)'
  BY <1>1, <1>2, KnownGrows DEF ChainsMove
<1>4. ASSUME NEW m \in Made'
      PROVE  Behind(m)'
  <2>1. CASE m \in S
    BY <2>1, <1>1, <1>3 DEF Behind, MadeOn, MovesPast
  <2>2. CASE m \in Made
    <3>1. m \in Message /\ Behind(m)
      BY <2>2, MadeType DEF MadeInv
    <3> QED BY <3>1, MessageStays DEF Behind
  <2> QED BY <2>1, <2>2
<1>5. ASSUME NEW m1 \in Made, NEW m2 \in S
      PROVE  m1.key # m2.key
  <2>1. d.root = m1.key.root => d.index > m1.key.index
    BY DEF MadeInv, Behind
  <2> QED BY <2>1, <1>1 DEF MadeOn
<1>6. KeysDiffer(Made)'
  BY <1>5 DEF MadeInv, KeysDiffer, MadeOn
<1> QED
  BY <1>4, <1>6 DEF MadeInv

LEMMA EncryptStoreFits ==
    ASSUME DirectInv, DirectInv', KeysInv, NEW f \in Flow, EncryptStore(f)
    PROVE  KeysInv'
<1>1. /\ TypeOK /\ TypeOK' /\ CacheTyped /\ CachesSound /\ flow \in [Flow -> FlowState]
      /\ ChainInv /\ MadeInv
  BY MadeGivesChains DEF DirectInv, PageTyped, FlowTyped, KeysInv, PageInv
<1>2. PICK e : e = flow[f] /\ e.kind = "encrypt" /\ e.step = "store"
  BY DEF EncryptStore, At
<1>3. e \in Encrypting /\ CallFits(e) /\ CallSound(e) /\ e # Idle
  BY <1>1, <1>2, FlowKinds DEF KeysInv, PageInv, DirectInv, FlowTyped, Idle
<1>4. e.object \in 1 .. Len(objects) /\ e.record.current # NoSession
  BY <1>2, <1>3 DEF CallSound
<1>5. PICK a \in Party : a = objects[e.object] /\ CallAddress(f) = a
  BY <1>1, <1>2, <1>4 DEF CallAddress, CacheTyped
<1>6. e.record = records[Me][a]
  BY <1>2, <1>3, <1>5 DEF CallFits, Loaded
<1>7. PICK s : s = e.record.current
  OBVIOUS
<1>8. s = records[Me][a].current /\ s # NoSession
  BY <1>4, <1>6, <1>7
<1>9. StoreSession(Me, a, [records[Me][a] EXCEPT !.current = AdvanceSenderChain(s)])
  BY <1>2, <1>5, <1>6, <1>8 DEF EncryptStore
<1>10. UNCHANGED <<published, nextKey, sent, cacheVars>>
  BY DEF EncryptStore, keyVars, historyVars
<1>11. /\ s \in Session /\ s.sender \in SenderChains(records[Me][a])
       /\ \A x, y \in Party : \A c \in SenderChains(records'[x][y]) : KnownChain(c.ratchet, c.root)'
       /\ \A x \in Party : Known(published[x].signedPreKey)'
       /\ ChainsApart' /\ ChainsMove
       /\ \A x, y \in Party : \A c \in SenderChains(records'[x][y]) :
             c.root = s.sender.root => c.index = s.sender.index + 1
  <2>1. PICK p \in Party : p = Me
    BY PageAssumption
  <2>2. /\ s = records[p][a].current /\ UNCHANGED <<published, nextKey>>
        /\ StoreSession(p, a, [records[p][a] EXCEPT !.current = AdvanceSenderChain(s)])
    BY <2>1, <1>8, <1>9, <1>10
  <2> QED BY <2>1, <2>2, <1>1, <1>8, AdvanceChains
<1>12. ChainsSound'
  BY <1>11 DEF ChainsSound
<1>13. PICK slices : slices = Slices(e)
  OBVIOUS
<1>14. PICK c : c = [e EXCEPT !.slices = @ \cup slices]
  OBVIOUS
<1>15. slices \in SUBSET Message /\ \A m \in slices : m.from # m.to
  BY <1>1, <1>3, <1>4, <1>13, SlicesType DEF Devices
<1>16. /\ c \in Encrypting /\ c.kind = "encrypt" /\ c.object = e.object /\ c.record = e.record
       /\ c.slices = e.slices \cup slices /\ c.step = "store"
  BY <1>2, <1>3, <1>14, <1>15 DEF Encrypting
<1>17. CallSound(c)
  BY <1>2, <1>3, <1>4, <1>15, <1>16 DEF CallSound, Deciphered
<1>18. PICK next \in NextCipher(c) : flow' = [flow EXCEPT ![f] = next]
  BY <1>2, <1>13, <1>14 DEF EncryptStore
<1>19. \/ next = Idle
       \/ next.kind = "encrypt" /\ next.step = "emit" /\ next.slices = c.slices
       \/ /\ next.kind = "encrypt" /\ next.step = "load" /\ next.slices = c.slices
          /\ ~Borrowed(next.object)
  BY <1>1, <1>16, <1>17, NextCipherType
<1>20. /\ Held(next) \subseteq Held(e) \cup slices /\ ~Opening(next)' /\ CallFits(next)'
       /\ Live(next) => ~Borrowed(next.object)
  BY <1>2, <1>16, <1>19, IdleFits DEF Held, Opening, CallFits, Loaded, Live, Idle
<1>21. MadeInv'
  <2>1. Made' \subseteq Made \cup slices
    BY <1>1, <1>2, <1>10, <1>18, <1>20, MadeMoves
  <2>2. \A m \in slices : /\ m.ratchet = s.sender.ratchet /\ m.key.root = s.sender.root
                          /\ m.key.index = s.sender.index
    <3> SUFFICES ASSUME NEW m \in slices
                 PROVE  /\ m.ratchet = s.sender.ratchet /\ m.key.root = s.sender.root
                        /\ m.key.index = s.sender.index
      OBVIOUS
    <3>1. PICK p : m = Slice(p, s, e.text)
      BY <1>7, <1>13 DEF Slices, Slice
    <3> QED BY <3>1, SliceFields DEF Slice, Ciphertext
  <2>3. \A m1, m2 \in slices : m1 = m2
    BY <1>13, OneSlice
  <2>4. PICK p \in Party : p = Me
    BY PageAssumption
  <2>5. PICK d \in SenderChains(records[p][a]) : d = s.sender
    BY <2>4, <1>11
  <2>6. MovesPast(d)
    BY <2>5, <1>11 DEF MovesPast
  <2>7. MadeOn(slices, d)
    BY <2>2, <2>3, <2>5 DEF MadeOn
  <2>8. ChainsMove
    BY <1>11
  <2> QED BY <2>1, <2>6, <2>7, <2>8, <1>1, <1>12, NewMade
<1>22. StoreGrows
  <2>1. PICK t : t = AdvanceSenderChain(s)
    OBVIOUS
  <2>2. t \in Session /\ t # NoSession
    BY <2>1, <1>11, AdvanceSenderChainType, SentinelAssumption
  <2>3. PICK r \in Record : r = records[Me][a]
    BY <1>1, PageAssumption, RecordType
  <2>4. PICK new : new = [r EXCEPT !.current = t]
    OBVIOUS
  <2>5. new.current = t /\ new # FreshRecord
    BY <2>2, <2>3, <2>4 DEF Record, FreshRecord
  <2>6. \A y \in Party : records'[Me][y] = IF y = a THEN new ELSE records[Me][y]
    BY <2>1, <2>3, <2>4, <1>1, <1>9, PageAssumption DEF TypeOK, StoreSession
  <2>7. \A x \in Party : nextKey[x] <= nextKey'[x]
    BY <1>11 DEF ChainsMove
  <2> QED BY <2>5, <2>6, <2>7 DEF StoreGrows
<1>23. CachesGrow /\ CachesSound'
  BY <1>1, <1>10 DEF CachesGrow, CachesSound, cacheVars
<1>24. ASSUME NEW g \in Flow \ {f}, flow[g] # Idle
       PROVE  /\ ~Opening(flow[g]) /\ ~Opening(next)'
              /\ Live(flow[g]) =>
                    /\ records'[Me][objects[flow[g].object]] = records[Me][objects[flow[g].object]]
                    /\ Live(next) => flow[g].object # next.object
  <2>1. ~Opening(flow[g])
    BY <1>2, <1>3, <1>24, OthersOpenNothing DEF KeysInv
  <2>2. ASSUME Live(flow[g]), Live(next)
        PROVE  flow[g].object # next.object
    BY <2>2, <1>20 DEF Borrowed, Live
  <2>3. ASSUME Live(flow[g])
        PROVE  records'[Me][objects[flow[g].object]] = records[Me][objects[flow[g].object]]
    <3>1. Live(flow[f]) /\ objects[flow[f].object] = a
      BY <1>2, <1>5 DEF Live
    <3>2. objects[flow[g].object] # a
      BY <2>3, <3>1, CallsApart DEF KeysInv
    <3> QED BY <3>2, <1>1, <1>9, PageAssumption DEF TypeOK, StoreSession
  <2> QED BY <2>1, <2>2, <2>3, <1>20
<1>25. PageInv'
  BY <1>18, <1>20, <1>22, <1>23, <1>24, PageStep DEF KeysInv
<1> QED
  BY <1>21, <1>25 DEF KeysInv

LEMMA StartEncryptFits ==
    ASSUME ~OpeningRace, DirectInv, DirectInv', KeysInv, NEW f \in Flow, StartEncrypt(f)
    PROVE  KeysInv'
<1>1. PICK d \in Cached :
        /\ ~Borrowed(ciphers[d])
        /\ Starts(f, [kind |-> "encrypt", step |-> "load", remote |-> remote,
                      text |-> texts[Me], done |-> {d}, device |-> d, object |-> ciphers[d],
                      record |-> FreshRecord, slices |-> {}])
  BY DEF StartEncrypt
<1>2. PICK e : e = [kind |-> "encrypt", step |-> "load", remote |-> remote,
                    text |-> texts[Me], done |-> {d}, device |-> d, object |-> ciphers[d],
                    record |-> FreshRecord, slices |-> {}]
  OBVIOUS
<1>3. Starts(f, e) /\ Held(e) = {} /\ ~Borrowed(e.object) /\ CallFits(e)'
  BY <1>1, <1>2 DEF Held, CallFits, Loaded
<1>4. UNCHANGED <<records, nextKey, sent, published, cacheVars>>
  BY DEF StartEncrypt, keyVars, sessionVars
<1>5. CachesGrow /\ CachesSound'
  BY <1>4 DEF CachesGrow, CachesSound, cacheVars, KeysInv, PageInv
<1>6. \A p \in Party : published'[p].signedPreKey = published[p].signedPreKey
  BY <1>4
<1>7. UNCHANGED <<records, nextKey, sent>>
  BY <1>4
<1> QED
  BY <1>3, <1>5, <1>6, <1>7, StartFits

LEMMA EncryptFits ==
    ASSUME ~OpeningRace, DirectInv, DirectInv', KeysInv, NEW f \in Flow, EncryptMessage(f)
    PROVE  KeysInv'
<1>1. CASE StartEncrypt(f) \/ EncryptStore(f)
  BY <1>1, StartEncryptFits, EncryptStoreFits
<1> SUFFICES ASSUME ~StartEncrypt(f), ~EncryptStore(f)
             PROVE  KeysInv'
  BY <1>1
<1>2. PICK e : e = flow[f] /\ e.kind = "encrypt" /\ e.step \in {"load", "trust", "save", "emit"}
  BY DEF EncryptMessage, At, EncryptLoad, EncryptTrust, EncryptSave, Emit
<1>3. /\ e \in Encrypting /\ CallFits(e) /\ CallSound(e) /\ e # Idle
      /\ flow \in [Flow -> FlowState] /\ flow[f].kind # "idle" /\ TypeOK /\ CacheTyped
      /\ e.record \in Record /\ Me \in Party
  BY <1>2, FlowKinds, PageAssumption
  DEF KeysInv, PageInv, DirectInv, FlowTyped, PageTyped, Idle, Encrypting
<1>4. UNCHANGED <<records, nextKey, published, cacheVars>>
  BY DEF EncryptMessage, EncryptLoad, EncryptTrust, EncryptSave, Emit,
         vars, keyVars, sessionVars, historyVars
<1>5. \A p \in Party : published'[p].signedPreKey = published[p].signedPreKey
  BY <1>4
<1>6. PICK a \in Party : a = objects[e.object] /\ CallAddress(f) = a
  BY <1>2, <1>3 DEF CallSound, CallAddress, CacheTyped
<1>7. ASSUME Return(f), sent' \subseteq sent \cup Held(e)
      PROVE  KeysInv'
  <2>1. flow' = [flow EXCEPT ![f] = Idle]
    BY <1>7 DEF Return
  <2>2. Held(Idle) \subseteq Held(e)
    BY DEF Held, Idle
  <2> QED BY <2>1, <2>2, <1>2, <1>3, <1>4, <1>5, <1>7, IdleFits, QuietFits
<1>8. ASSUME NEW step \in {"trust", "save", "store"}, NEW r \in Record,
             flow' = [flow EXCEPT ![f] = Moved(e, step, r)], UNCHANGED sent,
             r = records[Me][a], e.step # "emit"
      PROVE  KeysInv'
  <2>1. PICK c : c = Moved(e, step, r)
    OBVIOUS
  <2>2. /\ c.kind = "encrypt" /\ c.step = step /\ c.object = e.object /\ c.slices = e.slices
        /\ c.record = r
    BY <2>1, <1>3 DEF Moved, Encrypting
  <2>3. CallFits(c)
    BY <2>2, <1>6, <1>8 DEF CallFits, Loaded
  <2>4. Held(c) \subseteq Held(e) /\ ~Opening(c) /\ (Live(c) => Live(e) /\ c.object = e.object)
    BY <2>2, <1>2, <1>8 DEF Held, Opening, Live
  <2>5. flow' = [flow EXCEPT ![f] = c] /\ sent' \subseteq sent \cup Held(e)
    BY <2>1, <1>8
  <2> QED BY <2>3, <2>4, <2>5, <1>2, <1>3, <1>4, <1>5, QuietFits
<1>9. CASE EncryptLoad(f)
  <2>1. PICK r \in Record : r = records[Me][a]
    BY <1>3, RecordType
  <2>2. UNCHANGED sent /\ e.step = "load"
    BY <1>2, <1>9 DEF EncryptLoad, At, vars, historyVars
  <2>3. CASE Return(f)
    BY <2>2, <2>3, <1>7
  <2>4. CASE GoWith(f, "trust", r)
    <3>1. flow' = [flow EXCEPT ![f] = Moved(e, "trust", r)]
      BY <2>4, <1>2, <1>3, GoMoves
    <3> QED BY <3>1, <2>1, <2>2, <1>8
  <2> QED BY <2>1, <2>3, <2>4, <1>6, <1>9 DEF EncryptLoad
<1>10. ASSUME e.step \in {"trust", "save"}
       PROVE  e.record = records[Me][a]
  BY <1>2, <1>3, <1>6, <1>10 DEF CallFits, Loaded
<1>11. CASE EncryptTrust(f)
  <2>1. UNCHANGED sent /\ e.step = "trust"
    BY <1>2, <1>11 DEF EncryptTrust, At, vars, historyVars
  <2>2. CASE Return(f)
    BY <2>1, <2>2, <1>7
  <2>3. CASE Go(f, "save")
    <3>1. flow' = [flow EXCEPT ![f] = Moved(e, "save", e.record)]
      BY <2>3, <1>2, <1>3, GoMoves
    <3> QED BY <3>1, <2>1, <1>3, <1>8, <1>10
  <2> QED BY <2>2, <2>3, <1>11 DEF EncryptTrust
<1>12. CASE EncryptSave(f)
  <2>1. UNCHANGED sent /\ e.step = "save"
    BY <1>2, <1>12 DEF EncryptSave, At, historyVars
  <2>2. flow' = [flow EXCEPT ![f] = Moved(e, "store", e.record)]
    BY <1>2, <1>3, <1>12, GoMoves DEF EncryptSave
  <2> QED BY <2>1, <2>2, <1>3, <1>8, <1>10
<1>13. CASE Emit(f)
  BY <1>2, <1>7, <1>13 DEF Emit, Held
<1> QED
  BY <1>9, <1>11, <1>12, <1>13 DEF EncryptMessage

-----------------------------------------------------------------------------
(* decryptMessage keeps apart                                              *)

LEMMA StartDecryptFits ==
    ASSUME ~OpeningRace, DirectInv, DirectInv', KeysInv, NEW f \in Flow, NEW m \in sent,
           StartDecrypt(f, m)
    PROVE  KeysInv'
<1>1. PICK o : o = ciphers[DeviceId[m.from]]
  OBVIOUS
<1>2. PICK e : e = [kind |-> "decrypt", step |-> IF o = 0 THEN "lookup" ELSE "load",
                    message |-> m, object |-> o, record |-> FreshRecord]
  OBVIOUS
<1>3. Starts(f, e) /\ ~Borrowed(e.object) /\ Held(e) = {}
  BY <1>1, <1>2 DEF StartDecrypt, Held
<1>4. UNCHANGED <<records, nextKey, sent, published, cacheVars>>
  BY DEF StartDecrypt, vars, keyVars, sessionVars, historyVars
<1>5. CallFits(e)'
  <2>1. UNCHANGED ciphers
    BY <1>4 DEF cacheVars
  <2>2. /\ e.kind = "decrypt" /\ e.message = m /\ e.step \in {"lookup", "load"}
        /\ e.step = "lookup" => o = 0
    BY <1>2
  <2> QED BY <2>1, <2>2, <1>1 DEF CallFits, Loaded
<1>6. CachesGrow /\ CachesSound'
  BY <1>4 DEF CachesGrow, CachesSound, cacheVars, KeysInv, PageInv
<1>7. \A p \in Party : published'[p].signedPreKey = published[p].signedPreKey
  BY <1>4
<1>8. UNCHANGED <<records, nextKey, sent>>
  BY <1>4
<1> QED
  BY <1>3, <1>5, <1>6, <1>7, <1>8, StartFits

\* A cipher is made, or the call returns, while no other call is under way.
LEMMA LookupFits ==
    ASSUME DirectInv, DirectInv', KeysInv, NEW f \in Flow, DecryptLookup(f)
    PROVE  KeysInv'
<1>1. /\ TypeOK /\ CacheTyped /\ CachesSound /\ flow \in [Flow -> FlowState] /\ MadeInv
  BY DEF DirectInv, PageTyped, FlowTyped, KeysInv, PageInv
<1>2. PICK e : e = flow[f] /\ e.kind = "decrypt" /\ e.step = "lookup"
  BY DEF DecryptLookup, At
<1>3. e \in Decrypting /\ CallSound(e) /\ CallFits(e) /\ e # Idle
  BY <1>1, <1>2, FlowKinds DEF DirectInv, FlowTyped, KeysInv, PageInv, Idle
<1>4. PICK m \in Message : m = e.message /\ m \in sent /\ m.to = Me
  BY <1>2, <1>3 DEF CallSound, Decrypting
<1>5. PICK p \in Party \ {Me} : p = m.from
  BY <1>4, MessageFields DEF DirectInv, NoneToSelf
<1>6. UNCHANGED <<records, nextKey, sent, published>>
  BY DEF DecryptLookup, vars, keyVars, sessionVars, historyVars
<1>7. \A x \in Party : published'[x].signedPreKey = published[x].signedPreKey
  BY <1>6
<1>8. CASE Return(f) /\ UNCHANGED cacheVars
  <2>1. flow' = [flow EXCEPT ![f] = Idle]
    BY <1>8 DEF Return
  <2>2. Held(Idle) \subseteq Held(e) /\ sent' \subseteq sent \cup Held(e)
    BY <1>6 DEF Held, Idle
  <2>3. UNCHANGED <<records, nextKey, cacheVars>>
    BY <1>6, <1>8
  <2> QED BY <2>1, <2>2, <2>3, <1>2, <1>3, <1>7, IdleFits, QuietFits
<1>9. CASE /\ CacheAddress(m.from)
           /\ NewCipher(DeviceId[m.from], AddressOf(m.from))
           /\ flow' = [flow EXCEPT ![f].step = "load", ![f].object = Len(objects) + 1]
  <2>1. PICK d \in Id : d = DeviceId[p]
    BY <1>1, AddressOfType
  <2>2. ciphers[d] = 0
    BY <2>1, <1>2, <1>3, <1>4, <1>5 DEF CallFits
  <2>3. PICK adr : adr = addresses'
    OBVIOUS
  <2>4. Sound(addresses, ciphers, objects) /\ CacheAddress(p)
    BY <1>1, <1>5, <1>9 DEF CachesSound
  <2>5. /\ Sound(addresses', ciphers, objects)
        /\ \A x \in Id : addresses[x] # None => addresses'[x] = addresses[x]
        /\ addresses'[DeviceId[p]] = AddressOf(p) /\ AddressOf(p) \in Party
    BY <2>4, <1>1, CacheAddressFits
  <2>6. Sound(adr, ciphers, objects) /\ adr[d] \in Party /\ NewCipher(d, adr[d])
    BY <2>1, <2>3, <2>5, <1>5, <1>9
  <2>7. Sound(adr, ciphers', objects') /\ \A o \in 1 .. Len(objects) : objects'[o] = objects[o]
    BY <2>2, <2>6, <1>1, NewCipherFits
  <2>8. CachesGrow /\ CachesSound'
    BY <2>3, <2>5, <2>7 DEF CachesGrow, CachesSound
  <2>9. PICK o : o = Len(objects) + 1
    OBVIOUS
  <2>10. PICK c : c = [e EXCEPT !.step = "load", !.object = o]
    OBVIOUS
  <2>11. flow' = [flow EXCEPT ![f] = c]
    BY <2>9, <2>10, <1>2, <1>9
  <2>12. c.kind = "decrypt" /\ c.step = "load" /\ c.object = o
    BY <2>10, <1>3 DEF Decrypting
  <2>13. CallFits(c)' /\ Held(c) = {}
    BY <2>12 DEF CallFits, Loaded, Held
  <2>14. ASSUME NEW g \in Flow \ {f}
         PROVE  flow[g] = Idle
    <3>1. Opening(flow[f])
      BY <1>2 DEF Opening
    <3> QED BY <3>1 DEF KeysInv, PageInv, OpensAlone
  <2>15. StoreGrows
    BY <1>1, <1>6 DEF StoreGrows, TypeOK
  <2>16. PageInv'
    BY <2>8, <2>11, <2>13, <2>14, <2>15, PageStep DEF KeysInv
  <2>17. Made' \subseteq Made \cup {}
    BY <2>11, <2>13, <1>1, <1>6, MadeMoves
  <2>18. MadeInv'
    BY <2>17, <1>1, <1>6, <1>7, QuietMade
  <2> QED BY <2>16, <2>18 DEF KeysInv
<1> QED
  BY <1>2, <1>4, <1>8, <1>9 DEF DecryptLookup

\* The record that is stored derives from the one that was loaded, which no other
\* call has stored to since.
LEMMA DecryptStoreFits ==
    ASSUME DirectInv, DirectInv', KeysInv, NEW f \in Flow, DecryptStore(f)
    PROVE  KeysInv'
<1>1. /\ TypeOK /\ TypeOK' /\ CacheTyped /\ CachesSound /\ flow \in [Flow -> FlowState]
      /\ ChainInv /\ MadeInv
  BY MadeGivesChains DEF DirectInv, PageTyped, FlowTyped, KeysInv, PageInv
<1>2. PICK e : e = flow[f] /\ e.kind = "decrypt" /\ e.step = "store"
  BY DEF DecryptStore, At
<1>3. e \in Decrypting /\ CallSound(e) /\ CallFits(e) /\ e # Idle
  BY <1>1, <1>2, FlowKinds DEF DirectInv, FlowTyped, KeysInv, PageInv, Idle
<1>4. PICK m \in Message : m = e.message /\ m \in sent /\ m.to = Me
  BY <1>2, <1>3 DEF CallSound, Decrypting
<1>5. m.ratchet \in Key /\ Known(m.ratchet)
  BY <1>1, <1>4, MessageFields DEF ChainInv, KeysKnown, KnownChain
<1>6. PICK a \in Party : a = objects[e.object] /\ CallAddress(f) = a
  BY <1>1, <1>2, <1>3 DEF CallSound, CallAddress, CacheTyped
<1>7. PICK old \in Record : old = records[Me][a]
  BY <1>1, PageAssumption, RecordType
<1>8. e.record = old /\ Result(e).verdict = "ok"
  BY <1>2, <1>3, <1>6, <1>7 DEF CallFits, Loaded, CallSound, Deciphered
<1>9. PICK r : r = Result(e).record
  OBVIOUS
<1>10. Derives(old, r, m, NewKey(Me, 0))
  BY <1>1, <1>4, <1>8, <1>9, ResultDerives
<1>11. StoreSession(Me, a, r) /\ UseNewKey(Me, m.from, r) /\ flow' = [flow EXCEPT ![f] = Idle]
       /\ UNCHANGED <<sent, published, cacheVars>>
  BY <1>2, <1>4, <1>6, <1>9 DEF DecryptStore, Return, keyVars
<1>12. \A x, y \in Party : records'[x][y] = IF x = Me /\ y = a THEN r ELSE records[x][y]
  BY <1>1, <1>11, PageAssumption DEF TypeOK, StoreSession
<1>13. \A x \in Party : nextKey[x] <= nextKey'[x]
  BY <1>1, <1>11 DEF TypeOK, UseNewKey
<1>14. ASSUME NEW c \in SenderChains(r)
       PROVE  c \in SenderChains(old) \/ SplitOff(c)
  <2>1. CASE NewChain(c, NewKey(Me, 0), m.ratchet) /\ c = r.current.sender
    <3>1. nextKey'[Me] > nextKey[Me] + 0
      BY <2>1, <1>1, <1>11, PageAssumption DEF NewChain, UseNewKey, TypeOK
    <3> QED BY <2>1, <3>1, <1>1, <1>5, <1>13, PageAssumption, NewChainSplitOff
  <2> QED BY <2>1, <1>10, <1>14 DEF Derives
<1>15. ChainsDistinct(r)
  <2>1. UnusedKey(old, NewKey(Me, 0))
    BY <1>1, <1>7, PageAssumption, NewKeyUnknown DEF UnusedKey, ChainInv, KeysKnown, KnownChain
  <2> QED BY <2>1, <1>1, <1>7, <1>10, PageAssumption DEF Derives, ChainInv, ChainsApart
<1>16. \A x \in Party : Known(published[x].signedPreKey)'
  <2>1. ASSUME NEW x \in Party
        PROVE  Known(published[x].signedPreKey)'
    <3>1. PICK k \in Key : k = published[x].signedPreKey /\ Known(k)
      BY <1>1 DEF TypeOK, Bundle, ChainInv, KeysKnown
    <3>2. Known(k)'
      BY <3>1, <1>1, <1>13, KnownStays
    <3> QED BY <3>1, <3>2, <1>11
  <2> QED BY <2>1
<1>17. PICK p \in Party : p = Me
  BY PageAssumption
<1>18. \A x, y \in Party : \A c \in SenderChains(records'[x][y]) :
          c \in SenderChains(records[x][y]) \/ (x = p /\ y = a /\ SplitOff(c))
  BY <1>7, <1>12, <1>14, <1>17
<1>19. \A x, y \in Party : ChainsDistinct(records'[x][y])
  BY <1>1, <1>12, <1>15 DEF ChainInv, ChainsApart
<1>20. ChainsMove
  BY <1>13, <1>18 DEF ChainsMove, ChainMoves
<1>21. ChainsSound'
  <2>1. TypeOK /\ TypeOK' /\ ChainInv /\ UNCHANGED sent
    BY <1>1, <1>11
  <2>2. ChainInv'
    BY <2>1, <1>13, <1>16, <1>18, <1>19, ChainStep
  <2> QED BY <2>2 DEF ChainInv, ChainsSound, KeysKnown
<1>22. MadeInv'
  <2>1. Held(Idle) = {} /\ flow' = [flow EXCEPT ![f] = Idle]
    BY <1>11 DEF Held, Idle
  <2>2. Held(Idle) \subseteq Held(flow[f]) \cup {} /\ sent' \subseteq sent \cup Held(flow[f])
    BY <2>1, <1>11
  <2>3. Made' \subseteq Made \cup {}
    BY <2>1, <2>2, <1>1, MadeMoves
  <2> QED BY <2>3, <1>1, <1>20, <1>21, MovedMade
<1>23. StoreGrows
  <2>1. r # FreshRecord
    BY <1>10, SentinelAssumption DEF Derives, FreshRecord
  <2> QED BY <2>1, <1>12, <1>13, PageAssumption DEF StoreGrows
<1>24. CachesGrow /\ CachesSound'
  BY <1>1, <1>11 DEF CachesGrow, CachesSound, cacheVars
<1>25. ASSUME NEW g \in Flow \ {f}, flow[g] # Idle
       PROVE  /\ ~Opening(flow[g]) /\ ~Opening(Idle)'
              /\ Live(flow[g]) =>
                    /\ records'[Me][objects[flow[g].object]] = records[Me][objects[flow[g].object]]
                    /\ Live(Idle) => flow[g].object # Idle.object
  <2>1. ~Opening(flow[g])
    BY <1>2, <1>3, <1>25, OthersOpenNothing DEF KeysInv
  <2>2. ASSUME Live(flow[g])
        PROVE  records'[Me][objects[flow[g].object]] = records[Me][objects[flow[g].object]]
    <3>1. Live(flow[f]) /\ objects[flow[f].object] = a
      BY <1>2, <1>6 DEF Live
    <3>2. objects[flow[g].object] # a
      BY <2>2, <3>1, CallsApart DEF KeysInv
    <3> QED BY <3>2, <1>1, <1>11, PageAssumption DEF TypeOK, StoreSession
  <2> QED BY <2>1, <2>2, IdleFits
<1>26. PageInv'
  BY <1>11, <1>23, <1>24, <1>25, IdleFits, PageStep DEF KeysInv
<1> QED
  BY <1>22, <1>26 DEF KeysInv

LEMMA DecryptFits ==
    ASSUME ~OpeningRace, DirectInv, DirectInv', KeysInv, NEW f \in Flow, DecryptMessage(f)
    PROVE  KeysInv'
<1>1. CASE (\E m \in sent : StartDecrypt(f, m)) \/ DecryptLookup(f) \/ DecryptStore(f)
  BY <1>1, StartDecryptFits, LookupFits, DecryptStoreFits
<1> SUFFICES ASSUME ~(\E m \in sent : StartDecrypt(f, m)), ~DecryptLookup(f), ~DecryptStore(f)
             PROVE  KeysInv'
  BY <1>1
<1>2. PICK e : /\ e = flow[f] /\ e.kind = "decrypt"
               /\ e.step \in {"load", "keys", "save", "check", "mark", "remove"}
  BY DEF DecryptMessage, At, DecryptLoad, DecryptKeys, DecryptSave, DecryptCheck, DecryptMark,
         DecryptRemove
<1>3. /\ e \in Decrypting /\ CallFits(e) /\ CallSound(e) /\ e # Idle
      /\ flow \in [Flow -> FlowState] /\ flow[f].kind # "idle" /\ TypeOK /\ CacheTyped
      /\ e.record \in Record /\ Me \in Party
  BY <1>2, FlowKinds, PageAssumption
  DEF KeysInv, PageInv, DirectInv, FlowTyped, PageTyped, Idle, Decrypting
<1>4. UNCHANGED <<records, nextKey, sent, published, cacheVars>>
  BY DEF DecryptMessage, DecryptLoad, DecryptKeys, DecryptSave, DecryptCheck, DecryptMark,
         DecryptRemove, vars, keyVars, sessionVars, historyVars
<1>5. /\ \A p \in Party : published'[p].signedPreKey = published[p].signedPreKey
      /\ UNCHANGED <<records, nextKey, cacheVars>> /\ sent' \subseteq sent \cup Held(e)
  BY <1>4
<1>6. PICK a \in Party : a = objects[e.object] /\ CallAddress(f) = a
  BY <1>2, <1>3 DEF CallSound, CallAddress, CacheTyped
<1>7. CASE Return(f)
  <2>1. flow' = [flow EXCEPT ![f] = Idle]
    BY <1>7 DEF Return
  <2>2. Held(Idle) \subseteq Held(e)
    BY DEF Held, Idle
  <2> QED BY <2>1, <2>2, <1>2, <1>3, <1>5, IdleFits, QuietFits
<1>8. ASSUME NEW step \in {"keys", "save", "check", "mark", "remove", "store"}, NEW r \in Record,
             flow' = [flow EXCEPT ![f] = Moved(e, step, r)], r = records[Me][a]
      PROVE  KeysInv'
  <2>1. PICK c : c = Moved(e, step, r)
    OBVIOUS
  <2>2. /\ c.kind = "decrypt" /\ c.step = step /\ c.object = e.object /\ c.message = e.message
        /\ c.record = r
    BY <2>1, <1>3 DEF Moved, Decrypting
  <2>3. CallFits(c)
    BY <2>2, <1>6, <1>8 DEF CallFits, Loaded
  <2>4. /\ Held(c) \subseteq Held(e) /\ (Opening(c) => Opening(e))
        /\ Live(c) => Live(e) /\ c.object = e.object
    BY <2>2, <1>2 DEF Held, Opening, Live
  <2>5. flow' = [flow EXCEPT ![f] = c]
    BY <2>1, <1>8
  <2> QED BY <2>3, <2>4, <2>5, <1>2, <1>3, <1>5, QuietFits
<1>9. PICK old \in Record : old = records[Me][a]
  BY <1>3, RecordType
<1>10. e.step # "load" => e.record = old
  BY <1>2, <1>3, <1>6, <1>9 DEF CallFits, Loaded
<1>11. CASE DecryptLoad(f) /\ ~Return(f)
  <2>1. GoWith(f, "keys", old) \/ GoWith(f, "save", old)
    BY <1>6, <1>9, <1>11 DEF DecryptLoad
  <2>2. flow' = [flow EXCEPT ![f] = Moved(e, "keys", old)]
        \/ flow' = [flow EXCEPT ![f] = Moved(e, "save", old)]
    BY <2>1, <1>2, <1>3, GoMoves
  <2> QED BY <2>2, <1>8, <1>9
<1>12. CASE ~DecryptLoad(f) /\ ~Return(f)
  <2>1. /\ e.step \in {"keys", "save", "check", "mark", "remove"}
        /\ \E step \in {"save", "check", "mark", "remove", "store"} : Go(f, step)
    BY <1>2, <1>12 DEF DecryptMessage, At, DecryptKeys, DecryptSave, DecryptCheck, DecryptMark,
                       DecryptRemove
  <2>2. PICK step \in {"save", "check", "mark", "remove", "store"} : Go(f, step)
    BY <2>1
  <2>3. flow' = [flow EXCEPT ![f] = Moved(e, step, e.record)]
    BY <2>2, <1>2, <1>3, GoMoves
  <2>4. e.record = records[Me][a]
    BY <2>1, <1>9, <1>10
  <2> QED BY <2>2, <2>3, <2>4, <1>3, <1>8
<1> QED
  BY <1>7, <1>11, <1>12

-----------------------------------------------------------------------------
(* The page and the other devices keep apart                               *)

\* a call of another device leaves the records of this page alone
LEMMA OthersRecords ==
    ASSUME TypeOK, Others
    PROVE  /\ records'[Me] = records[Me]
           /\ UNCHANGED sent \/ \E p \in Online : Encrypt(p, Me)
<1>1. PICK p \in Party \ {Me} :
        /\ p \in Online
        /\ \/ EstablishSession(p, Me)
           \/ FetchUnused(p, Me)
           \/ Encrypt(p, Me)
           \/ \E m \in sent : m.to = p /\ Decrypt(p, m)
  BY PageAssumption DEF Others
<1>2. UNCHANGED records \/ \E q, r : StoreSession(p, q, r)
  <2>1. CASE EstablishSession(p, Me)
    BY <2>1 DEF EstablishSession
  <2>2. CASE FetchUnused(p, Me)
    BY <2>2 DEF FetchUnused, sessionVars
  <2>3. CASE Encrypt(p, Me)
    BY <2>3 DEF Encrypt
  <2>4. CASE \E m \in sent : m.to = p /\ Decrypt(p, m)
    <3>1. PICK m : Decrypt(p, m)
      BY <2>4
    <3> QED BY <3>1 DEF Decrypt, DecryptKnownPreKey, DecryptNewPreKey, RejectReplay, DecryptSignal
  <2> QED BY <1>1, <2>1, <2>2, <2>3, <2>4
<1>3. records'[Me] = records[Me]
  BY <1>2, PageAssumption DEF TypeOK, StoreSession
<1>4. UNCHANGED sent \/ Encrypt(p, Me)
  BY <1>1 DEF EstablishSession, FetchUnused, Decrypt, DecryptKnownPreKey, DecryptNewPreKey,
              RejectReplay, DecryptSignal, historyVars
<1> QED
  BY <1>1, <1>3, <1>4

\* The calls of the page stay as they fit while its caches and records do.
LEMMA PageStays ==
    ASSUME DirectInv, DirectInv', PageInv, UNCHANGED <<cacheVars, flow>>, records'[Me] = records[Me],
           \A p \in Party : nextKey[p] <= nextKey'[p]
    PROVE  PageInv'
<1>1. /\ TypeOK /\ TypeOK' /\ flow \in [Flow -> FlowState]
      /\ UNCHANGED <<ciphers, addresses, objects, flow>>
  BY DEF DirectInv, FlowTyped, cacheVars
<1>2. CachesSound' /\ ObjectsApart' /\ OpensAlone'
  BY <1>1 DEF PageInv, CachesSound, ObjectsApart, OpensAlone, Opening, Live
<1>3. ASSUME NEW f \in Flow
      PROVE  CallFits(flow[f])'
  <2>1. PICK c \in FlowState : c = flow[f] /\ CallFits(c)
    BY <1>1 DEF PageInv
  <2>2. ASSUME c.kind = "establish", NEW b \in c.todo \cup {c.bundle}
        PROVE  Known(b.signedPreKey)'
    <3>1. b \in Bundles
      BY <2>2, FlowKinds DEF Establishing
    <3>2. PICK k \in Key : k = b.signedPreKey /\ Known(k)
      BY <2>1, <2>2, <3>1 DEF Bundles, CallFits
    <3>3. Known(k)'
      BY <3>2, <1>1, KnownStays
    <3> QED BY <3>2, <3>3
  <2>3. CallFits(c)'
    BY <1>1, <2>1, <2>2 DEF CallFits
  <2>4. flow'[f] = c
    BY <1>1, <2>1
  <2> QED BY <2>3, <2>4
<1> QED
  BY <1>2, <1>3 DEF PageInv

LEMMA OthersFit ==
    ASSUME DirectInv, DirectInv', KeysInv, Others
    PROVE  KeysInv'
<1>1. TypeOK /\ TypeOK' /\ flow \in [Flow -> FlowState] /\ ChainInv /\ MadeInv
  BY MadeGivesChains DEF DirectInv, FlowTyped, KeysInv
<1>2. Next /\ UNCHANGED <<cacheVars, flow>>
  BY OthersStep DEF DirectInv, NoneToSelf, pageVars
<1>3. ChainInv' /\ ChainsMove
  BY <1>1, <1>2, NextChain
<1>4. ChainsSound'
  BY <1>3 DEF ChainInv, ChainsSound, KeysKnown
<1>5. PageInv'
  BY <1>2, <1>3, <1>1, OthersRecords, PageStays DEF ChainsMove, KeysInv
<1>6. Made' \subseteq Made \cup sent'
  BY <1>2 DEF Made, Held
<1>7. CASE UNCHANGED sent
  <2>1. Made' \subseteq Made
    BY <1>6, <1>7 DEF Made
  <2> QED BY <2>1, <1>1, <1>3, <1>4, <1>5, MovedMade DEF KeysInv
<1>8. ASSUME NEW p \in Online, Encrypt(p, Me)
      PROVE  KeysInv'
  <2>1. PICK q \in Party : q = Me
    BY PageAssumption
  <2>2. PICK s : s = records[p][q].current
    OBVIOUS
  <2>3. PICK m : m = Ciphertext(p, q, s)
    OBVIOUS
  <2>4. /\ s # NoSession /\ sent' = sent \cup {m} /\ UNCHANGED <<published, nextKey>>
        /\ StoreSession(p, q, [records[p][q] EXCEPT !.current = AdvanceSenderChain(s)])
    BY <1>8, <2>1, <2>2, <2>3 DEF Encrypt, keyVars
  <2>5. /\ s.sender \in SenderChains(records[p][q])
        /\ \A x, y \in Party : \A c \in SenderChains(records'[x][y]) :
              c.root = s.sender.root => c.index = s.sender.index + 1
    <3>1. p \in Party /\ UNCHANGED <<published, nextKey>>
      BY <2>4, PageAssumption
    <3> QED BY <3>1, <2>2, <2>4, <1>1, AdvanceChains
  <2>6. PICK d \in SenderChains(records[p][q]) : d = s.sender
    BY <2>5
  <2>7. MovesPast(d)
    BY <2>5, <2>6 DEF MovesPast
  <2>8. PICK S : S = {m}
    OBVIOUS
  <2>9. MadeOn(S, d)
    BY <2>3, <2>6, <2>8 DEF MadeOn, Ciphertext
  <2>10. Made' \subseteq Made \cup S
    BY <1>6, <2>4, <2>8 DEF Made
  <2>11. p \in Party
    BY PageAssumption
  <2>12. ChainsMove
    BY <1>3
  <2>13. MadeInv'
    BY <2>7, <2>9, <2>10, <2>11, <2>12, <1>1, <1>4, NewMade
  <2> QED BY <2>13, <1>5 DEF KeysInv
<1> QED
  BY <1>1, <1>7, <1>8, OthersRecords

LEMMA QuietKeys ==
    ASSUME DirectInv, DirectInv', KeysInv, UNCHANGED <<vars, cacheVars, flow>>
    PROVE  KeysInv'
<1>1. UNCHANGED <<records, nextKey, sent, published>> /\ UNCHANGED flow /\ UNCHANGED cacheVars
  BY DEF vars, keyVars, sessionVars, historyVars
<1>2. PageInv'
  <2>1. \A p \in Party : nextKey[p] <= nextKey'[p]
    BY <1>1 DEF DirectInv, TypeOK
  <2>2. UNCHANGED <<cacheVars, flow>> /\ records'[Me] = records[Me]
    BY <1>1
  <2> QED BY <2>1, <2>2, PageStays DEF KeysInv
<1>3. MadeInv'
  <2>1. Made' \subseteq Made
    BY <1>1 DEF Made, Held
  <2> QED BY <2>1, <1>1, QuietMade DEF KeysInv
<1> QED
  BY <1>2, <1>3 DEF KeysInv

\* The page forgets its caches and its calls, and what they held.
LEMMA CloseFits ==
    ASSUME DirectInv, KeysInv, Close
    PROVE  KeysInv'
<1>1. UNCHANGED <<records, nextKey, sent, published>>
  BY DEF Close, vars, keyVars, sessionVars, historyVars
<1>2. /\ flow' = [f \in Flow |-> Idle] /\ objects' = <<>>
      /\ ciphers' = [d \in Id |-> 0] /\ addresses' = [d \in Id |-> None]
  BY DEF Close, ClearCaches
<1>3. \A f \in Flow : flow'[f] = Idle
  BY <1>2
<1>4. CachesSound'
  <2>1. Len(objects') = 0 /\ 1 .. Len(objects') = {}
    BY <1>2
  <2> QED BY <2>1, <1>2 DEF CachesSound, Sound
<1>5. ObjectsApart' /\ OpensAlone'
  BY <1>3, IdleFits DEF ObjectsApart, OpensAlone, Live, Idle
<1>6. \A f \in Flow : CallFits(flow[f])'
  BY <1>3 DEF CallFits, Loaded, Idle
<1>7. MadeInv'
  <2>1. Made' \subseteq Made
    BY <1>1, <1>3 DEF Made, Held, Idle
  <2> QED BY <2>1, <1>1, QuietMade DEF KeysInv
<1> QED
  BY <1>4, <1>5, <1>6, <1>7 DEF KeysInv, PageInv

LEMMA DirectInitKeys == DirectInit => KeysInv
<1> SUFFICES ASSUME DirectInit
             PROVE  KeysInv
  OBVIOUS
<1>1. ChainInv
  BY InitChain DEF DirectInit
<1>2. \A f \in Flow : flow[f] = Idle
  BY DEF DirectInit
<1>3. Made = sent
  BY <1>2 DEF Made, Held, Idle
<1>4. MadeInv
  BY <1>1, <1>3, MadeGivesChains DEF MadeInv
<1>5. CachesSound
  <2>1. Len(objects) = 0 /\ 1 .. Len(objects) = {}
    BY DEF DirectInit
  <2> QED BY <2>1 DEF DirectInit, CachesSound, Sound
<1>6. ObjectsApart /\ OpensAlone /\ \A f \in Flow : CallFits(flow[f])
  BY <1>2, IdleFits DEF ObjectsApart, OpensAlone
<1> QED
  BY <1>4, <1>5, <1>6 DEF KeysInv, PageInv

LEMMA DirectNextKeys ==
    ~OpeningRace /\ DirectInv /\ DirectInv' /\ KeysInv /\ [DirectNext]_directVars => KeysInv'
<1> SUFFICES ASSUME ~OpeningRace, DirectInv, DirectInv', KeysInv, [DirectNext]_directVars
             PROVE  KeysInv'
  OBVIOUS
<1>1. CASE \E f \in Flow : Establish(f) \/ EncryptMessage(f) \/ DecryptMessage(f)
  BY <1>1, EstablishFits, EncryptFits, DecryptFits
<1>2. CASE Switch
  BY <1>2, QuietKeys DEF Switch
<1>3. CASE Close
  BY <1>3, CloseFits
<1>4. CASE Others
  BY <1>4, OthersFit
<1>5. CASE UNCHANGED directVars
  <2>1. UNCHANGED <<vars, cacheVars, flow>>
    BY <1>5 DEF directVars, pageVars
  <2> QED BY <2>1, QuietKeys
<1> QED
  BY <1>1, <1>2, <1>3, <1>4, <1>5 DEF DirectNext

\* While a conversation is opened by one call at a time, calls that overlap never
\* encrypt two messages with one message key: encryptMessage, decryptMessage and
\* establishSession read and write the records of a page with awaits in between, and
\* the cipher objects they borrow keep them off one another's records.
THEOREM DirectKeysUnique ==
    ASSUME ~OpeningRace
    PROVE  DirectSpec => []MessageKeysUnique
<1>1. DirectInit => DirectInv /\ KeysInv
  BY DirectInitInv, DirectInitKeys
<1>2. DirectInv /\ KeysInv /\ [DirectNext]_directVars => (DirectInv /\ KeysInv)'
  BY DirectNextInv, DirectNextKeys
<1>3. DirectInv /\ KeysInv => MessageKeysUnique
  BY MadeGivesChains DEF KeysInv, ChainInv
<1> QED
  BY <1>1, <1>2, <1>3, PTL DEF DirectSpec

-----------------------------------------------------------------------------
(* Messages are read once                                                  *)

\* To the messages a page has made and holds others can be added, whose keys play
\* their parts already.
LEMMA HeldGrows ==
    ASSUME NEW held \in SUBSET Message, RecordsInv(held), NEW S, \A m \in S : NewlySent(held, m)
    PROVE  /\ RecordsInv(held \cup S)
           /\ \A k : Plain(held, k) => Plain(held \cup S, k)
<1>1. \A k : /\ IsBase(held \cup S, k) => IsBase(held, k)
             /\ IsOther(held \cup S, k) => IsOther(held, k)
  BY DEF IsBase, IsOther, NewlySent
<1>2. RolesApart(held \cup S)
  BY <1>1 DEF RecordsInv, RolesApart
<1>3. SessionsSound(held \cup S)
  BY <1>1 DEF RecordsInv, SessionsSound, OneBase
<1>4. MessagesSound(held \cup S)
  BY DEF RecordsInv, MessagesSound, NewlySent
<1>5. OpenedForgotten(held \cup S)
  BY <1>1 DEF RecordsInv, OpenedForgotten, Answered
<1> QED
  BY <1>1, <1>2, <1>3, <1>4, <1>5 DEF RecordsInv, Plain

\* A step of the page that leaves receivers as they are, and may hand over messages
\* it has made.
LEMMA PageSound ==
    ASSUME TypeOK, TypeOK', NEW held \in SUBSET Message, RecordsInv(held),
           sent \subseteq sent', sent' \subseteq sent \cup held, UNCHANGED <<opened, identity>>,
           \A x \in Party : nextKey[x] <= nextKey'[x],
           \A x \in Party : OwnKeys(x)' \subseteq OwnKeys(x),
           \A x \in Party : kyberUsed[x] \subseteq kyberUsed'[x],
           \A x \in Party : \A k \in kyberUsed'[x] : IsBase(held, k),
           \A x, y \in Party : KeptRecord(x, y)
    PROVE  RecordsInv(held)' /\ PlainStays(held)
<1>1. NewRoles(held, {}, {})
  BY DEF NewRoles, IsOther
<1>2. \A x \in Party : Continues(x)
  BY DEF Continues
<1>3. SoundChange(held, {}, {})
  BY <1>1, <1>2 DEF SoundChange
<1> QED
  BY <1>3, SoundStep

\* What a call may rely on.  The keys of a bundle are known, and the base keys of no
\* handshake; a decryption holds the object cached for the device its message is from;
\* one that starts a session has the keys for it, and once it has marked the base key,
\* no session has it and no message was opened that hangs on it.
PlainBundle(held, b) ==
    /\ Plain(held, b.identity) /\ Plain(held, b.signedPreKey)
    /\ b.preKey # NoKey => Plain(held, b.preKey)
BaseReady(held, m, step) ==
    /\ m.signedPreKey = signedPreKey[Me]
    /\ m.preKey # NoKey => Plain(held, m.preKey)
    /\ step = "mark" => m.base \notin kyberUsed[Me]
    /\ step \in {"remove", "store"} => m.base \in kyberUsed[Me] /\ FreeBase(Me, m.base)
CallReady(held, c) ==
    /\ Held(c) \subseteq held
    /\ c.kind = "establish" => \A b \in c.todo \cup {c.bundle} : PlainBundle(held, b)
    /\ c.kind = "decrypt" /\ c.step # "lookup" => c.object = ciphers[DeviceId[c.message.from]]
    /\ Deciphered(c) /\ StartsSession(c) => BaseReady(held, c.message, c.step)

ReadWith(held) ==
    RecordsInv(held) /\ AtMostOnce /\ \A f \in Flow : CallReady(held, flow[f])
ReadInv == \E held \in SUBSET Message : ReadWith(held)

LEMMA IdleReady ==
    ASSUME NEW held
    PROVE  CallReady(held, Idle) /\ CallReady(held, Idle)'
  BY DEF Idle, CallReady, Held, Deciphered

\* an encryption relies on nothing
LEMMA EncryptReady ==
    ASSUME NEW held, NEW c, c.kind = "encrypt", c.slices \subseteq held
    PROVE  CallReady(held, c) /\ CallReady(held, c)'
  BY DEF CallReady, Held, Deciphered

LEMMA ReadyGrows ==
    ASSUME NEW held, NEW S, \A k : Plain(held, k) => Plain(held \cup S, k),
           NEW c, CallReady(held, c)
    PROVE  CallReady(held \cup S, c)
  BY DEF CallReady, PlainBundle, BaseReady

\* what the step of another call, or of another device, leaves alone
PageKeeps(held) ==
    /\ PlainStays(held)
    /\ identity'[Me] = identity[Me] /\ signedPreKey'[Me] = signedPreKey[Me]
    /\ kyberUsed[Me] \subseteq kyberUsed'[Me]
    /\ \A d \in Id : ciphers[d] # 0 => ciphers'[d] = ciphers[d]
BaseStays(c) ==
    Deciphered(c) /\ StartsSession(c) =>
        /\ c.message.base \notin kyberUsed[Me] => c.message.base \notin kyberUsed'[Me]
        /\ FreeBase(Me, c.message.base) => FreeBase(Me, c.message.base)'

LEMMA ReadyStays ==
    ASSUME DirectInv, NEW held, PageKeeps(held), NEW c \in FlowState, CallReady(held, c),
           CallSound(c), BaseStays(c)
    PROVE  CallReady(held, c)'
<1>1. CASE c.kind = "establish"
  <2>1. \A b \in c.todo \cup {c.bundle} :
           b.identity \in Key /\ b.signedPreKey \in Key /\ (b.preKey # NoKey => b.preKey \in Key)
    BY <1>1, FlowKinds DEF Establishing, Bundles, OptionalKey
  <2>2. \A b \in c.todo \cup {c.bundle} : PlainBundle(held, b)'
    BY <1>1, <2>1 DEF CallReady, PlainBundle, PageKeeps, PlainStays
  <2> QED BY <1>1, <2>2 DEF CallReady, Held, Deciphered
<1>2. CASE c.kind = "decrypt"
  <2>1. PICK m \in Message : m = c.message /\ m \in sent
    BY <1>2, FlowKinds DEF Decrypting, CallSound
  <2>2. DeviceId[m.from] \in Id
    BY <1>2, <2>1, MessageFields DEF DirectInv, NoneToSelf, CallSound, Id
  <2>3. c.step # "lookup" => c.object = ciphers'[DeviceId[m.from]]
    BY <1>2, <2>1, <2>2 DEF CallReady, CallSound, PageKeeps
  <2>4. ASSUME Deciphered(c), StartsSession(c)
        PROVE  BaseReady(held, m, c.step)'
    <3>1. m.type = "prekey"
      BY <2>1, <2>4 DEF StartsSession
    <3>2. m.preKey # NoKey => m.preKey \in Key
      BY <3>1, MessageFields DEF OptionalKey
    <3>3. BaseReady(held, m, c.step)
      BY <2>1, <2>4 DEF CallReady
    <3> QED BY <2>1, <2>4, <3>2, <3>3 DEF BaseReady, BaseStays, PageKeeps, PlainStays
  <2> QED BY <1>2, <2>1, <2>3, <2>4 DEF CallReady, Held, StartsSession
<1>3. CASE c.kind \notin {"establish", "decrypt"}
  BY <1>3 DEF CallReady, Held, Deciphered
<1> QED
  BY <1>1, <1>2, <1>3

\* one call moves on to e
LEMMA ReadStep ==
    ASSUME DirectInv, NEW held \in SUBSET Message, ReadWith(held), PageKeeps(held),
           RecordsInv(held)', AtMostOnce',
           NEW f \in Flow, NEW e, flow' = [flow EXCEPT ![f] = e], CallReady(held, e)',
           \A c \in {flow[g] : g \in Flow \ {f}} : BaseStays(c)
    PROVE  ReadInv'
<1>1. flow \in [Flow -> FlowState] /\ \A g \in Flow : CallSound(flow[g])
  BY DEF DirectInv, FlowTyped
<1>2. ASSUME NEW g \in Flow
      PROVE  CallReady(held, flow[g])'
  <2>1. CASE g = f
    <3>1. flow'[g] = e
      BY <2>1, <1>1
    <3> QED BY <3>1
  <2>2. CASE g # f
    <3>1. PICK c \in FlowState : c = flow[g]
      BY <1>1
    <3>2. CallReady(held, c) /\ CallSound(c) /\ BaseStays(c)
      BY <2>2, <3>1, <1>1 DEF ReadWith
    <3>3. CallReady(held, c)'
      BY <3>2, ReadyStays
    <3>4. flow'[g] = c
      BY <2>2, <3>1, <1>1
    <3> QED BY <3>3, <3>4
  <2> QED BY <2>1, <2>2
<1> QED
  BY <1>2 DEF ReadInv, ReadWith

\* A step that no receiver notices: it may hand over messages the page has made, and
\* advance a sender chain.
Quiet(held) ==
    /\ UNCHANGED <<nextKey, opened, reopened, identity, signedPreKey, kyberUsed>>
    /\ sent \subseteq sent' /\ sent' \subseteq sent \cup held
    /\ \A x \in Party : OwnKeys(x)' \subseteq OwnKeys(x)
    /\ \A x, y \in Party : KeptRecord(x, y)
    /\ \A d \in Id : ciphers[d] # 0 => ciphers'[d] = ciphers[d]

LEMMA QuietKeeps ==
    ASSUME DirectInv, DirectInv', NEW held \in SUBSET Message, ReadWith(held), Quiet(held)
    PROVE  /\ RecordsInv(held)' /\ AtMostOnce' /\ PageKeeps(held)
           /\ \A c : BaseStays(c)
<1>1. TypeOK /\ TypeOK' /\ RecordsInv(held) /\ AtMostOnce /\ Me \in Party
  BY PageAssumption DEF DirectInv, ReadWith
<1>2. RecordsInv(held)' /\ PlainStays(held)
  <2>1. \A x \in Party : nextKey[x] <= nextKey'[x]
    BY <1>1 DEF Quiet, TypeOK
  <2>2. \A x \in Party : \A k \in kyberUsed'[x] : IsBase(held, k)
    BY DEF Quiet, IsBase
  <2> QED BY <1>1, <2>1, <2>2, PageSound DEF Quiet
<1>3. AtMostOnce'
  BY <1>1 DEF Quiet, AtMostOnce
<1>4. PageKeeps(held)
  BY <1>2 DEF Quiet, PageKeeps
<1>5. ASSUME NEW base, FreeBase(Me, base)
      PROVE  FreeBase(Me, base)'
  <2>1. ASSUME NEW x \in Party, NEW u \in Sessions(records'[Me][x])
        PROVE  u.base # base
    <3>1. PICK v \in Sessions(records[Me][x]) : Same(u, v)
      BY <1>1 DEF Quiet, KeptRecord
    <3> QED BY <3>1, <1>5 DEF Same, FreeBase
  <2> QED BY <2>1, <1>5 DEF FreeBase, Quiet
<1>6. \A c : BaseStays(c)
  BY <1>5 DEF BaseStays, Quiet
<1> QED
  BY <1>2, <1>3, <1>4, <1>6

LEMMA QuietReady ==
    ASSUME DirectInv, DirectInv', NEW held \in SUBSET Message, ReadWith(held), Quiet(held),
           NEW c \in FlowState, CallReady(held, c), CallSound(c)
    PROVE  CallReady(held, c)'
<1>1. PageKeeps(held) /\ BaseStays(c)
  BY QuietKeeps
<1> QED
  BY <1>1, ReadyStays

LEMMA QuietRead ==
    ASSUME DirectInv, DirectInv', NEW held \in SUBSET Message, ReadWith(held), Quiet(held),
           NEW f \in Flow, NEW e, flow' = [flow EXCEPT ![f] = e], CallReady(held, e)'
    PROVE  ReadInv'
<1>1. /\ RecordsInv(held)' /\ AtMostOnce' /\ PageKeeps(held)
      /\ \A c : BaseStays(c)
  BY QuietKeeps
<1> QED
  BY <1>1, ReadStep

\* a step that leaves the protocol's state alone but for the identities trusted, the
\* count of texts and the prekeys offered
LEMMA QuietSteps ==
    ASSUME TypeOK, NEW held,
           UNCHANGED <<nextKey, opened, reopened, identity, signedPreKey, kyberUsed, records>>,
           sent \subseteq sent', sent' \subseteq sent \cup held,
           \A x \in Party : OwnKeys(x)' \subseteq OwnKeys(x),
           \A d \in Id : ciphers[d] # 0 => ciphers'[d] = ciphers[d]
    PROVE  Quiet(held)
<1>1. \A x, y \in Party : KeptRecord(x, y)
  BY SameRecordKept
<1> QED
  BY <1>1 DEF Quiet

\* What the turn of an encryption stores, and what it makes.
Turn(f, a, slices, next) ==
    LET s == records[Me][a].current
    IN  /\ s # NoSession
        /\ StoreSession(Me, a, [records[Me][a] EXCEPT !.current = AdvanceSenderChain(s)])
        /\ \A m \in slices : /\ \E q : m = Slice(q, s, flow[f].text)
                             /\ m.from = Me /\ m.to # Me
        /\ flow' = [flow EXCEPT ![f] = next]
        /\ \/ next = Idle
           \/ next.kind = "encrypt" /\ next.slices = flow[f].slices \cup slices

LEMMA EncryptStores ==
    ASSUME DirectInv, KeysInv, NEW f \in Flow, EncryptStore(f)
    PROVE  \E a \in Party : \E slices \in SUBSET Message : \E next : Turn(f, a, slices, next)
<1>1. TypeOK /\ CacheTyped /\ flow \in [Flow -> FlowState]
  BY DEF DirectInv, PageTyped, FlowTyped
<1>2. PICK e : e = flow[f] /\ e.kind = "encrypt" /\ e.step = "store"
  BY DEF EncryptStore, At
<1>3. e \in Encrypting /\ CallFits(e) /\ CallSound(e)
  BY <1>1, <1>2, FlowKinds DEF KeysInv, PageInv, DirectInv, FlowTyped
<1>4. e.object \in 1 .. Len(objects) /\ e.record.current # NoSession
  BY <1>2, <1>3 DEF CallSound
<1>5. PICK a \in Party : a = objects[e.object] /\ CallAddress(f) = a
  BY <1>1, <1>2, <1>4 DEF CallAddress, CacheTyped
<1>6. e.record = records[Me][a]
  BY <1>2, <1>3, <1>5 DEF CallFits, Loaded
<1>7. PICK s : s = records[Me][a].current
  OBVIOUS
<1>8. StoreSession(Me, a, [records[Me][a] EXCEPT !.current = AdvanceSenderChain(s)])
  BY <1>2, <1>5, <1>6, <1>7 DEF EncryptStore
<1>9. PICK slices : slices = Slices(e)
  OBVIOUS
<1>10. slices \in SUBSET Message /\ \A m \in slices : m.from = Me /\ m.to # Me /\ m.from # m.to
  BY <1>1, <1>3, <1>4, <1>9, SlicesType DEF Devices
<1>11. \A m \in slices : \E q : m = Slice(q, s, e.text)
  BY <1>6, <1>7, <1>9 DEF Slices, Slice
<1>12. PICK c : c = [e EXCEPT !.slices = @ \cup slices]
  OBVIOUS
<1>13. /\ c \in Encrypting /\ c.kind = "encrypt" /\ c.object = e.object /\ c.record = e.record
       /\ c.slices = e.slices \cup slices /\ c.step = "store"
  BY <1>2, <1>3, <1>10, <1>12 DEF Encrypting
<1>14. CallSound(c)
  BY <1>2, <1>3, <1>4, <1>10, <1>13 DEF CallSound, Deciphered
<1>15. PICK next \in NextCipher(c) : flow' = [flow EXCEPT ![f] = next]
  BY <1>2, <1>9, <1>12 DEF EncryptStore
<1>16. next = Idle \/ (next.kind = "encrypt" /\ next.slices = c.slices)
  BY <1>1, <1>13, <1>14, <1>15, NextCipherType
<1>17. s # NoSession
  BY <1>4, <1>6, <1>7
<1>18. Turn(f, a, slices, next)
  BY <1>2, <1>7, <1>8, <1>10, <1>11, <1>13, <1>15, <1>16, <1>17 DEF Turn
<1> QED
  BY <1>10, <1>18

\* The messages of a turn hang on a session the page keeps.
LEMMA EncryptStoreRead ==
    ASSUME DirectInv, DirectInv', KeysInv, NEW held \in SUBSET Message, ReadWith(held),
           NEW f \in Flow, EncryptStore(f)
    PROVE  ReadInv'
<1>1. /\ TypeOK /\ RecordsInv(held) /\ ChainInv /\ flow \in [Flow -> FlowState] /\ AtMostOnce
      /\ Me \in Party
  BY MadeGivesChains, PageAssumption DEF DirectInv, FlowTyped, KeysInv, ReadWith
<1>2. PICK a \in Party, slices \in SUBSET Message : \E next : Turn(f, a, slices, next)
  BY EncryptStores
<1>3. PICK next : Turn(f, a, slices, next)
  BY <1>2
<1>4. PICK s : s = records[Me][a].current
  OBVIOUS
<1>5. /\ s # NoSession
      /\ StoreSession(Me, a, [records[Me][a] EXCEPT !.current = AdvanceSenderChain(s)])
      /\ \A m \in slices : /\ \E q : m = Slice(q, s, flow[f].text)
                           /\ m.from = Me /\ m.to # Me
      /\ flow' = [flow EXCEPT ![f] = next]
      /\ \/ next = Idle
         \/ next.kind = "encrypt" /\ next.slices = flow[f].slices \cup slices
  BY <1>3, <1>4 DEF Turn
<1>6. s \in Sessions(records[Me][a])
  BY <1>1, <1>4, <1>5, RecordType, SessionsOfRecord
<1>7. /\ KnownRoot(s.root) /\ s.sender.root = s.root /\ Known(s.sender.ratchet)
      /\ IsOther(held, s.local) /\ IsBase(held, s.base)
      /\ s.pending # NoPending => s.base[1] = Me
  <2>1. Ready(held, Me, kyberUsed[Me], s)
    BY <1>1, <1>6, RecordReady
  <2> QED BY <2>1 DEF Ready, SessionSound, HandshakeSound
<1>8. \A m \in slices : NewlySent(held, m)
  <2> SUFFICES ASSUME NEW m \in slices
               PROVE  NewlySent(held, m)
    OBVIOUS
  <2>1. PICK q, text : m = Slice(q, s, text)
    BY <1>5
  <2>2. /\ m.ratchet = s.sender.ratchet /\ m.key.root = s.sender.root /\ m.sender = s.local
        /\ m.type = "prekey" => s.pending # NoPending /\ m.base = s.base
    BY <2>1, SliceFields DEF Slice, Ciphertext
  <2>3. m.from = Me /\ m.from # m.to
    BY <1>5
  <2> QED BY <2>2, <2>3, <1>7 DEF NewlySent
<1>9. PICK all \in SUBSET Message : all = held \cup slices
  OBVIOUS
<1>10. RecordsInv(all) /\ \A k : Plain(held, k) => Plain(all, k)
  BY <1>1, <1>8, <1>9, HeldGrows
<1>11. ReadWith(all)
  <2>1. ASSUME NEW g \in Flow
        PROVE  CallReady(all, flow[g])
    <3>1. PICK c : c = flow[g] /\ CallReady(held, c)
      BY DEF ReadWith
    <3>2. CallReady(held \cup slices, c)
      BY <3>1, <1>9, <1>10, ReadyGrows
    <3> QED BY <3>1, <3>2, <1>9
  <2> QED BY <2>1, <1>1, <1>10 DEF ReadWith
<1>12. Quiet(all)
  <2>1. \A x, y \in Party : KeptRecord(x, y)
    <3>1. PICK p \in Party : p = Me
      BY <1>1
    <3>2. /\ s = records[p][a].current /\ s # NoSession
          /\ StoreSession(p, a, [records[p][a] EXCEPT !.current = AdvanceSenderChain(s)])
      BY <3>1, <1>4, <1>5
    <3> QED BY <3>2, <1>1, AdvanceKept
  <2>2. UNCHANGED <<keyVars, nextKey, historyVars, cacheVars>>
    BY DEF EncryptStore
  <2> QED BY <2>1, <2>2 DEF Quiet, keyVars, historyVars, cacheVars, OwnKeys
<1>13. CallReady(all, next)'
  <2>1. CASE next = Idle
    BY <2>1, IdleReady
  <2>2. CASE next.kind = "encrypt" /\ next.slices = flow[f].slices \cup slices
    <3>1. flow[f].slices \subseteq held
      <4>1. flow[f].kind = "encrypt" /\ CallReady(held, flow[f])
        BY DEF EncryptStore, At, ReadWith
      <4> QED BY <4>1 DEF CallReady, Held
    <3>2. next.slices \subseteq all
      BY <2>2, <3>1, <1>9
    <3> QED BY <2>2, <3>2, EncryptReady
  <2> QED BY <2>1, <2>2, <1>5
<1> QED
  BY <1>5, <1>11, <1>12, <1>13, QuietRead

LEMMA EncryptRead ==
    ASSUME DirectInv, DirectInv', KeysInv, NEW held \in SUBSET Message, ReadWith(held),
           NEW f \in Flow, EncryptMessage(f)
    PROVE  ReadInv'
<1>1. CASE EncryptStore(f)
  BY <1>1, EncryptStoreRead
<1> SUFFICES ASSUME ~EncryptStore(f)
             PROVE  ReadInv'
  BY <1>1
<1>2. TypeOK /\ flow \in [Flow -> FlowState] /\ CallReady(held, flow[f])
  BY DEF DirectInv, FlowTyped, ReadWith
<1>3. UNCHANGED <<nextKey, opened, reopened, keyVars, records, cacheVars>>
  BY DEF EncryptMessage, StartEncrypt, EncryptLoad, EncryptTrust, EncryptSave, Emit,
         vars, sessionVars, historyVars
<1>4. /\ UNCHANGED <<nextKey, opened, reopened, identity, signedPreKey, kyberUsed, records>>
      /\ \A x \in Party : OwnKeys(x)' \subseteq OwnKeys(x)
      /\ \A d \in Id : ciphers[d] # 0 => ciphers'[d] = ciphers[d]
  BY <1>3 DEF keyVars, OwnKeys, cacheVars
<1>5. CASE StartEncrypt(f)
  <2>1. PICK d \in Cached :
          Starts(f, [kind |-> "encrypt", step |-> "load", remote |-> remote,
                     text |-> texts[Me], done |-> {d}, device |-> d, object |-> ciphers[d],
                     record |-> FreshRecord, slices |-> {}])
    BY <1>5 DEF StartEncrypt
  <2>2. PICK e : e = [kind |-> "encrypt", step |-> "load", remote |-> remote,
                      text |-> texts[Me], done |-> {d}, device |-> d, object |-> ciphers[d],
                      record |-> FreshRecord, slices |-> {}]
    OBVIOUS
  <2>3. flow' = [flow EXCEPT ![f] = e] /\ CallReady(held, e)'
    BY <2>1, <2>2, EncryptReady DEF Starts
  <2>4. Quiet(held)
    BY <1>2, <1>4, <1>5, QuietSteps DEF StartEncrypt
  <2> QED BY <2>3, <2>4, QuietRead
<1>6. CASE EncryptLoad(f) \/ EncryptTrust(f) \/ EncryptSave(f) \/ Emit(f)
  <2>1. flow[f].kind = "encrypt" /\ flow[f].slices \subseteq held
    <3>1. flow[f].kind = "encrypt"
      BY <1>6 DEF EncryptLoad, EncryptTrust, EncryptSave, Emit, At
    <3> QED BY <3>1, <1>2 DEF CallReady, Held
  <2>2. sent \subseteq sent' /\ sent' \subseteq sent \cup held
    <3>1. sent' = sent \/ sent' = sent \cup flow[f].slices
      BY <1>6 DEF EncryptLoad, EncryptTrust, EncryptSave, Emit, vars, historyVars
    <3> QED BY <3>1, <2>1
  <2>3. Quiet(held)
    BY <2>2, <1>2, <1>4, QuietSteps
  <2>4. ASSUME NEW step, NEW r, flow' = [flow EXCEPT ![f] = Moved(flow[f], step, r)]
        PROVE  ReadInv'
    <3>1. PICK e : e = Moved(flow[f], step, r)
      OBVIOUS
    <3>2. flow[f] \in Encrypting
      BY <1>2, <2>1, FlowKinds
    <3>3. e.kind = "encrypt" /\ e.slices = flow[f].slices
      BY <3>1, <3>2 DEF Moved, Encrypting
    <3>4. CallReady(held, e)'
      BY <3>3, <2>1, EncryptReady
    <3> QED BY <3>1, <3>4, <2>3, <2>4, QuietRead
  <2>5. CASE Return(f)
    BY <2>3, <2>5, IdleReady, QuietRead DEF Return
  <2>6. ASSUME NEW step, NEW r, GoWith(f, step, r)
        PROVE  ReadInv'
    <3>1. flow' = [flow EXCEPT ![f] = Moved(flow[f], step, r)]
      BY <2>1, <2>6, <1>2, GoMoves
    <3> QED BY <3>1, <2>4
  <2>7. ASSUME NEW step, Go(f, step)
        PROVE  ReadInv'
    <3>1. flow' = [flow EXCEPT ![f] = Moved(flow[f], step, flow[f].record)]
      BY <2>1, <2>7, <1>2, GoMoves
    <3>2. PICK r : r = flow[f].record
      OBVIOUS
    <3> QED BY <3>1, <3>2, <2>4
  <2> QED BY <2>5, <2>6, <2>7, <1>6 DEF EncryptLoad, EncryptTrust, EncryptSave, Emit
<1> QED
  BY <1>5, <1>6 DEF EncryptMessage

\* no call moves
LEMMA ReadStays ==
    ASSUME DirectInv, NEW held \in SUBSET Message, ReadWith(held), PageKeeps(held),
           RecordsInv(held)', AtMostOnce', UNCHANGED flow,
           \A c \in {flow[g] : g \in Flow} : BaseStays(c)
    PROVE  ReadInv'
<1>1. flow \in [Flow -> FlowState] /\ \A g \in Flow : CallSound(flow[g])
  BY DEF DirectInv, FlowTyped
<1>2. ASSUME NEW g \in Flow
      PROVE  CallReady(held, flow[g])'
  <2>1. PICK c \in FlowState : c = flow[g]
    BY <1>1
  <2>2. CallReady(held, c) /\ CallSound(c) /\ BaseStays(c)
    BY <2>1, <1>1 DEF ReadWith
  <2>3. CallReady(held, c)'
    BY <2>2, ReadyStays
  <2>4. flow'[g] = c
    BY <2>1
  <2> QED BY <2>3, <2>4
<1> QED
  BY <1>2 DEF ReadInv, ReadWith

LEMMA UnchangedRead ==
    ASSUME DirectInv, DirectInv', NEW held \in SUBSET Message, ReadWith(held),
           UNCHANGED <<vars, cacheVars, flow>>
    PROVE  ReadInv'
<1>1. UNCHANGED <<vars, cacheVars, flow>> /\ TypeOK
  BY DEF DirectInv
<1>2. /\ UNCHANGED <<nextKey, opened, reopened, identity, signedPreKey, kyberUsed, records>>
      /\ UNCHANGED <<sent, flow>> /\ \A x \in Party : OwnKeys(x)' \subseteq OwnKeys(x)
      /\ \A d \in Id : ciphers[d] # 0 => ciphers'[d] = ciphers[d]
  BY <1>1 DEF vars, keyVars, sessionVars, historyVars, cacheVars, OwnKeys
<1>3. Quiet(held)
  BY <1>1, <1>2, QuietSteps
<1>4. /\ RecordsInv(held)' /\ AtMostOnce' /\ PageKeeps(held)
      /\ \A c : BaseStays(c)
  BY <1>3, QuietKeeps
<1> QED
  BY <1>2, <1>4, ReadStays

\* The page forgets its calls, and what they relied on.
LEMMA CloseRead ==
    ASSUME DirectInv, DirectInv', NEW held \in SUBSET Message, ReadWith(held), Close
    PROVE  ReadInv'
<1>1. /\ UNCHANGED <<nextKey, opened, reopened, identity, signedPreKey, kyberUsed, records, sent>>
      /\ \A x \in Party : OwnKeys(x)' \subseteq OwnKeys(x)
  BY DEF Close, vars, keyVars, sessionVars, historyVars, OwnKeys
<1>2. TypeOK /\ TypeOK' /\ RecordsInv(held) /\ AtMostOnce
  BY DEF DirectInv, ReadWith
<1>3. RecordsInv(held)'
  <2>1. \A x, y \in Party : KeptRecord(x, y)
    BY <1>1, <1>2, SameRecordKept
  <2>2. \A x \in Party : nextKey[x] <= nextKey'[x]
    BY <1>1, <1>2 DEF TypeOK
  <2>3. \A x \in Party : \A k \in kyberUsed'[x] : IsBase(held, k)
    BY <1>1 DEF IsBase
  <2> QED BY <1>1, <1>2, <2>1, <2>2, <2>3, PageSound
<1>4. AtMostOnce'
  BY <1>1, <1>2 DEF AtMostOnce
<1>5. ASSUME NEW g \in Flow
      PROVE  CallReady(held, flow[g])'
  <2>1. flow'[g] = Idle
    BY DEF Close
  <2> QED BY <2>1, IdleReady
<1> QED
  BY <1>3, <1>4, <1>5 DEF ReadInv, ReadWith

\* another device's call leaves the keys of this page and what it has opened alone
LEMMA OthersKeep ==
    ASSUME TypeOK, Others
    PROVE  /\ UNCHANGED signedPreKey /\ kyberUsed'[Me] = kyberUsed[Me]
           /\ opened'[Me] = opened[Me]
<1>1. PICK p \in Party \ {Me} :
        \/ EstablishSession(p, Me)
        \/ FetchUnused(p, Me)
        \/ Encrypt(p, Me)
        \/ \E m \in sent : m.to = p /\ Decrypt(p, m)
  BY PageAssumption DEF Others
<1>2. CASE EstablishSession(p, Me) \/ FetchUnused(p, Me) \/ Encrypt(p, Me)
  BY <1>2 DEF EstablishSession, FetchUnused, Encrypt, keyVars, historyVars
<1>3. CASE \E m \in sent : m.to = p /\ Decrypt(p, m)
  <2>1. PICK m : Decrypt(p, m)
    BY <1>3
  <2>2. UNCHANGED <<opened>> \/ Opens(p, m)
    BY <2>1 DEF Decrypt, DecryptKnownPreKey, DecryptNewPreKey, RejectReplay, DecryptSignal,
                historyVars
  <2>3. UNCHANGED kyberUsed \/ kyberUsed' = [kyberUsed EXCEPT ![p] = @ \cup {m.base}]
    BY <2>1 DEF Decrypt, DecryptKnownPreKey, DecryptNewPreKey, RejectReplay, DecryptSignal, keyVars
  <2>4. UNCHANGED signedPreKey
    BY <2>1 DEF Decrypt, DecryptKnownPreKey, DecryptNewPreKey, RejectReplay, DecryptSignal, keyVars
  <2> QED BY <2>2, <2>3, <2>4, PageAssumption DEF TypeOK, Opens
<1> QED
  BY <1>1, <1>2, <1>3

LEMMA OthersRead ==
    ASSUME DirectInv, DirectInv', KeysInv, NEW held \in SUBSET Message, ReadWith(held), Others
    PROVE  ReadInv'
<1>1. TypeOK /\ TypeOK' /\ RecordsInv(held) /\ ChainInv /\ AtMostOnce
  BY MadeGivesChains DEF DirectInv, KeysInv, ReadWith
<1>2. Next /\ UNCHANGED <<flow, ciphers, identity>>
  BY OthersStep DEF DirectInv, NoneToSelf, pageVars, cacheVars
<1>3. RecordsInv(held)' /\ PlainStays(held)
  BY <1>1, <1>2, NextRecords
<1>4. AtMostOnce'
  <2>1. ASSUME NEW m \in sent, m \notin opened[m.to], Opens(m.to, m)
        PROVE  AtMostOnce'
    BY <2>1, <1>1 DEF Opens, AtMostOnce, TypeOK
  <2>2. ASSUME NEW p \in Party, NEW q \in Party, Encrypt(p, q)
        PROVE  AtMostOnce'
    BY <2>2, <1>1 DEF Encrypt, AtMostOnce
  <2>3. CASE UNCHANGED historyVars
    BY <2>3, <1>1 DEF historyVars, AtMostOnce
  <2> QED BY <1>1, <1>2, <2>1, <2>2, <2>3, RecordKinds
<1>5. /\ UNCHANGED signedPreKey /\ kyberUsed'[Me] = kyberUsed[Me]
      /\ opened'[Me] = opened[Me] /\ records'[Me] = records[Me]
  BY <1>1, OthersKeep, OthersRecords
<1>6. PageKeeps(held)
  BY <1>2, <1>3, <1>5 DEF PageKeeps
<1>7. \A c : BaseStays(c)
  BY <1>2, <1>5 DEF BaseStays, FreeBase
<1> QED
  BY <1>2, <1>3, <1>4, <1>6, <1>7, ReadStays

LEMMA DirectInitRead == DirectInit => ReadInv
<1> SUFFICES ASSUME DirectInit
             PROVE  ReadInv
  OBVIOUS
<1>1. RecordsInv({})
  BY InitReceiver DEF DirectInit, ReceiverInv
<1>2. AtMostOnce
  BY DEF DirectInit, Init, AtMostOnce
<1>3. ASSUME NEW f \in Flow
      PROVE  CallReady({}, flow[f])
  <2>1. flow[f] = Idle
    BY DEF DirectInit
  <2> QED BY <2>1, IdleReady
<1> QED
  BY <1>1, <1>2, <1>3 DEF ReadInv, ReadWith

\* a call on some of the bundles relies on what the call on all of them does
LEMMA FewerBundles ==
    ASSUME NEW held, NEW c, c.kind = "establish", NEW e, e.kind = "establish",
           e.todo \cup {e.bundle} \subseteq c.todo \cup {c.bundle}
    PROVE  /\ CallReady(held, c) => CallReady(held, e)
           /\ CallReady(held, c)' => CallReady(held, e)'
  BY DEF CallReady, Held, Deciphered

\* The bundles of a conversation: the keys of other devices.
LEMMA StartEstablishRead ==
    ASSUME DirectInv, DirectInv', NEW held \in SUBSET Message, ReadWith(held),
           NEW f \in Flow, StartEstablish(f)
    PROVE  ReadInv'
<1>1. /\ TypeOK /\ RecordsInv(held) /\ flow \in [Flow -> FlowState] /\ flow' \in [Flow -> FlowState]
      /\ \A p \in Party : published[p] \in Bundle
  BY DEF DirectInv, FlowTyped, ReadWith, TypeOK
<1>2. PICK preKey :
        /\ \A p \in Devices(remote) : preKey[p] \in OfferedPreKeys(p)
        /\ published' = [p \in Party |->
              IF p \in Devices(remote) THEN [published[p] EXCEPT !.preKeys = @ \ {preKey[p]}]
              ELSE published[p]]
        /\ LET bundles == {[party |-> p, identity |-> published[p].identity,
                            signedPreKey |-> published[p].signedPreKey,
                            preKey |-> preKey[p]] : p \in Devices(remote)}
           IN  \E b \in bundles :
                  /\ Starts(f, [kind |-> "establish", step |-> "existing",
                                todo |-> bundles \ {b}, bundle |-> b,
                                address |-> AddressOf(b.party), record |-> FreshRecord])
                  /\ CacheAddress(b.party)
  BY DEF StartEstablish
<1> DEFINE bundles == {[party |-> p, identity |-> published[p].identity,
                        signedPreKey |-> published[p].signedPreKey,
                        preKey |-> preKey[p]] : p \in Devices(remote)}
<1>3. ASSUME NEW b \in bundles
      PROVE  PlainBundle(held, b) /\ b.party # Me
  <2>1. PICK p \in Devices(remote) :
          /\ b.party = p /\ b.identity = published[p].identity
          /\ b.signedPreKey = published[p].signedPreKey /\ b.preKey = preKey[p]
    OBVIOUS
  <2>2. p \in Party \ {Me} /\ preKey[p] \in OfferedPreKeys(p)
    BY <1>2 DEF Devices
  <2>3. /\ b.identity \in Key /\ b.signedPreKey \in Key
        /\ b.preKey # NoKey => b.preKey \in Key /\ b.preKey \in published[p].preKeys
    BY <2>1, <2>2, <1>1 DEF Bundle, OfferedPreKeys
  <2>4. /\ IsOther(held, b.identity) /\ IsOther(held, b.signedPreKey)
        /\ b.preKey # NoKey => IsOther(held, b.preKey)
    BY <2>1, <2>2, <2>3 DEF IsOther, OwnKeys
  <2>5. PICK k1 \in Key, k2 \in Key : k1 = b.identity /\ k2 = b.signedPreKey
    BY <2>3
  <2>6. Plain(held, k1) /\ Plain(held, k2)
    BY <2>4, <2>5, <1>1, OtherIsPlain
  <2>7. b.preKey # NoKey => Plain(held, b.preKey)
    BY <2>3, <2>4, <1>1, OtherIsPlain
  <2> QED BY <2>1, <2>2, <2>5, <2>6, <2>7 DEF PlainBundle
<1>4. PICK b \in bundles :
        Starts(f, [kind |-> "establish", step |-> "existing", todo |-> bundles \ {b}, bundle |-> b,
                   address |-> AddressOf(b.party), record |-> FreshRecord])
  BY <1>2
<1>5. PICK all : all = bundles
  OBVIOUS
<1>6. b \in all /\ \A x \in all : PlainBundle(held, x) /\ x.party # Me
  BY <1>3, <1>5
<1> HIDE DEF bundles
<1>7. PICK e : e = [kind |-> "establish", step |-> "existing", todo |-> all \ {b}, bundle |-> b,
                    address |-> AddressOf(b.party), record |-> FreshRecord]
  OBVIOUS
<1>8. flow' = [flow EXCEPT ![f] = e]
  BY <1>4, <1>5, <1>7 DEF Starts
<1>9. e \in FlowState
  BY <1>1, <1>8
<1>10. e.kind = "establish" /\ e.todo \cup {e.bundle} \subseteq all
  BY <1>6, <1>7
<1>11. CallReady(held, e) /\ CallSound(e)
  BY <1>6, <1>10 DEF CallReady, CallSound, Held, Deciphered
<1>12. Quiet(held)
  <2>1. UNCHANGED <<nextKey, opened, reopened, identity, signedPreKey, preKeys, kyberUsed, records,
                    sent, ciphers>>
    BY DEF StartEstablish, sessionVars, historyVars
  <2>2. \A p \in Party : /\ published'[p].identity = published[p].identity
                         /\ published'[p].signedPreKey = published[p].signedPreKey
                         /\ published'[p].preKeys \subseteq published[p].preKeys
    BY <1>1, <1>2 DEF Bundle
  <2>3. \A x \in Party : OwnKeys(x)' \subseteq OwnKeys(x)
    BY <2>1, <2>2 DEF OwnKeys
  <2> QED BY <2>1, <2>3, <1>1, QuietSteps
<1>13. CallReady(held, e)'
  BY <1>9, <1>11, <1>12, QuietReady
<1> QED
  BY <1>8, <1>12, <1>13, QuietRead

\* The end of a turn: the next turn is on one of the bundles left.
LEMMA EndTurnRead ==
    ASSUME DirectInv, NEW f \in Flow, NEW c \in Establishing, c = flow[f], EndTurn(f),
           NEW held, CallReady(held, c)'
    PROVE  /\ \E e : flow' = [flow EXCEPT ![f] = e] /\ CallReady(held, e)'
           /\ \A d \in Id : ciphers[d] # 0 => ciphers'[d] = ciphers[d]
<1>1. TypeOK /\ CacheTyped /\ CallSound(c) /\ c.kind = "establish"
  BY DEF DirectInv, PageTyped, FlowTyped, Establishing
<1>2. \E e : flow' = [flow EXCEPT ![f] = e] /\ CallReady(held, e)'
  <2>1. CASE c.todo = {}
    BY <2>1, IdleReady DEF EndTurn, Return
  <2>2. CASE c.todo # {}
    <3>1. PICK next \in NextBundle(c) : flow' = [flow EXCEPT ![f] = next]
      BY <2>2 DEF EndTurn
    <3>2. next \in Establishing /\ next.bundle \in c.todo /\ next.todo = c.todo \ {next.bundle}
      BY <1>1, NextBundleType
    <3>3. next.kind = "establish" /\ next.todo \cup {next.bundle} \subseteq c.todo \cup {c.bundle}
      BY <3>2 DEF Establishing
    <3>4. CallReady(held, next)'
      BY <3>3, <1>1, FewerBundles
    <3> QED BY <3>1, <3>4
  <2> QED BY <2>1, <2>2
<1>3. \A d \in Id : ciphers[d] # 0 => ciphers'[d] = ciphers[d]
  <2>1. PICK d, a : EnsureCipher(d, a)
    BY DEF EndTurn
  <2> QED BY <2>1, <1>1 DEF EnsureCipher, NewCipher, CacheTyped
<1> QED
  BY <1>2, <1>3

\* The session is made with keys no handshake was made with.
LEMMA EstablishStoreRead ==
    ASSUME DirectInv, DirectInv', KeysInv, NEW held \in SUBSET Message, ReadWith(held),
           NEW f \in Flow, EstablishStore(f)
    PROVE  ReadInv'
<1>1. /\ TypeOK /\ TypeOK' /\ RecordsInv(held) /\ ChainInv /\ flow \in [Flow -> FlowState]
      /\ AtMostOnce
  BY MadeGivesChains DEF DirectInv, FlowTyped, KeysInv, ReadWith
<1>2. PICK e : e = flow[f] /\ e.kind = "establish" /\ e.step = "store"
  BY DEF EstablishStore, At
<1>3. e \in Establishing /\ CallFits(e) /\ CallSound(e) /\ CallReady(held, e)
  BY <1>1, <1>2, FlowKinds DEF KeysInv, PageInv, DirectInv, FlowTyped, ReadWith
<1>4. PICK q \in Party, b \in Bundles : q = e.address /\ b = e.bundle
  BY <1>3 DEF Establishing
<1>5. PICK far \in Key, signed \in Key, preKey \in OptionalKey :
        far = b.identity /\ signed = b.signedPreKey /\ preKey = b.preKey
  BY DEF Bundles
<1>6. Plain(held, far) /\ Plain(held, signed) /\ (preKey # NoKey => Plain(held, preKey))
  BY <1>2, <1>3, <1>4, <1>5 DEF CallReady, PlainBundle
<1>7. PICK p \in Party : p = Me
  BY PageAssumption
<1>8. PICK time \in Nat : time = now
  BY <1>1 DEF TypeOK
<1>9. PICK r : r = records[p][q]
  OBVIOUS
<1>10. e.record = r
  BY <1>2, <1>3, <1>4, <1>7, <1>9 DEF CallFits
<1>11. StoreSession(p, q, PromoteState(r, InitializeAlice(identity[p], far, NewKey(p, 0),
                                                         NewKey(p, 1), signed, preKey, time)))
  BY <1>2, <1>4, <1>5, <1>7, <1>8, <1>10 DEF EstablishStore
<1>12. /\ nextKey' = [nextKey EXCEPT ![p] = @ + 2]
       /\ UNCHANGED <<identity, signedPreKey, preKeys, kyberUsed, published, sent, opened, reopened>>
       /\ EndTurn(f)
  BY <1>7 DEF EstablishStore, keyVars, historyVars
<1>13. \A x \in Party : OwnKeys(x)' \subseteq OwnKeys(x)
  BY <1>12 DEF OwnKeys
<1>14. RecordsInv(held)' /\ PlainStays(held)
  <2>1. UNCHANGED <<identity, signedPreKey, preKeys, kyberUsed, sent, opened>>
    BY <1>12
  <2> QED BY <2>1, <1>1, <1>6, <1>9, <1>11, <1>12, <1>13, HandshakeMade
<1>15. PageKeeps(held) /\ AtMostOnce'
  <2>1. \A d \in Id : ciphers[d] # 0 => ciphers'[d] = ciphers[d]
    <3>1. PICK d, a : EnsureCipher(d, a)
      BY <1>12 DEF EndTurn
    <3> QED BY <3>1 DEF EnsureCipher, NewCipher, CacheTyped, DirectInv, PageTyped
  <2> QED BY <2>1, <1>1, <1>12, <1>14 DEF PageKeeps, AtMostOnce
<1>16. CallReady(held, e)'
  <2>1. BaseStays(e) /\ e \in FlowState
    BY <1>2, <1>3 DEF BaseStays, Deciphered, FlowState
  <2> QED BY <2>1, <1>3, <1>15, ReadyStays
<1>17. PICK next : flow' = [flow EXCEPT ![f] = next] /\ CallReady(held, next)'
  BY <1>2, <1>3, <1>12, <1>16, EndTurnRead
<1>18. \A c \in {flow[g] : g \in Flow \ {f}} : BaseStays(c)
  <2>1. \A g \in Flow \ {f} : flow[g] = Idle
    BY EstablishStoreKeeps
  <2>2. BaseStays(Idle)
    BY DEF BaseStays, Deciphered, Idle
  <2> QED BY <2>1, <2>2
<1> QED
  BY <1>14, <1>15, <1>17, <1>18, ReadStep

LEMMA EstablishRead ==
    ASSUME DirectInv, DirectInv', KeysInv, NEW held \in SUBSET Message, ReadWith(held),
           NEW f \in Flow, Establish(f)
    PROVE  ReadInv'
<1>1. CASE StartEstablish(f) \/ EstablishStore(f)
  BY <1>1, StartEstablishRead, EstablishStoreRead
<1> SUFFICES ASSUME ~StartEstablish(f), ~EstablishStore(f)
             PROVE  ReadInv'
  BY <1>1
<1>2. PICK c : c = flow[f] /\ c.kind = "establish"
  BY DEF Establish, At, EstablishNeedless, EstablishNeeded, EstablishTrust, EstablishLoad,
         EstablishSave
<1>3. /\ TypeOK /\ flow \in [Flow -> FlowState] /\ c \in FlowState /\ c \in Establishing
      /\ CallReady(held, c) /\ CallSound(c) /\ flow[f].kind # "idle"
  BY <1>2, FlowKinds DEF DirectInv, FlowTyped, ReadWith
<1>4. /\ UNCHANGED <<nextKey, opened, reopened, identity, signedPreKey, kyberUsed, records, sent>>
      /\ \A x \in Party : OwnKeys(x)' \subseteq OwnKeys(x)
  BY DEF Establish, EstablishNeedless, EstablishNeeded, EstablishTrust, EstablishLoad,
         EstablishSave, vars, keyVars, sessionVars, historyVars, OwnKeys
<1>5. \A d \in Id : ciphers[d] # 0 => ciphers'[d] = ciphers[d]
  <2>1. UNCHANGED ciphers \/ \E d, a : EnsureCipher(d, a)
    BY DEF Establish, EstablishNeedless, EstablishNeeded, EstablishTrust, EstablishLoad,
           EstablishSave, cacheVars, EndTurn
  <2> QED BY <2>1 DEF EnsureCipher, NewCipher, CacheTyped, DirectInv, PageTyped
<1>6. Quiet(held)
  BY <1>3, <1>4, <1>5, QuietSteps
<1>7. CallReady(held, c)'
  BY <1>3, <1>6, QuietReady
<1>8. ASSUME NEW step, NEW r, flow' = [flow EXCEPT ![f] = Moved(c, step, r)]
      PROVE  ReadInv'
  <2>1. PICK e : e = Moved(c, step, r)
    OBVIOUS
  <2>2. e.kind = "establish" /\ e.todo = c.todo /\ e.bundle = c.bundle
    BY <2>1, <1>3 DEF Moved, Establishing
  <2>3. CallReady(held, e)'
    BY <2>2, <1>2, <1>7, FewerBundles
  <2> QED BY <2>1, <2>3, <1>6, <1>8, QuietRead
<1>9. CASE Return(f)
  BY <1>6, <1>9, IdleReady, QuietRead DEF Return
<1>10. ASSUME NEW step, NEW r, GoWith(f, step, r)
       PROVE  ReadInv'
  <2>1. flow' = [flow EXCEPT ![f] = Moved(c, step, r)]
    BY <1>2, <1>3, <1>10, GoMoves
  <2> QED BY <2>1, <1>8
<1>11. ASSUME NEW step, Go(f, step)
       PROVE  ReadInv'
  <2>1. flow' = [flow EXCEPT ![f] = Moved(c, step, c.record)]
    BY <1>2, <1>3, <1>11, GoMoves
  <2> QED BY <2>1, <1>8
<1>12. CASE EndTurn(f)
  <2>1. PICK e : flow' = [flow EXCEPT ![f] = e] /\ CallReady(held, e)'
    BY <1>2, <1>3, <1>7, <1>12, EndTurnRead
  <2> QED BY <2>1, <1>6, QuietRead
<1> QED
  BY <1>9, <1>10, <1>11, <1>12
  DEF Establish, EstablishNeedless, EstablishNeeded, EstablishTrust, EstablishLoad, EstablishSave

\* The sessions of the record a decryption works on are those it loaded, and the one
\* its message starts.
LEMMA RecordForBases ==
    ASSUME TypeOK, NEW e, e.record \in Record, e.message \in Message,
           NEW u \in Sessions(RecordFor(e))
    PROVE  \/ \E v \in Sessions(e.record) : u.base = v.base
           \/ StartsSession(e) /\ u.base = e.message.base
<1>1. PICK r \in Record, m \in Message : r = e.record /\ m = e.message
  OBVIOUS
<1>2. CASE m.type # "prekey"
  BY <1>1, <1>2 DEF RecordFor
<1>3. CASE m.type = "prekey" /\ HasMatchingSession(r, m.base)
  <2>1. u \in Sessions(PromoteMatching(r, m.base))
    BY <1>1, <1>3 DEF RecordFor, ProcessPreKey
  <2>2. PICK v \in Sessions(r) : Alike(u, v)
    BY <1>3, <2>1, SessionsAfterMatching
  <2>3. v \in Session
    BY <1>1, SessionsOfRecord
  <2>4. u.base = v.base
    BY <2>2, <2>3, AlikeIsSame DEF Same
  <2> QED BY <2>4, <1>1
<1>4. CASE m.type = "prekey" /\ ~HasMatchingSession(r, m.base)
  <2>0. PICK own \in Key : own = identity[Me]
    BY PageAssumption DEF TypeOK
  <2>1. PICK sender \in Key, base \in Key, signed \in Key, preKey \in OptionalKey :
          /\ sender = m.sender /\ base = m.base
          /\ signed = m.signedPreKey /\ preKey = m.preKey
    BY <1>4, MessageFields
  <2> DEFINE b == InitializeBob(own, sender, base, signed, preKey)
  <2>2. b \in Session /\ b.base = base
    <3>1. own \in Key /\ sender \in Key /\ base \in Key /\ signed \in Key /\ preKey \in OptionalKey
      OBVIOUS
    <3>2. b \in Session /\ b.base = base
      BY ONLY <3>1, InitializeBobSound
    <3> QED BY <3>2
  <2>3. u \in Sessions(PromoteState(r, b))
    BY <2>0, <2>1, <1>1, <1>4 DEF RecordFor, ProcessPreKey
  <2> HIDE DEF b
  <2>4. \/ u = b
        \/ r.current # NoSession /\ u = ClearPending(r.current)
        \/ \E j \in DOMAIN r.previous : u = r.previous[j]
    BY <2>2, <2>3, SessionsAfterPromote
  <2>5. CASE u = b
    BY <2>1, <2>2, <2>5, <1>1, <1>4 DEF StartsSession
  <2>6. CASE r.current # NoSession /\ u = ClearPending(r.current)
    <3>1. r.current \in Session /\ r.current \in Sessions(r)
      BY <2>6, SessionsOfRecord
    <3>2. u.base = r.current.base
      BY <2>6, <3>1, ClearPendingFields
    <3> QED BY <3>1, <3>2, <1>1
  <2>7. CASE \E j \in DOMAIN r.previous : u = r.previous[j]
    BY <2>7, <1>1, SessionsOfRecord
  <2> QED BY <2>4, <2>5, <2>6, <2>7
<1> QED
  BY <1>1, <1>2, <1>3, <1>4

\* Calls that overlap are on messages of different devices, and a base key is of one.
LEMMA BasesApart ==
    ASSUME DirectInv, KeysInv, NEW held \in SUBSET Message, ReadWith(held),
           NEW f \in Flow, NEW g \in Flow \ {f}, Deciphered(flow[f]), Deciphered(flow[g]),
           flow[f].message.type = "prekey", flow[g].message.type = "prekey"
    PROVE  flow[f].message.base # flow[g].message.base
<1>1. PICK c \in FlowState, d \in FlowState : c = flow[f] /\ d = flow[g]
  BY DEF DirectInv, FlowTyped
<1>2. CallSound(c) /\ CallSound(d) /\ CallReady(held, c) /\ CallReady(held, d)
  BY <1>1 DEF DirectInv, FlowTyped, ReadWith
<1>3. c.object # d.object
  BY <1>1 DEF KeysInv, PageInv, ObjectsApart, Deciphered, Live
<1>4. c.message.from # d.message.from
  BY <1>1, <1>2, <1>3 DEF CallReady, Deciphered
<1>5. c.message.base[1] = c.message.from /\ d.message.base[1] = d.message.from
  BY <1>1, <1>2 DEF CallSound, Deciphered, ReadWith, RecordsInv, MessagesSound
<1> QED
  BY <1>1, <1>4, <1>5

\* what a decryption relies on, once it has moved on to e
LEMMA DecryptReady ==
    ASSUME NEW held, NEW e, e.kind = "decrypt",
           e.step # "lookup" => e.object = ciphers'[DeviceId[e.message.from]],
           Deciphered(e) /\ StartsSession(e) => BaseReady(held, e.message, e.step)'
    PROVE  CallReady(held, e)'
<1>1. StartsSession(e)' = StartsSession(e)
  BY DEF StartsSession
<1> QED
  BY <1>1 DEF CallReady, Held, Deciphered

\* The base key is marked: no session has it, and no message opened hangs on it.
LEMMA MarkRead ==
    ASSUME DirectInv, DirectInv', KeysInv, NEW held \in SUBSET Message, ReadWith(held),
           NEW f \in Flow, DecryptMark(f)
    PROVE  ReadInv'
<1>1. TypeOK /\ TypeOK' /\ RecordsInv(held) /\ flow \in [Flow -> FlowState] /\ Me \in Party
  BY PageAssumption DEF DirectInv, FlowTyped, ReadWith
<1>2. PICK c : c = flow[f] /\ c.kind = "decrypt" /\ c.step = "mark"
  BY DEF DecryptMark, At
<1>3. /\ c \in FlowState /\ c \in Decrypting /\ CallSound(c) /\ CallReady(held, c)
      /\ flow[f].kind # "idle"
  BY <1>1, <1>2, FlowKinds DEF DirectInv, FlowTyped, ReadWith
<1>4. PICK m \in Message : m = c.message /\ m \in sent /\ m.to = Me /\ m.type = "prekey"
  BY <1>2, <1>3 DEF CallSound, Decrypting
<1>5. /\ kyberUsed' = [kyberUsed EXCEPT ![Me] = @ \cup {m.base}]
      /\ UNCHANGED <<identity, signedPreKey, preKeys, published, records, nextKey, sent, opened,
                     reopened, ciphers>>
  BY <1>2, <1>4 DEF DecryptMark, sessionVars, historyVars, cacheVars
<1>6. kyberUsed'[Me] = kyberUsed[Me] \cup {m.base}
  BY <1>1, <1>5 DEF TypeOK
<1>7. RecordsInv(held)' /\ PlainStays(held)
  <2>1. /\ \A x \in Party : kyberUsed[x] \subseteq kyberUsed'[x]
        /\ \A x \in Party : \A k \in kyberUsed'[x] : IsBase(held, k)
    BY <1>1, <1>4, <1>5 DEF TypeOK, IsBase
  <2>2. /\ \A x \in Party : nextKey[x] <= nextKey'[x]
        /\ \A x \in Party : OwnKeys(x)' \subseteq OwnKeys(x)
    BY <1>1, <1>5 DEF TypeOK, OwnKeys
  <2>3. \A x, y \in Party : KeptRecord(x, y)
    BY <1>1, <1>5, SameRecordKept
  <2>4. sent \subseteq sent' /\ sent' \subseteq sent \cup held /\ UNCHANGED <<opened, identity>>
    BY <1>5
  <2> QED BY <1>1, <2>1, <2>2, <2>3, <2>4, PageSound
<1>8. PageKeeps(held) /\ AtMostOnce'
  BY <1>5, <1>6, <1>7 DEF PageKeeps, AtMostOnce, ReadWith
<1>9. ASSUME NEW base, FreeBase(Me, base)
      PROVE  FreeBase(Me, base)'
  BY <1>5, <1>9 DEF FreeBase
<1>10. PICK step \in {"remove", "store"} : Go(f, step)
  BY DEF DecryptMark
<1>11. PICK e : e = Moved(c, step, c.record)
  OBVIOUS
<1>12. flow' = [flow EXCEPT ![f] = e]
  BY <1>1, <1>2, <1>3, <1>10, <1>11, GoMoves
<1>13. /\ e.kind = "decrypt" /\ e.step = step /\ e.message = m /\ e.object = c.object
       /\ e.record = c.record
  BY <1>3, <1>4, <1>11 DEF Moved, Decrypting
<1>14. CallReady(held, e)'
  <2>1. e.object = ciphers'[DeviceId[e.message.from]]
    BY <1>2, <1>3, <1>4, <1>5, <1>13 DEF CallReady
  <2>2. ASSUME StartsSession(e)
        PROVE  BaseReady(held, m, step)'
    <3>1. StartsSession(c)
      BY <2>2, <1>4, <1>13 DEF StartsSession
    <3>2. BaseReady(held, m, "mark")
      BY <3>1, <1>2, <1>3, <1>4 DEF CallReady, Deciphered
    <3>3. FreeBase(Me, m.base)'
      <4>1. PICK p \in Party : p = Me
        BY <1>1
      <4>2. FreeBase(p, m.base)
        BY <4>1, <3>2, <1>1, <1>4, UnusedBaseFree DEF BaseReady
      <4> QED BY <4>1, <4>2, <1>9
    <3>4. m.preKey # NoKey => Plain(held, m.preKey)'
      BY <3>2, <1>7, MessageFields DEF BaseReady, OptionalKey, PlainStays
    <3> QED BY <3>2, <3>3, <3>4, <1>5, <1>6, <1>10 DEF BaseReady
  <2> QED BY <2>1, <2>2, <1>13, DecryptReady
<1>15. ASSUME NEW o \in {flow[g] : g \in Flow \ {f}}
       PROVE  BaseStays(o)
  <2>1. PICK g \in Flow \ {f} : o = flow[g]
    OBVIOUS
  <2> SUFFICES ASSUME Deciphered(o), StartsSession(o)
               PROVE  /\ o.message.base \notin kyberUsed[Me] => o.message.base \notin kyberUsed'[Me]
                      /\ FreeBase(Me, o.message.base) => FreeBase(Me, o.message.base)'
    BY DEF BaseStays
  <2>2. /\ Deciphered(flow[f]) /\ flow[f].message = m
        /\ Deciphered(flow[g]) /\ flow[g].message.type = "prekey"
    BY <2>1, <1>2, <1>4 DEF Deciphered, StartsSession
  <2>3. m.base # o.message.base
    BY <2>1, <2>2, <1>4, BasesApart
  <2> QED BY <2>3, <1>5, <1>6, <1>9
<1> QED
  BY <1>7, <1>8, <1>12, <1>14, <1>15, ReadStep

\* The record a decryption works on, when it stores its result: the one it has loaded
\* is the one stored, whose sessions no other call has changed.
LEMMA StoreReceives ==
    ASSUME DirectInv, KeysInv, NEW held \in SUBSET Message, ReadWith(held),
           NEW f \in Flow, DecryptStore(f),
           NEW e \in Decrypting, e = flow[f], NEW m \in sent, m = e.message,
           NEW r, r = RecordFor(e)
    PROVE  \E a \in Party : Receives(held, Me, a, m, r) /\ e.record = records[Me][a]
<1>1. /\ TypeOK /\ CacheTyped /\ ChainInv /\ RecordsInv(held)
      /\ e.kind = "decrypt" /\ e.step = "store"
  BY MadeGivesChains DEF DirectInv, PageTyped, KeysInv, ReadWith, DecryptStore, At
<1>2. CallSound(e) /\ CallFits(e) /\ CallReady(held, e)
  BY DEF DirectInv, FlowTyped, KeysInv, PageInv, ReadWith
<1>3. m \in Message /\ m.to = Me /\ e.record \in Record
  BY <1>1, <1>2, SentType DEF CallSound, Decrypting
<1>4. PICK a \in Party : a = objects[e.object] /\ CallAddress(f) = a
  BY <1>1, <1>2 DEF CallSound, CallAddress, CacheTyped
<1>5. PICK p \in Party : p = Me
  BY PageAssumption
<1>6. PICK old \in Record : old = records[p][a]
  BY <1>1, RecordType
<1>7. e.record = old /\ ChainsDistinct(old)
  BY <1>1, <1>2, <1>4, <1>5, <1>6 DEF CallFits, Loaded, ChainInv, ChainsApart
<1>8. PICK fresh : fresh = NewKey(p, 0)
  OBVIOUS
<1>9. /\ Result(e) = DecryptWithRecord(r, m, fresh) /\ Result(e).verdict = "ok" /\ r \in Record
  BY <1>1, <1>2, <1>3, <1>5, <1>8, ResultDerives DEF CallSound, Deciphered
<1>10. /\ UNCHANGED <<identity, signedPreKey, preKeys, kyberUsed, published, sent>>
       /\ StoreSession(p, a, Result(e).record)
       /\ UseNewKey(p, a, Result(e).record)
       /\ Opens(p, m)
  BY <1>4, <1>5 DEF DecryptStore, UseNewKey, keyVars
<1>11. PICK used : used = kyberUsed[p]
  OBVIOUS
<1>12. Prepared(held, p, a, used, r)
  <2>1. CASE m.type # "prekey"
    <3>1. r = old
      BY <2>1, <1>7 DEF RecordFor
    <3>2. \A u \in Sessions(r) : \E v \in Sessions(records[p][a]) : Alike(u, v)
      BY <3>1, <1>6 DEF Alike
    <3> QED BY <3>1, <3>2, <1>1, <1>7, <1>11, PreparedAlike
  <2>2. CASE m.type = "prekey" /\ HasMatchingSession(old, m.base)
    <3>1. r = PromoteMatching(old, m.base)
      BY <2>2, <1>7 DEF RecordFor, ProcessPreKey
    <3>2. ChainsDistinct(r)
      BY <2>2, <3>1, <1>7, PromoteMatchingProperties
    <3>3. \A u \in Sessions(r) : \E v \in Sessions(records[p][a]) : Alike(u, v)
      BY <2>2, <3>1, <1>6, SessionsAfterMatching
    <3> QED BY <3>2, <3>3, <1>1, <1>9, <1>11, PreparedAlike
  <2>3. CASE m.type = "prekey" /\ ~HasMatchingSession(old, m.base)
    <3>1. PICK own : own = identity[p]
      OBVIOUS
    <3>2. r = PromoteState(old, InitializeBob(own, m.sender, m.base, m.signedPreKey, m.preKey))
      BY <2>3, <3>1, <1>5, <1>7 DEF RecordFor, ProcessPreKey
    <3>3. BaseReady(held, m, "store")
      BY <2>3, <1>1, <1>2, <1>7 DEF CallReady, Deciphered, StartsSession
    <3>4. /\ m.signedPreKey = signedPreKey[p] /\ FreeBase(p, m.base)
          /\ m.preKey # NoKey => Known(m.preKey) /\ ~IsBase(held, m.preKey)
          /\ kyberUsed[p] \cup {m.base} \subseteq used
      BY <3>3, <1>5, <1>11 DEF BaseReady, Plain
    <3>5. m.to = p /\ m.type = "prekey" /\ own = identity[p] /\ old = records[p][a]
      BY <2>3, <3>1, <1>3, <1>5, <1>6
    <3>6. Prepared(held, p, a, used, PromoteState(old,
                   InitializeBob(own, m.sender, m.base, m.signedPreKey, m.preKey)))
      BY <3>4, <3>5, <1>1, PreparedNew
    <3> QED BY <3>2, <3>6
  <2> QED BY <2>1, <2>2, <2>3
<1>13. Receives(held, p, a, m, r)
  <2>1. \A x \in Party : kyberUsed[x] \subseteq kyberUsed'[x] /\ preKeys'[x] \subseteq preKeys[x]
    BY <1>10
  <2>2. \A x \in Party : \A k \in kyberUsed'[x] : IsBase(held, k)
    BY <1>10 DEF IsBase
  <2>3. kyberUsed'[p] = used
    BY <1>10, <1>11
  <2> QED BY <2>1, <2>2, <2>3, <1>8, <1>9, <1>10, <1>12 DEF Receives
<1> QED
  BY <1>5, <1>6, <1>7, <1>13

\* The message is opened for the first time, and the other calls' base keys are on none
\* of the sessions stored.
LEMMA StoreRead ==
    ASSUME DirectInv, DirectInv', KeysInv, NEW held \in SUBSET Message, ReadWith(held),
           NEW f \in Flow, DecryptStore(f)
    PROVE  ReadInv'
<1>1. /\ TypeOK /\ TypeOK' /\ RecordsInv(held) /\ AtMostOnce /\ flow \in [Flow -> FlowState]
  BY DEF DirectInv, FlowTyped, ReadWith
<1>2. PICK e : e = flow[f] /\ e.kind = "decrypt" /\ e.step = "store"
  BY DEF DecryptStore, At
<1>3. e \in Decrypting /\ CallSound(e)
  BY <1>1, <1>2, FlowKinds DEF DirectInv, FlowTyped
<1>4. PICK m \in sent : m = e.message /\ m \in Message /\ m.to = Me
  BY <1>2, <1>3 DEF CallSound, Decrypting
<1>5. PICK r : r = RecordFor(e)
  OBVIOUS
<1>6. PICK a \in Party : Receives(held, Me, a, m, r) /\ e.record = records[Me][a]
  BY <1>2, <1>3, <1>4, <1>5, StoreReceives
<1>7. PICK p \in Party : p = Me
  BY PageAssumption
<1>8. Receives(held, p, a, m, r) /\ m.to = p
  BY <1>4, <1>6, <1>7
<1>9. RecordsInv(held)' /\ PlainStays(held) /\ m \notin opened[p] /\ FromRecord(p, a, m, r)
  BY <1>1, <1>8, ReceivesSound
<1>10. /\ UNCHANGED <<identity, signedPreKey, kyberUsed, ciphers>>
       /\ flow' = [flow EXCEPT ![f] = Idle]
  BY DEF DecryptStore, Return, keyVars, cacheVars
<1>11. /\ \A x \in Party \ {a} : records'[p][x] = records[p][x]
       /\ opened'[p] = opened[p] \cup {m} /\ reopened' = reopened
  <2>1. Opens(p, m) /\ \E q : StoreSession(p, a, q)
    BY <1>8 DEF Receives
  <2>2. opened'[p] = opened[p] \cup {m}
    BY <2>1, <1>1 DEF Opens, TypeOK
  <2>3. reopened' = reopened
    BY <2>1, <1>1, <1>9 DEF Opens, TypeOK
  <2>4. \A x \in Party \ {a} : records'[p][x] = records[p][x]
    BY <2>1, <1>1 DEF StoreSession, TypeOK
  <2> QED BY <2>2, <2>3, <2>4
<1>12. PageKeeps(held) /\ AtMostOnce'
  BY <1>1, <1>9, <1>10, <1>11 DEF PageKeeps, AtMostOnce
<1>13. ASSUME NEW base, FreeBase(p, base), IsBase(held, base),
              m.type = "prekey" => base # m.base
       PROVE  FreeBase(p, base)'
  <2>1. ASSUME NEW v \in Sessions(r)
        PROVE  v.base # base /\ base \notin v.root[1]
    <3>1. \/ \E w \in Sessions(records[p][a]) : v.base = w.base
          \/ m.type = "prekey" /\ v.base = m.base
      <4>1. e.record \in Record /\ e.message \in Message /\ v \in Sessions(RecordFor(e))
        BY <2>1, <1>3, <1>4, <1>5 DEF Decrypting
      <4> QED BY <4>1, <1>1, <1>4, <1>6, <1>7, RecordForBases DEF StartsSession
    <3>2. v.base # base
      BY <3>1, <1>13 DEF FreeBase
    <3>3. OneBase(held, v)
      BY <2>1, <1>8 DEF Receives, Prepared, Ready
    <3> QED BY <3>2, <3>3, <1>13 DEF OneBase
  <2>2. \A x \in Party : \A s \in Sessions(records'[p][x]) : s.base # base
    <3>1. \A s \in Sessions(records'[p][a]) : s.base # base
      BY <2>1, <1>9 DEF FromRecord
    <3> QED BY <3>1, <1>11, <1>13 DEF FreeBase
  <2>3. base \notin m.key.root[1]
    BY <2>1, <1>9 DEF FromRecord
  <2>4. \A o \in opened'[p] : identity'[p] \in o.key.root[1] => base \notin o.key.root[1]
    BY <2>3, <1>10, <1>11, <1>13 DEF FreeBase
  <2> QED BY <2>2, <2>4 DEF FreeBase
<1>14. ASSUME NEW o \in {flow[g] : g \in Flow \ {f}}
       PROVE  BaseStays(o)
  <2>1. PICK g \in Flow \ {f} : o = flow[g]
    OBVIOUS
  <2> SUFFICES ASSUME Deciphered(o), StartsSession(o), FreeBase(Me, o.message.base)
               PROVE  FreeBase(Me, o.message.base)'
    BY <1>10 DEF BaseStays
  <2>2. /\ o.message \in sent /\ o.message.type = "prekey"
    BY <2>1 DEF DirectInv, FlowTyped, CallSound, Deciphered, StartsSession
  <2>3. ASSUME m.type = "prekey"
        PROVE  o.message.base # m.base
    <3>1. /\ Deciphered(flow[f]) /\ flow[f].message = m
          /\ Deciphered(flow[g]) /\ flow[g].message.type = "prekey"
      BY <2>1, <2>2, <1>2, <1>4 DEF Deciphered
    <3> QED BY <3>1, <2>1, <2>3, BasesApart
  <2>4. IsBase(held, o.message.base)
    BY <2>2 DEF IsBase
  <2> QED BY <2>3, <2>4, <1>7, <1>13
<1> QED
  BY <1>9, <1>10, <1>12, <1>14, IdleReady, ReadStep

\* what a call that starts a session relies on, while nothing it relies on changes
LEMMA BaseReadyStays ==
    ASSUME NEW held, PlainStays(held),
           UNCHANGED <<identity, signedPreKey, kyberUsed, records, opened>>,
           NEW m \in Message, m.type = "prekey", NEW step, BaseReady(held, m, step)
    PROVE  BaseReady(held, m, step)'
<1>1. m.preKey # NoKey => m.preKey \in Key
  BY MessageFields DEF OptionalKey
<1>2. FreeBase(Me, m.base) => FreeBase(Me, m.base)'
  BY DEF FreeBase
<1> QED
  BY <1>1, <1>2 DEF BaseReady, PlainStays

LEMMA StartDecryptRead ==
    ASSUME DirectInv, DirectInv', NEW held \in SUBSET Message, ReadWith(held),
           NEW f \in Flow, NEW m \in sent, StartDecrypt(f, m)
    PROVE  ReadInv'
<1>1. TypeOK /\ UNCHANGED <<vars, cacheVars>>
  BY DEF DirectInv, StartDecrypt
<1>2. PICK o : o = ciphers[DeviceId[m.from]]
  OBVIOUS
<1>3. PICK e : e = [kind |-> "decrypt", step |-> IF o = 0 THEN "lookup" ELSE "load",
                    message |-> m, object |-> o, record |-> FreshRecord]
  OBVIOUS
<1>4. flow' = [flow EXCEPT ![f] = e]
  BY <1>2, <1>3 DEF StartDecrypt, Starts
<1>5. /\ UNCHANGED <<nextKey, opened, reopened, identity, signedPreKey, kyberUsed, records>>
      /\ UNCHANGED <<sent, ciphers>> /\ \A x \in Party : OwnKeys(x)' \subseteq OwnKeys(x)
  BY <1>1 DEF vars, keyVars, sessionVars, historyVars, cacheVars, OwnKeys
<1>6. Quiet(held)
  BY <1>1, <1>5, QuietSteps
<1>7. CallReady(held, e)'
  <2>1. e.kind = "decrypt" /\ e.object = ciphers'[DeviceId[e.message.from]] /\ ~Deciphered(e)
    BY <1>2, <1>3, <1>5 DEF Deciphered
  <2> QED BY <2>1, DecryptReady
<1> QED
  BY <1>4, <1>6, <1>7, QuietRead

\* the new cipher takes the place of none
LEMMA LookupRead ==
    ASSUME DirectInv, DirectInv', KeysInv, NEW held \in SUBSET Message, ReadWith(held),
           NEW f \in Flow, DecryptLookup(f)
    PROVE  ReadInv'
<1>1. TypeOK /\ CacheTyped /\ flow \in [Flow -> FlowState]
  BY DEF DirectInv, PageTyped, FlowTyped
<1>2. PICK c : c = flow[f] /\ c.kind = "decrypt" /\ c.step = "lookup"
  BY DEF DecryptLookup, At
<1>3. c \in Decrypting /\ CallSound(c) /\ CallFits(c)
  BY <1>1, <1>2, FlowKinds DEF DirectInv, FlowTyped, KeysInv, PageInv
<1>4. PICK m \in Message : m = c.message /\ m \in sent /\ m.to = Me
  BY <1>2, <1>3 DEF CallSound, Decrypting
<1>5. PICK d \in Id : d = DeviceId[m.from]
  BY <1>4, MessageFields DEF DirectInv, NoneToSelf, Id
<1>6. /\ UNCHANGED <<nextKey, opened, reopened, identity, signedPreKey, kyberUsed, records>>
      /\ UNCHANGED sent /\ \A x \in Party : OwnKeys(x)' \subseteq OwnKeys(x)
  BY DEF DecryptLookup, vars, keyVars, sessionVars, historyVars, OwnKeys
<1>7. CASE Return(f) /\ UNCHANGED cacheVars
  <2>1. UNCHANGED ciphers
    BY <1>7 DEF cacheVars
  <2>2. Quiet(held)
    BY <2>1, <1>1, <1>6, QuietSteps
  <2> QED BY <2>2, <1>7, IdleReady, QuietRead DEF Return
<1>8. CASE /\ NewCipher(d, AddressOf(m.from))
           /\ flow' = [flow EXCEPT ![f].step = "load", ![f].object = Len(objects) + 1]
  <2>1. PICK o : o = Len(objects) + 1
    OBVIOUS
  <2>2. ciphers' = [ciphers EXCEPT ![d] = o]
    BY <2>1, <1>8 DEF NewCipher
  <2>3. ciphers[d] = 0 /\ ciphers'[d] = o
    BY <2>2, <1>1, <1>2, <1>3, <1>4, <1>5 DEF CallFits, CacheTyped
  <2>4. \A x \in Id : ciphers[x] # 0 => ciphers'[x] = ciphers[x]
    BY <2>2, <2>3, <1>1 DEF CacheTyped
  <2>5. Quiet(held)
    BY <2>4, <1>1, <1>6, QuietSteps
  <2>6. PICK e : e = [c EXCEPT !.step = "load", !.object = o]
    OBVIOUS
  <2>7. flow' = [flow EXCEPT ![f] = e]
    BY <2>1, <2>6, <1>2, <1>8
  <2>8. e.kind = "decrypt" /\ e.step = "load" /\ e.object = o /\ e.message = m
    BY <2>6, <1>3, <1>4 DEF Decrypting
  <2>9. CallReady(held, e)'
    BY <2>3, <2>8, <1>5, DecryptReady DEF Deciphered
  <2> QED BY <2>5, <2>7, <2>9, QuietRead
<1> QED
  BY <1>2, <1>4, <1>5, <1>7, <1>8 DEF DecryptLookup

LEMMA DecryptRead ==
    ASSUME DirectInv, DirectInv', KeysInv, NEW held \in SUBSET Message, ReadWith(held),
           NEW f \in Flow, DecryptMessage(f)
    PROVE  ReadInv'
<1>1. CASE (\E m \in sent : StartDecrypt(f, m)) \/ DecryptLookup(f) \/ DecryptMark(f) \/ DecryptStore(f)
  BY <1>1, StartDecryptRead, LookupRead, MarkRead, StoreRead
<1> SUFFICES ASSUME \/ DecryptLoad(f)
                    \/ DecryptKeys(f)
                    \/ DecryptSave(f)
                    \/ DecryptCheck(f)
                    \/ DecryptRemove(f)
             PROVE  ReadInv'
  BY <1>1 DEF DecryptMessage
<1>2. PICK c : /\ c = flow[f] /\ c.kind = "decrypt"
               /\ c.step \in {"load", "keys", "save", "check", "remove"}
  BY DEF At, DecryptLoad, DecryptKeys, DecryptSave, DecryptCheck, DecryptRemove
<1>3. /\ TypeOK /\ RecordsInv(held) /\ flow \in [Flow -> FlowState] /\ flow[f].kind # "idle"
      /\ c \in Decrypting /\ CallSound(c) /\ CallReady(held, c)
  BY <1>2, FlowKinds DEF DirectInv, FlowTyped, ReadWith
<1>4. PICK m \in Message : m = c.message /\ m \in sent
  BY <1>2, <1>3 DEF CallSound, Decrypting
<1>5. /\ UNCHANGED <<nextKey, opened, reopened, identity, signedPreKey, kyberUsed, records>>
      /\ UNCHANGED <<sent, ciphers>> /\ \A x \in Party : OwnKeys(x)' \subseteq OwnKeys(x)
  <2>1. /\ UNCHANGED <<nextKey, opened, reopened, identity, signedPreKey, kyberUsed, records>>
        /\ UNCHANGED <<sent, ciphers, published>>
    BY DEF DecryptLoad, DecryptKeys, DecryptSave, DecryptCheck, DecryptRemove, vars, keyVars,
           sessionVars, historyVars, cacheVars
  <2>2. \A x \in Party : preKeys'[x] \subseteq preKeys[x]
    <3>1. UNCHANGED preKeys \/ preKeys' = [preKeys EXCEPT ![Me] = @ \ {m.preKey}]
      BY <1>2, <1>4
      DEF DecryptLoad, DecryptKeys, DecryptSave, DecryptCheck, DecryptRemove, vars, keyVars
    <3> QED BY <3>1, <1>3 DEF TypeOK
  <2> QED BY <2>1, <2>2 DEF OwnKeys
<1>6. Quiet(held)
  BY <1>3, <1>5, QuietSteps
<1>7. PlainStays(held)
  BY <1>6, QuietKeeps DEF PageKeeps
<1>8. CASE Return(f)
  BY <1>6, <1>8, IdleReady, QuietRead DEF Return
<1>9. ASSUME NEW step \in {"keys", "save", "check", "mark", "store"}, NEW r,
             flow' = [flow EXCEPT ![f] = Moved(c, step, r)],
             ASSUME NEW x, x.message = m, x.record = r, StartsSession(x), step # "keys"
             PROVE  BaseReady(held, m, step)
      PROVE  ReadInv'
  <2>1. PICK e : e = Moved(c, step, r)
    OBVIOUS
  <2>2. /\ e.kind = "decrypt" /\ e.step = step /\ e.message = m /\ e.object = c.object
        /\ e.record = r
    BY <2>1, <1>3, <1>4 DEF Moved, Decrypting
  <2>3. e.object = ciphers'[DeviceId[e.message.from]]
    BY <2>2, <1>2, <1>3, <1>4, <1>5 DEF CallReady
  <2>4. ASSUME Deciphered(e), StartsSession(e)
        PROVE  BaseReady(held, m, step)'
    <3>1. BaseReady(held, m, step)
      BY <2>2, <2>4, <1>9 DEF Deciphered
    <3>2. m.type = "prekey"
      BY <2>2, <2>4 DEF StartsSession
    <3> QED BY <3>1, <3>2, <1>5, <1>7, BaseReadyStays
  <2>5. CallReady(held, e)'
    BY <2>2, <2>3, <2>4, DecryptReady
  <2> QED BY <2>1, <2>5, <1>6, <1>9, QuietRead
<1>10. CASE DecryptLoad(f) /\ ~Return(f)
  <2>1. PICK r : r = records[Me][CallAddress(f)]
    OBVIOUS
  <2>2. PICK x : x = [c EXCEPT !.record = r]
    OBVIOUS
  <2>3. x.message = m /\ x.record = r
    BY <2>2, <1>3, <1>4 DEF Decrypting
  <2>4. GoWith(f, "keys", r) \/ (GoWith(f, "save", r) /\ ~StartsSession(x))
    BY <2>1, <2>2, <1>2, <1>10 DEF DecryptLoad
  <2>5. \A y : y.message = m /\ y.record = r => StartsSession(y) = StartsSession(x)
    BY <2>3 DEF StartsSession
  <2>6. CASE GoWith(f, "keys", r)
    <3>1. flow' = [flow EXCEPT ![f] = Moved(c, "keys", r)]
      BY <2>6, <1>2, <1>3, GoMoves
    <3> QED BY <3>1, <1>9
  <2>7. CASE GoWith(f, "save", r) /\ ~StartsSession(x)
    <3>1. flow' = [flow EXCEPT ![f] = Moved(c, "save", r)]
      BY <2>7, <1>2, <1>3, GoMoves
    <3> QED BY <3>1, <2>5, <2>7, <1>9
  <2> QED BY <2>4, <2>6, <2>7
<1>11. ASSUME NEW step \in {"save", "check", "mark", "store"}, Go(f, step),
              StartsSession(c) => BaseReady(held, m, step)
       PROVE  ReadInv'
  <2>1. PICK r : r = c.record
    OBVIOUS
  <2>2. flow' = [flow EXCEPT ![f] = Moved(c, step, r)]
    BY <2>1, <1>2, <1>3, <1>11, GoMoves
  <2>3. \A x : x.message = m /\ x.record = r => StartsSession(x) = StartsSession(c)
    BY <2>1, <1>4 DEF StartsSession
  <2> QED BY <2>2, <2>3, <1>9, <1>11
<1>12. CASE DecryptKeys(f) /\ ~Return(f)
  <2>1. CanInitializeBob(Me, m) /\ Go(f, "save")
    BY <1>2, <1>4, <1>12 DEF DecryptKeys
  <2>2. m.preKey # NoKey => Plain(held, m.preKey)
    <3>1. m.preKey # NoKey => m.preKey \in Key /\ IsOther(held, m.preKey)
      BY <2>1, MessageFields, PageAssumption DEF CanInitializeBob, OptionalKey, OwnKeys, IsOther
    <3> QED BY <3>1, <1>3, OtherIsPlain
  <2>3. BaseReady(held, m, "save")
    BY <2>1, <2>2 DEF BaseReady, CanInitializeBob
  <2> QED BY <2>1, <2>3, <1>11
<1>13. CASE DecryptSave(f)
  <2>1. c.step = "save" /\ Go(f, IF StartsSession(c) THEN "check" ELSE "store")
    BY <1>2, <1>13 DEF DecryptSave, At
  <2>2. CASE StartsSession(c)
    <3>1. BaseReady(held, m, "check")
      BY <2>1, <2>2, <1>2, <1>3, <1>4 DEF CallReady, Deciphered, BaseReady
    <3> QED BY <2>1, <2>2, <3>1, <1>11
  <2>3. CASE ~StartsSession(c)
    BY <2>1, <2>3, <1>11
  <2> QED BY <2>2, <2>3
<1>14. CASE DecryptCheck(f) /\ ~Return(f)
  <2>1. c.step = "check" /\ Go(f, "mark") /\ m.base \notin kyberUsed[Me]
    BY <1>2, <1>4, <1>14 DEF DecryptCheck, At, Replayed
  <2>2. StartsSession(c) => BaseReady(held, m, "mark")
    BY <2>1, <1>2, <1>3, <1>4 DEF CallReady, Deciphered, BaseReady
  <2> QED BY <2>1, <2>2, <1>11
<1>15. CASE DecryptRemove(f)
  <2>1. c.step = "remove" /\ Go(f, "store")
    BY <1>2, <1>15 DEF DecryptRemove, At
  <2>2. StartsSession(c) => BaseReady(held, m, "store")
    BY <2>1, <1>2, <1>3, <1>4 DEF CallReady, Deciphered, BaseReady
  <2> QED BY <2>1, <2>2, <1>11
<1> QED
  BY <1>8, <1>10, <1>12, <1>13, <1>14, <1>15

LEMMA DirectNextRead ==
    DirectInv /\ DirectInv' /\ KeysInv /\ ReadInv /\ [DirectNext]_directVars => ReadInv'
<1> SUFFICES ASSUME DirectInv, DirectInv', KeysInv, ReadInv, [DirectNext]_directVars
             PROVE  ReadInv'
  OBVIOUS
<1>1. PICK held \in SUBSET Message : ReadWith(held)
  BY DEF ReadInv
<1>2. CASE \E f \in Flow : Establish(f) \/ EncryptMessage(f) \/ DecryptMessage(f)
  BY <1>1, <1>2, EstablishRead, EncryptRead, DecryptRead
<1>3. CASE Switch
  BY <1>1, <1>3, UnchangedRead DEF Switch
<1>4. CASE Close
  BY <1>1, <1>4, CloseRead
<1>5. CASE Others
  BY <1>1, <1>5, OthersRead
<1>6. CASE UNCHANGED directVars
  <2>1. UNCHANGED <<vars, cacheVars, flow>>
    BY <1>6 DEF directVars, pageVars
  <2> QED BY <2>1, <1>1, UnchangedRead
<1> QED
  BY <1>2, <1>3, <1>4, <1>5, <1>6 DEF DirectNext

\* While a conversation is opened by one call at a time, no message is decrypted twice,
\* however the calls overlap, whatever the page forgets and whatever is delivered again:
\* decryptMessage checks that a base key is unused, marks it, removes the prekey and
\* stores the session with awaits in between, and no other call comes in the way.
THEOREM DirectReadOnce ==
    ASSUME ~OpeningRace
    PROVE  DirectSpec => []AtMostOnce
<1>1. DirectInit => DirectInv /\ KeysInv /\ ReadInv
  BY DirectInitInv, DirectInitKeys, DirectInitRead
<1>2. DirectInv /\ KeysInv /\ ReadInv /\ [DirectNext]_directVars => (DirectInv /\ KeysInv /\ ReadInv)'
  BY DirectNextInv, DirectNextKeys, DirectNextRead
<1>3. ReadInv => AtMostOnce
  BY DEF ReadInv, ReadWith
<1> QED
  BY <1>1, <1>2, <1>3, PTL DEF DirectSpec

=============================================================================
