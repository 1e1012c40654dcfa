---------------------------- MODULE LibraryProofs ----------------------------
(***************************************************************************)
(* Proofs about the parts of the library that share no state: whom sealed  *)
(* messages open for and whom they name as their sender, when two safety   *)
(* numbers agree, that the browser's store answers as the one in memory,   *)
(* and the incremental MAC: its chunk size, and which bytes it calls good. *)
(***************************************************************************)
EXTENDS SealedSender, SafetyNumber, Stores, IncrementalMac, SequenceLemmas

-----------------------------------------------------------------------------
(* Groups of destinations                                                  *)

\* GroupAt: a group is a run of destinations of one name, as long as there are any.
LEMMA GroupExtent ==
    ASSUME NEW S, NEW dests \in Seq(S), NEW i \in 1 .. Len(dests)
    PROVE  \E last \in i .. Len(dests) :
              /\ GroupAt(dests, i) = SubSeq(dests, i, last)
              /\ \A k \in i .. last : dests[k].name = dests[i].name
              /\ last = Len(dests) \/ dests[last + 1].name # dests[i].name
<1> DEFINE Ends == {j \in i .. Len(dests) : j = Len(dests) \/ dests[j + 1].name # dests[i].name}
           IsLast(j) == /\ \A k \in i .. j : dests[k].name = dests[i].name
                        /\ j = Len(dests) \/ dests[j + 1].name # dests[i].name
           last == CHOOSE j \in i .. Len(dests) : IsLast(j)
<1>1. Len(dests) \in Nat /\ i \in Nat /\ \A j \in 1 .. Len(dests) : dests[j] \in S
  OBVIOUS
<1>2. Len(dests) \in Ends /\ Ends \in SUBSET Nat
  BY <1>1
<1>3. Min(Ends) \in Ends /\ \A y \in Ends : Min(Ends) =< y
  <2> HIDE DEF Ends
  <2> QED BY <1>2, MinInSet
<1> DEFINE m == Min(Ends)
<1> HIDE DEF m
<1>4. m \in Ends /\ \A y \in Ends : m =< y
  BY <1>3 DEF m
<1>5. ASSUME NEW k \in i .. m
      PROVE  dests[k].name = dests[i].name
  <2>1. CASE k = i
    BY <2>1
  <2>2. CASE k # i
    <3>1. k - 1 \in i .. Len(dests) /\ ~(m =< k - 1) /\ k - 1 # Len(dests) /\ (k - 1) + 1 = k
      BY <1>1, <1>4, <2>2
    <3>2. k - 1 \notin Ends
      BY <3>1, <1>4
    <3> QED BY <3>1, <3>2
  <2> QED BY <2>1, <2>2
<1>6. m \in i .. Len(dests) /\ IsLast(m)
  BY <1>4, <1>5
<1>7. last \in i .. Len(dests) /\ IsLast(last)
  <2> HIDE DEF IsLast
  <2> QED BY <1>6
<1>8. GroupAt(dests, i) = SubSeq(dests, i, last)
  BY DEF GroupAt
<1> HIDE DEF last
<1> QED BY <1>7, <1>8

\* The destinations from the i-th to the last-th.
LEMMA StretchOfSequence ==
    ASSUME NEW S, NEW dests \in Seq(S), NEW i \in 1 .. Len(dests), NEW last \in i .. Len(dests)
    PROVE  /\ Len(SubSeq(dests, i, last)) = last - i + 1
           /\ DOMAIN SubSeq(dests, i, last) = 1 .. last - i + 1
           /\ \A j \in 1 .. last - i + 1 : SubSeq(dests, i, last)[j] = dests[i + j - 1]
<1>1. \A j \in i .. last : dests[j] \in S
  OBVIOUS
<1>2. i \in Int /\ last \in Int /\ i <= last
  OBVIOUS
<1>3. /\ SubSeq(dests, i, last) \in Seq(S)
      /\ Len(SubSeq(dests, i, last)) = last - i + 1
      /\ \A j \in 1 .. last - i + 1 : SubSeq(dests, i, last)[j] = dests[i + j - 1]
  BY <1>1, <1>2, SubSeqProperties
<1> QED BY <1>3

\* A group starts with the destination it is the group of.
LEMMA GroupFirst ==
    ASSUME NEW S, NEW dests \in Seq(S), NEW i \in 1 .. Len(dests)
    PROVE  GroupAt(dests, i)[1] = dests[i]
<1>1. PICK last \in i .. Len(dests) : GroupAt(dests, i) = SubSeq(dests, i, last)
  BY GroupExtent
<1>2. \A j \in 1 .. last - i + 1 : SubSeq(dests, i, last)[j] = dests[i + j - 1]
  BY StretchOfSequence
<1>3. 1 \in 1 .. last - i + 1 /\ i + 1 - 1 = i
  OBVIOUS
<1> QED BY <1>1, <1>2, <1>3

\* The groups of a message, in their order: the destinations they cover follow each
\* other, and none is left out.
LEMMA Groups ==
    ASSUME NEW S, NEW dests \in Seq(S)
    PROVE  \E starts, ends :
              /\ starts = InOrder(GroupStarts(dests))
              /\ Cardinality(GroupStarts(dests)) \in Nat
              /\ starts \in [1 .. Cardinality(GroupStarts(dests)) -> 1 .. Len(dests)]
              /\ \A k \in 1 .. Cardinality(GroupStarts(dests)) :
                    /\ starts[k] \in GroupStarts(dests)
                    /\ ends[k] \in starts[k] .. Len(dests)
                    /\ GroupAt(dests, starts[k]) = SubSeq(dests, starts[k], ends[k])
                    /\ \A j \in starts[k] .. ends[k] : dests[j].name = dests[starts[k]].name
              /\ \A k, l \in 1 .. Cardinality(GroupStarts(dests)) :
                    k < l => starts[k] < starts[l] /\ ends[k] < starts[l]
              /\ \A i \in 1 .. Len(dests) : \E k \in 1 .. Cardinality(GroupStarts(dests)) :
                    i \in starts[k] .. ends[k]
<1> DEFINE G == GroupStarts(dests)
           n == Cardinality(G)
           starts == InOrder(G)
           Extends(i, last) ==
              /\ last \in i .. Len(dests)
              /\ GroupAt(dests, i) = SubSeq(dests, i, last)
              /\ \A k \in i .. last : dests[k].name = dests[i].name
              /\ last = Len(dests) \/ dests[last + 1].name # dests[i].name
           ends == [k \in 1 .. n |-> CHOOSE last : Extends(starts[k], last)]
<1>1. Len(dests) \in Nat /\ DOMAIN dests = 1 .. Len(dests)
  OBVIOUS
<1>2. G \in SUBSET (1 .. Len(dests))
  BY DEF GroupStarts
<1>3. /\ G \in SUBSET Nat /\ IsFiniteSet(G)
  BY <1>1, <1>2, InOrderOfPositions
<1>4. /\ n \in Nat /\ starts \in [1 .. n -> G]
      /\ \A i, j \in 1 .. n : i < j => starts[i] < starts[j]
  BY <1>3, InOrderProperties
<1>5. \A x \in G : \E k \in 1 .. n : starts[k] = x
  BY <1>3, InOrderOnto
<1> HIDE DEF n, starts
<1>6. \A k \in 1 .. n : Extends(starts[k], ends[k])
  <2> SUFFICES ASSUME NEW k \in 1 .. n PROVE Extends(starts[k], ends[k])
    OBVIOUS
  <2>1. starts[k] \in 1 .. Len(dests)
    BY <1>2, <1>4
  <2>2. \E last : Extends(starts[k], last)
    <3> DEFINE i == starts[k]
    <3>1. i \in 1 .. Len(dests)
      BY <2>1
    <3> HIDE DEF i
    <3>2. PICK last \in i .. Len(dests) :
             /\ GroupAt(dests, i) = SubSeq(dests, i, last)
             /\ \A j \in i .. last : dests[j].name = dests[i].name
             /\ last = Len(dests) \/ dests[last + 1].name # dests[i].name
      BY <3>1, GroupExtent
    <3>3. Extends(i, last)
      BY <3>2
    <3> HIDE DEF Extends
    <3> QED BY <3>3 DEF i
  <2>3. ends[k] = CHOOSE last : Extends(starts[k], last)
    OBVIOUS
  <2> HIDE DEF Extends, ends
  <2> QED BY <2>2, <2>3
<1> HIDE DEF ends
<1>7. \A i \in G : i \in 1 .. Len(dests) /\ (i = 1 \/ dests[i].name # dests[i - 1].name)
  BY <1>1 DEF GroupStarts
<1>8. ASSUME NEW k \in 1 .. n, NEW l \in 1 .. n, k < l
      PROVE  ends[k] < starts[l]
  <2> SUFFICES ASSUME ~(ends[k] < starts[l]) PROVE FALSE
    OBVIOUS
  <2> DEFINE p == starts[l]
  <2>1. /\ starts[k] \in 1 .. Len(dests) /\ p \in 1 .. Len(dests) /\ starts[k] < p
        /\ ends[k] \in starts[k] .. Len(dests)
        /\ p = 1 \/ dests[p].name # dests[p - 1].name
        /\ \A j \in starts[k] .. ends[k] : dests[j].name = dests[starts[k]].name
    BY <1>4, <1>6, <1>7, <1>8
  <2> HIDE DEF p
  <2>2. p \in starts[k] .. ends[k] /\ p - 1 \in starts[k] .. ends[k] /\ p # 1
    BY <2>1 DEF p
  <2> QED BY <2>1, <2>2
<1>9. ASSUME NEW i \in 1 .. Len(dests)
      PROVE  \E k \in 1 .. n : i \in starts[k] .. ends[k]
  <2> DEFINE Run == {p \in 1 .. i : \A k \in p .. i : dests[k].name = dests[i].name}
  <2>1. i \in Run /\ Run \in SUBSET Nat
    BY <1>1
  <2>2. Min(Run) \in Run /\ \A y \in Run : Min(Run) =< y
    <3> HIDE DEF Run
    <3> QED BY <2>1, MinInSet
  <2> PICK p \in Run : \A y \in Run : p =< y
    BY <2>2
  <2>3. p \in 1 .. i /\ p \in 1 .. Len(dests) /\ \A k \in p .. i : dests[k].name = dests[i].name
    BY <1>1
  <2>4. p \in G
    <3>1. CASE p = 1
      BY <1>1, <2>3, <3>1 DEF GroupStarts
    <3>2. CASE p # 1
      <4>1. p - 1 \in 1 .. i /\ ~(p =< p - 1)
        BY <1>1, <2>3, <3>2
      <4>2. p - 1 \notin Run
        BY <4>1
      <4>3. PICK k \in p - 1 .. i : dests[k].name # dests[i].name
        BY <4>1, <4>2
      <4>4. k = p - 1
        BY <1>1, <2>3, <4>3
      <4>5. dests[p].name = dests[i].name
        BY <1>1, <2>3
      <4> QED BY <1>1, <2>3, <4>3, <4>4, <4>5 DEF GroupStarts
    <3> QED BY <3>1, <3>2
  <2>5. PICK k \in 1 .. n : starts[k] = p
    BY <1>5, <2>4
  <2>6. /\ ends[k] \in p .. Len(dests)
        /\ ends[k] = Len(dests) \/ dests[ends[k] + 1].name # dests[p].name
    BY <1>6, <2>5
  <2>7. i <= ends[k]
    <3> SUFFICES ASSUME ends[k] < i PROVE FALSE
      BY <1>1, <2>6
    <3>1. ends[k] + 1 \in p .. i /\ ends[k] # Len(dests) /\ p \in p .. i
      BY <1>1, <2>3, <2>6
    <3>2. dests[ends[k] + 1].name = dests[i].name /\ dests[p].name = dests[i].name
      BY <2>3, <3>1
    <3> QED BY <2>6, <3>1, <3>2
  <2>8. i \in starts[k] .. ends[k]
    BY <1>1, <2>3, <2>5, <2>6, <2>7
  <2> QED BY <2>8
<1>10. \A k \in 1 .. n : starts[k] \in G /\ starts[k] \in 1 .. Len(dests)
  BY <1>2, <1>4
<1>11. starts \in [1 .. n -> 1 .. Len(dests)]
  BY <1>2, <1>4
<1>12. /\ \A k \in 1 .. n :
             /\ starts[k] \in G
             /\ ends[k] \in starts[k] .. Len(dests)
             /\ GroupAt(dests, starts[k]) = SubSeq(dests, starts[k], ends[k])
             /\ \A j \in starts[k] .. ends[k] : dests[j].name = dests[starts[k]].name
       /\ \A k, l \in 1 .. n : k < l => starts[k] < starts[l] /\ ends[k] < starts[l]
       /\ \A i \in 1 .. Len(dests) : \E k \in 1 .. n : i \in starts[k] .. ends[k]
  BY <1>4, <1>6, <1>8, <1>9, <1>10
<1> HIDE DEF G, Extends
<1> QED BY <1>4, <1>11, <1>12 DEF n, starts, G

-----------------------------------------------------------------------------
(* The inductive invariant                                                 *)

SealedTypeOK ==
    /\ now \in Nat
    /\ gen \in [Names -> Nat]
    /\ known \in [Peers -> {None} \cup (Names \X Nat)]
    /\ \A a \in Peers : known[a] # None => known[a][1] = a.name
    /\ IsFiniteSet(sealed)

\* A certificate names the sender, under the key of the server that signed it.
CertsSound ==
    \A c \in certs :
        /\ c.uuid = Sender.name /\ c.device = Sender.device
        /\ c.expires \in Nat
        /\ \E server \in ServerCertificates :
              c.signature = server.key /\ c.signer.certificate = server

\* the random number a message was sealed with
Number(s) == s.usmc.contents.n

\* What sealing leaves behind: for one device, or for several, with a block for
\* each of them and one for each excluded account.
SealedOne(s) ==
    /\ s.kind = "one" /\ s.excluded = <<>>
    /\ \E a \in Peers :
          /\ s.to = <<a>> /\ s.knew[a][1] = a.name
          /\ s.packet = SealForOne(s.key, s.knew[a], DeriveE(Random(Number(s))), s.usmc)

KeysFor(s, a) ==
    LET m == Random(Number(s))
        e == DeriveE(m)
        c == ApplyAgreementXor(e, s.knew[a], "Sending", m)
    IN  <<c, AuthenticationTag(s.key, s.knew[a], "Sending", e, c)>>
RecipientOf(s, block) ==
    \E i \in 1 .. Len(s.to) :
        /\ s.knew[s.to[i]][1] = s.to[i].name
        /\ block.id = FixedWidthBinary(ParseText(s.to[i].name))
        /\ block.cAndAt = KeysFor(s, s.to[i])
SealedMany(s) ==
    /\ s.kind = "many" /\ s.to \in Seq(Peers) /\ s.excluded \in Seq(ServiceIds)
    /\ s.packet.version = SentVersion
    /\ s.packet.shared = [e |-> DeriveE(Random(Number(s))),
                          message |-> Encrypted(DeriveK(Random(Number(s))), s.usmc)]
    /\ s.packet.count \in Nat
    /\ \A k \in 1 .. s.packet.count :
          RecipientOf(s, s.packet.recipients[k]) \/ s.packet.recipients[k].cAndAt = <<>>
    /\ \A j \in 1 .. Len(s.excluded) : \E k \in 1 .. s.packet.count :
          s.packet.recipients[k] = ExcludedBlock(s.excluded[j])

SealingSound(s) ==
    /\ s.usmc.sender \in certs
    /\ s.usmc.contents.from = Sender
    /\ Number(s) \in Nat /\ Number(s) < Cardinality(sealed)
    /\ SealedOne(s) \/ SealedMany(s)

\* Each message has a number of its own.
NumbersApart == \A s, t \in sealed : Number(s) = Number(t) => s = t

SealedInv ==
    /\ SealedTypeOK /\ CertsSound /\ NumbersApart /\ SenderAuthentic
    /\ \A s \in sealed : SealingSound(s)

-----------------------------------------------------------------------------
(* Opening                                                                 *)

\* sealed_sender_decrypt_to_usmc, of version 1: the static key can only be
\* recovered by the device the message was sealed for.
LEMMA OneOpens ==
    ASSUME NEW s, SealedOne(s), NEW ours, Unseal(ours, s.packet).ok
    PROVE  /\ Unseal(ours, s.packet).usmc = s.usmc
           /\ s.key = s.usmc.sender.key
           /\ Len(s.to) = 1 /\ ours = s.knew[s.to[1]] /\ ours[1] = s.to[1].name
<1>1. PICK a \in Peers :
         /\ s.to = <<a>> /\ s.knew[a][1] = a.name
         /\ s.packet = SealForOne(s.key, s.knew[a], DeriveE(Random(Number(s))), s.usmc)
  BY DEF SealedOne
<1> DEFINE ephemeral == DeriveE(Random(Number(s)))
           eph == EphemeralKeys(ephemeral, s.knew[a], "Sending")
           static == Encrypted(eph, s.key)
<1>2. /\ s.packet.version = 17 /\ s.packet.ephemeral = ephemeral
      /\ s.packet.static = static
      /\ s.packet.message = Encrypted(StaticKeys(s.key, s.knew[a], eph, static), s.usmc)
  BY <1>1 DEF SealForOne, V1Version
<1>3. Unseal(ours, s.packet) = UnsealOne(ours, s.packet)
  BY <1>2 DEF Unseal
<1>4. /\ UnsealOne(ours, s.packet) = Opened(s.packet.message.body)
      /\ s.packet.static.key = EphemeralKeys(ours, s.packet.ephemeral, "Receiving")
      /\ s.packet.static.body = s.packet.message.body.sender.key
  BY <1>3 DEF UnsealOne, Rejected, Opened
<1>5. static.key = eph /\ static.body = s.key /\ s.packet.message.body = s.usmc
  BY <1>2 DEF Encrypted
<1>6. eph = EphemeralKeys(ours, ephemeral, "Receiving")
  BY <1>2, <1>4, <1>5
<1>7. s.knew[a] = ours
  <2>1. eph.salt = <<s.knew[a], ephemeral>>
    BY DEF EphemeralKeys
  <2>2. EphemeralKeys(ours, ephemeral, "Receiving").salt = <<ours, ephemeral>>
    BY DEF EphemeralKeys
  <2> QED BY <1>6, <2>1, <2>2
<1>8. Len(s.to) = 1 /\ s.to[1] = a
  BY <1>1
<1> QED BY <1>1, <1>2, <1>3, <1>4, <1>5, <1>7, <1>8 DEF Opened

\* SealedSenderV2SentMessage::parse: the keys the service finds for an account
\* are those of a block of the message with its id.
LEMMA PartsAreBlocks ==
    ASSUME NEW s, SealedMany(s), ParseSent(s.packet).ok,
           NEW id \in DOMAIN ParseSent(s.packet).recipients
    PROVE  \E k \in 1 .. s.packet.count :
              /\ ParseFixedWidth(s.packet.recipients[k].id) = id
              /\ ParseSent(s.packet).recipients[id].cAndAt = s.packet.recipients[k].cAndAt
<1> DEFINE sent == s.packet
<1>1. sent.version # ReceivedVersion /\ sent.count \in Nat
  BY DEF SealedMany, SentVersion, ReceivedVersion
<1>2. /\ id \in {BlockId(sent, k) : k \in 1 .. sent.count}
      /\ ParseSent(sent).recipients[id] = Merged(sent, id)
  BY DEF ParseSent, Malformed
<1>3. BlocksOf(sent, id) \in SUBSET (1 .. sent.count) /\ BlocksOf(sent, id) # {}
  BY <1>2 DEF BlocksOf
<1> DEFINE first == InOrder(BlocksOf(sent, id))[1]
<1>4. first \in BlocksOf(sent, id)
  BY <1>1, <1>3, InOrderOfPositions
<1>5. Merged(sent, id).cAndAt = sent.recipients[first].cAndAt
  BY DEF Merged
<1>6. first \in 1 .. sent.count /\ BlockId(sent, first) = id
  BY <1>4 DEF BlocksOf
<1> QED BY <1>1, <1>2, <1>5, <1>6 DEF BlockId

\* received_message_parts_for_recipient: a part cut from t with the keys that s
\* has for one of its accounts
IsPart(part, s, t) ==
    /\ ParseSent(s.packet).ok
    /\ \E id \in DOMAIN ParseSent(s.packet).recipients :
          part = PartFor(t.packet, ParseSent(s.packet).recipients[id])

\* sealed_sender_decrypt_to_usmc, of version 2: the keys of a part open the body
\* they were made for and no other, for the account they were made for, which is
\* not excluded.
LEMMA PartOpens ==
    ASSUME NEW s \in sealed, NEW t \in sealed, SealedMany(s), SealedMany(t), NumbersApart,
           NEW ours, NEW part, IsPart(part, s, t), Unseal(ours, part).ok
    PROVE  /\ Unseal(ours, part).usmc = s.usmc
           /\ s.key = s.usmc.sender.key
           /\ \E i \in 1 .. Len(s.to) :
                 /\ ours = s.knew[s.to[i]] /\ ours[1] = s.to[i].name
                 /\ \A j \in 1 .. Len(s.excluded) : s.excluded[j] # ParseText(s.to[i].name)
<1>0. ParseSent(s.packet).ok
  BY DEF IsPart
<1> PICK id \in DOMAIN ParseSent(s.packet).recipients :
      part = PartFor(t.packet, ParseSent(s.packet).recipients[id])
  BY DEF IsPart
<1> DEFINE sent == s.packet
           cAndAt == ParseSent(sent).recipients[id].cAndAt
           e == DeriveE(Random(Number(t)))
<1>1. PICK k \in 1 .. sent.count :
         ParseFixedWidth(sent.recipients[k].id) = id /\ cAndAt = sent.recipients[k].cAndAt
  BY <1>0, PartsAreBlocks
<1>2. /\ part.version = 34 /\ part.cAndAt = cAndAt
      /\ part.shared.e = e /\ part.shared.message.body = t.usmc
  BY DEF PartFor, ReceivedVersion, SealedMany, Encrypted, cAndAt
<1>3. Unseal(ours, part) = UnsealPart(ours, part)
  <2>1. 34 \div 16 = 2
    OBVIOUS
  <2> QED BY <1>2, <2>1 DEF Unseal
<1> HIDE DEF cAndAt
<1>4. /\ cAndAt # <<>>
      /\ cAndAt[2] = AuthenticationTag(ours, t.usmc.sender.key, "Receiving", e, cAndAt[1])
      /\ UnsealPart(ours, part) = Opened(t.usmc)
  <2>1. UnsealPart(ours, part).ok
    BY <1>3
  <2> HIDE DEF e
  <2> QED BY <1>2, <2>1 DEF UnsealPart, Rejected, Opened
<1>5. PICK i \in 1 .. Len(s.to) :
         /\ s.knew[s.to[i]][1] = s.to[i].name
         /\ sent.recipients[k].id = FixedWidthBinary(ParseText(s.to[i].name))
         /\ cAndAt = KeysFor(s, s.to[i])
  <2>1. RecipientOf(s, sent.recipients[k])
    BY <1>1, <1>4 DEF SealedMany
  <2> QED BY <2>1, <1>1 DEF RecipientOf
<1> DEFINE theirs == s.knew[s.to[i]]
           own == DeriveE(Random(Number(s)))
<1>6. cAndAt[2] = AuthenticationTag(s.key, theirs, "Sending", own, cAndAt[1])
  BY <1>5 DEF KeysFor
<1>7. /\ s.key = t.usmc.sender.key /\ theirs = ours /\ own = e
  <2>1. /\ cAndAt[2].keys = <<s.key, theirs>> /\ cAndAt[2].e = own
    <3> HIDE DEF own, theirs
    <3> QED BY <1>6 DEF AuthenticationTag
  <2>2. cAndAt[2].keys = <<t.usmc.sender.key, ours>> /\ cAndAt[2].e = e
    <3> HIDE DEF e
    <3> QED BY <1>4 DEF AuthenticationTag
  <2> HIDE DEF own, theirs, e
  <2> QED BY <2>1, <2>2
<1>8. s = t
  <2>1. Random(Number(s)) = Random(Number(t))
    BY <1>7 DEF DeriveE
  <2>2. Random(Number(s)).number = Random(Number(t)).number
    BY <2>1
  <2>3. Number(s) = Number(t)
    BY <2>2 DEF Random
  <2> QED BY <2>3 DEF NumbersApart
<1>9. ASSUME NEW j \in 1 .. Len(s.excluded), s.excluded[j] = ParseText(s.to[i].name)
      PROVE  FALSE
  <2>1. PICK l \in 1 .. sent.count : sent.recipients[l] = ExcludedBlock(s.excluded[j])
    BY DEF SealedMany
  <2>2. sent.recipients[l].id = sent.recipients[k].id
    BY <1>5, <1>9, <2>1 DEF ExcludedBlock
  <2>3. sent.recipients[l].cAndAt = <<>> /\ sent.recipients[l].devices = <<>>
    BY <2>1 DEF ExcludedBlock
  <2>4. k # l
    BY <1>1, <1>4, <2>3
  <2>5. BlockId(sent, k) = BlockId(sent, l)
    BY <2>2 DEF BlockId
  <2>6. BlockDevices(sent, l) = <<>>
    BY <2>3 DEF BlockDevices
  <2>7. CanParse(sent)
    BY <1>0 DEF ParseSent, Malformed
  <2> QED BY <2>4, <2>5, <2>6, <2>7 DEF CanParse
<1>10. Unseal(ours, part).usmc = s.usmc
  BY <1>3, <1>4, <1>8 DEF Opened
<1> QED BY <1>5, <1>7, <1>8, <1>9, <1>10

\* What opens, of the packets made of a message, is that message, and was sealed
\* with the identity in its certificate, for one that holds the key it opens with.
LEMMA PacketOpens ==
    ASSUME NEW s \in sealed, NEW packet \in Packets(s), NEW ours, Unseal(ours, packet).ok,
           NumbersApart, \A x \in sealed : SealingSound(x)
    PROVE  /\ Unseal(ours, packet).usmc = s.usmc
           /\ s.key = s.usmc.sender.key
           /\ \E i \in DOMAIN s.to :
                 /\ ours = s.knew[s.to[i]] /\ ours[1] = s.to[i].name
                 /\ \A j \in DOMAIN s.excluded : s.excluded[j] # ParseText(s.to[i].name)
<1>1. CASE s.kind = "one"
  <2>1. SealedOne(s) /\ packet = s.packet
    <3>1. SealedOne(s) \/ SealedMany(s)
      BY DEF SealingSound
    <3>2. ~SealedMany(s)
      BY <1>1 DEF SealedMany
    <3>3. Packets(s) = {s.packet}
      BY <1>1 DEF Packets
    <3> QED BY <3>1, <3>2, <3>3
  <2>2. s.excluded = <<>> /\ DOMAIN s.excluded = {} /\ 1 \in DOMAIN s.to
    BY <2>1 DEF SealedOne
  <2> QED BY <2>1, <2>2, OneOpens
<1>2. CASE s.kind # "one"
  <2>1. SealedMany(s)
    BY <1>2 DEF SealingSound, SealedOne
  <2>2. PICK t \in sealed : t.kind = "many" /\ IsPart(packet, s, t)
    BY <1>2 DEF Packets, IsPart
  <2>3. SealedMany(t)
    BY <2>2 DEF SealingSound, SealedOne
  <2>4. DOMAIN s.to = 1 .. Len(s.to) /\ DOMAIN s.excluded = 1 .. Len(s.excluded)
    BY <2>1 DEF SealedMany
  <2>5. /\ Unseal(ours, packet).usmc = s.usmc
        /\ s.key = s.usmc.sender.key
        /\ \E i \in 1 .. Len(s.to) :
              /\ ours = s.knew[s.to[i]] /\ ours[1] = s.to[i].name
              /\ \A j \in 1 .. Len(s.excluded) : s.excluded[j] # ParseText(s.to[i].name)
    BY <2>1, <2>2, <2>3, PartOpens
  <2> QED BY <2>4, <2>5
<1> QED BY <1>1, <1>2

-----------------------------------------------------------------------------
(* Sealing                                                                 *)

\* sealed_sender_multi_recipient_encrypt: the blocks of a message, those of the
\* groups before those of the excluded accounts.
LEMMA BlockPositions ==
    ASSUME NEW dests \in Seq(Peers), NEW excluded \in Seq(ServiceIds), NEW ours, NEW m, NEW usmc,
           NEW packet, packet = SealForMany(ours, dests, excluded, m, usmc)
    PROVE  LET starts == InOrder(GroupStarts(dests))
               n == Cardinality(GroupStarts(dests))
           IN  /\ packet.version = SentVersion
               /\ packet.shared = [e |-> DeriveE(m), message |-> Encrypted(DeriveK(m), usmc)]
               /\ n \in Nat /\ packet.count = n + Len(excluded)
               /\ packet.count = Len(packet.recipients)
               /\ \A i \in 1 .. n :
                     /\ starts[i] \in GroupStarts(dests)
                     /\ packet.recipients[i]
                          = RecipientBlock(ours, DeriveE(m), m, GroupAt(dests, starts[i]))
               /\ \A j \in 1 .. Len(excluded) :
                     packet.recipients[n + j] = ExcludedBlock(excluded[j])
<1> DEFINE starts == InOrder(GroupStarts(dests))
           n == Cardinality(GroupStarts(dests))
           f == [i \in DOMAIN starts |-> RecipientBlock(ours, DeriveE(m), m, GroupAt(dests, starts[i]))]
           g == [i \in DOMAIN excluded |-> ExcludedBlock(excluded[i])]
           S == {RecipientBlock(ours, DeriveE(m), m, GroupAt(dests, i)) : i \in GroupStarts(dests)}
                \cup {ExcludedBlock(excluded[j]) : j \in 1 .. Len(excluded)}
<1>1. Len(dests) \in Nat /\ Len(excluded) \in Nat /\ DOMAIN excluded = 1 .. Len(excluded)
  OBVIOUS
<1>2. GroupStarts(dests) \in SUBSET (1 .. Len(dests))
  BY DEF GroupStarts
<1>3. n \in Nat /\ starts \in [1 .. n -> GroupStarts(dests)]
  <2>1. GroupStarts(dests) \in SUBSET Nat /\ IsFiniteSet(GroupStarts(dests))
    BY <1>1, <1>2, InOrderOfPositions
  <2> QED BY <2>1, InOrderProperties
<1>4. /\ packet.version = SentVersion
      /\ packet.shared = [e |-> DeriveE(m), message |-> Encrypted(DeriveK(m), usmc)]
      /\ packet.recipients = f \o g
      /\ packet.count = Len(f \o g)
  BY DEF SealForMany
<1> HIDE DEF n, starts
<1>5. f \in [1 .. n -> S] /\ \A i \in 1 .. n : starts[i] \in GroupStarts(dests)
  BY <1>3
<1>6. g \in [1 .. Len(excluded) -> S]
  BY <1>1
<1>8. \A j \in 1 .. Len(excluded) : g[j] = ExcludedBlock(excluded[j])
  BY <1>1
<1> HIDE DEF f, g, S
<1>9. /\ Len(f \o g) = n + Len(excluded)
      /\ \A i \in 1 .. n : (f \o g)[i] = f[i]
      /\ \A j \in 1 .. Len(excluded) :
            n + j \in 1 .. n + Len(excluded) /\ (f \o g)[n + j] = g[j]
      /\ \A k \in 1 .. n + Len(excluded) : k \notin 1 .. n =>
            k - n \in 1 .. Len(excluded) /\ (f \o g)[k] = g[k - n]
  <2>1. f \in Seq(S) /\ Len(f) = n /\ g \in Seq(S) /\ Len(g) = Len(excluded)
    <3>1. f \in [1 .. n -> S] /\ g \in [1 .. Len(excluded) -> S]
      BY <1>5, <1>6
    <3>2. n \in Nat /\ Len(excluded) \in Nat
      BY <1>1, <1>3
    <3> QED BY <3>1, <3>2
  <2>2. /\ Len(f \o g) = Len(f) + Len(g)
        /\ \A i \in 1 .. Len(f) + Len(g) :
              (f \o g)[i] = IF i <= Len(f) THEN f[i] ELSE g[i - Len(f)]
    BY <2>1, ConcatProperties
  <2>3. n \in Nat /\ Len(excluded) \in Nat
    BY <1>1, <1>3
  <2>4. /\ Len(f \o g) = n + Len(excluded)
        /\ \A i \in 1 .. n + Len(excluded) : (f \o g)[i] = IF i <= n THEN f[i] ELSE g[i - n]
    BY <2>1, <2>2
  <2>5. \A i \in 1 .. n : i \in 1 .. n + Len(excluded) /\ i <= n
    BY <2>3
  <2>6. \A j \in 1 .. Len(excluded) :
            n + j \in 1 .. n + Len(excluded) /\ ~(n + j <= n) /\ (n + j) - n = j
    BY <2>3
  <2>7. \A k \in 1 .. n + Len(excluded) :
            k \notin 1 .. n => ~(k <= n) /\ k - n \in 1 .. Len(excluded)
    BY <2>3
  <2> QED BY <2>4, <2>5, <2>6, <2>7
<1>10. \A i \in 1 .. n : f[i] = RecipientBlock(ours, DeriveE(m), m, GroupAt(dests, starts[i]))
  <2> SUFFICES ASSUME NEW i \in 1 .. n
               PROVE  f[i] = RecipientBlock(ours, DeriveE(m), m, GroupAt(dests, starts[i]))
    OBVIOUS
  <2>1. i \in DOMAIN starts
    BY <1>3
  <2> QED BY <2>1 DEF f
<1>11. /\ n \in Nat /\ packet.count = n + Len(excluded)
       /\ packet.count = Len(packet.recipients)
       /\ \A i \in 1 .. n :
             /\ starts[i] \in GroupStarts(dests)
             /\ packet.recipients[i]
                  = RecipientBlock(ours, DeriveE(m), m, GroupAt(dests, starts[i]))
       /\ \A j \in 1 .. Len(excluded) : packet.recipients[n + j] = ExcludedBlock(excluded[j])
  BY <1>3, <1>4, <1>5, <1>8, <1>9, <1>10
<1> QED BY <1>4, <1>11 DEF n, starts

\* Every block is one of these two kinds, and every excluded account has one.
LEMMA BlocksOfMessage ==
    ASSUME NEW dests \in Seq(Peers), NEW excluded \in Seq(ServiceIds), NEW ours, NEW m, NEW usmc,
           NEW packet, packet = SealForMany(ours, dests, excluded, m, usmc)
    PROVE  /\ packet.version = SentVersion
           /\ packet.shared = [e |-> DeriveE(m), message |-> Encrypted(DeriveK(m), usmc)]
           /\ packet.count \in Nat
           /\ \A k \in 1 .. packet.count :
                 \/ \E i \in GroupStarts(dests) :
                       packet.recipients[k] = RecipientBlock(ours, DeriveE(m), m, GroupAt(dests, i))
                 \/ \E j \in 1 .. Len(excluded) :
                       packet.recipients[k] = ExcludedBlock(excluded[j])
           /\ \A j \in 1 .. Len(excluded) : \E k \in 1 .. packet.count :
                 packet.recipients[k] = ExcludedBlock(excluded[j])
<1> DEFINE starts == InOrder(GroupStarts(dests))
           n == Cardinality(GroupStarts(dests))
<1>1. /\ packet.version = SentVersion
      /\ packet.shared = [e |-> DeriveE(m), message |-> Encrypted(DeriveK(m), usmc)]
      /\ n \in Nat /\ packet.count = n + Len(excluded)
      /\ \A i \in 1 .. n :
            /\ starts[i] \in GroupStarts(dests)
            /\ packet.recipients[i]
                 = RecipientBlock(ours, DeriveE(m), m, GroupAt(dests, starts[i]))
      /\ \A j \in 1 .. Len(excluded) : packet.recipients[n + j] = ExcludedBlock(excluded[j])
  BY BlockPositions
<1> HIDE DEF n, starts
<1>2. Len(excluded) \in Nat
  OBVIOUS
<1>3. ASSUME NEW k \in 1 .. packet.count
      PROVE  \/ \E i \in GroupStarts(dests) :
                   packet.recipients[k] = RecipientBlock(ours, DeriveE(m), m, GroupAt(dests, i))
             \/ \E j \in 1 .. Len(excluded) :
                   packet.recipients[k] = ExcludedBlock(excluded[j])
  <2>1. CASE k \in 1 .. n
    BY <1>1, <2>1
  <2>2. CASE k \notin 1 .. n
    <3>1. k - n \in 1 .. Len(excluded) /\ k = n + (k - n)
      BY <1>1, <1>2, <2>2
    <3> QED BY <1>1, <3>1
  <2> QED BY <2>1, <2>2
<1>4. ASSUME NEW j \in 1 .. Len(excluded)
      PROVE  \E k \in 1 .. packet.count : packet.recipients[k] = ExcludedBlock(excluded[j])
  <2>1. n + j \in 1 .. packet.count
    BY <1>1, <1>2
  <2> QED BY <1>1, <2>1
<1>5. packet.count \in Nat
  BY <1>1, <1>2
<1> QED BY <1>1, <1>3, <1>4, <1>5

\* Seal: a message gets a number no other has.
LEMMA SealKeeps ==
    ASSUME SealedInv, NEW x, sealed' = sealed \cup {x},
           UNCHANGED <<now, gen, known, certs, read>>,
           x.usmc.sender \in certs, x.usmc.contents.from = Sender,
           Number(x) = Cardinality(sealed), SealedOne(x) \/ SealedMany(x)
    PROVE  SealedInv'
<1> DEFINE n == Cardinality(sealed)
<1>1. /\ sealed' = sealed \cup {x}
      /\ now' = now /\ gen' = gen /\ known' = known /\ certs' = certs /\ read' = read
  OBVIOUS
<1>3. (SealedOne(x) \/ SealedMany(x)) /\ Number(x) = n
      /\ x.usmc.sender \in certs /\ x.usmc.contents.from = Sender
  OBVIOUS
<1>4. /\ IsFiniteSet(sealed) /\ n \in Nat
      /\ \A s \in sealed : SealingSound(s)
      /\ \A s, t \in sealed : Number(s) = Number(t) => s = t
  BY FS_CardinalityType DEF SealedInv, SealedTypeOK, NumbersApart
<1>5. \A s \in sealed : Number(s) \in Nat /\ Number(s) < n
  BY <1>4 DEF SealingSound
<1>6. x \notin sealed
  BY <1>3, <1>4, <1>5
<1>7. IsFiniteSet(sealed') /\ Cardinality(sealed') = n + 1
  BY <1>1, <1>4, <1>6, FS_AddElement
<1>8. SealedTypeOK'
  BY <1>1, <1>7 DEF SealedInv, SealedTypeOK
<1>9. CertsSound'
  BY <1>1 DEF SealedInv, CertsSound
<1>10. NumbersApart'
  <2> SUFFICES ASSUME NEW s \in sealed', NEW t \in sealed', Number(s) = Number(t)
               PROVE  s = t
    BY DEF NumbersApart, Number
  <2>1. CASE s \in sealed /\ t \in sealed
    BY <2>1, <1>4
  <2>2. CASE s \in sealed /\ t \notin sealed
    BY <2>2, <1>1, <1>3, <1>4, <1>5
  <2>3. CASE s \notin sealed /\ t \in sealed
    BY <2>3, <1>1, <1>3, <1>4, <1>5
  <2>4. CASE s \notin sealed /\ t \notin sealed
    BY <2>4, <1>1
  <2> QED BY <2>1, <2>2, <2>3, <2>4
<1>11. SenderAuthentic'
  BY <1>1 DEF SealedInv, SenderAuthentic
<1>12. \A s \in sealed' : SealingSound(s)'
  <2> SUFFICES ASSUME NEW s \in sealed'
               PROVE  SealingSound(s)'
    OBVIOUS
  <2>1. s.usmc.sender \in certs /\ s.usmc.contents.from = Sender
        /\ (SealedOne(s) \/ SealedMany(s))
    BY <1>1, <1>3, <1>4 DEF SealingSound
  <2>2. Number(s) \in Nat /\ Number(s) < n + 1
    <3>1. CASE s \in sealed
      BY <3>1, <1>4, <1>5
    <3>2. CASE s \notin sealed
      BY <3>2, <1>1, <1>3, <1>4
    <3> QED BY <3>1, <3>2
  <2> QED BY <2>1, <2>2, <1>1, <1>7 DEF SealingSound, SealedOne, SealedMany, RecipientOf,
             KeysFor, Number
<1> QED BY <1>8, <1>9, <1>10, <1>11, <1>12 DEF SealedInv

LEMMA SealOneKeeps ==
    ASSUME SealedInv, NEW a \in Peers, NEW cert \in certs, NEW type, SealOne(a, cert, type)
    PROVE  SealedInv'
<1> DEFINE usmc == [type |-> type, sender |-> cert, contents |-> Contents(type, a)]
           packet == SealForOne(Key(Sender), known[a], DeriveE(Random(Cardinality(sealed))), usmc)
<1>1. Seal("one", <<a>>, <<>>, usmc, packet)
  BY DEF SealOne
<1> DEFINE x == [kind |-> "one", to |-> <<a>>, excluded |-> <<>>, usmc |-> usmc,
                 packet |-> packet, key |-> Key(Sender),
                 knew |-> [b \in Range(<<a>>) |-> known[b]]]
<1>2. /\ usmc.sender \in certs /\ usmc.contents.from = Sender
      /\ usmc.contents.n = Cardinality(sealed)
  BY DEF Contents
<1>3. SealedOne(x)
  <2>1. a \in Range(<<a>>)
    BY DEF Range
  <2>2. x.knew[a] = known[a]
    BY <2>1
  <2>3. Number(x) = Cardinality(sealed)
    BY <1>2 DEF Number
  <2>4. x.packet = SealForOne(x.key, x.knew[a], DeriveE(Random(Number(x))), x.usmc)
    BY <2>2, <2>3
  <2>5. x.knew[a][1] = a.name
    BY <2>2 DEF SealOne, SealedInv, SealedTypeOK
  <2> QED BY <2>4, <2>5 DEF SealedOne
<1>4. sealed' = sealed \cup {x} /\ UNCHANGED <<now, gen, known, certs, read>>
  BY <1>1 DEF Seal
<1>5. Number(x) = Cardinality(sealed) /\ x.usmc.sender \in certs /\ x.usmc.contents.from = Sender
  BY <1>2 DEF Number
<1> HIDE DEF x
<1> QED BY <1>3, <1>4, <1>5, SealKeeps

LEMMA SealManyKeeps ==
    ASSUME SealedInv, NEW dest \in Destinations, NEW cert \in certs, NEW type,
           SealMany(dest, cert, type)
    PROVE  SealedInv'
<1> DEFINE to == IF type = "SenderKey" THEN None ELSE dest.to[1]
           usmc == [type |-> type, sender |-> cert, contents |-> Contents(type, to)]
           m == Random(Cardinality(sealed))
<1> PICK packet : packet = SealForMany(Key(Sender), dest.to, dest.excluded, m, usmc)
  OBVIOUS
<1>1. Seal("many", dest.to, dest.excluded, usmc, packet) /\ CanSealForMany(dest.to)
  BY DEF SealMany
<1>2. /\ usmc.sender \in certs /\ usmc.contents.from = Sender
      /\ usmc.contents.n = Cardinality(sealed)
  BY DEF Contents
<1>3. dest.to \in Seq(Peers) /\ dest.excluded \in Seq(ServiceIds)
  BY SealedSenderAssumption
<1> HIDE DEF usmc, m
<1>4. /\ packet.version = SentVersion
      /\ packet.shared = [e |-> DeriveE(m), message |-> Encrypted(DeriveK(m), usmc)]
      /\ packet.count \in Nat
      /\ \A k \in 1 .. packet.count :
            \/ \E i \in GroupStarts(dest.to) :
                  packet.recipients[k]
                    = RecipientBlock(Key(Sender), DeriveE(m), m, GroupAt(dest.to, i))
            \/ \E j \in 1 .. Len(dest.excluded) :
                  packet.recipients[k] = ExcludedBlock(dest.excluded[j])
      /\ \A j \in 1 .. Len(dest.excluded) : \E k \in 1 .. packet.count :
            packet.recipients[k] = ExcludedBlock(dest.excluded[j])
  BY <1>3, BlocksOfMessage
<1> DEFINE x == [kind |-> "many", to |-> dest.to, excluded |-> dest.excluded, usmc |-> usmc,
                 packet |-> packet, key |-> Key(Sender),
                 knew |-> [b \in Range(dest.to) |-> known[b]]]
<1>5. /\ x.kind = "many" /\ x.to = dest.to /\ x.excluded = dest.excluded /\ x.usmc = usmc
      /\ x.packet = packet /\ x.key = Key(Sender)
      /\ x.knew = [b \in Range(dest.to) |-> known[b]]
  OBVIOUS
<1>6. sealed' = sealed \cup {x} /\ UNCHANGED <<now, gen, known, certs, read>>
  BY <1>1 DEF Seal
<1> HIDE DEF x
<1>7. SealedMany(x)
  <2>1. Random(Number(x)) = m
    BY <1>2, <1>5 DEF Number, m
  <2>2. ASSUME NEW i \in GroupStarts(dest.to), NEW block,
               block = RecipientBlock(Key(Sender), DeriveE(m), m, GroupAt(dest.to, i))
        PROVE  RecipientOf(x, block)
    <3>1. i \in 1 .. Len(dest.to) /\ DOMAIN dest.to = 1 .. Len(dest.to)
      BY <1>3 DEF GroupStarts
    <3>2. GroupAt(dest.to, i)[1] = dest.to[i]
      BY <1>3, <3>1, GroupFirst
    <3>3. known[dest.to[i]] # None
      BY <1>1, <2>2 DEF CanSealForMany
    <3>4. dest.to[i] \in Range(dest.to)
      BY <3>1 DEF Range
    <3>5. x.knew[x.to[i]] = known[dest.to[i]]
      BY <1>5, <3>4
    <3>9. x.knew[x.to[i]][1] = x.to[i].name
      <4>1. dest.to[i] \in Peers
        BY <1>3, <3>1
      <4> QED BY <4>1, <1>5, <3>3, <3>5 DEF SealedInv, SealedTypeOK
    <3>6. block.id = FixedWidthBinary(ParseText(dest.to[i].name))
      BY <2>2, <3>2 DEF RecipientBlock
    <3> DEFINE c == ApplyAgreementXor(DeriveE(m), known[dest.to[i]], "Sending", m)
    <3>7. block.cAndAt = <<c, AuthenticationTag(Key(Sender), known[dest.to[i]], "Sending",
                                                DeriveE(m), c)>>
      BY <2>2, <3>2 DEF RecipientBlock
    <3>8. block.cAndAt = KeysFor(x, x.to[i])
      BY <1>5, <2>1, <3>5, <3>7 DEF KeysFor
    <3> QED BY <1>5, <3>1, <3>6, <3>8, <3>9 DEF RecipientOf
  <2>3. ASSUME NEW k \in 1 .. packet.count
        PROVE  RecipientOf(x, packet.recipients[k]) \/ packet.recipients[k].cAndAt = <<>>
    <3>1. CASE \E i \in GroupStarts(dest.to) :
                  packet.recipients[k]
                    = RecipientBlock(Key(Sender), DeriveE(m), m, GroupAt(dest.to, i))
      BY <2>2, <3>1
    <3>2. CASE \E j \in 1 .. Len(dest.excluded) :
                  packet.recipients[k] = ExcludedBlock(dest.excluded[j])
      BY <3>2 DEF ExcludedBlock
    <3> QED BY <1>4, <3>1, <3>2
  <2> QED BY <1>3, <1>4, <1>5, <2>1, <2>3 DEF SealedMany
<1>8. Number(x) = Cardinality(sealed) /\ x.usmc.sender \in certs /\ x.usmc.contents.from = Sender
  BY <1>2, <1>5 DEF Number
<1> QED BY <1>6, <1>7, <1>8, SealKeeps

-----------------------------------------------------------------------------
(* Reading, and what happens around it                                     *)

\* sealed_sender_decrypt: the certificate is signed by a server that is trusted.
LEMMA ReceiveKeeps ==
    ASSUME SealedInv, NEW d \in Devices, NEW s \in sealed, NEW packet \in Packets(s),
           Receive(d, packet)
    PROVE  SealedInv'
<1> DEFINE opened == Unseal(Key(d), packet)
           cert == s.usmc.sender
           contents == s.usmc.contents
           r == [by |-> d, at |-> now, contents |-> contents,
                 from |-> ProtocolAddress(cert.uuid, cert.device)]
<1>1. opened.ok /\ NumbersApart /\ \A x \in sealed : SealingSound(x)
  BY DEF Receive, SealedInv
<1>2. opened.usmc = s.usmc /\ s.key = s.usmc.sender.key
  BY <1>1, PacketOpens
<1>3. /\ ValidSenderCertificate(cert, TrustRoots, now)
      /\ ~ SelfSend(d, cert)
      /\ SessionOpens(d, ProtocolAddress(cert.uuid, cert.device), contents)
      /\ read' = read \cup {r}
      /\ UNCHANGED <<now, gen, known, session, certs, sealed, changes>>
  <2> HIDE DEF opened
  <2> QED BY <1>2 DEF Receive, opened
<1>4. cert \in certs /\ contents.from = Sender
  BY <1>1 DEF SealingSound
<1>5. PICK server \in ServerCertificates :
         cert.signature = server.key /\ cert.signer.certificate = server
  BY <1>4 DEF SealedInv, CertsSound
<1>6. \E signer \in ServerCertificates :
         /\ cert.signature = signer.key
         /\ signer.signedBy \in TrustRoots /\ signer.id \notin RevokedIds
  <2> DEFINE signer == Signer(cert)
  <2>1. signer # None /\ cert.signature = signer.key
        /\ signer.signedBy \in TrustRoots /\ signer.id \notin RevokedIds
    BY <1>3 DEF ValidSenderCertificate, ValidServerCertificate
  <2>2. signer \in ServerCertificates
    <3>1. CASE cert.signer.by = "embedded"
      <4>1. signer = cert.signer.certificate
        BY <3>1 DEF Signer
      <4> QED BY <4>1, <1>5
    <3>2. CASE cert.signer.by = "reference" /\ cert.signer.id \in DOMAIN KnownCertificates
      <4>1. signer = KnownCertificates[cert.signer.id]
        BY <3>2 DEF Signer
      <4> QED BY <3>2, <4>1, SealedSenderAssumption
    <3>3. CASE /\ cert.signer.by # "embedded"
               /\ ~(cert.signer.by = "reference" /\ cert.signer.id \in DOMAIN KnownCertificates)
      BY <3>3, <2>1 DEF Signer
    <3> QED BY <3>1, <3>2, <3>3
  <2> QED BY <2>1, <2>2
<1>7. now <= cert.expires
  <2>1. now \in Nat /\ cert.expires \in Nat /\ ~(now > cert.expires)
    BY <1>3, <1>4 DEF ValidSenderCertificate, SealedInv, SealedTypeOK, CertsSound
  <2> QED BY <2>1
<1>8. r.from = Sender
  BY <1>3, <1>4 DEF SessionOpens
<1>9. d # Sender
  BY <1>3, <1>4 DEF SelfSend, SealedInv, CertsSound
<1>10. SenderAuthentic'
  <2> SUFFICES ASSUME NEW q \in read'
               PROVE  \E x \in sealed :
                         /\ x.usmc.contents = q.contents
                         /\ q.from = Sender /\ q.by # Sender
                         /\ x.usmc.sender.key = x.key
                         /\ \E signer \in ServerCertificates :
                              /\ x.usmc.sender.signature = signer.key
                              /\ signer.signedBy \in TrustRoots /\ signer.id \notin RevokedIds
                         /\ q.at <= x.usmc.sender.expires
    BY <1>3 DEF SenderAuthentic
  <2>1. CASE q \in read
    BY <2>1 DEF SealedInv, SenderAuthentic
  <2>2. CASE q = r
    <3>1. q.contents = contents /\ q.from = Sender /\ q.by = d /\ q.at = now
      BY <2>2, <1>8
    <3> QED BY <3>1, <1>2, <1>6, <1>7, <1>9
  <2> QED BY <2>1, <2>2, <1>3
<1>11. SealedTypeOK' /\ CertsSound' /\ NumbersApart' /\ \A x \in sealed' : SealingSound(x)'
  BY <1>3 DEF SealedInv, SealedTypeOK, CertsSound, NumbersApart, SealingSound, SealedOne,
              SealedMany, RecipientOf, KeysFor, Number
<1> QED BY <1>10, <1>11 DEF SealedInv

\* A step that neither seals nor reads keeps what is about messages, if the
\* certificates only grow.
LEMMA OthersKeep ==
    ASSUME SealedInv, UNCHANGED <<sealed, read>>, certs \subseteq certs', SealedTypeOK', CertsSound'
    PROVE  SealedInv'
<1>1. NumbersApart' /\ SenderAuthentic'
  BY DEF SealedInv, NumbersApart, SenderAuthentic, Number
<1>2. \A s \in sealed' : SealingSound(s)'
  BY DEF SealedInv, SealingSound, SealedOne, SealedMany, RecipientOf, KeysFor, Number
<1> QED BY <1>1, <1>2 DEF SealedInv

LEMMA SealedInit == Init => SealedInv
<1> SUFFICES ASSUME Init PROVE SealedInv
  OBVIOUS
<1>1. /\ now = 0 /\ gen = [n \in Names |-> 0] /\ certs = {} /\ sealed = {} /\ read = {}
      /\ \E with \in Contacts : known = [a \in Peers |-> IF a \in with THEN Key(a) ELSE None]
  BY DEF Init
<1>2. \A a \in Peers : a.name \in Names /\ Key(a) = <<a.name, 0>>
  BY <1>1, SealedSenderAssumption DEF Names, Key
<1>3. SealedTypeOK
  <2>1. PICK with \in Contacts : known = [a \in Peers |-> IF a \in with THEN Key(a) ELSE None]
    BY <1>1
  <2>2. known \in [Peers -> {None} \cup (Names \X Nat)]
    BY <1>2, <2>1
  <2>3. \A a \in Peers : known[a] # None => known[a][1] = a.name
    BY <1>2, <2>1
  <2>4. IsFiniteSet(sealed)
    BY <1>1, FS_EmptySet
  <2> QED BY <1>1, <2>2, <2>3, <2>4 DEF SealedTypeOK
<1> QED BY <1>1, <1>3 DEF SealedInv, CertsSound, NumbersApart, SenderAuthentic

LEMMA SealedNext == SealedInv /\ [Next]_vars => SealedInv'
<1> SUFFICES ASSUME SealedInv, [Next]_vars
             PROVE  SealedInv'
  OBVIOUS
<1>1. SealedTypeOK /\ CertsSound
  BY DEF SealedInv
<1>2. \A a \in Peers : a.name \in Names /\ Key(a) \in Names \X Nat /\ Key(a)[1] = a.name
  BY <1>1, SealedSenderAssumption DEF Names, Key, SealedTypeOK
<1>3. CASE Tick
  <2>1. now' \in Nat /\ UNCHANGED <<gen, known, certs, sealed, read>>
    BY <1>1, <1>3 DEF Tick, SealedTypeOK
  <2>2. SealedTypeOK' /\ CertsSound'
    BY <1>1, <2>1 DEF SealedTypeOK, CertsSound
  <2> QED BY <2>1, <2>2, OthersKeep
<1>4. ASSUME NEW n \in Names, Reregister(n)
      PROVE  SealedInv'
  <2>1. gen' = [gen EXCEPT ![n] = gen[n] + 1] /\ UNCHANGED <<now, known, certs, sealed, read>>
    BY <1>4 DEF Reregister
  <2>2. gen' \in [Names -> Nat]
    BY <1>1, <2>1 DEF SealedTypeOK
  <2>3. SealedTypeOK' /\ CertsSound'
    BY <1>1, <2>1, <2>2 DEF SealedTypeOK, CertsSound
  <2> QED BY <2>1, <2>3, OthersKeep
<1>5. ASSUME NEW a \in Peers, Establish(a)
      PROVE  SealedInv'
  <2>1. known' = [known EXCEPT ![a] = Key(a)] /\ UNCHANGED <<now, gen, certs, sealed, read>>
    BY <1>5 DEF Establish
  <2>2. /\ known' \in [Peers -> {None} \cup (Names \X Nat)]
        /\ \A b \in Peers : known'[b] # None => known'[b][1] = b.name
    BY <1>1, <1>2, <2>1 DEF SealedTypeOK
  <2>3. SealedTypeOK' /\ CertsSound'
    BY <1>1, <2>1, <2>2 DEF SealedTypeOK, CertsSound
  <2> QED BY <2>1, <2>3, OthersKeep
<1>6. ASSUME NEW a \in Peers, Archive(a)
      PROVE  SealedInv'
  <2>1. UNCHANGED <<now, gen, known, certs, sealed, read>>
    BY <1>6 DEF Archive
  <2>2. SealedTypeOK' /\ CertsSound'
    BY <1>1, <2>1 DEF SealedTypeOK, CertsSound
  <2> QED BY <2>1, <2>2, OthersKeep
<1>7. ASSUME NEW server \in ServerCertificates, NEW by \in {"embedded", "reference"},
             NEW expires \in now .. MaxTime, Issue(server, by, expires)
      PROVE  SealedInv'
  <2> DEFINE cert == SenderCertificate(Sender, [by |-> by, id |-> server.id, certificate |-> server],
                                       server, expires)
  <2>1. certs' = certs \cup {cert} /\ UNCHANGED <<now, gen, known, sealed, read>>
    BY <1>7 DEF Issue
  <2>2. /\ cert.uuid = Sender.name /\ cert.device = Sender.device
        /\ cert.expires = expires
        /\ cert.signature = server.key /\ cert.signer.certificate = server
    BY DEF SenderCertificate
  <2> HIDE DEF cert
  <2>3. expires \in Nat
    BY <1>1, SealedSenderAssumption DEF SealedTypeOK
  <2>4. SealedTypeOK'
    BY <1>1, <2>1 DEF SealedTypeOK
  <2>5. CertsSound'
    BY <1>1, <2>1, <2>2, <2>3 DEF CertsSound
  <2> QED BY <2>1, <2>4, <2>5, OthersKeep
<1>8. ASSUME NEW a \in Peers, NEW cert \in certs, NEW type \in {"Whisper", "PreKey"},
             SealOne(a, cert, type)
      PROVE  SealedInv'
  BY <1>8, SealOneKeeps
<1>9. ASSUME NEW dest \in Destinations, NEW cert \in certs, NEW type \in {"Whisper", "SenderKey"},
             SealMany(dest, cert, type)
      PROVE  SealedInv'
  BY <1>9, SealManyKeeps
<1>10. ASSUME NEW d \in Devices, NEW s \in sealed, NEW packet \in Packets(s), Receive(d, packet)
       PROVE  SealedInv'
  BY <1>10, ReceiveKeeps
<1>11. CASE UNCHANGED vars
  <2>1. UNCHANGED <<now, gen, known, certs, sealed, read>>
    BY <1>11 DEF vars
  <2>2. SealedTypeOK' /\ CertsSound'
    BY <1>1, <2>1 DEF SealedTypeOK, CertsSound
  <2> QED BY <2>1, <2>2, OthersKeep
<1> QED BY <1>3, <1>4, <1>5, <1>6, <1>7, <1>8, <1>9, <1>10, <1>11 DEF Next

\* sealed_sender_decrypt: the invariant behind what follows.
THEOREM SealedSenderSound == Spec => []SealedInv
<1> QED BY SealedInit, SealedNext, PTL DEF Spec

\* sealed_sender_decrypt: whatever the service hands to whatever device, what is
\* read was sealed by the sender with the identity that a certificate vouches for,
\* which a server signed that is trusted and not revoked, and which has not expired.
THEOREM SendersAuthentic == Spec => []SenderAuthentic
<1>1. SealedInv => SenderAuthentic
  BY DEF SealedInv
<1> QED BY <1>1, SealedSenderSound, PTL

\* sealed_sender_decrypt_to_usmc: a packet opens only for an account the message
\* was sealed for, under the identity it has, and never for one that is excluded.
THEOREM DestinationsOnly == Spec => []OnlyDestinationsOpen
<1>1. SealedInv => OnlyDestinationsOpen
  <2> SUFFICES ASSUME SealedInv, NEW s \in sealed, NEW d \in Devices, NEW packet \in Packets(s),
                      Unseal(Key(d), packet).ok
               PROVE  /\ \E i \in DOMAIN s.to : s.to[i].name = d.name /\ s.knew[s.to[i]] = Key(d)
                      /\ \A i \in DOMAIN s.excluded : s.excluded[i] # ParseText(d.name)
                      /\ Unseal(Key(d), packet).usmc = s.usmc
    BY DEF OnlyDestinationsOpen
  <2>1. /\ Unseal(Key(d), packet).usmc = s.usmc
        /\ \E i \in DOMAIN s.to :
              /\ Key(d) = s.knew[s.to[i]] /\ Key(d)[1] = s.to[i].name
              /\ \A j \in DOMAIN s.excluded : s.excluded[j] # ParseText(s.to[i].name)
    BY PacketOpens DEF SealedInv
  <2>2. Key(d)[1] = d.name
    BY DEF Key
  <2> QED BY <2>1, <2>2
<1> QED BY <1>1, SealedSenderSound, PTL

-----------------------------------------------------------------------------
(* What the service makes of a message sealed for several devices          *)

IdOf(a) == ParseText(a.name)
Addressed(a) == [device |-> a.device, registration |-> RegistrationId[a]]

\* The sender's session with an address has the registration id of its device.
Registered ==
    /\ session \in [Peers -> {None} \cup [registration : Nat, current : BOOLEAN]]
    /\ \A a \in Peers : session[a] # None => session[a].registration = RegistrationId[a]

\* How a message lies before the service: the groups in their order, and after them
\* the excluded accounts; keys[i] are those of the i-th destination.
Layout(sent, dests, excluded, keys, n, starts, ends) ==
    /\ n \in Nat /\ starts \in [1 .. n -> 1 .. Len(dests)]
    /\ \A k \in 1 .. n : ends[k] \in starts[k] .. Len(dests)
    /\ \A k, l \in 1 .. n : k < l => starts[k] < starts[l] /\ ends[k] < starts[l]
    /\ \A i \in 1 .. Len(dests) : \E k \in 1 .. n : i \in starts[k] .. ends[k]
    /\ \A k \in 1 .. n : \A i \in starts[k] .. ends[k] : IdOf(dests[i]) = IdOf(dests[starts[k]])
    /\ sent.version = SentVersion
    /\ sent.count = n + Len(excluded) /\ sent.count = Len(sent.recipients)
    /\ \A k \in 1 .. n :
          /\ BlockId(sent, k) = IdOf(dests[starts[k]]) /\ BlockId(sent, k) # None
          /\ WellDelimited(sent.recipients[k].devices)
          /\ BlockDevices(sent, k)
               = [j \in 1 .. ends[k] - starts[k] + 1 |-> Addressed(dests[starts[k] + j - 1])]
          /\ sent.recipients[k].cAndAt = keys[starts[k]]
    /\ \A j \in 1 .. Len(excluded) :
          BlockId(sent, n + j) = excluded[j] /\ sent.recipients[n + j].devices = <<>>

\* An id survives the way into the message and out of it.
LEMMA IdsTravel ==
    ASSUME NEW id \in ServiceIds
    PROVE  ParseFixedWidth(FixedWidthBinary(id)) = id /\ id # None
<1>1. id.kind \in Kinds /\ id = [kind |-> id.kind, uuid |-> id.uuid]
  BY DEF ServiceIds
<1>2. id # None /\ id.kind # None
  BY <1>1, NoneIsNoId
<1>3. KindOfByte(KindByte(id.kind)) = id.kind
  BY <1>1 DEF Kinds, KindByte, KindOfByte
<1>4. ParseFixedWidth(FixedWidthBinary(id)) = [kind |-> id.kind, uuid |-> id.uuid]
  BY <1>2, <1>3 DEF ParseFixedWidth, FixedWidthBinary
<1> QED BY <1>1, <1>2, <1>4

LEMMA IdOfPeer ==
    ASSUME NEW a \in Peers, IdOf(a) # None
    PROVE  IdOf(a) \in ServiceIds
<1>1. a.name \in Texts
  BY SealedSenderAssumption
<1>2. IdOf(a) = [kind |-> IF a.name.prefix = "PNI:" THEN "PNI" ELSE "ACI", uuid |-> a.name.uuid]
  BY DEF IdOf, ParseText
<1>3. a.name.uuid \in Uuids
  BY <1>1 DEF Texts
<1> QED BY <1>2, <1>3 DEF ServiceIds, Kinds

\* The 14 bits of a registration id, and the flag above them.
LEMMA FlagOfRegistration ==
    ASSUME NEW r \in Nat, Masked(r) = r
    PROVE  /\ Masked(r + 0) = r /\ ~(r + 0 >= HasMore)
           /\ Masked(r + HasMore) = r /\ r + HasMore >= HasMore
<1>1. r % 16384 = r
  BY DEF Masked, RegistrationMask
<1>2. r \in 0 .. 16383
  BY <1>1, SMTT(30)
<1>3. (r + 32768) % 16384 = r
  BY <1>2, SMTT(30)
<1> QED BY <1>1, <1>2, <1>3 DEF Masked, RegistrationMask, HasMore

\* RecipientBlock: the devices of a group, with their registration ids, under the
\* keys of the first.
Spans(dests, i, last) ==
    /\ i \in 1 .. Len(dests) /\ last \in i .. Len(dests)
    /\ GroupAt(dests, i) = SubSeq(dests, i, last)

BlockSound(ours, e, m, dests, i, last, block) ==
    LET c == ApplyAgreementXor(e, known[dests[i]], "Sending", m)
    IN  /\ block.id = FixedWidthBinary(IdOf(dests[i]))
        /\ block.cAndAt = <<c, AuthenticationTag(ours, known[dests[i]], "Sending", e, c)>>
        /\ WellDelimited(block.devices)
        /\ DOMAIN block.devices = 1 .. last - i + 1
        /\ \A j \in 1 .. last - i + 1 :
              [device |-> block.devices[j].device,
               registration |-> Masked(block.devices[j].registration)]
                = Addressed(dests[i + j - 1])

LEMMA BlockOfGroup ==
    ASSUME NEW dests \in Seq(Peers), CanSealForMany(dests), Registered,
           NEW i, NEW last, Spans(dests, i, last), NEW ours, NEW e, NEW m
    PROVE  BlockSound(ours, e, m, dests, i, last, RecipientBlock(ours, e, m, GroupAt(dests, i)))
<1>0. /\ i \in 1 .. Len(dests) /\ last \in i .. Len(dests)
      /\ GroupAt(dests, i) = SubSeq(dests, i, last)
  BY DEF Spans
<1> DEFINE g == GroupAt(dests, i)
           size == last - i + 1
           block == RecipientBlock(ours, e, m, g)
<1>1. /\ Len(g) = size /\ DOMAIN g = 1 .. size
      /\ \A j \in 1 .. size : g[j] = dests[i + j - 1]
  BY <1>0, StretchOfSequence
<1>2. size \in Nat /\ 1 \in 1 .. size /\ i + 1 - 1 = i
      /\ \A j \in 1 .. size : i + j - 1 \in 1 .. Len(dests)
  BY <1>0
<1>3. g[1] = dests[i]
  BY <1>1, <1>2
<1>4. /\ block.id = FixedWidthBinary(IdOf(dests[i])) /\ block.devices = DeviceList(g)
      /\ LET c == ApplyAgreementXor(e, known[dests[i]], "Sending", m)
         IN  block.cAndAt = <<c, AuthenticationTag(ours, known[dests[i]], "Sending", e, c)>>
  BY <1>3 DEF RecipientBlock, IdOf
<1> HIDE DEF g, size, block
<1>5. ASSUME NEW j \in 1 .. size
      PROVE  /\ g[j] = dests[i + j - 1] /\ session[g[j]].registration = RegistrationId[g[j]]
             /\ RegistrationId[g[j]] \in Nat /\ Masked(RegistrationId[g[j]]) = RegistrationId[g[j]]
  <2> DEFINE p == i + j - 1
  <2>0. DOMAIN dests = 1 .. Len(dests)
    OBVIOUS
  <2>1. p \in 1 .. Len(dests) /\ DOMAIN dests = 1 .. Len(dests) /\ g[j] = dests[p]
    BY <1>1, <1>2, <2>0
  <2> HIDE DEF p
  <2>2. dests[p] \in Peers /\ dests[p] \in Devices
    BY <2>1, SealedSenderAssumption
  <2>3. session[dests[p]] # None
        /\ Masked(session[dests[p]].registration) = session[dests[p]].registration
    BY <2>1 DEF CanSealForMany
  <2>4. session[dests[p]].registration = RegistrationId[dests[p]]
    BY <2>2, <2>3 DEF Registered
  <2>5. RegistrationId[dests[p]] \in Nat
    BY <2>2, SealedSenderAssumption
  <2> QED BY <1>1, <2>1, <2>3, <2>4, <2>5
<1>6. /\ DOMAIN block.devices = 1 .. size
      /\ \A j \in 1 .. size :
            /\ block.devices[j].device = g[j].device
            /\ block.devices[j].registration
                 = RegistrationId[g[j]] + (IF j < size THEN HasMore ELSE 0)
  BY <1>1, <1>4, <1>5 DEF DeviceList
<1>7. ASSUME NEW j \in 1 .. size
      PROVE  /\ Masked(block.devices[j].registration) = RegistrationId[g[j]]
             /\ (block.devices[j].registration >= HasMore) <=> (j < size)
  <2> DEFINE r == RegistrationId[g[j]]
  <2>1. r \in Nat /\ Masked(r) = r
    BY <1>5
  <2>2. block.devices[j].registration = r + (IF j < size THEN HasMore ELSE 0)
    BY <1>6
  <2> HIDE DEF r
  <2>3. /\ Masked(r + 0) = r /\ ~(r + 0 >= HasMore)
        /\ Masked(r + HasMore) = r /\ r + HasMore >= HasMore
    BY <2>1, FlagOfRegistration
  <2>4. CASE j < size
    BY <2>2, <2>3, <2>4 DEF r
  <2>5. CASE ~(j < size)
    BY <2>2, <2>3, <2>5 DEF r
  <2> QED BY <2>4, <2>5
<1>8. Len(block.devices) = size
  <2>1. block.devices = [j \in 1 .. size |-> block.devices[j]]
    BY <1>1, <1>4 DEF DeviceList
  <2>2. size \in Nat
    BY <1>2
  <2> QED BY <2>1, <2>2
<1>9. WellDelimited(block.devices)
  <2> SUFFICES ASSUME NEW j \in 1 .. size
               PROVE  (block.devices[j].registration >= HasMore) = (j < Len(block.devices))
    BY <1>6 DEF WellDelimited
  <2>1. (block.devices[j].registration >= HasMore) <=> (j < size)
    BY <1>7
  <2> QED BY <2>1, <1>8
<1>10. ASSUME NEW j \in 1 .. size
       PROVE  [device |-> block.devices[j].device,
               registration |-> Masked(block.devices[j].registration)]
                = Addressed(dests[i + j - 1])
  BY <1>5, <1>6, <1>7 DEF Addressed
<1> QED BY <1>4, <1>6, <1>9, <1>10 DEF size, block, g, BlockSound

\* sealed_sender_multi_recipient_encrypt: a message lies before the service like that.
LEMMA LayoutOfSealing ==
    ASSUME NEW dests \in Seq(Peers), NEW excluded \in Seq(ServiceIds),
           CanSealForMany(dests), Registered,
           NEW ours, NEW m, NEW usmc, NEW sent, sent = SealForMany(ours, dests, excluded, m, usmc),
           NEW keys, \A i \in 1 .. Len(dests) :
              LET c == ApplyAgreementXor(DeriveE(m), known[dests[i]], "Sending", m)
              IN  keys[i] = <<c, AuthenticationTag(ours, known[dests[i]], "Sending", DeriveE(m), c)>>
    PROVE  \E n, starts, ends : Layout(sent, dests, excluded, keys, n, starts, ends)
<1> DEFINE n == Cardinality(GroupStarts(dests))
<1>1. PICK starts, ends :
         /\ starts = InOrder(GroupStarts(dests))
         /\ n \in Nat
         /\ starts \in [1 .. n -> 1 .. Len(dests)]
         /\ \A k \in 1 .. n :
               /\ starts[k] \in GroupStarts(dests)
               /\ ends[k] \in starts[k] .. Len(dests)
               /\ GroupAt(dests, starts[k]) = SubSeq(dests, starts[k], ends[k])
               /\ \A j \in starts[k] .. ends[k] : dests[j].name = dests[starts[k]].name
         /\ \A k, l \in 1 .. n : k < l => starts[k] < starts[l] /\ ends[k] < starts[l]
         /\ \A i \in 1 .. Len(dests) : \E k \in 1 .. n : i \in starts[k] .. ends[k]
  BY Groups
<1>2. /\ sent.version = SentVersion
      /\ sent.count = n + Len(excluded)
      /\ sent.count = Len(sent.recipients)
      /\ \A i \in 1 .. n :
            sent.recipients[i] = RecipientBlock(ours, DeriveE(m), m, GroupAt(dests, starts[i]))
      /\ \A j \in 1 .. Len(excluded) : sent.recipients[n + j] = ExcludedBlock(excluded[j])
  <2> DEFINE q == InOrder(GroupStarts(dests))
  <2>1. /\ sent.version = SentVersion
        /\ sent.shared = [e |-> DeriveE(m), message |-> Encrypted(DeriveK(m), usmc)]
        /\ n \in Nat /\ sent.count = n + Len(excluded)
        /\ sent.count = Len(sent.recipients)
        /\ \A i \in 1 .. n :
              /\ q[i] \in GroupStarts(dests)
              /\ sent.recipients[i] = RecipientBlock(ours, DeriveE(m), m, GroupAt(dests, q[i]))
        /\ \A j \in 1 .. Len(excluded) : sent.recipients[n + j] = ExcludedBlock(excluded[j])
    BY BlockPositions
  <2>2. q = starts
    BY <1>1
  <2> HIDE DEF q, n
  <2> QED BY <2>1, <2>2
<1> HIDE DEF n
<1>3. sent.version # ReceivedVersion
  BY <1>2 DEF SentVersion, ReceivedVersion
<1>4. ASSUME NEW k \in 1 .. n
      PROVE  /\ BlockId(sent, k) = IdOf(dests[starts[k]]) /\ BlockId(sent, k) # None
             /\ WellDelimited(sent.recipients[k].devices)
             /\ BlockDevices(sent, k)
                  = [j \in 1 .. ends[k] - starts[k] + 1 |-> Addressed(dests[starts[k] + j - 1])]
             /\ sent.recipients[k].cAndAt = keys[starts[k]]
  <2> DEFINE i == starts[k]
             last == ends[k]
             block == sent.recipients[k]
  <2>1. /\ i \in 1 .. Len(dests) /\ last \in i .. Len(dests)
        /\ GroupAt(dests, i) = SubSeq(dests, i, last)
        /\ block = RecipientBlock(ours, DeriveE(m), m, GroupAt(dests, i))
    BY <1>1, <1>2
  <2> HIDE DEF i, last, block
  <2>2. LET c == ApplyAgreementXor(DeriveE(m), known[dests[i]], "Sending", m)
        IN  /\ block.id = FixedWidthBinary(IdOf(dests[i]))
            /\ block.cAndAt
                 = <<c, AuthenticationTag(ours, known[dests[i]], "Sending", DeriveE(m), c)>>
            /\ WellDelimited(block.devices)
            /\ DOMAIN block.devices = 1 .. last - i + 1
            /\ \A j \in 1 .. last - i + 1 :
                  [device |-> block.devices[j].device,
                   registration |-> Masked(block.devices[j].registration)]
                    = Addressed(dests[i + j - 1])
    <3>1. Spans(dests, i, last)
      BY <2>1 DEF Spans
    <3>2. BlockSound(ours, DeriveE(m), m, dests, i, last, block)
      BY <2>1, <3>1, BlockOfGroup
    <3> QED BY <3>2 DEF BlockSound
  <2>3. block.cAndAt = keys[i]
    BY <2>1, <2>2
  <2>4. IdOf(dests[i]) # None /\ dests[i] \in Peers
    <3>1. i \in DOMAIN dests /\ dests[i] \in Peers
      BY <2>1
    <3> QED BY <3>1 DEF CanSealForMany, IdOf
  <2>5. ParseFixedWidth(block.id) = IdOf(dests[i])
    BY <2>2, <2>4, IdOfPeer, IdsTravel
  <2>6. BlockId(sent, k) = ParseFixedWidth(block.id)
    BY <1>3 DEF BlockId, block
  <2>7. BlockDevices(sent, k) = [j \in DOMAIN block.devices |->
                  [device |-> block.devices[j].device,
                   registration |-> Masked(block.devices[j].registration)]]
    BY DEF BlockDevices, block
  <2> QED BY <2>2, <2>3, <2>4, <2>5, <2>6, <2>7 DEF i, last, block
<1>5. ASSUME NEW j \in 1 .. Len(excluded)
      PROVE  BlockId(sent, n + j) = excluded[j] /\ sent.recipients[n + j].devices = <<>>
  <2>1. excluded[j] \in ServiceIds
    OBVIOUS
  <2>2. /\ sent.recipients[n + j].id = FixedWidthBinary(excluded[j])
        /\ sent.recipients[n + j].devices = <<>>
    <3>1. sent.recipients[n + j] = ExcludedBlock(excluded[j])
      BY <1>2
    <3> QED BY <3>1 DEF ExcludedBlock
  <2>3. BlockId(sent, n + j) = ParseFixedWidth(sent.recipients[n + j].id)
    BY <1>3 DEF BlockId
  <2> QED BY <2>1, <2>2, <2>3, IdsTravel
<1>6. \A k \in 1 .. n : \A i \in starts[k] .. ends[k] : IdOf(dests[i]) = IdOf(dests[starts[k]])
  BY <1>1 DEF IdOf
<1>7. Layout(sent, dests, excluded, keys, n, starts, ends)
  BY <1>1, <1>2, <1>4, <1>5, <1>6 DEF Layout
<1> QED BY <1>7

\* SealedSenderV2SentMessage::parse: a message is refused exactly if an account is
\* excluded twice, or addressed and excluded.
LEMMA WhatIsParsed ==
    ASSUME NEW dests \in Seq(Peers), NEW excluded \in Seq(ServiceIds), NEW sent, NEW keys,
           NEW n, NEW starts, NEW ends, Layout(sent, dests, excluded, keys, n, starts, ends)
    PROVE  CanParse(sent) <=>
              /\ \A i \in 1 .. Len(dests), j \in 1 .. Len(excluded) : IdOf(dests[i]) # excluded[j]
              /\ \A i, j \in 1 .. Len(excluded) : excluded[i] = excluded[j] => i = j
<1>1. /\ n \in Nat /\ Len(excluded) \in Nat /\ sent.count = n + Len(excluded)
      /\ sent.count = Len(sent.recipients) /\ sent.version \in {SentVersion, ReceivedVersion}
  BY DEF Layout
<1>2. ASSUME NEW k \in 1 .. n
      PROVE  /\ BlockId(sent, k) = IdOf(dests[starts[k]]) /\ BlockId(sent, k) # None
             /\ WellDelimited(sent.recipients[k].devices) /\ BlockDevices(sent, k) # <<>>
             /\ starts[k] \in 1 .. Len(dests)
  <2>1. /\ starts[k] \in 1 .. Len(dests) /\ ends[k] \in starts[k] .. Len(dests)
        /\ BlockId(sent, k) = IdOf(dests[starts[k]]) /\ BlockId(sent, k) # None
        /\ WellDelimited(sent.recipients[k].devices)
        /\ BlockDevices(sent, k)
             = [j \in 1 .. ends[k] - starts[k] + 1 |-> Addressed(dests[starts[k] + j - 1])]
    BY DEF Layout
  <2>2. DOMAIN BlockDevices(sent, k) = 1 .. ends[k] - starts[k] + 1
    BY <2>1
  <2>3. 1 \in 1 .. ends[k] - starts[k] + 1
    BY <2>1
  <2>4. BlockDevices(sent, k) # <<>>
    <3>1. 1 \in DOMAIN BlockDevices(sent, k)
      BY <2>2, <2>3
    <3>2. 1 \notin DOMAIN << >>
      OBVIOUS
    <3> QED BY <3>1, <3>2
  <2> QED BY <2>1, <2>4
<1>3. ASSUME NEW j \in 1 .. Len(excluded)
      PROVE  /\ n + j \in 1 .. sent.count
             /\ BlockId(sent, n + j) = excluded[j] /\ BlockId(sent, n + j) # None
             /\ WellDelimited(sent.recipients[n + j].devices) /\ BlockDevices(sent, n + j) = <<>>
  <2>1. BlockId(sent, n + j) = excluded[j] /\ sent.recipients[n + j].devices = <<>>
    BY DEF Layout
  <2>2. excluded[j] # None
    <3>1. excluded[j] \in ServiceIds
      OBVIOUS
    <3> QED BY <3>1, IdsTravel
  <2>3. WellDelimited(sent.recipients[n + j].devices) /\ BlockDevices(sent, n + j) = <<>>
    BY <2>1 DEF WellDelimited, BlockDevices
  <2>4. n + j \in 1 .. sent.count
    BY <1>1
  <2> QED BY <2>1, <2>2, <2>3, <2>4
<1>4. \A k \in 1 .. sent.count : k \in 1 .. n \/ \E j \in 1 .. Len(excluded) : k = n + j
  <2> SUFFICES ASSUME NEW k \in 1 .. sent.count, k \notin 1 .. n
               PROVE  \E j \in 1 .. Len(excluded) : k = n + j
    OBVIOUS
  <2>1. k - n \in 1 .. Len(excluded) /\ k = n + (k - n)
    BY <1>1
  <2> QED BY <2>1
<1>5. \A k \in 1 .. sent.count :
         BlockId(sent, k) # None /\ WellDelimited(sent.recipients[k].devices)
  BY <1>2, <1>3, <1>4
<1> DEFINE Apart2 == \A k, l \in 1 .. sent.count :
              k # l /\ BlockId(sent, k) = BlockId(sent, l) =>
                 BlockDevices(sent, k) # <<>> /\ BlockDevices(sent, l) # <<>>
           Addressees == \A i \in 1 .. Len(dests), j \in 1 .. Len(excluded) :
              IdOf(dests[i]) # excluded[j]
           Once == \A i, j \in 1 .. Len(excluded) : excluded[i] = excluded[j] => i = j
<1>6. CanParse(sent) <=> Apart2
  BY <1>1, <1>5 DEF CanParse
<1>7. ASSUME Apart2, NEW i \in 1 .. Len(dests), NEW j \in 1 .. Len(excluded)
      PROVE  IdOf(dests[i]) # excluded[j]
  <2>1. PICK k \in 1 .. n : i \in starts[k] .. ends[k]
    BY DEF Layout
  <2>2. IdOf(dests[i]) = BlockId(sent, k)
    BY <1>2, <2>1 DEF Layout
  <2>3. k # n + j /\ k \in 1 .. sent.count
    BY <1>1
  <2> QED BY <1>3, <1>7, <2>2, <2>3
<1>8. ASSUME Apart2, NEW i \in 1 .. Len(excluded), NEW j \in 1 .. Len(excluded),
             excluded[i] = excluded[j]
      PROVE  i = j
  <2>1. n + i = n + j
    BY <1>3, <1>8
  <2> QED BY <1>1, <2>1
<1>9. ASSUME Addressees, Once, NEW k \in 1 .. sent.count, NEW l \in 1 .. sent.count, k # l,
             BlockId(sent, k) = BlockId(sent, l)
      PROVE  BlockDevices(sent, k) # <<>>
  <2> SUFFICES ASSUME k \notin 1 .. n PROVE FALSE
    BY <1>2
  <2>1. PICK j \in 1 .. Len(excluded) : k = n + j
    BY <1>4
  <2>2. CASE l \in 1 .. n
    BY <1>2, <1>3, <1>9, <2>1, <2>2
  <2>3. CASE l \notin 1 .. n
    <3>1. PICK i \in 1 .. Len(excluded) : l = n + i
      BY <1>4, <2>3
    <3> QED BY <1>3, <1>9, <2>1, <3>1
  <2> QED BY <2>2, <2>3
<1>10. ASSUME Addressees, Once
       PROVE  Apart2
  BY <1>9, <1>10
<1> QED BY <1>6, <1>7, <1>8, <1>10

\* The destinations of an account, and their devices in the sender's order.
Mine(dests, id) == {x \in 1 .. Len(dests) : IdOf(dests[x]) = id}
DevicesOf(dests, id) ==
    [k \in 1 .. Cardinality(Mine(dests, id)) |-> Addressed(dests[InOrder(Mine(dests, id))[k]])]

\* SealedSenderV2SentMessage::parse: the blocks of an account are those of its
\* groups, and are put together as the sender listed its devices.
LEMMA MergedOfAccount ==
    ASSUME NEW dests \in Seq(Peers), NEW excluded \in Seq(ServiceIds), NEW sent, NEW keys,
           NEW n, NEW starts, NEW ends, Layout(sent, dests, excluded, keys, n, starts, ends),
           CanParse(sent), NEW id, Mine(dests, id) # {}
    PROVE  /\ \E k \in 1 .. sent.count : BlockId(sent, k) = id
           /\ Merged(sent, id).devices = DevicesOf(dests, id)
           /\ \E h \in Mine(dests, id) : Merged(sent, id).cAndAt = keys[h]
<1> DEFINE N == Len(dests)
           B == BlocksOf(sent, id)
           order == InOrder(B)
           m == Cardinality(B)
<1>1. /\ n \in Nat /\ Len(excluded) \in Nat /\ sent.count = n + Len(excluded) /\ N \in Nat
      /\ starts \in [1 .. n -> 1 .. N]
      /\ \A k \in 1 .. n : ends[k] \in starts[k] .. N
      /\ \A k, l \in 1 .. n : k < l => starts[k] < starts[l] /\ ends[k] < starts[l]
      /\ \A i \in 1 .. N : \E k \in 1 .. n : i \in starts[k] .. ends[k]
      /\ \A k \in 1 .. n : \A i \in starts[k] .. ends[k] : IdOf(dests[i]) = IdOf(dests[starts[k]])
      /\ \A k \in 1 .. n : BlockId(sent, k) = IdOf(dests[starts[k]])
  BY DEF Layout
<1>2. /\ \A k \in B : k \in 1 .. n /\ IdOf(dests[starts[k]]) = id
      /\ \A k \in 1 .. n : IdOf(dests[starts[k]]) = id => k \in B
  <2>1. ASSUME NEW k \in B
        PROVE  k \in 1 .. n
    <3>1. k \in 1 .. sent.count /\ BlockId(sent, k) = id
      BY DEF BlocksOf
    <3> SUFFICES ASSUME k \notin 1 .. n PROVE FALSE
      OBVIOUS
    <3>2. k - n \in 1 .. Len(excluded) /\ k = n + (k - n)
      BY <1>1, <3>1
    <3>3. PICK j \in 1 .. Len(excluded) : k = n + j
      BY <3>2
    <3>4. BlockId(sent, n + j) = excluded[j]
      BY DEF Layout
    <3>5. PICK h \in 1 .. N : IdOf(dests[h]) = id
      BY DEF Mine
    <3>6. IdOf(dests[h]) # excluded[j]
      BY WhatIsParsed
    <3> QED BY <3>1, <3>3, <3>4, <3>5, <3>6
  <2>2. \A k \in 1 .. n : k \in 1 .. sent.count
    BY <1>1
  <2> QED BY <1>1, <2>1, <2>2 DEF BlocksOf
<1>3. \A x \in 1 .. N : x \in Mine(dests, id) <=> \E k \in B : x \in starts[k] .. ends[k]
  <2>1. ASSUME NEW x \in 1 .. N, x \in Mine(dests, id)
        PROVE  \E k \in B : x \in starts[k] .. ends[k]
    <3>1. PICK k \in 1 .. n : x \in starts[k] .. ends[k]
      BY <1>1
    <3>2. IdOf(dests[starts[k]]) = id
      BY <1>1, <2>1, <3>1 DEF Mine
    <3> QED BY <1>2, <3>1, <3>2
  <2>2. ASSUME NEW x \in 1 .. N, NEW k \in B, x \in starts[k] .. ends[k]
        PROVE  x \in Mine(dests, id)
    BY <1>1, <1>2, <2>2 DEF Mine
  <2> QED BY <2>1, <2>2
<1>4. B \in SUBSET Nat /\ IsFiniteSet(B)
  <2>1. B \in SUBSET (1 .. n)
    BY <1>2
  <2> HIDE DEF B
  <2> QED BY <1>1, <2>1, InOrderOfPositions
<1>5. /\ m \in Nat /\ order \in [1 .. m -> B]
      /\ \A i, j \in 1 .. m : i < j => order[i] < order[j]
      /\ \A k \in B : \E i \in 1 .. m : order[i] = k
  <2> HIDE DEF B
  <2>1. \A k \in B : \E i \in 1 .. m : order[i] = k
    BY <1>4, InOrderOnto
  <2> QED BY <1>4, <2>1, InOrderProperties
<1>6. B # {}
  BY <1>3 DEF Mine
<1> HIDE DEF B, order, m
<1>7. m \in Nat \ {0} /\ 1 \in 1 .. m
  BY <1>5, <1>6
<1> DEFINE from == [l \in 1 .. m |-> starts[order[l]]]
           upto == [l \in 1 .. m |-> ends[order[l]]]
           P == [l \in 1 .. m |-> [j \in 1 .. upto[l] - from[l] + 1 |-> from[l] + j - 1]]
           at == [x \in 1 .. N |-> Addressed(dests[x])]
<1>8. ASSUME NEW l \in 1 .. m
      PROVE  /\ order[l] \in B /\ order[l] \in 1 .. n
             /\ from[l] = starts[order[l]] /\ upto[l] = ends[order[l]]
             /\ from[l] \in 1 .. N /\ upto[l] \in from[l] .. N
             /\ P[l] = [j \in 1 .. upto[l] - from[l] + 1 |-> from[l] + j - 1]
  <2>1. order[l] \in B /\ order[l] \in 1 .. n
    BY <1>2, <1>5
  <2>2. from[l] = starts[order[l]] /\ upto[l] = ends[order[l]]
    OBVIOUS
  <2>3. from[l] \in 1 .. N /\ upto[l] \in from[l] .. N
    BY <1>1, <2>1, <2>2
  <2>4. P[l] = [j \in 1 .. upto[l] - from[l] + 1 |-> from[l] + j - 1]
    OBVIOUS
  <2> QED BY <2>1, <2>2, <2>3, <2>4
<1> HIDE DEF P, from, upto
<1>17. ASSUME NEW l \in 1 .. m
       PROVE  /\ from[l] \in Nat /\ upto[l] \in Nat /\ P[l] \in Seq(1 .. N)
              /\ Len(P[l]) = upto[l] - from[l] + 1
              /\ \A j \in 1 .. Len(P[l]) : /\ P[l][j] = from[l] + j - 1
                                           /\ P[l][j] \in from[l] .. upto[l]
              /\ \A x \in from[l] .. upto[l] : \E j \in 1 .. Len(P[l]) : P[l][j] = x
  <2>1. PICK a, z : a = from[l] /\ z = upto[l]
    OBVIOUS
  <2>2. /\ a \in 1 .. N /\ z \in a .. N /\ N \in Nat
        /\ P[l] = [j \in 1 .. z - a + 1 |-> a + j - 1]
    BY <1>1, <1>8, <2>1
  <2> HIDE DEF N
  <2>3. z - a + 1 \in Nat /\ \A j \in 1 .. z - a + 1 : a + j - 1 \in 1 .. N /\ a + j - 1 \in a .. z
    BY <2>2
  <2>4. P[l] \in [1 .. z - a + 1 -> 1 .. N]
    BY <2>2, <2>3
  <2>5. P[l] \in Seq(1 .. N) /\ Len(P[l]) = z - a + 1
    <3> DEFINE size == z - a + 1
    <3>1. size \in Nat /\ P[l] \in [1 .. size -> 1 .. N]
      BY <2>3, <2>4
    <3> HIDE DEF size
    <3>2. P[l] \in Seq(1 .. N) /\ Len(P[l]) = size
      BY <3>1, AsSequence
    <3> QED BY <3>2 DEF size
  <2>6. \A j \in 1 .. Len(P[l]) : P[l][j] = a + j - 1 /\ P[l][j] \in a .. z
    BY <2>2, <2>3, <2>5
  <2>7. ASSUME NEW x \in a .. z
        PROVE  \E j \in 1 .. Len(P[l]) : P[l][j] = x
    <3>1. x - a + 1 \in 1 .. Len(P[l]) /\ a + (x - a + 1) - 1 = x
      BY <2>2, <2>5
    <3> QED BY <3>1, <2>6
  <2>8. a \in Nat /\ z \in Nat
    BY <2>2
  <2> QED BY <2>1, <2>5, <2>6, <2>7, <2>8
<1>9. ListsFollow(P, m, N, Mine(dests, id))
  <2>1. P \in [1 .. m -> Seq(1 .. N)]
    <3>1. DOMAIN P = 1 .. m /\ P = [l \in 1 .. m |-> P[l]]
      BY DEF P
    <3> QED BY <3>1, <1>17
  <2>2. \A i \in 1 .. m : \A j, k \in 1 .. Len(P[i]) : j < k => P[i][j] < P[i][k]
    <3> SUFFICES ASSUME NEW i \in 1 .. m, NEW j \in 1 .. Len(P[i]), NEW k \in 1 .. Len(P[i]), j < k
                 PROVE  P[i][j] < P[i][k]
      OBVIOUS
    <3>1. P[i][j] = from[i] + j - 1 /\ P[i][k] = from[i] + k - 1 /\ from[i] \in Nat
      BY <1>17
    <3> QED BY <3>1
  <2>3. \A i, j \in 1 .. m : i < j =>
          \A k \in 1 .. Len(P[i]), l \in 1 .. Len(P[j]) : P[i][k] < P[j][l]
    <3> SUFFICES ASSUME NEW i \in 1 .. m, NEW j \in 1 .. m, i < j,
                        NEW k \in 1 .. Len(P[i]), NEW l \in 1 .. Len(P[j])
                 PROVE  P[i][k] < P[j][l]
      OBVIOUS
    <3>1. upto[i] < from[j]
      BY <1>1, <1>5, <1>8
    <3>2. P[i][k] \in from[i] .. upto[i] /\ P[j][l] \in from[j] .. upto[j]
      BY <1>17
    <3>3. from[i] \in Nat /\ from[j] \in Nat /\ upto[i] \in Nat /\ upto[j] \in Nat
      BY <1>17
    <3>4. PICK x, y : x = P[i][k] /\ y = P[j][l]
      OBVIOUS
    <3>5. x < y
      BY <3>1, <3>2, <3>3, <3>4
    <3> QED BY <3>4, <3>5
  <2>4. Mine(dests, id) = {x \in 1 .. N : \E i \in 1 .. m : \E j \in 1 .. Len(P[i]) : P[i][j] = x}
    <3>1. ASSUME NEW x \in Mine(dests, id)
          PROVE  x \in 1 .. N /\ \E i \in 1 .. m : \E j \in 1 .. Len(P[i]) : P[i][j] = x
      <4>1. x \in 1 .. N
        BY DEF Mine
      <4>2. PICK i \in 1 .. m : x \in starts[order[i]] .. ends[order[i]]
        BY <1>3, <1>5, <4>1
      <4>3. x \in from[i] .. upto[i]
        BY <1>8, <4>2
      <4> QED BY <1>17, <4>1, <4>3
    <3>2. ASSUME NEW i \in 1 .. m, NEW j \in 1 .. Len(P[i])
          PROVE  P[i][j] \in Mine(dests, id)
      <4>1. P[i][j] \in starts[order[i]] .. ends[order[i]] /\ order[i] \in B
        BY <1>8, <1>17
      <4>2. P[i][j] \in 1 .. N
        BY <1>17
      <4> QED BY <1>3, <4>1, <4>2
    <3> QED BY <3>1, <3>2
  <2> QED BY <2>1, <2>2, <2>3, <2>4 DEF ListsFollow
<1>10. FlattenSeq(InLists(at, P, m)) = ReadInOrder(at, Mine(dests, id))
  <2>1. N \in Nat
    BY <1>1
  <2> HIDE DEF at, N
  <2> QED BY <2>1, <1>7, <1>9, FlattenInOrder
<1>11. InLists(at, P, m) = [l \in DOMAIN order |-> BlockDevices(sent, order[l])]
  <2>1. DOMAIN order = 1 .. m
    BY <1>5
  <2>2. ASSUME NEW l \in 1 .. m
        PROVE  BlockDevices(sent, order[l]) = [j \in 1 .. Len(P[l]) |-> at[P[l][j]]]
    <3>1. BlockDevices(sent, order[l])
            = [j \in 1 .. upto[l] - from[l] + 1 |-> Addressed(dests[from[l] + j - 1])]
      <4>1. PICK k \in 1 .. n : k = order[l]
        BY <1>8
      <4>2. from[l] = starts[k] /\ upto[l] = ends[k]
        BY <1>8, <4>1
      <4>3. BlockDevices(sent, k)
              = [j \in 1 .. ends[k] - starts[k] + 1 |-> Addressed(dests[starts[k] + j - 1])]
        BY DEF Layout
      <4>4. BlockDevices(sent, k)
              = [j \in 1 .. upto[l] - from[l] + 1 |-> Addressed(dests[from[l] + j - 1])]
        BY <4>2, <4>3, Zenon
      <4> QED BY <4>1, <4>4
    <3>2. Len(P[l]) = upto[l] - from[l] + 1
      BY <1>17
    <3>3. ASSUME NEW j \in 1 .. Len(P[l])
          PROVE  at[P[l][j]] = Addressed(dests[from[l] + j - 1])
      <4>1. P[l][j] = from[l] + j - 1 /\ P[l][j] \in 1 .. N
        BY <1>17
      <4> QED BY <4>1
    <3> HIDE DEF at
    <3> QED BY <3>1, <3>2, <3>3
  <2> QED BY <2>1, <2>2 DEF InLists
<1>12. ReadInOrder(at, Mine(dests, id)) = DevicesOf(dests, id)
  <2> DEFINE M == Mine(dests, id)
  <2>1. M \in SUBSET Nat /\ IsFiniteSet(M)
    <3>1. M \in SUBSET (1 .. N)
      BY DEF Mine
    <3> HIDE DEF M
    <3> QED BY <1>1, <3>1, InOrderOfPositions
  <2>2. InOrder(M) \in [1 .. Cardinality(M) -> M]
    <3> HIDE DEF M
    <3> QED BY <2>1, InOrderProperties
  <2>3. \A k \in 1 .. Cardinality(M) : at[InOrder(M)[k]] = Addressed(dests[InOrder(M)[k]])
    <3>1. \A k \in 1 .. Cardinality(M) : InOrder(M)[k] \in 1 .. N
      BY <2>2 DEF Mine
    <3> QED BY <3>1
  <2> HIDE DEF at
  <2> QED BY <2>3 DEF ReadInOrder, DevicesOf
<1>13. Merged(sent, id).devices = DevicesOf(dests, id)
  BY <1>10, <1>11, <1>12 DEF Merged, order, B
<1>14. Merged(sent, id).cAndAt = keys[starts[order[1]]]
  <2>1. Merged(sent, id).cAndAt = sent.recipients[order[1]].cAndAt
    BY DEF Merged, order, B
  <2> QED BY <2>1, <1>7, <1>8 DEF Layout
<1>15. starts[order[1]] \in Mine(dests, id)
  <2>1. order[1] \in B /\ starts[order[1]] \in 1 .. N
    BY <1>7, <1>8
  <2> QED BY <2>1, <1>2 DEF Mine
<1>16. \E k \in 1 .. sent.count : BlockId(sent, k) = id
  BY <1>6 DEF B, BlocksOf
<1> QED BY <1>13, <1>14, <1>15, <1>16

\* What the service can tell of the messages sealed, and why: the inductive
\* invariant behind the split of a message.
SplitSound(s) ==
    \E n, starts, ends :
        Layout(s.packet, s.to, s.excluded, [i \in 1 .. Len(s.to) |-> KeysFor(s, s.to[i])],
               n, starts, ends)

SplitInv ==
    /\ Registered
    /\ \A s \in sealed : s.kind = "many" => SplitSound(s)

LEMMA SplitInit == Init => SplitInv
<1> SUFFICES ASSUME Init PROVE SplitInv
  OBVIOUS
<1>1. sealed = {}
  BY DEF Init
<1>2. PICK with \in Contacts :
         session = [a \in Peers |-> IF a \in with THEN NewSession(a) ELSE None]
  BY DEF Init
<1>3. \A a \in Peers : /\ NewSession(a) \in [registration : Nat, current : BOOLEAN]
                       /\ NewSession(a).registration = RegistrationId[a]
  BY SealedSenderAssumption DEF NewSession
<1> QED BY <1>1, <1>2, <1>3 DEF SplitInv, Registered

\* sealed_sender_multi_recipient_encrypt
LEMMA SealManySplits ==
    ASSUME SealedInv, SplitInv, NEW dest \in Destinations, NEW cert \in certs, NEW type,
           SealMany(dest, cert, type)
    PROVE  SplitInv'
<1> DEFINE to == IF type = "SenderKey" THEN None ELSE dest.to[1]
           usmc == [type |-> type, sender |-> cert, contents |-> Contents(type, to)]
           m == Random(Cardinality(sealed))
<1> PICK packet : packet = SealForMany(Key(Sender), dest.to, dest.excluded, m, usmc)
  OBVIOUS
<1>1. Seal("many", dest.to, dest.excluded, usmc, packet) /\ CanSealForMany(dest.to)
  BY DEF SealMany
<1>2. usmc.contents.n = Cardinality(sealed)
  BY DEF Contents
<1>3. dest.to \in Seq(Peers) /\ dest.excluded \in Seq(ServiceIds)
  BY SealedSenderAssumption
<1> DEFINE x == [kind |-> "many", to |-> dest.to, excluded |-> dest.excluded, usmc |-> usmc,
                 packet |-> packet, key |-> Key(Sender),
                 knew |-> [b \in Range(dest.to) |-> known[b]]]
<1> HIDE DEF usmc
<1>4. sealed' = sealed \cup {x} /\ session' = session
  BY <1>1 DEF Seal
<1>5. /\ x.to = dest.to /\ x.excluded = dest.excluded /\ x.packet = packet
      /\ x.usmc = usmc /\ x.key = Key(Sender)
      /\ x.knew = [b \in Range(dest.to) |-> known[b]]
  OBVIOUS
<1> HIDE DEF x, m
<1> DEFINE keys == [i \in 1 .. Len(x.to) |-> KeysFor(x, x.to[i])]
<1>6. Random(Number(x)) = m
  BY <1>2, <1>5 DEF Number, m
<1>7. ASSUME NEW i \in 1 .. Len(dest.to)
      PROVE  LET c == ApplyAgreementXor(DeriveE(m), known[dest.to[i]], "Sending", m)
             IN  keys[i] = <<c, AuthenticationTag(Key(Sender), known[dest.to[i]], "Sending",
                                                  DeriveE(m), c)>>
  <2>1. dest.to[i] \in Range(dest.to)
    BY <1>3 DEF Range
  <2>2. x.knew[x.to[i]] = known[dest.to[i]]
    BY <1>5, <2>1
  <2>3. keys[i] = KeysFor(x, x.to[i])
    BY <1>5
  <2> HIDE DEF keys
  <2> QED BY <1>5, <1>6, <2>2, <2>3 DEF KeysFor
<1>8. \E n, starts, ends : Layout(packet, dest.to, dest.excluded, keys, n, starts, ends)
  <2>1. Registered
    BY DEF SplitInv
  <2> HIDE DEF keys
  <2> QED BY <1>1, <1>3, <1>7, <2>1, LayoutOfSealing
<1>9. SplitSound(x)
  BY <1>5, <1>8 DEF SplitSound
<1>10. \A s \in sealed' : s.kind = "many" => SplitSound(s)
  BY <1>4, <1>9 DEF SplitInv
<1>11. Registered'
  BY <1>4 DEF SplitInv, Registered
<1> QED BY <1>10, <1>11 DEF SplitInv, SplitSound, KeysFor, Number

LEMMA SplitNext == SealedInv /\ SplitInv /\ [Next]_vars => SplitInv'
<1> SUFFICES ASSUME SealedInv, SplitInv, [Next]_vars
             PROVE  SplitInv'
  OBVIOUS
<1>1. /\ session \in [Peers -> {None} \cup [registration : Nat, current : BOOLEAN]]
      /\ \A a \in Peers : session[a] # None => session[a].registration = RegistrationId[a]
      /\ \A s \in sealed : s.kind = "many" => SplitSound(s)
  BY DEF SplitInv, Registered
<1>2. ASSUME UNCHANGED <<session, sealed>>
      PROVE  SplitInv'
  BY <1>1, <1>2 DEF SplitInv, Registered, SplitSound, KeysFor, Number
<1>3. ASSUME Registered', UNCHANGED sealed
      PROVE  SplitInv'
  BY <1>1, <1>3 DEF SplitInv, SplitSound, KeysFor, Number
<1>4. ASSUME NEW a \in Peers, Establish(a)
      PROVE  SplitInv'
  <2>1. session' = [session EXCEPT ![a] = NewSession(a)] /\ UNCHANGED sealed
    BY <1>4 DEF Establish
  <2>2. /\ NewSession(a) \in [registration : Nat, current : BOOLEAN]
        /\ NewSession(a).registration = RegistrationId[a]
    BY SealedSenderAssumption DEF NewSession
  <2>3. Registered'
    BY <1>1, <2>1, <2>2 DEF Registered
  <2> QED BY <1>3, <2>1, <2>3
<1>5. ASSUME NEW a \in Peers, Archive(a)
      PROVE  SplitInv'
  <2>1. /\ session[a] # None /\ UNCHANGED sealed
        /\ session' = [session EXCEPT ![a] = [session[a] EXCEPT !.current = FALSE]]
    BY <1>5 DEF Archive
  <2>2. session[a] \in [registration : Nat, current : BOOLEAN]
    BY <1>1, <2>1
  <2> DEFINE record == [session[a] EXCEPT !.current = FALSE]
  <2>3. /\ record \in [registration : Nat, current : BOOLEAN]
        /\ record.registration = RegistrationId[a]
    BY <1>1, <2>1, <2>2
  <2> HIDE DEF record
  <2>4. session' = [session EXCEPT ![a] = record]
    BY <2>1 DEF record
  <2>5. Registered'
    BY <1>1, <2>3, <2>4 DEF Registered
  <2> QED BY <1>3, <2>1, <2>5
<1>6. ASSUME NEW a \in Peers, NEW cert \in certs, NEW type \in {"Whisper", "PreKey"},
             SealOne(a, cert, type)
      PROVE  SplitInv'
  <2>1. PICK x : x.kind = "one" /\ sealed' = sealed \cup {x} /\ session' = session
    BY <1>6 DEF SealOne, Seal
  <2> QED BY <1>1, <2>1 DEF SplitInv, Registered, SplitSound, KeysFor, Number
<1>7. ASSUME NEW dest \in Destinations, NEW cert \in certs, NEW type \in {"Whisper", "SenderKey"},
             SealMany(dest, cert, type)
      PROVE  SplitInv'
  BY <1>7, SealManySplits
<1>8. CASE Tick
  BY <1>2, <1>8 DEF Tick
<1>9. ASSUME NEW name \in Names, Reregister(name)
      PROVE  SplitInv'
  BY <1>2, <1>9 DEF Reregister
<1>10. ASSUME NEW server \in ServerCertificates, NEW by \in {"embedded", "reference"},
              NEW expires \in now .. MaxTime, Issue(server, by, expires)
       PROVE  SplitInv'
  BY <1>2, <1>10 DEF Issue
<1>11. ASSUME NEW d \in Devices, NEW s \in sealed, NEW packet \in Packets(s), Receive(d, packet)
       PROVE  SplitInv'
  <2>1. UNCHANGED <<session, sealed>>
    BY <1>11 DEF Receive
  <2> QED BY <1>2, <2>1
<1>12. CASE UNCHANGED vars
  BY <1>2, <1>12 DEF vars
<1> QED BY <1>4, <1>5, <1>6, <1>7, <1>8, <1>9, <1>10, <1>11, <1>12 DEF Next

\* sealed_sender_decrypt_to_usmc, of version 2: the keys that were made for an
\* identity open the body they were made for, if the certificate has the key the
\* sender had.
LEMMA PartForOpens ==
    ASSUME NEW s, SealedMany(s), s.key = s.usmc.sender.key, NEW ours, NEW a, s.knew[a] = ours,
           NEW recipient, recipient.cAndAt = KeysFor(s, a)
    PROVE  Unseal(ours, PartFor(s.packet, recipient)).ok
<1> DEFINE part == PartFor(s.packet, recipient)
           m == Random(Number(s))
           e == DeriveE(m)
           c == ApplyAgreementXor(e, ours, "Sending", m)
           pad == [secret |-> Agreement(e, ours), keys |-> <<e, ours>>]
<1>1. /\ part.version = 34
      /\ part.cAndAt = <<c, AuthenticationTag(s.key, ours, "Sending", e, c)>>
      /\ part.shared.e = e
      /\ part.shared.message = Encrypted(DeriveK(m), s.usmc)
  BY DEF PartFor, ReceivedVersion, KeysFor, SealedMany
<1>2. c = [m EXCEPT !.pads = {pad}]
  <2>1. m.pads = {}
    BY DEF Random
  <2>2. c = [m EXCEPT !.pads = (m.pads \ {pad}) \union ({pad} \ m.pads)]
    BY DEF ApplyAgreementXor
  <2> HIDE DEF pad, m, c
  <2>3. (m.pads \ {pad}) \union ({pad} \ m.pads) = {pad}
    BY <2>1
  <2> QED BY <2>2, <2>3
<1>3. Agreement(ours, e) = Agreement(e, ours)
  BY DEF Agreement
<1>4. ApplyAgreementXor(ours, e, "Receiving", c) = m
  <2>1. ApplyAgreementXor(ours, e, "Receiving", c)
          = [c EXCEPT !.pads = (c.pads \ {pad}) \union ({pad} \ c.pads)]
    <3> HIDE DEF c, e
    <3> QED BY <1>3 DEF ApplyAgreementXor
  <2>2. m = [number |-> Number(s), pads |-> {}]
    BY DEF Random
  <2> HIDE DEF pad, m, c
  <2>3. c = [number |-> Number(s), pads |-> {pad}]
    BY <1>2, <2>2
  <2>4. (c.pads \ {pad}) \union ({pad} \ c.pads) = {}
    BY <2>3
  <2>5. [c EXCEPT !.pads = {}] = [number |-> Number(s), pads |-> {}]
    BY <2>3
  <2> QED BY <2>1, <2>2, <2>4, <2>5
<1>5. AuthenticationTag(s.key, ours, "Sending", e, c)
        = AuthenticationTag(ours, s.usmc.sender.key, "Receiving", e, c)
  <2>1. Agreement(s.key, ours) = Agreement(ours, s.usmc.sender.key)
    BY DEF Agreement
  <2> HIDE DEF e, c
  <2> QED BY <2>1 DEF AuthenticationTag
<1>6. Unseal(ours, part) = UnsealPart(ours, part)
  <2>1. 34 \div 16 = 2
    OBVIOUS
  <2> HIDE DEF part
  <2> QED BY <1>1, <2>1 DEF Unseal
<1> HIDE DEF part, m, c, pad
<1>7. part.cAndAt[1] = c /\ part.cAndAt # <<>>
      /\ part.cAndAt[2] = AuthenticationTag(s.key, ours, "Sending", e, c)
  BY <1>1
<1>8. part.shared.message.key = DeriveK(m) /\ part.shared.message.body = s.usmc
  BY <1>1 DEF Encrypted
<1>9. UnsealPart(ours, part) = Opened(s.usmc)
  BY <1>1, <1>4, <1>5, <1>7, <1>8 DEF UnsealPart
<1> QED BY <1>6, <1>9 DEF Opened, part

\* sealed_sender_multi_recipient_encrypt and SealedSenderV2SentMessage::parse: the
\* service finds the devices the sender addressed, of each account and in the
\* sender's order, and what it cuts for an account opens for it.  A message is
\* refused only if it was sealed for an account that is excluded, or with one
\* excluded twice.
THEOREM DestinationsReached == Spec => []EveryDestinationReached
<1>1. SealedInv /\ SplitInv => EveryDestinationReached
  <2> SUFFICES ASSUME SealedInv, SplitInv, NEW s \in sealed, s.kind = "many"
               PROVE  LET parsed == ParseSent(s.packet)
                          Id(a) == ParseText(a.name)
                          Current == s.key = s.usmc.sender.key
                      IN  /\ parsed.ok <=>
                               /\ \A a \in Range(s.to) : Id(a) \notin Range(s.excluded)
                               /\ IsInjective(s.excluded)
                          /\ parsed.ok => \A a \in Range(s.to) :
                               LET recipient == parsed.recipients[Id(a)]
                                   mine == {i \in DOMAIN s.to : Id(s.to[i]) = Id(a)}
                                   To(i) == [device |-> s.to[i].device,
                                             registration |-> RegistrationId[s.to[i]]]
                               IN  /\ recipient.devices
                                        = [k \in 1 .. Cardinality(mine) |-> To(InOrder(mine)[k])]
                                   /\ Current /\ (\A i \in mine : s.knew[s.to[i]] = Key(s.to[i])) =>
                                        Unseal(Key(a), PartFor(s.packet, recipient)).ok
    BY DEF EveryDestinationReached
  <2> DEFINE sent == s.packet
             keys == [i \in 1 .. Len(s.to) |-> KeysFor(s, s.to[i])]
  <2>1. SealedMany(s)
    BY DEF SealedInv, SealingSound, SealedOne
  <2>2. /\ s.to \in Seq(Peers) /\ s.excluded \in Seq(ServiceIds)
        /\ DOMAIN s.to = 1 .. Len(s.to) /\ DOMAIN s.excluded = 1 .. Len(s.excluded)
    BY <2>1 DEF SealedMany
  <2>3. PICK n, starts, ends : Layout(sent, s.to, s.excluded, keys, n, starts, ends)
    BY DEF SplitInv, SplitSound
  <2> HIDE DEF keys
  <2>4. /\ ParseSent(sent).ok <=> CanParse(sent)
        /\ CanParse(sent) => ParseSent(sent).recipients
             = [id \in {BlockId(sent, k) : k \in 1 .. sent.count} |-> Merged(sent, id)]
    BY DEF ParseSent, Malformed
  <2>5. CanParse(sent) <=>
          /\ \A i \in 1 .. Len(s.to), j \in 1 .. Len(s.excluded) : IdOf(s.to[i]) # s.excluded[j]
          /\ \A i, j \in 1 .. Len(s.excluded) : s.excluded[i] = s.excluded[j] => i = j
    BY <2>2, <2>3, WhatIsParsed
  <2>6. ParseSent(sent).ok <=>
          /\ \A a \in Range(s.to) : ParseText(a.name) \notin Range(s.excluded)
          /\ IsInjective(s.excluded)
    <3>1. (\A a \in Range(s.to) : ParseText(a.name) \notin Range(s.excluded))
            <=> \A i \in 1 .. Len(s.to), j \in 1 .. Len(s.excluded) : IdOf(s.to[i]) # s.excluded[j]
      <4>1. /\ Range(s.to) = {s.to[i] : i \in 1 .. Len(s.to)}
            /\ Range(s.excluded) = {s.excluded[j] : j \in 1 .. Len(s.excluded)}
        BY <2>2 DEF Range
      <4> QED BY <4>1 DEF IdOf
    <3>2. IsInjective(s.excluded)
            <=> \A i, j \in 1 .. Len(s.excluded) : s.excluded[i] = s.excluded[j] => i = j
      BY <2>2 DEF IsInjective
    <3> QED BY <2>4, <2>5, <3>1, <3>2
  <2>7. ASSUME CanParse(sent), NEW a \in Range(s.to)
        PROVE  LET recipient == ParseSent(sent).recipients[ParseText(a.name)]
               IN  /\ recipient.devices = DevicesOf(s.to, IdOf(a))
                   /\ \E h \in Mine(s.to, IdOf(a)) : recipient.cAndAt = KeysFor(s, s.to[h])
    <3> DEFINE id == IdOf(a)
    <3>1. Mine(s.to, id) # {}
      BY <2>2 DEF Mine, Range
    <3> HIDE DEF id
    <3>2. /\ \E k \in 1 .. sent.count : BlockId(sent, k) = id
          /\ Merged(sent, id).devices = DevicesOf(s.to, id)
          /\ \E h \in Mine(s.to, id) : Merged(sent, id).cAndAt = keys[h]
      BY <2>2, <2>3, <2>7, <3>1, MergedOfAccount
    <3>3. ParseSent(sent).recipients[id] = Merged(sent, id)
      BY <2>4, <2>7, <3>2
    <3>4. \A h \in Mine(s.to, id) : keys[h] = KeysFor(s, s.to[h])
      BY DEF Mine, keys
    <3>5. id = ParseText(a.name)
      BY DEF id, IdOf
    <3> QED BY <3>2, <3>3, <3>4, <3>5 DEF id
  <2>8. ASSUME NEW a \in Range(s.to)
        PROVE  /\ Mine(s.to, IdOf(a)) = {i \in DOMAIN s.to : ParseText(s.to[i].name) = ParseText(a.name)}
               /\ DevicesOf(s.to, IdOf(a))
                    = [k \in 1 .. Cardinality(Mine(s.to, IdOf(a))) |->
                         [device |-> s.to[InOrder(Mine(s.to, IdOf(a)))[k]].device,
                          registration |-> RegistrationId[s.to[InOrder(Mine(s.to, IdOf(a)))[k]]]]]
    <3>1. Mine(s.to, IdOf(a)) = {i \in DOMAIN s.to : ParseText(s.to[i].name) = ParseText(a.name)}
      BY <2>2 DEF Mine, IdOf
    <3> QED BY <3>1 DEF DevicesOf, Addressed
  <2>9. ASSUME NEW a \in Range(s.to), NEW h \in Mine(s.to, IdOf(a))
        PROVE  Key(s.to[h]) = Key(a)
    <3>1. h \in 1 .. Len(s.to) /\ IdOf(s.to[h]) = IdOf(a)
      BY DEF Mine
    <3>2. IdOf(s.to[h]) # None
      <4>1. PICK k \in 1 .. n : h \in starts[k] .. ends[k]
        BY <2>3, <3>1 DEF Layout
      <4>2. IdOf(s.to[h]) = IdOf(s.to[starts[k]])
        BY <2>3, <4>1 DEF Layout
      <4>3. BlockId(sent, k) = IdOf(s.to[starts[k]]) /\ BlockId(sent, k) # None
        BY <2>3 DEF Layout
      <4> QED BY <4>2, <4>3
    <3>3. s.to[h] \in Devices /\ a \in Devices
      BY <2>2, <3>1, SealedSenderAssumption DEF Range
    <3>4. s.to[h].name = a.name
      BY <3>1, <3>2, <3>3, SealedSenderAssumption DEF IdOf
    <3> QED BY <3>4 DEF Key
  <2>10. ASSUME CanParse(sent), NEW a \in Range(s.to), s.key = s.usmc.sender.key,
                \A i \in Mine(s.to, IdOf(a)) : s.knew[s.to[i]] = Key(s.to[i])
         PROVE  Unseal(Key(a), PartFor(sent, ParseSent(sent).recipients[ParseText(a.name)])).ok
    <3> DEFINE recipient == ParseSent(sent).recipients[ParseText(a.name)]
    <3>1. PICK h \in Mine(s.to, IdOf(a)) : recipient.cAndAt = KeysFor(s, s.to[h])
      BY <2>7, <2>10
    <3>2. s.knew[s.to[h]] = Key(a)
      BY <2>9, <2>10
    <3> HIDE DEF recipient
    <3>3. Unseal(Key(a), PartFor(sent, recipient)).ok
      BY <2>1, <2>10, <3>1, <3>2, PartForOpens
    <3> QED BY <3>3 DEF recipient
  <2> HIDE DEF sent
  <2>11. ASSUME ParseSent(sent).ok, NEW a \in Range(s.to)
         PROVE  LET recipient == ParseSent(sent).recipients[ParseText(a.name)]
                    mine == {i \in DOMAIN s.to : ParseText(s.to[i].name) = ParseText(a.name)}
                IN  /\ recipient.devices
                         = [k \in 1 .. Cardinality(mine) |->
                              [device |-> s.to[InOrder(mine)[k]].device,
                               registration |-> RegistrationId[s.to[InOrder(mine)[k]]]]]
                    /\ (s.key = s.usmc.sender.key)
                         /\ (\A i \in mine : s.knew[s.to[i]] = Key(s.to[i])) =>
                         Unseal(Key(a), PartFor(sent, recipient)).ok
    <3>1. CanParse(sent)
      BY <2>4, <2>11
    <3> DEFINE mine == {i \in DOMAIN s.to : ParseText(s.to[i].name) = ParseText(a.name)}
    <3>2. Mine(s.to, IdOf(a)) = mine
      BY <2>8
    <3> HIDE DEF mine
    <3>3. DevicesOf(s.to, IdOf(a))
            = [k \in 1 .. Cardinality(mine) |->
                 [device |-> s.to[InOrder(mine)[k]].device,
                  registration |-> RegistrationId[s.to[InOrder(mine)[k]]]]]
      BY <2>8, <3>2
    <3> QED BY <2>7, <2>10, <3>1, <3>2, <3>3 DEF mine
  <2> QED BY <2>6, <2>11 DEF sent
<1> QED BY <1>1, SplitInit, SplitNext, SealedSenderSound, PTL DEF Spec

-----------------------------------------------------------------------------
(* Safety numbers: protocol/src/fingerprint.rs                             *)

FpSpec == FpInit /\ [][FpNext]_fpVars

FpTypeOK ==
    /\ fpKey \in [Parties -> KeyNumbers]
    /\ fpSeen \in [Parties -> [id : PartyIds, key : KeyNumbers]]
    /\ fpChosen \in [Parties -> [version : Versions, iterations : Iterations]]

\* Quotient and remainder are unique.
LEMMA DigitsUnique ==
    ASSUME NEW base \in Nat, NEW x \in Nat, NEW y \in Nat, NEW k \in Nat, NEW l \in Nat,
           k < base, l < base, x * base + k = y * base + l
    PROVE  x = y /\ k = l
<1>1. ASSUME NEW a \in Nat, NEW b \in Nat, NEW c \in Nat, NEW d \in Nat,
             c < base, a * base + c = b * base + d
      PROVE  ~(a > b /\ d < base)
  <2> SUFFICES ASSUME a > b, d < base PROVE FALSE
    OBVIOUS
  <2>1. PICK e \in Nat : a = b + 1 + e
    <3> WITNESS a - b - 1 \in Nat
    <3> QED OBVIOUS
  <2>2. a * base = b * base + base + e * base
    BY <2>1
  <2>3. e * base \in Nat /\ b * base \in Nat /\ a * base \in Nat
    OBVIOUS
  <2> QED BY <1>1, <2>2, <2>3
<1>2. ~(x > y)
  BY <1>1
<1>3. ~(y > x)
  BY <1>1
<1>4. x = y
  BY <1>2, <1>3
<1>5. x * base \in Nat
  OBVIOUS
<1> QED BY <1>4, <1>5

\* Fingerprint::get_fingerprint: the hash tells iterations, ids and keys apart.
LEMMA HashInjective ==
    ASSUME NEW i \in Nat, NEW j \in Nat, NEW p \in PartyIds, NEW q \in PartyIds,
           NEW k \in KeyNumbers, NEW l \in KeyNumbers, Hash(i, p, k) = Hash(j, q, l)
    PROVE  i = j /\ p = q /\ k = l
<1> DEFINE base == 2 * IdentityKeys + 1
<1>1. IdentityKeys \in Nat
  BY FingerprintAssumption
<1>2. base \in Nat /\ k \in Nat /\ l \in Nat /\ k < base /\ l < base
  BY <1>1 DEF KeyNumbers
<1>3. i * 4 + p \in Nat /\ j * 4 + q \in Nat /\ p \in 1 .. 3 /\ q \in 1 .. 3
  BY DEF PartyIds
<1>4. (i * 4 + p) * base + k = (j * 4 + q) * base + l
  BY DEF Hash
<1> HIDE DEF base
<1>5. i * 4 + p = j * 4 + q /\ k = l
  BY <1>2, <1>3, <1>4, DigitsUnique
<1> QED BY <1>3, <1>5

LEMMA HashIsNumber ==
    ASSUME NEW i \in Nat, NEW p \in PartyIds, NEW k \in KeyNumbers
    PROVE  Hash(i, p, k) \in Nat
<1> DEFINE base == 2 * IdentityKeys + 1
<1>1. base \in Nat /\ k \in Nat /\ i * 4 + p \in Nat
  BY FingerprintAssumption DEF KeyNumbers, PartyIds
<1>2. (i * 4 + p) * base \in Nat
  <2> HIDE DEF base
  <2> QED BY <1>1
<1>3. (i * 4 + p) * base + k \in Nat
  BY <1>1, <1>2
<1> QED BY <1>3 DEF Hash

LEMMA FpTypeCorrect == FpSpec => []FpTypeOK
<1>1. FpInit => FpTypeOK
  <2>1. \A p \in Parties : p \in KeyNumbers /\ Other(p) \in PartyIds /\ Other(p) \in KeyNumbers
    BY FingerprintAssumption DEF Parties, KeyNumbers, Other, PartyIds
  <2> QED BY <2>1 DEF FpInit, FpTypeOK
<1>2. FpTypeOK /\ [FpNext]_fpVars => FpTypeOK'
  <2> SUFFICES ASSUME FpTypeOK, [FpNext]_fpVars PROVE FpTypeOK'
    OBVIOUS
  <2>1. ASSUME NEW p \in Parties, Register(p)
        PROVE  FpTypeOK'
    BY <2>1 DEF Register, KeysOf, FpTypeOK
  <2>2. ASSUME NEW p \in Parties, NEW id \in PartyIds, NEW key \in KeyNumbers, Learn(p, id, key)
        PROVE  FpTypeOK'
    BY <2>2 DEF Learn, FpTypeOK
  <2>3. CASE UNCHANGED fpVars
    BY <2>3 DEF fpVars, FpTypeOK
  <2> QED BY <2>1, <2>2, <2>3 DEF FpNext
<1> QED BY <1>1, <1>2, PTL DEF FpSpec

\* Two displays are equal when they have the same two halves.
LEMMA DisplaysEqual ==
    ASSUME NEW a \in Nat, NEW b \in Nat, NEW c \in Nat, NEW d \in Nat,
           NEW f, f.local = a, f.remote = b, NEW g, g.local = c, g.remote = d
    PROVE  Display(f) = Display(g) <=> (a = c /\ b = d) \/ (a = d /\ b = c)
<1>1. Display(f) = IF a < b THEN <<a, b>> ELSE <<b, a>>
  BY DEF Display
<1>2. Display(g) = IF c < d THEN <<c, d>> ELSE <<d, c>>
  BY DEF Display
<1> QED BY <1>1, <1>2

\* fingerprint.rs: two parties are told that their safety numbers agree exactly when
\* each holds the id and the key the other has and they hash as often.
THEOREM NumbersAgree == FpSpec => []SafetyNumbers
<1>1. FpTypeOK => SafetyNumbers
  <2> SUFFICES ASSUME FpTypeOK, NEW p \in Parties, Shown(p).ok, Shown(Other(p)).ok
               PROVE  LET mine == Shown(p)
                          theirs == Shown(Other(p))
                          right == /\ SeesTheOther(1) /\ SeesTheOther(2)
                                   /\ fpChosen[1].iterations = fpChosen[2].iterations
                          OneVersion(code) == code.version = mine.version
                                              \/ (code.version = NoPart /\ mine.version = 0)
                      IN  /\ (Display(mine) = Display(theirs)) <=> right
                          /\ \A missing \in SUBSET Parts :
                               LET code == Scanned(theirs, missing)
                                   whole == OneVersion(code) /\ missing \subseteq {"version"}
                               IN  /\ Compare(mine, code).ok <=> whole
                                   /\ Compare(mine, code).same <=> whole /\ right
                                   /\ Deserializes(code) => (Compare(mine, code).ok <=> OneVersion(code))
    BY DEF SafetyNumbers
  <2> DEFINE q == Other(p)
             i == fpChosen[p].iterations
             j == fpChosen[q].iterations
             ml == Hash(i, p, fpKey[p])
             mr == Hash(i, fpSeen[p].id, fpSeen[p].key)
             tl == Hash(j, q, fpKey[q])
             tr == Hash(j, fpSeen[q].id, fpSeen[q].key)
             right == /\ SeesTheOther(1) /\ SeesTheOther(2)
                      /\ fpChosen[1].iterations = fpChosen[2].iterations
             mine == Shown(p)
             theirs == Shown(q)
             OneVersion(code) == code.version = mine.version
                                 \/ (code.version = NoPart /\ mine.version = 0)
  <2>1. q \in Parties /\ q # p /\ Other(q) = p /\ {p, q} = {1, 2} /\ p \in PartyIds /\ q \in PartyIds
    BY DEF Parties, Other, PartyIds
  <2>2. /\ i \in Nat /\ j \in Nat
        /\ fpKey[p] \in KeyNumbers /\ fpKey[q] \in KeyNumbers
        /\ fpSeen[p].id \in PartyIds /\ fpSeen[p].key \in KeyNumbers
        /\ fpSeen[q].id \in PartyIds /\ fpSeen[q].key \in KeyNumbers
    BY <2>1, FingerprintAssumption DEF FpTypeOK
  <2>3. ml \in Nat /\ mr \in Nat /\ tl \in Nat /\ tr \in Nat
    BY <2>1, <2>2, HashIsNumber
  <2>4. /\ mine.local = ml /\ mine.remote = mr /\ mine.version = fpChosen[p].version
        /\ theirs.local = tl /\ theirs.remote = tr /\ theirs.version = fpChosen[q].version
    BY DEF Shown, Fingerprint
  <2>5. fpChosen[p].version \in Nat /\ fpChosen[q].version \in Nat
    BY <2>1, FingerprintAssumption DEF FpTypeOK
  <2>6. right <=> /\ i = j
                  /\ fpSeen[p].id = q /\ fpSeen[p].key = fpKey[q]
                  /\ fpSeen[q].id = p /\ fpSeen[q].key = fpKey[p]
    <3>1. /\ SeesTheOther(p) <=> fpSeen[p].id = q /\ fpSeen[p].key = fpKey[q]
          /\ SeesTheOther(q) <=> fpSeen[q].id = p /\ fpSeen[q].key = fpKey[p]
      BY <2>1 DEF SeesTheOther, FpTypeOK
    <3>2. (p = 1 /\ q = 2) \/ (p = 2 /\ q = 1)
      BY <2>1
    <3> QED BY <3>1, <3>2
  <2>7. ml # tl
    BY <2>1, <2>2, HashInjective
  <2>8. ml = tr /\ mr = tl <=> right
    <3>1. ASSUME ml = tr, mr = tl
          PROVE  right
      BY <3>1, <2>1, <2>2, <2>6, HashInjective
    <3>2. ASSUME right
          PROVE  ml = tr /\ mr = tl
      BY <3>2, <2>6
    <3> QED BY <3>1, <3>2
  <2> HIDE DEF ml, mr, tl, tr, right, mine, theirs, i, j
  <2>9. Display(mine) = Display(theirs) <=> right
    BY <2>3, <2>4, <2>7, <2>8, DisplaysEqual
  <2>10. ASSUME NEW missing \in SUBSET Parts
         PROVE  LET code == Scanned(theirs, missing)
                    whole == OneVersion(code) /\ missing \subseteq {"version"}
                IN  /\ Compare(mine, code).ok <=> whole
                    /\ Compare(mine, code).same <=> whole /\ right
                    /\ Deserializes(code) => (Compare(mine, code).ok <=> OneVersion(code))
    <3> DEFINE code == Scanned(theirs, missing)
               whole == OneVersion(code) /\ missing \subseteq {"version"}
               version == IF code.version = NoPart THEN 0 ELSE code.version
    <3>1. /\ code.version = IF "version" \in missing THEN -1 ELSE theirs.version
          /\ code.local = IF "local" \in missing THEN -1 ELSE tl
          /\ code.remote = IF "remote" \in missing THEN -1 ELSE tr
          /\ DOMAIN code = Parts
      BY <2>4 DEF Scanned, NoPart, Parts
    <3>2. missing \subseteq {"version"} <=> "local" \notin missing /\ "remote" \notin missing
      BY DEF Parts
    <3>3. /\ code.local # -1 <=> "local" \notin missing
          /\ code.remote # -1 <=> "remote" \notin missing
          /\ code.version # -1 <=> "version" \notin missing
      BY <2>3, <2>4, <2>5, <3>1
    <3>4. OneVersion(code) <=> version = mine.version
      BY <2>4, <2>5, <3>1 DEF NoPart
    <3> HIDE DEF code
    <3>5. Compare(mine, code) =
            IF version # mine.version \/ code.local = -1 \/ code.remote = -1
            THEN NotComparable
            ELSE [ok |-> TRUE, same |-> code.local = mine.remote /\ code.remote = mine.local]
      BY DEF Compare, NoPart
    <3>6. CASE whole
      <4>1. Compare(mine, code) =
              [ok |-> TRUE, same |-> code.local = mine.remote /\ code.remote = mine.local]
        BY <3>2, <3>3, <3>4, <3>5, <3>6
      <4>2. code.local = tl /\ code.remote = tr
        BY <3>1, <3>2, <3>6
      <4> DEFINE agree == code.local = mine.remote /\ code.remote = mine.local
      <4>3. agree <=> right
        BY <4>2, <2>4, <2>8
      <4> HIDE DEF agree
      <4>4. Compare(mine, code).ok /\ (Compare(mine, code).same <=> agree)
        <5>1. Compare(mine, code) = [ok |-> TRUE, same |-> agree]
          BY <4>1, Zenon DEF agree
        <5>2. CASE agree
          <6>1. Compare(mine, code) = [ok |-> TRUE, same |-> TRUE]
            BY <5>1, <5>2
          <6> QED BY <5>2, <6>1
        <5>3. CASE ~agree
          <6>1. agree = FALSE
            BY <5>3 DEF agree
          <6>2. Compare(mine, code) = [ok |-> TRUE, same |-> FALSE]
            BY <5>1, <6>1
          <6> QED BY <5>3, <6>2
        <5> QED BY <5>2, <5>3
      <4> QED BY <3>6, <4>3, <4>4 DEF code
    <3>7. CASE ~whole
      <4>1. Compare(mine, code) = NotComparable
        BY <3>2, <3>3, <3>4, <3>5, <3>7
      <4>2. ~Compare(mine, code).ok /\ ~Compare(mine, code).same
        BY <4>1 DEF NotComparable
      <4>3. Deserializes(code) => "local" \notin missing /\ "remote" \notin missing
        BY <3>1, <3>3 DEF Deserializes, NoPart, Parts
      <4>4. Deserializes(code) => ~OneVersion(code)
        BY <4>3, <3>2, <3>7
      <4> QED BY <3>7, <4>2, <4>4 DEF code
    <3> QED BY <3>6, <3>7
  <2> QED BY <2>9, <2>10 DEF right, mine, theirs
<1> QED BY <1>1, FpTypeCorrect, PTL

StoreSpec == StoreInit /\ [][StoreNext]_storeVars

-----------------------------------------------------------------------------
(* The keys of the browser                                                 *)

Joined(s, sep, d) == s \o <<sep>> \o d
Ended(s, sep, x) == s \o <<sep, x>>

\* A text is cut at its last separator in one way.
LEMMA CutAtSeparator ==
    ASSUME NEW s \in Seq(Characters), NEW t \in Seq(Characters), NEW d \in Seq(Digits), NEW e \in Seq(Digits),
           NEW sep \in Characters, sep \notin Digits, Joined(s, sep, d) = Joined(t, sep, e)
    PROVE  s = t /\ d = e
<1> USE DEF Joined
<1>1. ASSUME NEW u \in Seq(Characters), NEW c \in Seq(Digits)
      PROVE  /\ Len(u \o <<sep>> \o c) = Len(u) + 1 + Len(c)
             /\ \A i \in 1 .. Len(u) : (u \o <<sep>> \o c)[i] = u[i]
             /\ (u \o <<sep>> \o c)[Len(u) + 1] = sep
             /\ \A i \in 1 .. Len(c) : (u \o <<sep>> \o c)[Len(u) + 1 + i] = c[i]
  <2>1. Len(u) \in Nat /\ Len(c) \in Nat
    OBVIOUS
  <2>2. <<sep>> \in Seq(Characters) /\ Len(<<sep>>) = 1 /\ <<sep>>[1] = sep /\ c \in Seq(Characters)
    <3>1. c \in Seq(Characters)
      BY DEF Characters
    <3> QED BY <3>1
  <2>3. /\ u \o <<sep>> \in Seq(Characters) /\ Len(u \o <<sep>>) = Len(u) + 1
        /\ \A i \in 1 .. Len(u) + 1 :
              (u \o <<sep>>)[i] = IF i <= Len(u) THEN u[i] ELSE <<sep>>[i - Len(u)]
    BY <2>2, ConcatProperties
  <2> DEFINE v == u \o <<sep>>
  <2> HIDE DEF v
  <2>4. v \in Seq(Characters) /\ Len(v) = Len(u) + 1
        /\ (\A i \in 1 .. Len(u) : v[i] = u[i]) /\ v[Len(u) + 1] = sep
    BY <2>1, <2>2, <2>3 DEF v
  <2>5. /\ Len(v \o c) = Len(v) + Len(c)
        /\ \A i \in 1 .. Len(v) + Len(c) : (v \o c)[i] = IF i <= Len(v) THEN v[i] ELSE c[i - Len(v)]
    <3>1. v \in Seq(Characters) /\ c \in Seq(Characters)
      BY <2>2, <2>4
    <3> HIDE DEF v
    <3> QED BY ONLY <3>1, ConcatProperties
  <2>6. \A i \in 1 .. Len(u) : (v \o c)[i] = u[i]
    BY <2>1, <2>4, <2>5
  <2>7. (v \o c)[Len(u) + 1] = sep
    BY <2>1, <2>4, <2>5
  <2>8. \A i \in 1 .. Len(c) : (v \o c)[Len(u) + 1 + i] = c[i]
    BY <2>1, <2>4, <2>5
  <2> QED BY <2>1, <2>4, <2>5, <2>6, <2>7, <2>8 DEF v
<1>2. ASSUME NEW u \in Seq(Characters), NEW c \in Seq(Digits),
             NEW w \in Seq(Characters), NEW g \in Seq(Digits),
             u \o <<sep>> \o c = w \o <<sep>> \o g, Len(u) < Len(w)
      PROVE  FALSE
  <2> DEFINE i == Len(w) - Len(u)
  <2>1. /\ Len(u) \in Nat /\ Len(c) \in Nat /\ Len(w) \in Nat /\ Len(g) \in Nat
        /\ Len(u) + 1 + Len(c) = Len(w) + 1 + Len(g)
    BY <1>1, <1>2
  <2>2. i \in 1 .. Len(c) /\ Len(u) + 1 + i = Len(w) + 1
    BY <1>2, <2>1
  <2>3. (u \o <<sep>> \o c)[Len(u) + 1 + i] = c[i] /\ c[i] \in Digits
    BY <1>1, <2>2
  <2>4. (w \o <<sep>> \o g)[Len(w) + 1] = sep
    BY <1>1
  <2> QED BY <1>2, <2>2, <2>3, <2>4
<1>3. Len(s) = Len(t) /\ Len(s) \in Nat /\ Len(d) = Len(e)
  <2>1. ~(Len(s) < Len(t)) /\ ~(Len(t) < Len(s))
    BY <1>2
  <2>2. Len(s) \in Nat /\ Len(t) \in Nat /\ Len(d) \in Nat /\ Len(e) \in Nat
    OBVIOUS
  <2>3. Len(s) + 1 + Len(d) = Len(t) + 1 + Len(e)
    BY <1>1
  <2> QED BY <2>1, <2>2, <2>3
<1>4. \A i \in 1 .. Len(s) : s[i] = t[i]
  BY <1>1, <1>3
<1>5. \A i \in 1 .. Len(d) : d[i] = e[i]
  <2>1. /\ \A i \in 1 .. Len(d) : (s \o <<sep>> \o d)[Len(s) + 1 + i] = d[i]
        /\ \A i \in 1 .. Len(e) : (t \o <<sep>> \o e)[Len(t) + 1 + i] = e[i]
    BY <1>1
  <2> QED BY <1>3, <2>1
<1> QED BY <1>3, <1>4, <1>5, SeqEqual

\* What precedes the last two characters, and the last.
LEMMA CutLastTwo ==
    ASSUME NEW s \in Seq(Characters), NEW t \in Seq(Characters), NEW sep \in Characters,
           NEW x \in Characters, NEW y \in Characters, Ended(s, sep, x) = Ended(t, sep, y)
    PROVE  s = t /\ x = y
<1> USE DEF Ended
<1>1. ASSUME NEW u \in Seq(Characters), NEW z \in Characters
      PROVE  /\ Len(u \o <<sep, z>>) = Len(u) + 2
             /\ \A i \in 1 .. Len(u) : (u \o <<sep, z>>)[i] = u[i]
             /\ (u \o <<sep, z>>)[Len(u) + 2] = z
  <2>1. <<sep, z>> \in Seq(Characters) /\ Len(<<sep, z>>) = 2 /\ <<sep, z>>[2] = z /\ Len(u) \in Nat
    OBVIOUS
  <2>2. /\ Len(u \o <<sep, z>>) = Len(u) + Len(<<sep, z>>)
        /\ \A i \in 1 .. Len(u) + Len(<<sep, z>>) :
              (u \o <<sep, z>>)[i] = IF i <= Len(u) THEN u[i] ELSE <<sep, z>>[i - Len(u)]
    BY <2>1, ConcatProperties
  <2> QED BY <2>1, <2>2
<1>2. Len(s) = Len(t) /\ Len(s) \in Nat
  <2>1. Len(s) + 2 = Len(t) + 2 /\ Len(s) \in Nat /\ Len(t) \in Nat
    BY <1>1
  <2> QED BY <2>1
<1>3. x = y /\ \A i \in 1 .. Len(s) : s[i] = t[i]
  BY <1>1, <1>2
<1> QED BY <1>2, <1>3, SeqEqual

LEMMA Numerals ==
    /\ \A n \in DeviceNumbers \cup Ids : Numeral[n] \in Seq(Digits) /\ Numeral[n] \in Seq(Characters)
    /\ \A n, m \in DeviceNumbers \cup Ids : Numeral[n] = Numeral[m] => n = m
    /\ "." \notin Digits /\ ":" \notin Digits /\ "." \in Characters /\ ":" \in Characters
<1>1. ASSUME NEW n \in DeviceNumbers \cup Ids
      PROVE  Numeral[n] \in Seq(Digits) /\ Numeral[n] \in Seq(Characters)
  <2>1. Numeral[n] \in Seq(Digits)
    BY StoreAssumption
  <2>2. Numeral[n] \in Seq(Characters)
    BY <2>1 DEF Characters
  <2> QED BY <2>1, <2>2
<1>2. \A n, m \in DeviceNumbers \cup Ids : Numeral[n] = Numeral[m] => n = m
  BY StoreAssumption
<1>3. "." \notin Digits /\ ":" \notin Digits /\ "." \in Characters /\ ":" \in Characters
  BY DEF Digits, Characters
<1> QED BY <1>1, <1>2, <1>3

\* addr_to_string: an address has a string of its own, which is not the own key.
LEMMA AddressStrings ==
    ASSUME NEW a \in Addresses
    PROVE  /\ AddrToString(a) \in Seq(Characters) /\ AddrToString(a) # OwnKey
           /\ \A b \in Addresses : AddrToString(a) = AddrToString(b) => a = b
<1>1. \A b \in Addresses : /\ b.name \in Seq(Characters) /\ b.device \in DeviceNumbers
                           /\ Numeral[b.device] \in Seq(Digits) /\ Numeral[b.device] \in Seq(Characters)
  BY StoreAssumption, Numerals DEF Addresses
<1>2. <<".">> \in Seq(Characters) /\ Len(<<".">>) = 1 /\ <<".">>[1] = "."
  BY DEF Characters
<1> DEFINE n == a.name
           d == Numeral[a.device]
<1>3. n \in Seq(Characters) /\ d \in Seq(Characters) /\ Len(n) \in Nat /\ Len(d) \in Nat
  BY <1>1
<1> HIDE DEF n, d
<1>4. /\ n \o <<".">> \in Seq(Characters) /\ Len(n \o <<".">>) = Len(n) + 1
      /\ \A i \in 1 .. Len(n) + 1 :
            (n \o <<".">>)[i] = IF i <= Len(n) THEN n[i] ELSE <<".">>[i - Len(n)]
  BY <1>2, <1>3, ConcatProperties
<1> DEFINE v == n \o <<".">>
<1>5. v \in Seq(Characters) /\ Len(v) = Len(n) + 1 /\ v[Len(n) + 1] = "."
  <2>1. Len(n) + 1 \in 1 .. Len(n) + 1 /\ ~(Len(n) + 1 <= Len(n)) /\ Len(n) + 1 - Len(n) = 1
    BY <1>3
  <2> QED BY <1>2, <1>4, <2>1
<1> HIDE DEF v
<1>6. /\ v \o d \in Seq(Characters) /\ Len(v \o d) = Len(n) + 1 + Len(d)
      /\ (v \o d)[Len(n) + 1] = "."
  <2>1. /\ v \o d \in Seq(Characters) /\ Len(v \o d) = Len(v) + Len(d)
        /\ \A i \in 1 .. Len(v) + Len(d) : (v \o d)[i] = IF i <= Len(v) THEN v[i] ELSE d[i - Len(v)]
    BY <1>3, <1>5, ConcatProperties
  <2>2. Len(n) + 1 \in 1 .. Len(v) + Len(d) /\ Len(n) + 1 <= Len(v)
    BY <1>3, <1>5
  <2> QED BY <1>5, <2>1, <2>2
<1>7. AddrToString(a) = v \o d
  BY DEF AddrToString, v, n, d
<1>8. AddrToString(a) # OwnKey
  <2>1. Len(OwnKey) = 1 /\ OwnKey[1] # "."
    BY DEF OwnKey
  <2>2. Len(v \o d) = 1 => Len(n) + 1 = 1
    BY <1>3, <1>6
  <2> QED BY <1>6, <1>7, <2>1, <2>2
<1>9. ASSUME NEW b \in Addresses, AddrToString(a) = AddrToString(b)
      PROVE  a = b
  <2>1. a.name = b.name /\ Numeral[a.device] = Numeral[b.device]
    <3> DEFINE sd == a.name
               td == b.name
               dd == Numeral[a.device]
               ed == Numeral[b.device]
    <3>1. /\ sd \in Seq(Characters) /\ td \in Seq(Characters)
          /\ dd \in Seq(Digits) /\ ed \in Seq(Digits)
      BY <1>1
    <3>2. Joined(sd, ".", dd) = Joined(td, ".", ed)
      BY <1>9 DEF Joined, AddrToString
    <3>3. "." \in Characters /\ "." \notin Digits
      BY Numerals
    <3> HIDE DEF sd, td, dd, ed
    <3>4. sd = td /\ dd = ed
      BY ONLY <3>1, <3>2, <3>3, CutAtSeparator
    <3> QED BY <3>4 DEF sd, td, dd, ed
  <2>2. a.device = b.device
    BY <1>1, <2>1, Numerals
  <2> QED BY <2>1, <2>2 DEF Addresses
<1> QED BY <1>6, <1>7, <1>8, <1>9

\* store_sender_key and markKyberPreKeyUsed: so have a sender key and a combination.
LEMMA SenderKeyStrings ==
    ASSUME NEW a \in Addresses, NEW b \in Addresses,
           NEW d \in DistributionIds, NEW e \in DistributionIds,
           SenderKeyName(a, d) = SenderKeyName(b, e)
    PROVE  a = b /\ d = e
<1>1. AddrToString(a) \in Seq(Characters) /\ AddrToString(b) \in Seq(Characters)
  BY AddressStrings
<1>2. d \in Characters /\ e \in Characters
  BY StoreAssumption DEF Characters
<1> DEFINE s == AddrToString(a)
           t == AddrToString(b)
<1>3. s \in Seq(Characters) /\ t \in Seq(Characters) /\ Ended(s, ":", d) = Ended(t, ":", e)
  BY <1>1 DEF Ended, SenderKeyName
<1>4. ":" \in Characters
  BY Numerals
<1> HIDE DEF s, t
<1>5. s = t /\ d = e
  BY ONLY <1>2, <1>3, <1>4, CutLastTwo
<1> QED BY <1>5, AddressStrings DEF s, t

LEMMA ComboStrings ==
    ASSUME NEW kyber \in Ids, NEW ec \in Ids, NEW base \in BaseKeys,
           NEW k \in Ids, NEW i \in Ids, NEW b \in BaseKeys,
           ComboKey(kyber, ec, base) = ComboKey(k, i, b)
    PROVE  kyber = k /\ ec = i /\ base = b
<1> DEFINE s == Numeral[kyber] \o <<":">> \o Numeral[ec]
           t == Numeral[k] \o <<":">> \o Numeral[i]
<1>1. s \in Seq(Characters) /\ t \in Seq(Characters)
  <2>1. \A n \in Ids : Numeral[n] \in Seq(Characters)
    BY Numerals
  <2>2. <<":">> \in Seq(Characters)
    BY Numerals
  <2>3. ASSUME NEW u \in Seq(Characters), NEW v \in Seq(Characters), NEW w \in Seq(Characters)
        PROVE  u \o v \o w \in Seq(Characters)
    <3>1. u \o v \in Seq(Characters)
      BY ConcatProperties
    <3> DEFINE uv == u \o v
    <3> HIDE DEF uv
    <3>2. uv \o w \in Seq(Characters)
      BY <3>1, ConcatProperties DEF uv
    <3> QED BY <3>2 DEF uv
  <2> QED BY <2>1, <2>2, <2>3
<1>2. base \in Characters /\ b \in Characters
  BY StoreAssumption DEF Characters
<1>3. Ended(s, ":", base) = Ended(t, ":", b)
  BY DEF Ended, ComboKey
<1> HIDE DEF s, t
<1>4. s = t /\ base = b
  <2>1. ":" \in Characters
    BY Numerals
  <2> QED BY ONLY <1>1, <1>2, <1>3, <2>1, CutLastTwo
<1>5. Numeral[kyber] = Numeral[k] /\ Numeral[ec] = Numeral[i]
  <2> DEFINE sd == Numeral[kyber]
             td == Numeral[k]
             dd == Numeral[ec]
             ed == Numeral[i]
  <2>1. /\ sd \in Seq(Characters) /\ td \in Seq(Characters)
        /\ dd \in Seq(Digits) /\ ed \in Seq(Digits)
    BY Numerals
  <2>2. Joined(sd, ":", dd) = Joined(td, ":", ed)
    BY <1>4 DEF Joined, s, t
  <2>3. ":" \in Characters /\ ":" \notin Digits
    BY Numerals
  <2> HIDE DEF sd, td, dd, ed
  <2>4. sd = td /\ dd = ed
    BY ONLY <2>1, <2>2, <2>3, CutAtSeparator
  <2> QED BY <2>4 DEF sd, td, dd, ed
<1> QED BY <1>4, <1>5, Numerals

-----------------------------------------------------------------------------
(* The two stores                                                          *)

AddressKey == [a \in Addresses |-> AddrToString(a)]
IdKey == [id \in Ids |-> Numeral[id]]
SenderKeyKey == [x \in Addresses \X DistributionIds |-> SenderKeyName(x[1], x[2])]

Apart(key) == \A x, y \in DOMAIN key : key[x] = key[y] => x = y

Mirrors(table, strings, key) == \A x \in DOMAIN key : Get(table, x) = Get(strings, key[x])

Tables == {"sessions", "identities", "prekeys", "signed", "kyber", "used", "senderKeys"}
PreKeyTables == {"prekeys", "signed", "kyber"}

StoresInv ==
    /\ DOMAIN memory = Tables /\ DOMAIN browser = Tables
    /\ Mirrors(memory.sessions, browser.sessions, AddressKey)
    /\ Mirrors(memory.identities, browser.identities, AddressKey)
    /\ OwnIdentity = "own"
    /\ \A t \in PreKeyTables :
         /\ Mirrors(memory[t], browser[t], IdKey)
         /\ \A id \in Ids : id \in DOMAIN memory[t] => memory[t][id] # Nothing
    /\ Mirrors(memory.senderKeys, browser.senderKeys, SenderKeyKey)
    /\ \A kyber \in Ids, ec \in Ids, base \in BaseKeys :
         base \in BaseKeysSeen(kyber, ec) <=> Get(browser.used, ComboKey(kyber, ec, base)) # Nothing

\* What the browser files things under: no two of a kind share a key.
LEMMA KeysApart == Apart(AddressKey) /\ Apart(IdKey) /\ Apart(SenderKeyKey)
<1>1. Apart(AddressKey)
  BY AddressStrings DEF Apart, AddressKey
<1>2. Apart(IdKey)
  BY Numerals DEF Apart, IdKey
<1>3. Apart(SenderKeyKey)
  <2> SUFFICES ASSUME NEW x \in Addresses \X DistributionIds, NEW y \in Addresses \X DistributionIds,
                      SenderKeyName(x[1], x[2]) = SenderKeyName(y[1], y[2])
               PROVE  x = y
    BY DEF Apart, SenderKeyKey
  <2>1. x[1] \in Addresses /\ y[1] \in Addresses /\ x[2] \in DistributionIds /\ y[2] \in DistributionIds
        /\ x = <<x[1], x[2]>> /\ y = <<y[1], y[2]>>
    OBVIOUS
  <2>2. x[1] = y[1] /\ x[2] = y[2]
    BY <2>1, SenderKeyStrings
  <2> QED BY <2>1, <2>2
<1> QED BY <1>1, <1>2, <1>3

\* What is stored is found again, and nothing else changes.
LEMMA PutGet ==
    ASSUME NEW table, NEW x, NEW v, NEW y
    PROVE  Get(Put(table, x, v), y) = IF y = x THEN v ELSE Get(table, y)
BY DEF Get, Put

LEMMA WithoutGet ==
    ASSUME NEW table, NEW x, NEW y
    PROVE  Get(Without(table, x), y) = IF y = x THEN Nothing ELSE Get(table, y)
BY DEF Get, Without

LEMMA PutMirrors ==
    ASSUME NEW table, NEW strings, NEW key, Apart(key), Mirrors(table, strings, key),
           NEW x \in DOMAIN key, NEW v
    PROVE  /\ Mirrors(Put(table, x, v), Put(strings, key[x], v), key)
           /\ Get(table, x) = v => Mirrors(table, Put(strings, key[x], v), key)
<1>1. ASSUME NEW y \in DOMAIN key
      PROVE  /\ Get(Put(table, x, v), y) = IF y = x THEN v ELSE Get(table, y)
             /\ Get(Put(strings, key[x], v), key[y]) = IF y = x THEN v ELSE Get(strings, key[y])
  <2>1. key[y] = key[x] <=> y = x
    BY DEF Apart
  <2> QED BY <2>1, PutGet
<1>2. \A y \in DOMAIN key : Get(table, y) = Get(strings, key[y])
  BY DEF Mirrors
<1> QED BY <1>1, <1>2 DEF Mirrors

LEMMA WithoutMirrors ==
    ASSUME NEW table, NEW strings, NEW key, Apart(key), Mirrors(table, strings, key),
           NEW x \in DOMAIN key
    PROVE  Mirrors(Without(table, x), Without(strings, key[x]), key)
<1>1. ASSUME NEW y \in DOMAIN key
      PROVE  /\ Get(Without(table, x), y) = IF y = x THEN Nothing ELSE Get(table, y)
             /\ Get(Without(strings, key[x]), key[y]) = IF y = x THEN Nothing ELSE Get(strings, key[y])
  <2>1. key[y] = key[x] <=> y = x
    BY DEF Apart
  <2> QED BY <2>1, WithoutGet
<1>2. \A y \in DOMAIN key : Get(table, y) = Get(strings, key[y])
  BY DEF Mirrors
<1> QED BY <1>1, <1>2 DEF Mirrors

LEMMA StoresInit == StoreInit => StoresInv
<1> SUFFICES ASSUME StoreInit PROVE StoresInv
  OBVIOUS
<1>1. /\ memory = [sessions |-> NoTable, identities |-> NoTable, prekeys |-> NoTable,
                   signed |-> NoTable, kyber |-> NoTable, used |-> NoTable, senderKeys |-> NoTable]
      /\ browser = [memory EXCEPT !.identities = Put(NoTable, OwnKey, "own")]
  BY DEF StoreInit
<1>2. /\ DOMAIN memory = Tables /\ DOMAIN browser = Tables
      /\ \A t \in Tables : memory[t] = NoTable
      /\ \A t \in Tables \ {"identities"} : browser[t] = NoTable
      /\ browser.identities = Put(NoTable, OwnKey, "own")
  BY <1>1 DEF Tables
<1>3. \A x : Get(NoTable, x) = Nothing
  BY DEF Get, NoTable
<1>4. Mirrors(memory.sessions, browser.sessions, AddressKey)
  BY <1>2, <1>3 DEF Mirrors, Tables
<1>5. Mirrors(memory.identities, browser.identities, AddressKey)
  <2>1. \A a \in Addresses : AddressKey[a] # OwnKey
    BY AddressStrings DEF AddressKey
  <2> QED BY <1>2, <1>3, <2>1, PutGet DEF Mirrors, AddressKey, Tables
<1>6. OwnIdentity = "own"
  BY <1>2, PutGet DEF OwnIdentity
<1>7. \A t \in PreKeyTables : /\ Mirrors(memory[t], browser[t], IdKey)
                              /\ \A id \in Ids : id \notin DOMAIN memory[t]
  <2>1. \A t \in PreKeyTables : memory[t] = NoTable /\ browser[t] = NoTable
    BY <1>2 DEF PreKeyTables, Tables
  <2> QED BY <1>3, <2>1 DEF Mirrors, NoTable
<1>8. Mirrors(memory.senderKeys, browser.senderKeys, SenderKeyKey)
  BY <1>2, <1>3 DEF Mirrors, Tables
<1>9. \A kyber \in Ids, ec \in Ids, base \in BaseKeys :
        /\ BaseKeysSeen(kyber, ec) = {}
        /\ Get(browser.used, ComboKey(kyber, ec, base)) = Nothing
  <2>1. memory.used = NoTable /\ browser.used = NoTable /\ DOMAIN NoTable = {}
    BY <1>2 DEF Tables, NoTable
  <2> QED BY <1>3, <2>1 DEF BaseKeysSeen
<1> QED BY <1>2, <1>4, <1>5, <1>6, <1>7, <1>8, <1>9 DEF StoresInv

\* A call changes one table of each store; the other tables stay as they mirror each other.
LEMMA OtherTables ==
    ASSUME StoresInv, NEW t \in Tables, NEW m, NEW b,
           memory' = [memory EXCEPT ![t] = m], browser' = [browser EXCEPT ![t] = b]
    PROVE  /\ DOMAIN memory' = Tables /\ DOMAIN browser' = Tables
           /\ memory'[t] = m /\ browser'[t] = b
           /\ \A u \in Tables \ {t} : memory'[u] = memory[u] /\ browser'[u] = browser[u]
BY DEF StoresInv

LEMMA StoreSessionKeeps ==
    ASSUME StoresInv, NEW a \in Addresses, NEW v \in Values, StoreSession(a, v)
    PROVE  StoresInv'
<1>1. /\ memory' = [memory EXCEPT !.sessions = Put(memory.sessions, a, v)]
      /\ browser' = [browser EXCEPT !.sessions = Put(browser.sessions, AddressKey[a], v)]
  BY DEF StoreSession, AddressKey
<1>2. "sessions" \in Tables
  BY DEF Tables
<1>3. /\ DOMAIN memory' = Tables /\ DOMAIN browser' = Tables
      /\ memory'.sessions = Put(memory.sessions, a, v)
      /\ browser'.sessions = Put(browser.sessions, AddressKey[a], v)
      /\ \A u \in Tables \ {"sessions"} : memory'[u] = memory[u] /\ browser'[u] = browser[u]
  BY <1>1, <1>2, OtherTables
<1>4. Mirrors(memory'.sessions, browser'.sessions, AddressKey)
  <2>1. a \in DOMAIN AddressKey /\ Apart(AddressKey)
    BY KeysApart DEF AddressKey
  <2>2. Mirrors(memory.sessions, browser.sessions, AddressKey)
    BY DEF StoresInv
  <2> QED BY <1>3, <2>1, <2>2, PutMirrors
<1> QED BY <1>3, <1>4 DEF StoresInv, Tables, PreKeyTables, OwnIdentity, BaseKeysSeen

LEMMA SaveIdentityKeeps ==
    ASSUME StoresInv, NEW a \in Addresses, NEW v \in Values, SaveIdentity(a, v)
    PROVE  StoresInv'
<1> DEFINE m == IF Get(memory.identities, a) = v THEN memory.identities
                ELSE Put(memory.identities, a, v)
<1>1. /\ memory' = [memory EXCEPT !.identities = m]
      /\ browser' = [browser EXCEPT !.identities = Put(browser.identities, AddressKey[a], v)]
  BY DEF SaveIdentity, AddressKey
<1>2. "identities" \in Tables
  BY DEF Tables
<1>3. /\ DOMAIN memory' = Tables /\ DOMAIN browser' = Tables
      /\ memory'.identities = m
      /\ browser'.identities = Put(browser.identities, AddressKey[a], v)
      /\ \A u \in Tables \ {"identities"} : memory'[u] = memory[u] /\ browser'[u] = browser[u]
  <2> HIDE DEF m
  <2> QED BY <1>1, <1>2, OtherTables
<1>4. Mirrors(memory'.identities, browser'.identities, AddressKey)
  <2>1. a \in DOMAIN AddressKey /\ Apart(AddressKey)
    BY KeysApart DEF AddressKey
  <2>2. Mirrors(memory.identities, browser.identities, AddressKey)
    BY DEF StoresInv
  <2>3. /\ Mirrors(Put(memory.identities, a, v), Put(browser.identities, AddressKey[a], v), AddressKey)
        /\ Get(memory.identities, a) = v =>
             Mirrors(memory.identities, Put(browser.identities, AddressKey[a], v), AddressKey)
    BY <2>1, <2>2, PutMirrors
  <2> QED BY <1>3, <2>3
<1>5. OwnIdentity' = "own"
  <2>1. AddressKey[a] # OwnKey
    BY AddressStrings DEF AddressKey
  <2>2. OwnIdentity = "own"
    BY DEF StoresInv
  <2> QED BY <1>3, <2>1, <2>2, PutGet DEF OwnIdentity
<1> QED BY <1>3, <1>4, <1>5 DEF StoresInv, Tables, PreKeyTables, BaseKeysSeen

LEMMA StoreSenderKeyKeeps ==
    ASSUME StoresInv, NEW a \in Addresses, NEW d \in DistributionIds, NEW v \in Values,
           StoreSenderKey(a, d, v)
    PROVE  StoresInv'
<1> DEFINE x == <<a, d>>
<1>1. x \in DOMAIN SenderKeyKey /\ SenderKeyKey[x] = SenderKeyName(a, d) /\ Apart(SenderKeyKey)
  BY KeysApart DEF SenderKeyKey
<1>2. /\ memory' = [memory EXCEPT !.senderKeys = Put(memory.senderKeys, x, v)]
      /\ browser' = [browser EXCEPT !.senderKeys = Put(browser.senderKeys, SenderKeyKey[x], v)]
  BY <1>1 DEF StoreSenderKey
<1>3. "senderKeys" \in Tables
  BY DEF Tables
<1> HIDE DEF x
<1>4. /\ DOMAIN memory' = Tables /\ DOMAIN browser' = Tables
      /\ memory'.senderKeys = Put(memory.senderKeys, x, v)
      /\ browser'.senderKeys = Put(browser.senderKeys, SenderKeyKey[x], v)
      /\ \A u \in Tables \ {"senderKeys"} : memory'[u] = memory[u] /\ browser'[u] = browser[u]
  BY <1>2, <1>3, OtherTables
<1>5. Mirrors(memory'.senderKeys, browser'.senderKeys, SenderKeyKey)
  <2>1. Mirrors(memory.senderKeys, browser.senderKeys, SenderKeyKey)
    BY DEF StoresInv
  <2> QED BY <1>1, <1>4, <2>1, PutMirrors
<1> QED BY <1>4, <1>5 DEF StoresInv, Tables, PreKeyTables, OwnIdentity, BaseKeysSeen

LEMMA SaveKeeps ==
    ASSUME StoresInv, NEW t \in PreKeyTables, NEW id \in Ids, NEW v \in Values, Save(t, id, v)
    PROVE  StoresInv'
<1>1. /\ memory' = [memory EXCEPT ![t] = Put(memory[t], id, v)]
      /\ browser' = [browser EXCEPT ![t] = Put(browser[t], IdKey[id], v)]
  BY DEF Save, IdKey
<1>2. t \in Tables /\ t \notin {"sessions", "identities", "used", "senderKeys"}
  BY DEF Tables, PreKeyTables
<1>3. /\ DOMAIN memory' = Tables /\ DOMAIN browser' = Tables
      /\ memory'[t] = Put(memory[t], id, v)
      /\ browser'[t] = Put(browser[t], IdKey[id], v)
      /\ \A u \in Tables \ {t} : memory'[u] = memory[u] /\ browser'[u] = browser[u]
  BY <1>1, <1>2, OtherTables
<1>4. \A u \in PreKeyTables :
        /\ Mirrors(memory[u], browser[u], IdKey)
        /\ \A i \in Ids : i \in DOMAIN memory[u] => memory[u][i] # Nothing
  BY DEF StoresInv
<1>5. Mirrors(memory'[t], browser'[t], IdKey)
  <2>1. id \in DOMAIN IdKey /\ Apart(IdKey)
    BY KeysApart DEF IdKey
  <2> QED BY <1>3, <1>4, <2>1, PutMirrors
<1>6. \A i \in Ids : i \in DOMAIN memory'[t] => memory'[t][i] # Nothing
  BY <1>3, <1>4, StoreAssumption DEF Put
<1>7. \A u \in PreKeyTables :
        /\ Mirrors(memory'[u], browser'[u], IdKey)
        /\ \A i \in Ids : i \in DOMAIN memory'[u] => memory'[u][i] # Nothing
  BY <1>3, <1>4, <1>5, <1>6 DEF PreKeyTables, Tables
<1>8. \A u \in {"sessions", "identities", "used", "senderKeys"} :
        memory'[u] = memory[u] /\ browser'[u] = browser[u]
  BY <1>2, <1>3 DEF Tables
<1> QED BY <1>3, <1>7, <1>8 DEF StoresInv, OwnIdentity, BaseKeysSeen

LEMMA RemovePreKeyKeeps ==
    ASSUME StoresInv, NEW id \in Ids, RemovePreKey(id)
    PROVE  StoresInv'
<1>1. /\ memory' = [memory EXCEPT !.prekeys = Without(memory.prekeys, id)]
      /\ browser' = [browser EXCEPT !.prekeys = Without(browser.prekeys, IdKey[id])]
  BY DEF RemovePreKey, IdKey
<1>2. "prekeys" \in Tables
  BY DEF Tables
<1>3. /\ DOMAIN memory' = Tables /\ DOMAIN browser' = Tables
      /\ memory'.prekeys = Without(memory.prekeys, id)
      /\ browser'.prekeys = Without(browser.prekeys, IdKey[id])
      /\ \A u \in Tables \ {"prekeys"} : memory'[u] = memory[u] /\ browser'[u] = browser[u]
  BY <1>1, <1>2, OtherTables
<1>4. /\ Mirrors(memory.prekeys, browser.prekeys, IdKey)
      /\ \A i \in Ids : i \in DOMAIN memory.prekeys => memory.prekeys[i] # Nothing
  BY DEF StoresInv, PreKeyTables
<1>5. Mirrors(memory'.prekeys, browser'.prekeys, IdKey)
  <2>1. id \in DOMAIN IdKey /\ Apart(IdKey)
    BY KeysApart DEF IdKey
  <2> QED BY <1>3, <1>4, <2>1, WithoutMirrors
<1>6. \A i \in Ids : i \in DOMAIN memory'.prekeys => memory'.prekeys[i] # Nothing
  BY <1>3, <1>4 DEF Without
<1> QED BY <1>3, <1>5, <1>6 DEF StoresInv, Tables, PreKeyTables, OwnIdentity, BaseKeysSeen

LEMMA MarkKeeps ==
    ASSUME StoresInv, NEW kyber \in Ids, NEW ec \in Ids, NEW base \in BaseKeys,
           MarkKyberPreKeyUsed(kyber, ec, base)
    PROVE  StoresInv'
<1> DEFINE seen == BaseKeysSeen(kyber, ec) \union {base}
           string == ComboKey(kyber, ec, base)
<1>1. /\ memory' = [memory EXCEPT !.used = Put(memory.used, <<kyber, ec>>, seen)]
      /\ browser' = [browser EXCEPT !.used = Put(browser.used, string, "used")]
  BY DEF MarkKyberPreKeyUsed
<1>2. "used" \in Tables
  BY DEF Tables
<1> HIDE DEF seen, string
<1>3. /\ DOMAIN memory' = Tables /\ DOMAIN browser' = Tables
      /\ memory'.used = Put(memory.used, <<kyber, ec>>, seen)
      /\ browser'.used = Put(browser.used, string, "used")
      /\ \A u \in Tables \ {"used"} : memory'[u] = memory[u] /\ browser'[u] = browser[u]
  BY <1>1, <1>2, OtherTables
<1>4. ASSUME NEW k \in Ids, NEW e \in Ids, NEW b \in BaseKeys
      PROVE  b \in BaseKeysSeen(k, e)' <=> Get(browser'.used, ComboKey(k, e, b)) # Nothing
  <2>1. b \in BaseKeysSeen(k, e) <=> Get(browser.used, ComboKey(k, e, b)) # Nothing
    BY DEF StoresInv
  <2>2. BaseKeysSeen(k, e)' = IF <<k, e>> = <<kyber, ec>> THEN seen ELSE BaseKeysSeen(k, e)
    BY <1>3 DEF BaseKeysSeen, Put
  <2>3. Get(browser'.used, ComboKey(k, e, b)) =
          IF ComboKey(k, e, b) = string THEN "used" ELSE Get(browser.used, ComboKey(k, e, b))
    BY <1>3, PutGet
  <2>4. ComboKey(k, e, b) = string <=> k = kyber /\ e = ec /\ b = base
    BY ComboStrings DEF string
  <2>5. "used" # Nothing
    BY DEF Nothing
  <2>6. CASE k = kyber /\ e = ec
    <3>1. b \in BaseKeysSeen(k, e)' <=> b \in BaseKeysSeen(k, e) \/ b = base
      BY <2>2, <2>6 DEF seen
    <3> QED BY <2>1, <2>3, <2>4, <2>5, <2>6, <3>1
  <2>7. CASE ~(k = kyber /\ e = ec)
    <3>1. BaseKeysSeen(k, e)' = BaseKeysSeen(k, e)
      BY <2>2, <2>7
    <3> QED BY <2>1, <2>3, <2>4, <2>7, <3>1
  <2> QED BY <2>6, <2>7
<1> QED BY <1>3, <1>4 DEF StoresInv, Tables, PreKeyTables, OwnIdentity

LEMMA StoresNext == StoresInv /\ [StoreNext]_storeVars => StoresInv'
<1> SUFFICES ASSUME StoresInv, [StoreNext]_storeVars PROVE StoresInv'
  OBVIOUS
<1>1. ASSUME NEW a \in Addresses, NEW v \in Values, StoreSession(a, v) PROVE StoresInv'
  BY <1>1, StoreSessionKeeps
<1>2. ASSUME NEW a \in Addresses, NEW v \in Values, SaveIdentity(a, v) PROVE StoresInv'
  BY <1>2, SaveIdentityKeeps
<1>3. ASSUME NEW a \in Addresses, NEW v \in Values, NEW d \in DistributionIds, StoreSenderKey(a, d, v)
      PROVE  StoresInv'
  BY <1>3, StoreSenderKeyKeeps
<1>4. ASSUME NEW id \in Ids, NEW v \in Values, SavePreKey(id, v) PROVE StoresInv'
  BY <1>4, SaveKeeps DEF SavePreKey, PreKeyTables
<1>5. ASSUME NEW id \in Ids, NEW v \in Values, SaveSignedPreKey(id, v) PROVE StoresInv'
  BY <1>5, SaveKeeps DEF SaveSignedPreKey, PreKeyTables
<1>6. ASSUME NEW id \in Ids, NEW v \in Values, SaveKyberPreKey(id, v) PROVE StoresInv'
  BY <1>6, SaveKeeps DEF SaveKyberPreKey, PreKeyTables
<1>7. ASSUME NEW id \in Ids, RemovePreKey(id) PROVE StoresInv'
  BY <1>7, RemovePreKeyKeeps
<1>8. ASSUME NEW kyber \in Ids, NEW ec \in Ids, NEW base \in BaseKeys,
             MarkKyberPreKeyUsed(kyber, ec, base)
      PROVE  StoresInv'
  BY <1>8, MarkKeeps
<1>9. CASE UNCHANGED storeVars
  <2>1. memory' = memory /\ browser' = browser
    BY <1>9 DEF storeVars
  <2> QED BY <2>1 DEF StoresInv, OwnIdentity, BaseKeysSeen
<1> QED BY <1>1, <1>2, <1>3, <1>4, <1>5, <1>6, <1>7, <1>8, <1>9 DEF StoreNext

LEMMA InvAgrees == StoresInv => StoresAgree
<1> SUFFICES ASSUME StoresInv PROVE StoresAgree
  OBVIOUS
<1>1. ASSUME NEW a \in Addresses
      PROVE  LoadInMemory(a) = LoadInBrowser(a) /\ GetIdentityInMemory(a) = GetIdentityInBrowser(a)
  BY DEF StoresInv, Mirrors, AddressKey, LoadInMemory, LoadInBrowser, GetIdentityInMemory,
         GetIdentityInBrowser
<1>2. ASSUME NEW a \in Addresses, NEW b \in Addresses
      PROVE  LET both == <<LoadInBrowser(a), LoadInBrowser(b)>>
             IN  LoadExisting(<<a, b>>) = IF Nothing \in {both[1], both[2]} THEN NoAnswer ELSE both
  <2> DEFINE two == <<a, b>>
             both == <<LoadInBrowser(a), LoadInBrowser(b)>>
  <2>1. LoadInMemory(a) = both[1] /\ LoadInMemory(b) = both[2]
    BY <1>1
  <2>2. DOMAIN two = {1, 2} /\ two[1] = a /\ two[2] = b
    OBVIOUS
  <2>3. [i \in DOMAIN two |-> LoadInMemory(two[i])] = both
    <3>1. DOMAIN both = {1, 2}
      OBVIOUS
    <3> QED BY <2>1, <2>2, <3>1
  <2>4. (\E i \in DOMAIN two : LoadInMemory(two[i]) = Nothing) <=> Nothing \in {both[1], both[2]}
    BY <2>1, <2>2
  <2> QED BY <2>3, <2>4 DEF LoadExisting
<1>3. ASSUME NEW a \in Addresses, NEW v \in Values
      PROVE  /\ SaveIdentityInMemory(a, v) = SaveIdentityInBrowser(a, v)
             /\ TrustedInMemory(a, v, "Sending") = TrustedInBrowser(a, v, "Sending")
             /\ TrustedInBrowser(a, v, "Receiving")
  <2>1. Get(memory.identities, a) = Get(browser.identities, AddrToString(a))
    BY <1>1 DEF GetIdentityInMemory, GetIdentityInBrowser
  <2> QED BY <2>1 DEF SaveIdentityInMemory, SaveIdentityInBrowser, TrustedInMemory, TrustedInBrowser
<1>4. ASSUME NEW a \in Addresses, NEW d \in DistributionIds
      PROVE  LoadSenderKeyInMemory(a, d) = LoadSenderKeyInBrowser(a, d)
  <2>1. <<a, d>> \in DOMAIN SenderKeyKey /\ SenderKeyKey[<<a, d>>] = SenderKeyName(a, d)
    BY DEF SenderKeyKey
  <2> QED BY <2>1 DEF StoresInv, Mirrors, LoadSenderKeyInMemory, LoadSenderKeyInBrowser
<1>5. ASSUME NEW table \in PreKeyTables, NEW id \in Ids
      PROVE  /\ GetPreKeyInMemory(table, id) = GetPreKeyInBrowser(table, id)
             /\ id \in AllPreKeyIds(table) <=> GetPreKeyInBrowser(table, id) # Nothing
  <2>1. Get(memory[table], id) = Get(browser[table], Numeral[id])
    BY DEF StoresInv, Mirrors, IdKey
  <2>2. id \in DOMAIN memory[table] <=> Get(memory[table], id) # Nothing
    BY DEF StoresInv, Get
  <2> QED BY <2>1, <2>2 DEF GetPreKeyInMemory, GetPreKeyInBrowser, AllPreKeyIds
<1>6. ASSUME NEW kyber \in Ids, NEW ec \in Ids, NEW base \in BaseKeys
      PROVE  MarkRefusedInMemory(kyber, ec, base) = MarkRefusedInBrowser(kyber, ec, base)
  BY DEF StoresInv, MarkRefusedInMemory, MarkRefusedInBrowser
<1>7. OwnIdentity = "own"
  BY DEF StoresInv
<1> QED BY <1>1, <1>2, <1>3, <1>4, <1>5, <1>6, <1>7 DEF StoresAgree, PreKeyTables

\* traits.rs: after the same calls, the store of the browser answers as the one in memory.
THEOREM BrowserAgrees == StoreSpec => []StoresAgree
<1>1. StoreInit => StoresInv
  BY StoresInit
<1>2. StoresInv /\ [StoreNext]_storeVars => StoresInv'
  BY StoresNext
<1>3. StoresInv => StoresAgree
  BY InvAgrees
<1> QED BY <1>1, <1>2, <1>3, PTL DEF StoreSpec

-----------------------------------------------------------------------------
(* The chunk size of an incremental MAC: calculate_chunk_size in           *)
(* protocol/src/incremental_mac.rs, for files of every size and digests of *)
(* every length up to the size they may have together.                     *)

(* div_ceil: the least multiple of the divisor that reaches the dividend.  *)
LEMMA CeilDivBounds ==
  ASSUME NEW a \in Nat, NEW b \in Nat \ {0}
  PROVE  /\ CeilDiv(a, b) \in Nat
         /\ a <= b * CeilDiv(a, b)
         /\ b * CeilDiv(a, b) < a + b
<1> DEFINE q == (a + b - 1) \div b
           r == (a + b - 1) % b
<1>1. /\ q \in Int /\ r \in 0 .. b - 1
      /\ a + b - 1 = b * q + r
  BY SMTT(30)
<1>2. q \in Nat
  <2>1. a + b - 1 \in Nat
    OBVIOUS
  <2>. QED BY <2>1, SMTT(30)
<1>3. CeilDiv(a, b) = q
  BY DEF CeilDiv
<1>. QED
  <2>. HIDE DEF q, r
  <2>1. b * q \in Int
    BY <1>2
  <2>. QED BY <1>1, <1>2, <1>3, <2>1

(* As many chunks as there may be digests.                                 *)
LEMMA CountPositive ==
  ASSUME NEW digestSize \in 1 .. TargetTotalDigestSize
  PROVE  TargetTotalDigestSize \div digestSize \in Nat \ {0}
BY SMTT(30) DEF TargetTotalDigestSize

(* What is at most a multiple of n, and more than the multiple before.     *)
LEMMA FactorsCompare ==
  ASSUME NEW n \in Nat \ {0}, NEW x \in Nat, NEW y \in Nat, n * x < n * y + n
  PROVE  x <= y
<1>1. n * y + n = n * (y + 1)
  OBVIOUS
<1>2. x >= y + 1 => n * x >= n * (y + 1)
  <2>. SUFFICES ASSUME x >= y + 1 PROVE n * x >= n * (y + 1)
    OBVIOUS
  <2>1. PICK d \in Nat : x = y + 1 + d
    <3>. WITNESS x - (y + 1) \in Nat
    <3>. QED OBVIOUS
  <2>2. n * x = n * (y + 1) + n * d
    BY <2>1
  <2>3. n * d \in Nat
    OBVIOUS
  <2>. QED BY <2>2, <2>3
<1>3. n * x \in Nat /\ n * (y + 1) \in Nat
  OBVIOUS
<1>. QED BY <1>1, <1>2, <1>3

(* calculate_chunk_size: a chunk has at least 64 KiB and at most 2 MiB,    *)
(* and unless the file is too long for chunks of 2 MiB, its digests fit    *)
(* in TargetTotalDigestSize together.                                      *)
THEOREM ChunkSizeBounds ==
  ASSUME NEW dataSize \in Nat, NEW digestSize \in 1 .. TargetTotalDigestSize
  PROVE  LET count == TargetTotalDigestSize \div digestSize
             chunk == ChunkSize(dataSize, digestSize)
         IN  /\ chunk \in MinimumChunkSize .. MaximumChunkSize
             /\ dataSize <= count * MaximumChunkSize => dataSize <= count * chunk
<1> DEFINE count == TargetTotalDigestSize \div digestSize
           chunk == ChunkSize(dataSize, digestSize)
<1>1. count \in Nat \ {0}
  BY CountPositive
<1>2. MinimumChunkSize \in Nat /\ MaximumChunkSize \in Nat /\ MinimumChunkSize <= MaximumChunkSize
  BY DEF MinimumChunkSize, MaximumChunkSize
<1>. HIDE DEF count
<1>3. count * MinimumChunkSize \in Nat /\ count * MaximumChunkSize \in Nat
  BY <1>1, <1>2
<1>4. CASE dataSize < count * MinimumChunkSize
  <2>1. chunk = MinimumChunkSize
    BY <1>3, <1>4 DEF ChunkSize, count
  <2>. QED BY <1>2, <1>3, <1>4, <2>1 DEF count
<1>5. CASE dataSize >= count * MinimumChunkSize /\ dataSize < count * MaximumChunkSize
  <2>1. chunk = CeilDiv(dataSize, count)
    BY <1>3, <1>5 DEF ChunkSize, count
  <2>2. /\ chunk \in Nat
        /\ dataSize <= count * chunk
        /\ count * chunk < dataSize + count
    BY <1>1, <2>1, CeilDivBounds
  <2>. HIDE DEF chunk
  <2>3. count * chunk \in Nat
    BY <1>1, <2>2
  <2>4. chunk <= MaximumChunkSize
    <3>1. count * chunk < count * MaximumChunkSize + count
      BY <1>1, <1>3, <1>5, <2>2, <2>3
    <3>. QED BY <1>1, <1>2, <2>2, <3>1, FactorsCompare
  <2>5. MinimumChunkSize <= chunk
    <3>1. count * MinimumChunkSize < count * chunk + count
      BY <1>1, <1>3, <1>5, <2>2, <2>3
    <3>. QED BY <1>1, <1>2, <2>2, <3>1, FactorsCompare
  <2>. QED BY <1>2, <2>2, <2>4, <2>5 DEF count, chunk
<1>6. CASE dataSize >= count * MinimumChunkSize /\ dataSize >= count * MaximumChunkSize
  <2>1. chunk = MaximumChunkSize
    BY <1>3, <1>6 DEF ChunkSize, count
  <2>. QED BY <1>2, <1>3, <1>6, <2>1 DEF count
<1>. QED BY <1>3, <1>4, <1>5, <1>6 DEF count
-----------------------------------------------------------------------------
(* The folds of the incremental MAC, step by step                          *)

\* h goes through the sets of positions from the last position back.
StepsBack(h, T, base, n, step) ==
    /\ h \in [SUBSET (1 .. n) -> T]
    /\ \A s \in SUBSET (1 .. n) :
         h[s] = IF s = {} THEN base ELSE step[Max(s)][h[s \ {Max(s)}]]

\* MapThenFoldSet over positions, the last one chosen first: what it recurs on exists.
LEMMA StepsOverSets ==
    ASSUME NEW T, NEW base \in T, NEW n \in Nat, NEW step \in [1 .. n -> [T -> T]]
    PROVE  \E h : StepsBack(h, T, base, n, step)
<1> DEFINE Rule(h, s) == h[s] = IF s = {} THEN base ELSE step[Max(s)][h[s \ {Max(s)}]]
           Good(k) == \E h \in [SUBSET (1 .. k) -> T] : \A s \in SUBSET (1 .. k) : Rule(h, s)
           D == {k \in Nat : k <= n => Good(k)}
<1>1. 0 \in D
  <2> DEFINE h == [s \in SUBSET (1 .. 0) |-> base]
  <2>1. 1 .. 0 = {}
    OBVIOUS
  <2>2. h \in [SUBSET (1 .. 0) -> T] /\ \A s \in SUBSET (1 .. 0) : s = {} /\ h[s] = base
    BY <2>1
  <2> HIDE DEF h
  <2>3. Good(0)
    BY <2>2
  <2> QED BY <2>3
<1>2. ASSUME NEW k \in Nat, k \in D
      PROVE  k + 1 \in D
  <2> SUFFICES ASSUME k + 1 <= n PROVE Good(k + 1)
    <3> HIDE DEF Good
    <3> QED OBVIOUS
  <2>0. Good(k)
    <3> HIDE DEF Good
    <3> QED BY <1>2
  <2>1. PICK h \in [SUBSET (1 .. k) -> T] : \A s \in SUBSET (1 .. k) : Rule(h, s)
    <3> HIDE DEF Rule
    <3> QED BY <2>0
  <2> DEFINE g == [s \in SUBSET (1 .. k + 1) |->
                     IF k + 1 \in s THEN step[k + 1][h[s \ {k + 1}]] ELSE h[s]]
  <2>2. \A s \in SUBSET (1 .. k + 1) : s \ {k + 1} \in SUBSET (1 .. k)
    OBVIOUS
  <2>3. \A s \in SUBSET (1 .. k + 1) : k + 1 \notin s => s \in SUBSET (1 .. k)
    BY <2>2
  <2>4. g \in [SUBSET (1 .. k + 1) -> T]
    BY <2>2, <2>3
  <2>5. ASSUME NEW s \in SUBSET (1 .. k + 1)
        PROVE  Rule(g, s)
    <3>1. CASE k + 1 \in s
      <4>1. \A y \in s : k + 1 >= y /\ (y >= k + 1 => y = k + 1)
        OBVIOUS
      <4>2. Max(s) = k + 1
        BY <3>1, <4>1 DEF Max
      <4>3. s \ {k + 1} \in SUBSET (1 .. k + 1) /\ k + 1 \notin s \ {k + 1}
        OBVIOUS
      <4>4. g[s] = step[k + 1][h[s \ {k + 1}]] /\ g[s \ {k + 1}] = h[s \ {k + 1}]
        BY <3>1, <4>3
      <4> HIDE DEF g
      <4> QED BY <3>1, <4>2, <4>4
    <3>2. CASE k + 1 \notin s
      <4>1. s \in SUBSET (1 .. k)
        BY <2>3, <3>2
      <4>2. s \ {Max(s)} \in SUBSET (1 .. k + 1) /\ k + 1 \notin s \ {Max(s)}
        BY <3>2
      <4>3. g[s] = h[s] /\ g[s \ {Max(s)}] = h[s \ {Max(s)}]
        BY <3>2, <4>2
      <4>4. Rule(h, s)
        BY <2>1, <4>1
      <4> HIDE DEF g
      <4> QED BY <4>3, <4>4
    <3> QED BY <3>1, <3>2
  <2> HIDE DEF g, Rule
  <2> QED BY <2>4, <2>5
<1>3. n \in D
  <2> HIDE DEF D
  <2> QED BY <1>1, <1>2, SetInduction
<1> QED
  <2>1. Good(n)
    <3> HIDE DEF Good
    <3> QED BY <1>3
  <2> QED BY <2>1 DEF StepsBack

LEMMA MaxInSet ==
    ASSUME NEW n \in Nat, NEW s \in SUBSET (1 .. n), s # {}
    PROVE  Max(s) \in s /\ \A y \in s : Max(s) >= y
<1> DEFINE below == {n - y : y \in s}
<1>1. below \in SUBSET Nat /\ below # {}
  <2>1. \A y \in s : n - y \in Nat /\ n - y \in below
    OBVIOUS
  <2>2. below \subseteq Nat
    BY <2>1
  <2> HIDE DEF below
  <2> QED BY <2>1, <2>2
<1>2. PICK m \in below : \A y \in below : m <= y
  <2> HIDE DEF below
  <2> QED BY <1>1, MinInSet
<1>3. PICK x \in s : m = n - x
  BY <1>2
<1>4. \A y \in s : x >= y
  <2> SUFFICES ASSUME NEW y \in s PROVE x >= y
    OBVIOUS
  <2>1. n - y \in below
    OBVIOUS
  <2>2. m <= n - y
    BY <1>2, <2>1
  <2> QED BY <1>3, <2>2
<1> QED BY <1>4 DEF Max

\* FoldLeft takes the sets of the first positions one after the other.
LEMMA FirstPositions ==
    ASSUME NEW k \in Nat
    PROVE  /\ 1 .. 0 = {} /\ 1 .. k + 1 # {}
           /\ Max(1 .. k + 1) = k + 1 /\ (1 .. k + 1) \ {k + 1} = 1 .. k
<1>1. k + 1 \in 1 .. k + 1 /\ \A y \in 1 .. k + 1 : k + 1 >= y /\ (y >= k + 1 => y = k + 1)
  OBVIOUS
<1>2. Max(1 .. k + 1) = k + 1
  BY <1>1 DEF Max
<1>3. 1 .. 0 = {} /\ (1 .. k + 1) \ {k + 1} = 1 .. k
  OBVIOUS
<1> QED BY <1>1, <1>2, <1>3

\* Going back from all positions passes through the first k of them for every k.
LEMMA StepsForward ==
    ASSUME NEW T, NEW base \in T, NEW n \in Nat, NEW step \in [1 .. n -> [T -> T]], NEW h,
           h[1 .. 0] = base,
           \A k \in 0 .. n - 1 : h[1 .. k] \in T => h[1 .. k + 1] = step[k + 1][h[1 .. k]]
    PROVE  \E f \in [0 .. n -> T] :
              /\ f[0] = base
              /\ \A i \in 1 .. n : f[i] = step[i][f[i - 1]]
              /\ h[1 .. n] = f[n]
<1> DEFINE D == {k \in Nat : k \in 0 .. n => h[1 .. k] \in T}
           f == [k \in 0 .. n |-> h[1 .. k]]
<1>1. \A k \in 0 .. n : h[1 .. k] \in T
  <2>1. 0 \in D
    OBVIOUS
  <2>2. ASSUME NEW k \in Nat, k \in D
        PROVE  k + 1 \in D
    <3> SUFFICES ASSUME k + 1 \in 0 .. n PROVE h[1 .. k + 1] \in T
      OBVIOUS
    <3>1. h[1 .. k] \in T /\ k \in 0 .. n - 1 /\ k + 1 \in 1 .. n
      BY <2>2
    <3> QED BY <3>1
  <2>3. \A k \in Nat : k \in D
    <3> HIDE DEF D
    <3> QED BY <2>1, <2>2, SetInduction
  <2> QED BY <2>3
<1>2. f \in [0 .. n -> T] /\ f[0] = base /\ f[n] = h[1 .. n]
  BY <1>1
<1>3. ASSUME NEW i \in 1 .. n
      PROVE  f[i] = step[i][f[i - 1]]
  <2>1. i - 1 \in 0 .. n - 1 /\ (i - 1) + 1 = i /\ i \in 0 .. n /\ i - 1 \in 0 .. n
    OBVIOUS
  <2>2. h[1 .. i - 1] \in T /\ h[1 .. (i - 1) + 1] = step[(i - 1) + 1][h[1 .. i - 1]]
    BY <1>1, <2>1
  <2>3. f[i] = h[1 .. i] /\ f[i - 1] = h[1 .. i - 1]
    BY <2>1
  <2> HIDE DEF f
  <2> QED BY <2>1, <2>2, <2>3
<1> HIDE DEF f
<1> QED BY <1>2, <1>3

UpdateAll(base, pieces) == FoldLeft(UpdateChunk, base, pieces)

UpdateRun(f, T, base, pieces, n) ==
    /\ f \in [0 .. n -> T] /\ f[0] = base
    /\ \A i \in 1 .. n : f[i] = UpdateChunk(f[i - 1], pieces[i])
    /\ UpdateAll(base, pieces) = f[n]

\* Update: update_chunk on one piece after the other.
LEMMA UpdateFold ==
    ASSUME NEW T, NEW base \in T, NEW pieces, NEW n \in Nat, DOMAIN pieces = 1 .. n,
           \A x \in T : \A i \in 1 .. n : UpdateChunk(x, pieces[i]) \in T
    PROVE  \E f : UpdateRun(f, T, base, pieces, n)
<1> DEFINE S == SUBSET (1 .. n)
           step == [i \in 1 .. n |-> [x \in T |-> UpdateChunk(x, pieces[i])]]
           Equation(h) == h = [s \in S |-> IF s = {} THEN base
                                           ELSE UpdateChunk(h[s \ {Max(s)}], pieces[Max(s)])]
           iter == CHOOSE h : Equation(h)
<1>1. step \in [1 .. n -> [T -> T]]
  OBVIOUS
<1>2. \A x \in T : \A i \in 1 .. n : step[i][x] = UpdateChunk(x, pieces[i])
  OBVIOUS
<1>3. PICK h : StepsBack(h, T, base, n, step)
  <2> HIDE DEF step
  <2> QED BY <1>1, StepsOverSets
<1>4. Equation(h)
  <2>1. \A s \in S : s # {} => Max(s) \in 1 .. n /\ s \ {Max(s)} \in S
    BY MaxInSet
  <2>2. \A s \in S : h[s] = IF s = {} THEN base ELSE UpdateChunk(h[s \ {Max(s)}], pieces[Max(s)])
    <3> HIDE DEF step
    <3> QED BY <1>2, <1>3, <2>1 DEF StepsBack
  <2> QED BY <1>3, <2>2 DEF StepsBack
<1>5. Equation(iter)
  <2> HIDE DEF Equation
  <2> QED BY <1>4
<1>6. UpdateAll(base, pieces) = iter[1 .. n]
  BY DEF UpdateAll, FoldLeft, MapThenFoldSet
<1> HIDE DEF iter
<1>7. \A s \in S : iter[s] = IF s = {} THEN base ELSE UpdateChunk(iter[s \ {Max(s)}], pieces[Max(s)])
  BY <1>5
<1>8. iter[1 .. 0] = base
  BY <1>7, FirstPositions
<1>9. ASSUME NEW k \in 0 .. n - 1, iter[1 .. k] \in T
      PROVE  iter[1 .. k + 1] = step[k + 1][iter[1 .. k]]
  <2>1. k \in Nat /\ k + 1 \in 1 .. n /\ 1 .. k + 1 \in S
    OBVIOUS
  <2>2. iter[1 .. k + 1] = IF 1 .. k + 1 = {} THEN base
                            ELSE UpdateChunk(iter[(1 .. k + 1) \ {Max(1 .. k + 1)}], pieces[Max(1 .. k + 1)])
    <3> HIDE DEF S
    <3> QED BY <1>7, <2>1
  <2>3. /\ 1 .. k + 1 # {} /\ Max(1 .. k + 1) = k + 1
        /\ (1 .. k + 1) \ {k + 1} = 1 .. k
    BY <2>1, FirstPositions
  <2>4. iter[1 .. k + 1] = UpdateChunk(iter[1 .. k], pieces[k + 1])
    BY <2>2, <2>3
  <2> HIDE DEF step
  <2> QED BY <1>2, <1>9, <2>1, <2>4
<1>10. \E f \in [0 .. n -> T] :
         /\ f[0] = base
         /\ \A i \in 1 .. n : f[i] = step[i][f[i - 1]]
         /\ iter[1 .. n] = f[n]
  <2> HIDE DEF step
  <2> QED BY <1>1, <1>8, <1>9, StepsForward
<1>11. PICK f \in [0 .. n -> T] :
         /\ f[0] = base
         /\ \A i \in 1 .. n : f[i] = step[i][f[i - 1]]
         /\ iter[1 .. n] = f[n]
  <2> HIDE DEF step
  <2> QED BY <1>10
<1>12. \A i \in 1 .. n : f[i] = UpdateChunk(f[i - 1], pieces[i])
  <2>1. \A i \in 1 .. n : i - 1 \in 0 .. n /\ f[i - 1] \in T
    OBVIOUS
  <2> HIDE DEF step
  <2> QED BY <1>2, <1>11, <2>1
<1> QED BY <1>6, <1>11, <1>12 DEF UpdateRun

MatchAll(base, macs) == FoldLeft(Match, base, macs)

MatchRun(f, T, base, macs, n) ==
    /\ f \in [0 .. n -> T] /\ f[0] = base
    /\ \A i \in 1 .. n : f[i] = Match(f[i - 1], macs[i])
    /\ MatchAll(base, macs) = f[n]

\* Validating::update: the MACs of the full chunks one after the other.
LEMMA MatchFold ==
    ASSUME NEW T, NEW base \in T, NEW macs, NEW n \in Nat, DOMAIN macs = 1 .. n,
           \A x \in T : \A i \in 1 .. n : Match(x, macs[i]) \in T
    PROVE  \E f : MatchRun(f, T, base, macs, n)
<1> DEFINE S == SUBSET (1 .. n)
           step == [i \in 1 .. n |-> [x \in T |-> Match(x, macs[i])]]
           Equation(h) == h = [s \in S |-> IF s = {} THEN base
                                           ELSE Match(h[s \ {Max(s)}], macs[Max(s)])]
           iter == CHOOSE h : Equation(h)
<1>1. step \in [1 .. n -> [T -> T]]
  OBVIOUS
<1>2. \A x \in T : \A i \in 1 .. n : step[i][x] = Match(x, macs[i])
  OBVIOUS
<1>3. PICK h : StepsBack(h, T, base, n, step)
  <2> HIDE DEF step
  <2> QED BY <1>1, StepsOverSets
<1>4. Equation(h)
  <2>1. \A s \in S : s # {} => Max(s) \in 1 .. n /\ s \ {Max(s)} \in S
    BY MaxInSet
  <2>2. \A s \in S : h[s] = IF s = {} THEN base ELSE Match(h[s \ {Max(s)}], macs[Max(s)])
    <3> HIDE DEF step
    <3> QED BY <1>2, <1>3, <2>1 DEF StepsBack
  <2> QED BY <1>3, <2>2 DEF StepsBack
<1>5. Equation(iter)
  <2> HIDE DEF Equation
  <2> QED BY <1>4
<1>6. MatchAll(base, macs) = iter[1 .. n]
  BY DEF MatchAll, FoldLeft, MapThenFoldSet
<1> HIDE DEF iter
<1>7. \A s \in S : iter[s] = IF s = {} THEN base ELSE Match(iter[s \ {Max(s)}], macs[Max(s)])
  BY <1>5
<1>8. iter[1 .. 0] = base
  BY <1>7, FirstPositions
<1>9. ASSUME NEW k \in 0 .. n - 1, iter[1 .. k] \in T
      PROVE  iter[1 .. k + 1] = step[k + 1][iter[1 .. k]]
  <2>1. k \in Nat /\ k + 1 \in 1 .. n /\ 1 .. k + 1 \in S
    OBVIOUS
  <2>2. iter[1 .. k + 1] = IF 1 .. k + 1 = {} THEN base
                            ELSE Match(iter[(1 .. k + 1) \ {Max(1 .. k + 1)}], macs[Max(1 .. k + 1)])
    <3> HIDE DEF S
    <3> QED BY <1>7, <2>1
  <2>3. /\ 1 .. k + 1 # {} /\ Max(1 .. k + 1) = k + 1
        /\ (1 .. k + 1) \ {k + 1} = 1 .. k
    BY <2>1, FirstPositions
  <2>4. iter[1 .. k + 1] = Match(iter[1 .. k], macs[k + 1])
    BY <2>2, <2>3
  <2> HIDE DEF step
  <2> QED BY <1>2, <1>9, <2>1, <2>4
<1>10. \E f \in [0 .. n -> T] :
         /\ f[0] = base
         /\ \A i \in 1 .. n : f[i] = step[i][f[i - 1]]
         /\ iter[1 .. n] = f[n]
  <2> HIDE DEF step
  <2> QED BY <1>1, <1>8, <1>9, StepsForward
<1>11. PICK f \in [0 .. n -> T] :
         /\ f[0] = base
         /\ \A i \in 1 .. n : f[i] = step[i][f[i - 1]]
         /\ iter[1 .. n] = f[n]
  <2> HIDE DEF step
  <2> QED BY <1>10
<1>12. \A i \in 1 .. n : f[i] = Match(f[i - 1], macs[i])
  <2>1. \A i \in 1 .. n : i - 1 \in 0 .. n /\ f[i - 1] \in T
    OBVIOUS
  <2> HIDE DEF step
  <2> QED BY <1>2, <1>11, <2>1
<1> QED BY <1>6, <1>11, <1>12 DEF MatchRun

(* A multiple grows by the factor, and with the number of times.            *)
LEMMA MultipleSteps ==
  ASSUME NEW c \in Nat \ {0}, NEW a \in Nat, NEW b \in Nat
  PROVE  /\ a * c \in Nat /\ (a + 1) * c = a * c + c
         /\ (a < b <=> a * c < b * c) /\ (a <= b <=> a * c <= b * c)
<1>1. \A x, y \in Nat : x < y => x * c + c <= y * c
  <2> SUFFICES ASSUME NEW x \in Nat, NEW y \in Nat, x < y PROVE x * c + c <= y * c
    OBVIOUS
  <2>1. PICK d \in Nat : y = x + 1 + d
    <3> WITNESS y - (x + 1) \in Nat
    <3> QED OBVIOUS
  <2>2. y * c = x * c + c + d * c
    BY <2>1
  <2>3. d * c \in Nat /\ x * c \in Nat
    OBVIOUS
  <2> QED BY <2>2, <2>3
<1>2. a * c \in Nat /\ b * c \in Nat /\ (a + 1) * c = a * c + c
  OBVIOUS
<1>3. a < b => a * c + c <= b * c
  BY <1>1
<1>4. b < a => b * c + c <= a * c
  BY <1>1
<1>5. a = b => a * c = b * c
  OBVIOUS
<1> QED BY <1>2, <1>3, <1>4, <1>5

(* What is left of a division is less than the divisor.                     *)
LEMMA Quotient ==
  ASSUME NEW c \in Nat \ {0}, NEW k \in Nat, NEW m \in Nat, k * c <= m, m < k * c + c
  PROVE  m \div c = k
<1> DEFINE q == m \div c
           r == m % c
<1>1. q \in Int /\ r \in 0 .. c - 1 /\ m = c * q + r
  BY SMTT(30)
<1> HIDE DEF q, r
<1>2. q >= 0
  <2> SUFFICES ASSUME q < 0 PROVE FALSE
    BY <1>1
  <2>1. PICK d \in Nat : q = 0 - 1 - d
    <3>1. (0 - 1) - q \in Nat /\ q = 0 - 1 - ((0 - 1) - q)
      BY <1>1
    <3> QED BY <3>1
  <2>2. c * q = 0 - c - c * d /\ c * d \in Nat
    BY <2>1
  <2> QED BY <1>1, <2>2
<1>3. q * c <= m /\ m < q * c + c /\ q \in Nat
  BY <1>1, <1>2
<1>4. q * c < (k + 1) * c /\ k * c < (q + 1) * c
  <2>1. (k + 1) * c = k * c + c /\ (q + 1) * c = q * c + c /\ q * c \in Nat /\ k * c \in Nat
    BY <1>3
  <2> QED BY <1>3, <2>1
<1>5. q < k + 1 /\ k < q + 1
  BY <1>3, <1>4, MultipleSteps
<1> QED BY <1>3, <1>5 DEF q

-----------------------------------------------------------------------------
(* What an update does: update, update_chunk                               *)

MacTags == {"mac"} \X Seq(MacBytes)
IncStates == [seen : Seq(MacBytes), chunk : Nat \ {0}, unused : Nat]

\* k chunks are complete, and the one under way lacks inc.unused bytes.
WellCut(inc, k) ==
    /\ inc \in IncStates /\ inc.unused \in 1 .. inc.chunk
    /\ Len(inc.seen) = k * inc.chunk + (inc.chunk - inc.unused)

\* The cuts of bytes into pieces: the first is up to the end of the chunk, the others
\* are whole chunks, unless the bytes end before.
Cuts(e, m, inc, bytes) ==
    /\ e \in [0 .. m -> 0 .. Len(bytes)] /\ e[0] = 0 /\ e[m] = Len(bytes)
    /\ \A i \in 1 .. m :
         LET room == IF i = 1 THEN inc.unused ELSE inc.chunk
         IN  /\ e[i - 1] <= e[i] /\ e[i] <= e[i - 1] + room
             /\ e[i] = Len(bytes) \/ e[i] = e[i - 1] + room

LEMMA PiecesCut ==
    ASSUME NEW inc \in IncStates, NEW bytes \in Seq(MacBytes)
    PROVE  \E m \in Nat \ {0} : \E e : 
             /\ Cuts(e, m, inc, bytes)
             /\ DOMAIN Pieces(inc, bytes) = 1 .. m
             /\ \A i \in 1 .. m : Pieces(inc, bytes)[i] = SubSeq(bytes, e[i - 1] + 1, e[i])
<1> DEFINE l == Len(bytes)
           c == inc.chunk
           first == IF l < inc.unused THEN l ELSE inc.unused
           more == CeilDiv(l - first, c)
           End(i) == IF first + i * c < l THEN first + i * c ELSE l
           e == [i \in 0 .. more + 1 |-> IF i = 0 THEN 0 ELSE End(i - 1)]
<1>1. l \in Nat /\ c \in Nat \ {0} /\ inc.unused \in Nat /\ first \in 0 .. l /\ l - first \in Nat
  BY DEF IncStates
<1>2. more \in Nat /\ l - first <= c * more /\ c * more \in Nat
  <2> HIDE DEF l, c, first
  <2>1. more \in Nat /\ l - first <= c * more
    BY <1>1, CeilDivBounds
  <2> QED BY <1>1, <2>1
<1>3. \A i \in Nat : i * c \in Nat /\ (i + 1) * c = i * c + c
  BY <1>1
<1>4. \A i \in Nat : End(i) \in 0 .. l
  <2> HIDE DEF l, c, first
  <2> QED BY <1>1, <1>3
<1>5. End(0) = first
  <2> HIDE DEF l, c, first
  <2> QED BY <1>1
<1>6. End(more) = l
  <2> HIDE DEF l, c, first, more
  <2>1. c * more = more * c
    BY <1>1, <1>2
  <2> QED BY <1>1, <1>2, <2>1
<1>7. \A i \in Nat : /\ End(i) <= End(i + 1) /\ End(i + 1) <= End(i) + c
                     /\ End(i + 1) = l \/ End(i + 1) = End(i) + c
  <2> HIDE DEF l, c, first, more
  <2> SUFFICES ASSUME NEW i \in Nat
               PROVE  /\ End(i) <= End(i + 1) /\ End(i + 1) <= End(i) + c
                      /\ End(i + 1) = l \/ End(i + 1) = End(i) + c
    OBVIOUS
  <2>1. PICK x \in Nat : x = i * c /\ (i + 1) * c = x + c
    BY <1>3
  <2> QED BY <1>1, <2>1
<1>8. first <= inc.unused /\ (first = l \/ first = inc.unused)
  BY <1>1
<1>9. Pieces(inc, bytes) = [i \in 1 .. (more + 1) |->
         IF i = 1 THEN SubSeq(bytes, 1, first) ELSE SubSeq(bytes, End(i - 2) + 1, End(i - 1))]
  BY DEF Pieces
<1> HIDE DEF l, c, first, more, End
<1>10. e \in [0 .. more + 1 -> 0 .. l] /\ e[0] = 0 /\ e[more + 1] = l
  <2>1. \A i \in 0 .. more + 1 : i = 0 \/ (i - 1 \in Nat /\ i # 0)
    BY <1>2
  <2>2. ASSUME NEW i \in 0 .. more + 1 PROVE e[i] \in 0 .. l
    <3>1. CASE i = 0
      BY <1>1, <3>1
    <3>2. CASE i # 0
      <4>1. e[i] = End(i - 1) /\ i - 1 \in Nat
        BY <2>1, <3>2
      <4> HIDE DEF e
      <4> QED BY <1>4, <4>1
    <3> QED BY <3>1, <3>2
  <2>3. more + 1 \in 0 .. more + 1 /\ more + 1 # 0 /\ (more + 1) - 1 = more /\ 0 \in 0 .. more + 1
    BY <1>2
  <2>4. e[more + 1] = l /\ e[0] = 0
    BY <1>6, <2>3
  <2> QED BY <2>2, <2>4
<1>11. \A i \in 1 .. more + 1 : e[i] = End(i - 1) /\ (i # 1 => e[i - 1] = End(i - 2))
  BY <1>2
<1>12. ASSUME NEW i \in 1 .. more + 1
       PROVE  LET room == IF i = 1 THEN inc.unused ELSE c
              IN  /\ e[i - 1] <= e[i] /\ e[i] <= e[i - 1] + room
                  /\ e[i] = l \/ e[i] = e[i - 1] + room
  <2>1. CASE i = 1
    <3>1. e[i] = first /\ e[i - 1] = 0
      BY <1>5, <1>10, <1>11, <2>1
    <3> HIDE DEF e
    <3> QED BY <1>1, <1>8, <2>1, <3>1
  <2>2. CASE i # 1
    <3>1. i - 2 \in Nat /\ (i - 2) + 1 = i - 1
      BY <1>2, <2>2
    <3>2. e[i] = End((i - 2) + 1) /\ e[i - 1] = End(i - 2)
      BY <1>11, <2>2, <3>1
    <3> HIDE DEF e
    <3> QED BY <1>7, <2>2, <3>1, <3>2
  <2> QED BY <2>1, <2>2
<1>13. \A i \in 1 .. more + 1 : Pieces(inc, bytes)[i] = SubSeq(bytes, e[i - 1] + 1, e[i])
  <2> SUFFICES ASSUME NEW i \in 1 .. more + 1
               PROVE  Pieces(inc, bytes)[i] = SubSeq(bytes, e[i - 1] + 1, e[i])
    OBVIOUS
  <2>1. CASE i = 1
    <3>1. e[i] = first /\ e[i - 1] + 1 = 1
      BY <1>5, <1>10, <1>11, <2>1
    <3>2. Pieces(inc, bytes)[i] = SubSeq(bytes, 1, first)
      BY <1>9, <2>1
    <3> HIDE DEF e
    <3> QED BY <3>1, <3>2
  <2>2. CASE i # 1
    <3>1. e[i] = End(i - 1) /\ e[i - 1] = End(i - 2)
      BY <1>11, <2>2
    <3> HIDE DEF e
    <3> QED BY <1>9, <2>2, <3>1
  <2> QED BY <2>1, <2>2
<1>14. Cuts(e, more + 1, inc, bytes)
  <2> HIDE DEF e
  <2> QED BY <1>10, <1>12 DEF Cuts, l, c
<1> QED
  <2>1. more + 1 \in Nat \ {0} /\ DOMAIN Pieces(inc, bytes) = 1 .. more + 1
    BY <1>2, <1>9
  <2> HIDE DEF e
  <2> QED BY <1>13, <1>14, <2>1

\* update_chunk: what is seen grows by the piece, and a full chunk gives its MAC.
LEMMA ChunkStep ==
    ASSUME NEW state, NEW k \in Nat, WellCut(state.inc, k), state.macs \in Seq(MacTags),
           state = [inc |-> state.inc, macs |-> state.macs],
           NEW piece \in Seq(MacBytes), Len(piece) <= state.inc.unused
    PROVE  LET next == UpdateChunk(state, piece)
               full == Len(piece) = state.inc.unused
           IN  /\ next = [inc |-> next.inc, macs |-> next.macs]
               /\ next.inc.seen = state.inc.seen \o piece /\ next.inc.chunk = state.inc.chunk
               /\ full => /\ WellCut(next.inc, k + 1) /\ next.inc.unused = state.inc.chunk
                          /\ next.macs = Append(state.macs, MacOf(next.inc.seen))
                          /\ Len(next.inc.seen) = (k + 1) * state.inc.chunk
               /\ ~full => /\ WellCut(next.inc, k) /\ next.macs = state.macs
                           /\ next.inc.unused = state.inc.unused - Len(piece)
<1> DEFINE inc == state.inc
           c == inc.chunk
           u == inc.unused
           seen == inc.seen \o piece
           full == u = Len(piece)
           next == UpdateChunk(state, piece)
<1>1. /\ inc \in IncStates /\ c \in Nat \ {0} /\ u \in 1 .. c /\ inc.seen \in Seq(MacBytes)
      /\ Len(inc.seen) = k * c + (c - u)
      /\ inc = [seen |-> inc.seen, chunk |-> c, unused |-> u]
  BY DEF WellCut, IncStates
<1>2. seen \in Seq(MacBytes) /\ Len(seen) = Len(inc.seen) + Len(piece)
  BY <1>1
<1>3. next = [inc |-> [inc EXCEPT !.seen = seen, !.unused = IF full THEN c ELSE u - Len(piece)],
              macs |-> IF full THEN Append(state.macs, MacOf(seen)) ELSE state.macs]
  BY DEF UpdateChunk
<1>4. next.inc = [seen |-> seen, chunk |-> c, unused |-> IF full THEN c ELSE u - Len(piece)]
  <2>1. next.inc = [inc EXCEPT !.seen = seen, !.unused = IF full THEN c ELSE u - Len(piece)]
    BY <1>3
  <2>2. PICK w \in Nat : w = IF full THEN c ELSE u - Len(piece)
    <3>1. Len(piece) \in Nat /\ u \in Nat /\ c \in Nat /\ Len(piece) <= u
      BY <1>1
    <3>2. (IF full THEN c ELSE u - Len(piece)) \in Nat
      <4> HIDE DEF c, u
      <4> QED BY <3>1
    <3> QED BY <3>2
  <2>3. next.inc = [inc EXCEPT !.seen = seen, !.unused = w]
    BY <2>1, <2>2
  <2> HIDE DEF next, seen, full, c, u, inc
  <2>4. inc \in [seen : Seq(MacBytes), chunk : Nat \ {0}, unused : Nat] /\ seen \in Seq(MacBytes)
    BY <1>1, <1>2 DEF IncStates
  <2> DEFINE x == next.inc
  <2>5. /\ x.seen = seen /\ x.chunk = inc.chunk /\ x.unused = w
        /\ x \in [seen : Seq(MacBytes), chunk : Nat \ {0}, unused : Nat]
    BY <2>3, <2>4
  <2> HIDE DEF x
  <2>6. x = [seen |-> x.seen, chunk |-> x.chunk, unused |-> x.unused]
    BY <2>5
  <2> QED BY <2>2, <2>5, <2>6 DEF x, c
<1>5. next.macs = IF full THEN Append(state.macs, MacOf(seen)) ELSE state.macs
  BY <1>3
<1>6. PICK x \in Nat : x = k * c /\ (k + 1) * c = x + c
  BY <1>1, MultipleSteps
<1>7. Len(piece) \in Nat /\ Len(piece) <= u
  OBVIOUS
<1>8. next = [inc |-> next.inc, macs |-> next.macs]
  BY <1>3
<1> HIDE DEF inc, c, u, seen, next
<1>9. /\ next.inc.seen = seen /\ next.inc.chunk = c
      /\ next.inc.unused = IF full THEN c ELSE u - Len(piece)
  BY <1>4
<1>10. CASE full
  <2>1. Len(next.inc.seen) = (k + 1) * c
    <3>1. PICK v \in Nat : v = u /\ Len(piece) = v /\ v <= c
      BY <1>1, <1>7, <1>10
    <3>2. Len(next.inc.seen) = (x + (c - v)) + v
      BY <1>1, <1>2, <1>6, <1>9, <3>1
    <3> QED BY <1>1, <1>6, <3>1, <3>2
  <2>2. next.inc \in IncStates /\ next.inc.unused = c
    BY <1>1, <1>2, <1>4, <1>10 DEF IncStates
  <2>3. WellCut(next.inc, k + 1)
    <3>1. (k + 1) * c = (k + 1) * c + (c - c) /\ c \in 1 .. c
      BY <1>1, <1>6
    <3>2. Len(next.inc.seen) = (k + 1) * next.inc.chunk + (next.inc.chunk - next.inc.unused)
      BY <1>9, <1>10, <2>1, <3>1
    <3> QED BY <1>9, <2>2, <3>1, <3>2 DEF WellCut
  <2> QED BY <1>5, <1>8, <1>9, <1>10, <2>1, <2>2, <2>3 DEF inc, c, u, seen, next
<1>11. CASE ~full
  <2>0. next.inc.unused = u - Len(piece) /\ u - Len(piece) \in 1 .. c
    BY <1>1, <1>7, <1>9, <1>11
  <2>1. Len(next.inc.seen) = k * c + (c - next.inc.unused)
    <3>1. PICK l \in Nat : l = Len(piece)
      BY <1>7
    <3>2. Len(next.inc.seen) = x + (c - u) + l
      BY <1>1, <1>2, <1>6, <1>9, <3>1
    <3>3. x + (c - u) + l = x + (c - (u - l))
      BY <1>1
    <3> QED BY <1>6, <2>0, <3>1, <3>2, <3>3
  <2>2. next.inc \in IncStates
    BY <1>1, <1>2, <1>4, <1>11, <2>0 DEF IncStates
  <2>3. WellCut(next.inc, k)
    BY <1>9, <2>0, <2>1, <2>2 DEF WellCut
  <2> QED BY <1>5, <1>8, <1>9, <1>11, <2>0, <2>3 DEF inc, c, u, seen, next
<1> QED BY <1>10, <1>11

\* The MACs an update gives: of all the bytes up to the end of each chunk it completes.
ChunkMacs(macs, d, all, c, k) ==
    /\ macs \in Seq(MacTags) /\ Len(macs) = d
    /\ \A j \in 1 .. d : /\ (k + j) * c <= Len(all)
                         /\ macs[j] = MacOf(SubSeq(all, 1, (k + j) * c))

\* Bytes put together up to one cut and from there to the next.
LEMMA CutJoins ==
    ASSUME NEW S, NEW s \in Seq(S), NEW t \in Seq(S), NEW a \in 0 .. Len(t), NEW b \in a .. Len(t)
    PROVE  /\ (s \o SubSeq(t, 1, a)) \o SubSeq(t, a + 1, b) = s \o SubSeq(t, 1, b)
           /\ Len(SubSeq(t, a + 1, b)) = b - a /\ SubSeq(t, a + 1, b) \in Seq(S)
           /\ s \o SubSeq(t, 1, b) = SubSeq(s \o t, 1, Len(s) + b)
           /\ Len(s \o SubSeq(t, 1, b)) = Len(s) + b
<1> DEFINE p == SubSeq(t, 1, a)
           q == SubSeq(t, a + 1, b)
           r == SubSeq(t, 1, b)
<1>1. p \in Seq(S) /\ Len(p) = a /\ \A i \in 1 .. a : p[i] = t[i]
  BY SubSeqProperties
<1>2. r \in Seq(S) /\ Len(r) = b /\ \A i \in 1 .. b : r[i] = t[i]
  BY SubSeqProperties
<1>3. q \in Seq(S) /\ Len(q) = b - a /\ \A i \in 1 .. b - a : q[i] = t[a + i]
  <2>1. \A i \in a + 1 .. b : t[i] \in S
    OBVIOUS
  <2>2. /\ b - (a + 1) + 1 = b - a /\ \A i \in 1 .. b - a : (a + 1) + i - 1 = a + i
        /\ (IF a + 1 <= b THEN b - (a + 1) + 1 ELSE 0) = b - a
    OBVIOUS
  <2>3. /\ q \in Seq(S)
        /\ Len(q) = IF a + 1 <= b THEN b - (a + 1) + 1 ELSE 0
        /\ \A i \in 1 .. b - (a + 1) + 1 : q[i] = t[(a + 1) + i - 1]
    <3>1. a + 1 \in Int /\ b \in Int
      OBVIOUS
    <3> QED BY <2>1, <3>1, SubSeqProperties
  <2> HIDE DEF q
  <2> QED BY <2>2, <2>3
<1> HIDE DEF p, q, r
<1>4. /\ (s \o p) \o q \in Seq(S) /\ s \o r \in Seq(S)
      /\ Len((s \o p) \o q) = Len(s) + b /\ Len(s \o r) = Len(s) + b
      /\ \A i \in 1 .. Len(s) : ((s \o p) \o q)[i] = s[i] /\ (s \o r)[i] = s[i]
      /\ \A i \in 1 .. b : ((s \o p) \o q)[Len(s) + i] = t[i] /\ (s \o r)[Len(s) + i] = t[i]
  <2>1. /\ s \o p \in Seq(S) /\ Len(s \o p) = Len(s) + a
        /\ \A i \in 1 .. Len(s) : (s \o p)[i] = s[i]
        /\ \A i \in 1 .. a : (s \o p)[Len(s) + i] = t[i]
    BY <1>1
  <2>2. /\ s \o r \in Seq(S) /\ Len(s \o r) = Len(s) + b
        /\ \A i \in 1 .. Len(s) : (s \o r)[i] = s[i]
        /\ \A i \in 1 .. b : (s \o r)[Len(s) + i] = t[i]
    BY <1>2
  <2> DEFINE v == s \o p
  <2> HIDE DEF v
  <2>3. /\ v \o q \in Seq(S) /\ Len(v \o q) = Len(s) + b
        /\ \A i \in 1 .. Len(s) : (v \o q)[i] = s[i]
        /\ \A i \in 1 .. b : (v \o q)[Len(s) + i] = t[i]
    <3>1. /\ v \in Seq(S) /\ Len(v) = Len(s) + a
          /\ \A i \in 1 .. Len(s) : v[i] = s[i]
          /\ \A i \in 1 .. a : v[Len(s) + i] = t[i]
      BY <2>1 DEF v
    <3>2. v \o q \in Seq(S) /\ Len(v \o q) = Len(s) + b
      <4>0. v \in Seq(S) /\ q \in Seq(S)
        BY <1>3, <3>1
      <4>1. v \o q \in Seq(S) /\ Len(v \o q) = Len(v) + Len(q)
        BY <4>0, ConcatProperties
      <4>2. Len(s) \in Nat /\ (Len(s) + a) + (b - a) = Len(s) + b
        OBVIOUS
      <4> QED BY <1>3, <3>1, <4>1, <4>2
    <3>3. \A i \in 1 .. Len(s) + a : (v \o q)[i] = v[i]
      BY <1>3, <3>1
    <3>4. \A i \in 1 .. b - a : (v \o q)[Len(v) + i] = q[i]
      BY <1>3, <3>1
    <3>5. ASSUME NEW i \in 1 .. b
          PROVE  (v \o q)[Len(s) + i] = t[i]
      <4>1. CASE i <= a
        BY <3>1, <3>3, <4>1
      <4>2. CASE i > a
        <5>1. i - a \in 1 .. b - a /\ Len(v) + (i - a) = Len(s) + i /\ a + (i - a) = i
          BY <3>1, <4>2
        <5> QED BY <1>3, <3>4, <5>1
      <4>3. i <= a \/ i > a
        OBVIOUS
      <4> QED BY <4>1, <4>2, <4>3
    <3>6. \A i \in 1 .. Len(s) : (v \o q)[i] = s[i]
      BY <3>1, <3>3
    <3> QED BY <3>2, <3>5, <3>6
  <2> QED BY <2>2, <2>3 DEF v
<1>5. \A i \in 1 .. Len(s) + b : i \in 1 .. Len(s) \/ (i - Len(s) \in 1 .. b /\ Len(s) + (i - Len(s)) = i)
  OBVIOUS
<1>6. (s \o p) \o q = s \o r
  <2> DEFINE x == (s \o p) \o q
             y == s \o r
  <2> HIDE DEF x, y
  <2>1. /\ x \in Seq(S) /\ y \in Seq(S) /\ Len(x) = Len(s) + b /\ Len(y) = Len(s) + b
        /\ \A i \in 1 .. Len(s) : x[i] = y[i]
        /\ \A i \in 1 .. b : x[Len(s) + i] = y[Len(s) + i]
    BY <1>4 DEF x, y
  <2>2. \A i \in 1 .. Len(s) + b : x[i] = y[i]
    BY <1>5, <2>1
  <2>3. x = y
    BY <2>1, <2>2, SeqEqual
  <2> QED BY <2>3 DEF x, y
<1>7. s \o r = SubSeq(s \o t, 1, Len(s) + b)
  <2> DEFINE all == s \o t
             y == s \o r
  <2>1. /\ all \in Seq(S) /\ Len(all) = Len(s) + Len(t)
        /\ \A i \in 1 .. Len(s) : all[i] = s[i]
        /\ \A i \in 1 .. b : all[Len(s) + i] = t[i]
    OBVIOUS
  <2> HIDE DEF all
  <2>2. \A i \in 1 .. Len(s) + b : all[i] \in S
    BY <2>1
  <2>3. /\ SubSeq(all, 1, Len(s) + b) \in Seq(S)
        /\ Len(SubSeq(all, 1, Len(s) + b)) = Len(s) + b
        /\ \A i \in 1 .. Len(s) + b : SubSeq(all, 1, Len(s) + b)[i] = all[i]
    BY <2>2, SubSeqProperties
  <2>4. /\ y \in Seq(S) /\ Len(y) = Len(s) + b
        /\ \A i \in 1 .. Len(s) : y[i] = all[i]
        /\ \A i \in 1 .. b : y[Len(s) + i] = all[Len(s) + i]
    BY <1>4, <2>1
  <2> HIDE DEF y
  <2>5. \A i \in 1 .. Len(s) + b : y[i] = all[i]
    BY <1>5, <2>4
  <2>6. y = SubSeq(all, 1, Len(s) + b)
    BY <2>3, <2>4, <2>5, SeqEqual
  <2> QED BY <2>6 DEF all, y
<1> QED BY <1>3, <1>4, <1>6, <1>7 DEF p, q, r

UpdateStates == [inc : [seen : Seq(MacBytes), chunk : Nat \ {0}, unused : Int], macs : Seq(MacTags)]

LEMMA UpdateChunkType ==
    ASSUME NEW x \in UpdateStates, NEW piece \in Seq(MacBytes)
    PROVE  UpdateChunk(x, piece) \in UpdateStates
<1> DEFINE full == x.inc.unused = Len(piece)
           seen == x.inc.seen \o piece
           left == IF full THEN x.inc.chunk ELSE x.inc.unused - Len(piece)
           macs == IF full THEN Append(x.macs, MacOf(seen)) ELSE x.macs
<1>1. /\ x.inc \in [seen : Seq(MacBytes), chunk : Nat \ {0}, unused : Int]
      /\ x.inc.seen \in Seq(MacBytes) /\ x.macs \in Seq(MacTags)
  BY DEF UpdateStates
<1>2. seen \in Seq(MacBytes)
  BY <1>1
<1>3. left \in Int
  BY <1>1
<1> HIDE DEF seen
<1>4. MacOf(seen) \in MacTags
  BY <1>2 DEF MacOf, MacTags
<1>5. macs \in Seq(MacTags)
  BY <1>1, <1>4
<1>6. UpdateChunk(x, piece) = [inc |-> [x.inc EXCEPT !.seen = seen, !.unused = left], macs |-> macs]
  BY DEF UpdateChunk, seen
<1> HIDE DEF left, macs
<1>7. [x.inc EXCEPT !.seen = seen, !.unused = left]
        \in [seen : Seq(MacBytes), chunk : Nat \ {0}, unused : Int]
  BY <1>1, <1>2, <1>3
<1> QED BY <1>5, <1>6, <1>7 DEF UpdateStates

\* st is what an update has made of inc and the first a of its bytes: d chunks are new.
Reached(st, d, inc, k, bytes, a) ==
    /\ WellCut(st.inc, k + d) /\ st.inc.chunk = inc.chunk
    /\ st.inc.seen = inc.seen \o SubSeq(bytes, 1, a)
    /\ ChunkMacs(st.macs, d, inc.seen \o bytes, inc.chunk, k)
    /\ st = [inc |-> st.inc, macs |-> st.macs]

LEMMA ChunkMacsGrow ==
    ASSUME NEW d \in Nat, NEW k \in Nat, NEW c \in Nat, NEW all \in Seq(MacBytes), NEW macs,
           ChunkMacs(macs, d, all, c, k), (k + (d + 1)) * c <= Len(all)
    PROVE  ChunkMacs(Append(macs, MacOf(SubSeq(all, 1, (k + (d + 1)) * c))), d + 1, all, c, k)
<1> DEFINE n == (k + (d + 1)) * c
           y == MacOf(SubSeq(all, 1, n))
           more == Append(macs, y)
<1>1. n \in Nat
  OBVIOUS
<1> HIDE DEF n
<1>2. SubSeq(all, 1, n) \in Seq(MacBytes)
  <2>1. \A i \in 1 .. n : all[i] \in MacBytes
    BY <1>1 DEF n
  <2> QED BY <1>1, <2>1, SubSeqProperties
<1>3. y \in MacTags
  BY <1>2 DEF MacOf, MacTags
<1>4. macs \in Seq(MacTags) /\ Len(macs) = d
  BY DEF ChunkMacs
<1> HIDE DEF y
<1>5. /\ more \in Seq(MacTags) /\ Len(more) = d + 1 /\ more[d + 1] = y
      /\ \A j \in 1 .. d : more[j] = macs[j]
  BY <1>3, <1>4, AppendProperties
<1> HIDE DEF more
<1>6. \A j \in 1 .. d : (k + j) * c <= Len(all) /\ more[j] = MacOf(SubSeq(all, 1, (k + j) * c))
  BY <1>5 DEF ChunkMacs
<1>7. \A j \in 1 .. d + 1 : j \in 1 .. d \/ j = d + 1
  OBVIOUS
<1>8. (k + (d + 1)) * c <= Len(all) /\ more[d + 1] = MacOf(SubSeq(all, 1, (k + (d + 1)) * c))
  BY <1>5 DEF y, n
<1>9. ChunkMacs(more, d + 1, all, c, k)
  BY <1>5, <1>6, <1>7, <1>8 DEF ChunkMacs
<1> QED BY <1>9 DEF more, y, n

LEMMA UpdateStep ==
    ASSUME NEW inc \in IncStates, NEW k \in Nat, NEW d \in Nat, NEW bytes \in Seq(MacBytes),
           NEW a \in 0 .. Len(bytes), NEW b \in a .. Len(bytes),
           NEW st, Reached(st, d, inc, k, bytes, a),
           b - a <= st.inc.unused, b = Len(bytes) \/ b - a = st.inc.unused
    PROVE  \E w \in Nat :
              /\ Reached(UpdateChunk(st, SubSeq(bytes, a + 1, b)), w, inc, k, bytes, b)
              /\ b = Len(bytes) \/ UpdateChunk(st, SubSeq(bytes, a + 1, b)).inc.unused = inc.chunk
<1> DEFINE c == inc.chunk
           all == inc.seen \o bytes
           piece == SubSeq(bytes, a + 1, b)
           next == UpdateChunk(st, piece)
<1>1. /\ inc.seen \in Seq(MacBytes) /\ c \in Nat \ {0} /\ all \in Seq(MacBytes)
      /\ Len(all) = Len(inc.seen) + Len(bytes)
  BY DEF IncStates
<1>2. /\ WellCut(st.inc, k + d) /\ st.inc.chunk = c
      /\ st.inc.seen = inc.seen \o SubSeq(bytes, 1, a)
      /\ ChunkMacs(st.macs, d, all, c, k)
      /\ st = [inc |-> st.inc, macs |-> st.macs]
  BY DEF Reached
<1>3. /\ (inc.seen \o SubSeq(bytes, 1, a)) \o piece = inc.seen \o SubSeq(bytes, 1, b)
      /\ Len(piece) = b - a /\ piece \in Seq(MacBytes)
      /\ inc.seen \o SubSeq(bytes, 1, b) = SubSeq(all, 1, Len(inc.seen) + b)
      /\ Len(inc.seen \o SubSeq(bytes, 1, b)) = Len(inc.seen) + b
  <2>1. inc.seen \in Seq(MacBytes)
    BY <1>1
  <2>2. PICK s \in Seq(MacBytes) : s = inc.seen
    BY <2>1
  <2>3. /\ (s \o SubSeq(bytes, 1, a)) \o SubSeq(bytes, a + 1, b) = s \o SubSeq(bytes, 1, b)
        /\ Len(SubSeq(bytes, a + 1, b)) = b - a /\ SubSeq(bytes, a + 1, b) \in Seq(MacBytes)
        /\ s \o SubSeq(bytes, 1, b) = SubSeq(s \o bytes, 1, Len(s) + b)
        /\ Len(s \o SubSeq(bytes, 1, b)) = Len(s) + b
    BY CutJoins
  <2> QED BY <2>2, <2>3
<1> HIDE DEF c, all, piece
<1>4. k + d \in Nat /\ st.macs \in Seq(MacTags) /\ Len(piece) <= st.inc.unused
  BY <1>2, <1>3 DEF ChunkMacs
<1>5. LET full == Len(piece) = st.inc.unused
      IN  /\ next = [inc |-> next.inc, macs |-> next.macs]
          /\ next.inc.seen = st.inc.seen \o piece /\ next.inc.chunk = st.inc.chunk
          /\ full => /\ WellCut(next.inc, (k + d) + 1) /\ next.inc.unused = st.inc.chunk
                     /\ next.macs = Append(st.macs, MacOf(next.inc.seen))
                     /\ Len(next.inc.seen) = ((k + d) + 1) * st.inc.chunk
          /\ ~full => /\ WellCut(next.inc, k + d) /\ next.macs = st.macs
                      /\ next.inc.unused = st.inc.unused - Len(piece)
  BY <1>2, <1>3, <1>4, ChunkStep
<1> HIDE DEF next
<1>6. /\ next = [inc |-> next.inc, macs |-> next.macs]
      /\ next.inc.seen = inc.seen \o SubSeq(bytes, 1, b) /\ next.inc.chunk = c
      /\ next.inc.seen = SubSeq(all, 1, Len(inc.seen) + b)
      /\ Len(next.inc.seen) = Len(inc.seen) + b
  BY <1>2, <1>3, <1>5
<1>7. CASE Len(piece) = st.inc.unused
  <2>1. /\ WellCut(next.inc, (k + d) + 1) /\ next.inc.unused = c
        /\ next.macs = Append(st.macs, MacOf(next.inc.seen))
        /\ Len(next.inc.seen) = ((k + d) + 1) * c
    BY <1>2, <1>5, <1>7
  <2>2. (k + d) + 1 = k + (d + 1) /\ d + 1 \in Nat
    OBVIOUS
  <2>3. Len(inc.seen) + b = (k + (d + 1)) * c
    BY <1>6, <2>1, <2>2
  <2>4. (k + (d + 1)) * c <= Len(all)
    <3>1. Len(inc.seen) \in Nat /\ Len(bytes) \in Nat /\ b <= Len(bytes)
      BY <1>1
    <3> QED BY <1>1, <2>3, <3>1
  <2>5. ChunkMacs(Append(st.macs, MacOf(SubSeq(all, 1, (k + (d + 1)) * c))), d + 1, all, c, k)
    BY <1>1, <1>2, <2>4, ChunkMacsGrow
  <2>6. ChunkMacs(next.macs, d + 1, all, c, k)
    BY <1>6, <2>1, <2>3, <2>5
  <2>7. Reached(next, d + 1, inc, k, bytes, b)
    BY <1>6, <2>1, <2>2, <2>6 DEF Reached, all, c
  <2> QED BY <2>1, <2>2, <2>7 DEF next, piece, c
<1>8. CASE Len(piece) # st.inc.unused
  <2>1. b = Len(bytes)
    BY <1>3, <1>8
  <2>2. WellCut(next.inc, k + d) /\ next.macs = st.macs
    BY <1>5, <1>8
  <2>3. Reached(next, d, inc, k, bytes, b)
    BY <1>2, <1>6, <2>2 DEF Reached, all, c
  <2> QED BY <2>1, <2>3 DEF next, piece
<1> QED BY <1>7, <1>8

\* Update: however the bytes were cut before, all of them have been seen, and the
\* chunks they complete have given their MACs.
LEMMA UpdateGives ==
    ASSUME NEW inc, NEW k \in Nat, WellCut(inc, k), NEW bytes \in Seq(MacBytes)
    PROVE  \E d \in Nat :
              /\ WellCut(Update(inc, bytes).inc, k + d)
              /\ Update(inc, bytes).inc.seen = inc.seen \o bytes
              /\ Update(inc, bytes).inc.chunk = inc.chunk
              /\ ChunkMacs(Update(inc, bytes).macs, d, inc.seen \o bytes, inc.chunk, k)
<1> DEFINE c == inc.chunk
           l == Len(bytes)
           P == Pieces(inc, bytes)
           base == [inc |-> inc, macs |-> <<>>]
<1>1. /\ inc \in IncStates /\ inc.seen \in Seq(MacBytes) /\ c \in Nat \ {0}
      /\ inc.unused \in 1 .. c /\ l \in Nat
  BY DEF WellCut, IncStates
<1>p. PICK m \in Nat \ {0} : \E e : /\ Cuts(e, m, inc, bytes) /\ DOMAIN P = 1 .. m
                                    /\ \A i \in 1 .. m : P[i] = SubSeq(bytes, e[i - 1] + 1, e[i])
  <2> HIDE DEF P
  <2>1. \E m \in Nat \ {0} : \E e :
             /\ Cuts(e, m, inc, bytes)
             /\ DOMAIN P = 1 .. m
             /\ \A i \in 1 .. m : P[i] = SubSeq(bytes, e[i - 1] + 1, e[i])
    BY <1>1, PiecesCut DEF P
  <2> QED BY <2>1
<1>2. PICK e : /\ Cuts(e, m, inc, bytes) /\ DOMAIN P = 1 .. m
               /\ \A i \in 1 .. m : P[i] = SubSeq(bytes, e[i - 1] + 1, e[i])
  <2> HIDE DEF P
  <2> QED BY <1>p
<1>3. /\ e \in [0 .. m -> 0 .. l] /\ e[0] = 0 /\ e[m] = l
      /\ \A i \in 1 .. m :
           /\ e[i - 1] <= e[i] /\ e[i] <= e[i - 1] + (IF i = 1 THEN inc.unused ELSE c)
           /\ e[i] = l \/ e[i] = e[i - 1] + (IF i = 1 THEN inc.unused ELSE c)
  BY <1>2 DEF Cuts
<1> HIDE DEF P, l, c, base
<1>4. ASSUME NEW i \in 1 .. m
      PROVE  P[i] \in Seq(MacBytes)
  <2>1. i - 1 \in 0 .. m /\ i \in 0 .. m
    OBVIOUS
  <2>2. e[i - 1] \in 0 .. l /\ e[i] \in 0 .. l /\ e[i - 1] <= e[i]
    BY <1>3, <2>1
  <2>3. PICK a \in 0 .. l : a = e[i - 1]
    BY <2>2
  <2>4. PICK b \in 0 .. l : b = e[i]
    BY <2>2
  <2>5. b \in a .. l
    BY <1>1, <2>2, <2>3, <2>4
  <2>6. SubSeq(bytes, a + 1, b) \in Seq(MacBytes)
    BY <1>1, <2>5, CutJoins DEF l
  <2> QED BY <1>2, <2>3, <2>4, <2>6
<1>5. base \in UpdateStates
  BY <1>1 DEF IncStates, UpdateStates, base
<1>6. \A x \in UpdateStates : \A i \in 1 .. m : UpdateChunk(x, P[i]) \in UpdateStates
  BY <1>4, UpdateChunkType
<1>7. m \in Nat /\ DOMAIN P = 1 .. m
  BY <1>2
<1>a. PICK f : UpdateRun(f, UpdateStates, base, P, m)
  BY <1>5, <1>6, <1>7, UpdateFold
<1>8. /\ f \in [0 .. m -> UpdateStates] /\ f[0] = base
      /\ \A i \in 1 .. m : f[i] = UpdateChunk(f[i - 1], P[i])
      /\ UpdateAll(base, P) = f[m]
  BY <1>a DEF UpdateRun
<1>9. Update(inc, bytes) = f[m]
  BY <1>8 DEF Update, UpdateAll, P, base
<1> DEFINE Ready(i) == /\ i = 0 => f[i].inc.unused = inc.unused
                       /\ i # 0 => e[i] = l \/ f[i].inc.unused = c
           D == {i \in Nat : i <= m => Ready(i) /\ \E d \in Nat : Reached(f[i], d, inc, k, bytes, e[i])}
<1>10. 0 \in D
  <2>1. SubSeq(bytes, 1, 0) = <<>> /\ inc.seen \o <<>> = inc.seen
    BY <1>1
  <2>2. f[0].inc = inc /\ f[0].macs = <<>> /\ k + 0 = k
    BY <1>8 DEF base
  <2>3. ChunkMacs(<<>>, 0, inc.seen \o bytes, inc.chunk, k)
    BY DEF ChunkMacs
  <2>4. Reached(f[0], 0, inc, k, bytes, e[0])
    BY <1>3, <1>8, <2>1, <2>2, <2>3 DEF Reached, base
  <2> QED BY <2>2, <2>4
<1>11. ASSUME NEW i \in Nat, i \in D
       PROVE  i + 1 \in D
  <2> SUFFICES ASSUME i + 1 <= m
               PROVE  Ready(i + 1) /\ \E d \in Nat : Reached(f[i + 1], d, inc, k, bytes, e[i + 1])
    <3> HIDE DEF Ready
    <3> QED OBVIOUS
  <2>1. Ready(i) /\ \E d \in Nat : Reached(f[i], d, inc, k, bytes, e[i])
    <3>1. i <= m
      BY <1>7
    <3> HIDE DEF Ready
    <3> QED BY <1>11, <3>1
  <2>2. PICK d \in Nat : Reached(f[i], d, inc, k, bytes, e[i])
    BY <2>1
  <2>3. i + 1 \in 1 .. m /\ (i + 1) - 1 = i /\ i \in 0 .. m /\ i + 1 \in 0 .. m /\ i + 1 # 0
    BY <1>7
  <2>4. f[i + 1] = UpdateChunk(f[i], P[i + 1]) /\ P[i + 1] = SubSeq(bytes, e[i] + 1, e[i + 1])
    BY <1>2, <1>8, <2>3
  <2>5. e[i] \in 0 .. l /\ e[i + 1] \in 0 .. l /\ e[i] <= e[i + 1]
    BY <1>3, <2>3
  <2>6. PICK a \in 0 .. l : a = e[i]
    BY <2>5
  <2>7. PICK b \in 0 .. l : b = e[i + 1]
    BY <2>5
  <2>8. b \in a .. l
    BY <1>1, <2>5, <2>6, <2>7
  <2>9. PICK u \in 1 .. c : u = f[i].inc.unused
    <3>1. f[i].inc.unused \in 1 .. f[i].inc.chunk /\ f[i].inc.chunk = c
      BY <2>2 DEF Reached, WellCut, c
    <3> QED BY <3>1
  <2>10. b - a <= u /\ (b = l \/ b - a = u)
    <3>1. PICK r \in Nat : r = IF i = 0 THEN inc.unused ELSE c
      BY <1>1
    <3>2. b <= a + r /\ (b = l \/ b = a + r)
      <4>1. i + 1 = 1 <=> i = 0
        OBVIOUS
      <4> QED BY <1>3, <2>3, <2>6, <2>7, <3>1, <4>1
    <3>3. a = l \/ u = r
      BY <2>1, <2>6, <2>9, <3>1
    <3> QED BY <1>1, <2>8, <2>9, <3>2, <3>3
  <2>11. \E w \in Nat : /\ Reached(UpdateChunk(f[i], SubSeq(bytes, a + 1, b)), w, inc, k, bytes, b)
                        /\ b = l \/ UpdateChunk(f[i], SubSeq(bytes, a + 1, b)).inc.unused = inc.chunk
    <3>0. PICK st : st = f[i]
      OBVIOUS
    <3>1. Reached(st, d, inc, k, bytes, a)
      BY <2>2, <2>6, <3>0
    <3>2. a \in 0 .. Len(bytes) /\ b \in a .. Len(bytes)
      BY <2>8 DEF l
    <3>3. b - a <= st.inc.unused /\ (b = Len(bytes) \/ b - a = st.inc.unused)
      BY <2>9, <2>10, <3>0 DEF l
    <3>4. \E w \in Nat : /\ Reached(UpdateChunk(st, SubSeq(bytes, a + 1, b)), w, inc, k, bytes, b)
                         /\ b = Len(bytes) \/ UpdateChunk(st, SubSeq(bytes, a + 1, b)).inc.unused = inc.chunk
      <4> HIDE DEF Ready, D
      <4> QED BY <1>1, <3>1, <3>2, <3>3, UpdateStep
    <3> QED BY <3>0, <3>4 DEF l
  <2>12. \E w \in Nat : Reached(f[i + 1], w, inc, k, bytes, e[i + 1]) /\ (e[i + 1] = l \/ f[i + 1].inc.unused = c)
    BY <2>4, <2>6, <2>7, <2>11 DEF c
  <2> QED BY <2>3, <2>12
<1>12. PICK d \in Nat : Reached(f[m], d, inc, k, bytes, e[m])
  <2>1. \A i \in Nat : i \in D
    <3> HIDE DEF D
    <3> QED BY <1>10, <1>11, SetInduction
  <2> HIDE DEF Ready
  <2> QED BY <1>7, <2>1
<1>13. SubSeq(bytes, 1, l) = bytes
  BY DEF l
<1> QED BY <1>3, <1>9, <1>12, <1>13 DEF Reached

-----------------------------------------------------------------------------
(* What the receiver makes of the MACs: Validating                         *)

Agree(a, b, n) == n <= Len(a) /\ n <= Len(b) /\ \A i \in 1 .. n : a[i] = b[i]

LEMMA AgreeSubSeq ==
    ASSUME NEW S, NEW a \in Seq(S), NEW b \in Seq(S), NEW n \in Nat, n <= Len(a), n <= Len(b)
    PROVE  /\ SubSeq(a, 1, n) \in Seq(S) /\ Len(SubSeq(a, 1, n)) = n
           /\ SubSeq(a, 1, n) = SubSeq(b, 1, n) <=> Agree(a, b, n)
<1> DEFINE x == SubSeq(a, 1, n)
           y == SubSeq(b, 1, n)
<1>1. x \in Seq(S) /\ Len(x) = n /\ \A i \in 1 .. n : x[i] = a[i]
  BY SubSeqProperties
<1>2. y \in Seq(S) /\ Len(y) = n /\ \A i \in 1 .. n : y[i] = b[i]
  BY SubSeqProperties
<1> HIDE DEF x, y
<1>3. ASSUME Agree(a, b, n) PROVE x = y
  <2>1. \A i \in 1 .. n : x[i] = y[i]
    BY <1>1, <1>2, <1>3 DEF Agree
  <2> QED BY <1>1, <1>2, <2>1, SeqEqual
<1>4. ASSUME x = y PROVE Agree(a, b, n)
  BY <1>1, <1>2, <1>4 DEF Agree
<1> QED BY <1>1, <1>3, <1>4 DEF x, y

\* The MACs that are left when the first g of the n whole chunks have been matched.
LeftOver(expected, file, c, n, g) ==
    /\ expected \in Seq(MacTags) /\ g \in 0 .. n /\ Len(expected) = (n + 1) - g
    /\ n * c <= Len(file) /\ Len(file) < n * c + c
    /\ \A j \in 1 .. (n + 1) - g :
         expected[j] = MacOf(IF g + j <= n THEN SubSeq(file, 1, (g + j) * c) ELSE file)

\* Of k whole chunks, the one after the first g is not that of the file.
Stuck(all, file, c, k, g) == g < k /\ ~Agree(all, file, (g + 1) * c)

LEMMA MacsOfFile ==
    ASSUME NEW file \in Seq(MacBytes), NEW c \in Nat \ {0}
    PROVE  \E n \in Nat : LeftOver(MacsOf(file, c), file, c, n, 0)
<1> DEFINE inc == NewIncremental(c)
           done == Update(inc, file)
<1>1. WellCut(inc, 0) /\ inc.seen = <<>> /\ inc.chunk = c
  <2>1. inc.seen = <<>> /\ inc.chunk = c /\ inc.unused = c /\ inc \in IncStates
    BY DEF NewIncremental, IncStates
  <2>2. Len(<<>>) = 0 * c + (c - c)
    OBVIOUS
  <2> QED BY <2>1, <2>2 DEF WellCut
<1> HIDE DEF inc
<1>2. PICK d \in Nat : /\ WellCut(done.inc, 0 + d) /\ done.inc.seen = inc.seen \o file
                      /\ done.inc.chunk = inc.chunk
                      /\ ChunkMacs(done.macs, d, inc.seen \o file, inc.chunk, 0)
  <2>1. 0 \in Nat
    OBVIOUS
  <2> QED BY <1>1, <2>1, UpdateGives
<1> HIDE DEF done
<1>3. 0 + d = d /\ inc.seen \o file = file
  BY <1>1
<1>4. /\ done.inc.seen = file /\ done.inc.chunk = c /\ WellCut(done.inc, d)
      /\ ChunkMacs(done.macs, d, file, c, 0)
  BY <1>1, <1>2, <1>3
<1>5. d * c <= Len(file) /\ Len(file) < d * c + c
  <2>1. PICK u \in 1 .. c : Len(file) = d * c + (c - u)
    BY <1>4 DEF WellCut
  <2>2. d * c \in Nat
    OBVIOUS
  <2> QED BY <2>1, <2>2
<1>6. MacsOf(file, c) = Append(done.macs, MacOf(file))
  BY <1>4 DEF MacsOf, done, inc
<1>7. MacOf(file) \in MacTags
  BY DEF MacOf, MacTags
<1>8. done.macs \in Seq(MacTags) /\ Len(done.macs) = d
  BY <1>4 DEF ChunkMacs
<1>9. PICK macs \in Seq(MacTags) : macs = done.macs
  BY <1>8
<1>10. PICK y \in MacTags : y = MacOf(file)
  BY <1>7
<1>11. /\ Append(macs, y) \in Seq(MacTags) /\ Len(Append(macs, y)) = d + 1
       /\ \A j \in 1 .. d : Append(macs, y)[j] = macs[j]
       /\ Append(macs, y)[d + 1] = y
  BY <1>8, <1>9, AppendProperties
<1>12. PICK expected : expected = MacsOf(file, c)
  OBVIOUS
<1>13. /\ expected \in Seq(MacTags) /\ Len(expected) = d + 1
       /\ \A j \in 1 .. d : expected[j] = macs[j]
       /\ expected[d + 1] = MacOf(file)
  BY <1>6, <1>9, <1>10, <1>11, <1>12
<1>14. ASSUME NEW j \in 1 .. (d + 1) - 0
       PROVE  expected[j] = MacOf(IF 0 + j <= d THEN SubSeq(file, 1, (0 + j) * c) ELSE file)
  <2>1. CASE j <= d
    <3>1. j \in 1 .. d /\ 0 + j = j
      BY <2>1
    <3>2. macs[j] = MacOf(SubSeq(file, 1, (0 + j) * c))
      BY <1>4, <1>9, <3>1 DEF ChunkMacs
    <3> QED BY <1>13, <3>1, <3>2
  <2>2. CASE ~(j <= d)
    <3>1. j = d + 1 /\ ~(0 + j <= d)
      BY <2>2
    <3> QED BY <1>13, <3>1
  <2> QED BY <2>1, <2>2
<1>15. LeftOver(expected, file, c, d, 0)
  <2>1. 0 \in 0 .. d /\ (d + 1) - 0 = d + 1
    OBVIOUS
  <2> QED BY <1>5, <1>13, <1>14, <2>1 DEF LeftOver
<1> QED BY <1>12, <1>15

MatchStates == [expected : Seq(MacTags), whole : Nat, ok : BOOLEAN]

LEMMA MatchType ==
    ASSUME NEW st \in MatchStates, NEW mac
    PROVE  Match(st, mac) \in MatchStates
<1>1. st.expected \in Seq(MacTags) /\ st.whole \in Nat /\ st.ok \in BOOLEAN
  BY DEF MatchStates
<1>2. CASE st.expected # <<>> /\ Head(st.expected) = mac
  <2>1. Match(st, mac) = [st EXCEPT !.expected = Tail(st.expected), !.whole = st.whole + 1]
    BY <1>2 DEF Match
  <2>2. Tail(st.expected) \in Seq(MacTags) /\ st.whole + 1 \in Nat
    BY <1>1, <1>2, HeadTailProperties
  <2> QED BY <1>1, <2>1, <2>2 DEF MatchStates
<1>3. CASE ~(st.expected # <<>> /\ Head(st.expected) = mac)
  <2>1. Match(st, mac) = [st EXCEPT !.ok = FALSE]
    BY <1>3 DEF Match
  <2> QED BY <1>1, <2>1 DEF MatchStates
<1> QED BY <1>2, <1>3

\* next is what one more MAC makes of st.
MatchNext(next, st, all, file, c, n, k, g) ==
    \/ /\ k = g /\ Agree(all, file, (g + 1) * c)
       /\ LeftOver(next.expected, file, c, n, g + 1)
       /\ next.whole = st.whole + 1 /\ next.ok = st.ok
    \/ /\ Stuck(all, file, c, k + 1, g)
       /\ next.expected = st.expected /\ next.whole = st.whole /\ ~next.ok

\* One more MAC: it is the next one of the file, or the receiver is stuck from then on.
LEMMA MatchStep ==
    ASSUME NEW c \in Nat \ {0}, NEW n \in Nat, NEW k \in Nat, NEW g \in Nat,
           NEW all \in Seq(MacBytes), NEW file \in Seq(MacBytes), NEW st \in MatchStates,
           LeftOver(st.expected, file, c, n, g), (k + 1) * c <= Len(all),
           k = g \/ Stuck(all, file, c, k, g)
    PROVE  MatchNext(Match(st, MacOf(SubSeq(all, 1, (k + 1) * c))), st, all, file, c, n, k, g)
<1> DEFINE mac == MacOf(SubSeq(all, 1, (k + 1) * c))
           next == Match(st, mac)
           h == IF g + 1 <= n THEN SubSeq(file, 1, (g + 1) * c) ELSE file
<1>1. /\ st.expected \in Seq(MacTags) /\ g \in 0 .. n /\ Len(st.expected) = (n + 1) - g
      /\ n * c <= Len(file) /\ Len(file) < n * c + c
      /\ \A j \in 1 .. (n + 1) - g :
           st.expected[j] = MacOf(IF g + j <= n THEN SubSeq(file, 1, (g + j) * c) ELSE file)
  BY DEF LeftOver
<1>2. /\ (k + 1) * c \in Nat /\ (g + 1) * c \in Nat /\ n * c \in Nat /\ (n + 1) * c = n * c + c
      /\ (g + 1 <= n <=> (g + 1) * c <= n * c)
      /\ ((k + 1) * c <= (g + 1) * c <=> k + 1 <= g + 1)
      /\ (n + 1 <= g + 1 <=> (n + 1) * c <= (g + 1) * c)
  <2>1. k + 1 \in Nat /\ g + 1 \in Nat /\ n + 1 \in Nat
    OBVIOUS
  <2>2. (k + 1) * c \in Nat /\ ((k + 1) * c <= (g + 1) * c <=> k + 1 <= g + 1)
    BY <2>1, MultipleSteps
  <2>3. (g + 1) * c \in Nat /\ (g + 1 <= n <=> (g + 1) * c <= n * c)
    BY <2>1, MultipleSteps
  <2>4. n * c \in Nat /\ (n + 1) * c = n * c + c
    BY MultipleSteps
  <2>5. n + 1 <= g + 1 <=> (n + 1) * c <= (g + 1) * c
    BY <2>1, MultipleSteps
  <2> QED BY <2>2, <2>3, <2>4, <2>5
<1>3. st.expected # <<>> /\ Head(st.expected) = MacOf(h)
  <2>1. 1 \in 1 .. (n + 1) - g /\ Len(st.expected) # 0
    BY <1>1
  <2>2. st.expected[1] = MacOf(h)
    BY <1>1, <2>1
  <2>3. st.expected # <<>> /\ Head(st.expected) = st.expected[1]
    <3> HIDE DEF h
    <3> QED BY <1>1, <2>1
  <2> QED BY <2>2, <2>3
<1>4. /\ SubSeq(all, 1, (k + 1) * c) \in Seq(MacBytes)
      /\ Len(SubSeq(all, 1, (k + 1) * c)) = (k + 1) * c
  <2>1. PICK m \in Nat : m = (k + 1) * c
    BY <1>2
  <2>2. \A i \in 1 .. m : all[i] \in MacBytes
    BY <2>1
  <2>3. SubSeq(all, 1, m) \in Seq(MacBytes) /\ Len(SubSeq(all, 1, m)) = m
    BY <2>2, SubSeqProperties
  <2> QED BY <2>1, <2>3
<1>5. mac = MacOf(h) <=> SubSeq(all, 1, (k + 1) * c) = h
  <2> HIDE DEF h
  <2> QED BY DEF MacOf
<1>6. g + 1 <= n => Len(h) = (g + 1) * c /\ (g + 1) * c <= Len(file)
  <2> SUFFICES ASSUME g + 1 <= n PROVE Len(h) = (g + 1) * c /\ (g + 1) * c <= Len(file)
    OBVIOUS
  <2>1. PICK m \in Nat : m = (g + 1) * c
    BY <1>2
  <2>2. m <= Len(file)
    <3>1. PICK q \in Nat : q = n * c
      BY <1>2
    <3>2. m <= q
      BY <1>2, <2>1, <3>1
    <3>3. q <= Len(file)
      BY <1>1, <3>1
    <3> QED BY <3>2, <3>3
  <2>3. Len(SubSeq(file, 1, m)) = m
    BY <2>2, AgreeSubSeq
  <2> QED BY <2>1, <2>2, <2>3
<1>7. ~(g + 1 <= n) => h = file /\ Len(h) < (g + 1) * c
  <2> SUFFICES ASSUME ~(g + 1 <= n) PROVE h = file /\ Len(h) < (g + 1) * c
    OBVIOUS
  <2>1. g = n
    BY <1>1
  <2> QED BY <1>1, <1>2, <2>1
<1>8. ASSUME mac = MacOf(h)
      PROVE  k = g /\ g + 1 <= n /\ Agree(all, file, (g + 1) * c)
  <2>1. Len(h) = (k + 1) * c
    BY <1>4, <1>5, <1>8
  <2>2. (k + 1) * c <= (g + 1) * c
    <3> HIDE DEF h
    <3> QED BY <1>2, <1>6, <1>7, <2>1
  <2>3. k <= g
    BY <1>2, <2>2
  <2>4. k = g
    BY <2>3 DEF Stuck
  <2>5. g + 1 <= n
    <3> HIDE DEF h
    <3> QED BY <1>2, <1>7, <2>1, <2>4
  <2>6. PICK m \in Nat : m = (g + 1) * c
    BY <1>2
  <2>7. SubSeq(all, 1, m) = SubSeq(file, 1, m) /\ m <= Len(all) /\ m <= Len(file)
    BY <1>5, <1>6, <1>8, <2>4, <2>5, <2>6
  <2>8. Agree(all, file, m)
    BY <2>7, AgreeSubSeq
  <2> QED BY <2>4, <2>5, <2>6, <2>8
<1>9. ASSUME mac # MacOf(h)
      PROVE  Stuck(all, file, c, k + 1, g)
  <2>1. CASE k = g
    <3>1. ASSUME Agree(all, file, (g + 1) * c) PROVE FALSE
      <4>1. PICK m \in Nat : m = (g + 1) * c
        BY <1>2
      <4>2. m <= Len(file) /\ m <= Len(all)
        BY <3>1, <4>1 DEF Agree
      <4>3. g + 1 <= n
        <5> SUFFICES ASSUME ~(g + 1 <= n) PROVE FALSE
          OBVIOUS
        <5>1. h = file /\ Len(h) < (g + 1) * c
          BY <1>7
        <5> HIDE DEF h
        <5> QED BY <4>1, <4>2, <5>1
      <4>4. SubSeq(all, 1, m) = SubSeq(file, 1, m)
        BY <3>1, <4>1, <4>2, AgreeSubSeq
      <4> QED BY <1>5, <1>9, <2>1, <4>1, <4>3, <4>4
    <3> QED BY <2>1, <3>1 DEF Stuck
  <2>2. CASE Stuck(all, file, c, k, g)
    BY <2>2 DEF Stuck
  <2> QED BY <2>1, <2>2
<1>10. CASE mac = MacOf(h)
  <2>1. k = g /\ g + 1 <= n /\ Agree(all, file, (g + 1) * c)
    BY <1>8, <1>10
  <2> HIDE DEF mac, h
  <2>2. next = [st EXCEPT !.expected = Tail(st.expected), !.whole = st.whole + 1]
    BY <1>3, <1>10 DEF Match
  <2>3. next.expected = Tail(st.expected) /\ next.whole = st.whole + 1 /\ next.ok = st.ok
    BY <2>2 DEF MatchStates
  <2> HIDE DEF next
  <2>4. /\ Tail(st.expected) \in Seq(MacTags) /\ Len(Tail(st.expected)) = (n + 1) - (g + 1)
        /\ \A j \in 1 .. (n + 1) - (g + 1) : Tail(st.expected)[j] = st.expected[j + 1]
    <3>1. PICK e \in Seq(MacTags) : e = st.expected
      BY <1>1
    <3>2. /\ Tail(e) \in Seq(MacTags) /\ Len(Tail(e)) = Len(e) - 1
          /\ \A i \in 1 .. Len(Tail(e)) : Tail(e)[i] = e[i + 1]
      BY <1>3, <3>1, HeadTailProperties
    <3>3. ((n + 1) - g) - 1 = (n + 1) - (g + 1)
      OBVIOUS
    <3> QED BY <1>1, <3>1, <3>2, <3>3
  <2>5. ASSUME NEW j \in 1 .. (n + 1) - (g + 1)
        PROVE  Tail(st.expected)[j]
                 = MacOf(IF (g + 1) + j <= n THEN SubSeq(file, 1, ((g + 1) + j) * c) ELSE file)
    <3>1. j + 1 \in 1 .. (n + 1) - g /\ g + (j + 1) = (g + 1) + j
      BY <2>1
    <3>2. st.expected[j + 1] = MacOf(IF g + (j + 1) <= n THEN SubSeq(file, 1, (g + (j + 1)) * c) ELSE file)
      BY <1>1, <3>1
    <3> QED BY <2>4, <3>1, <3>2
  <2>6. LeftOver(next.expected, file, c, n, g + 1)
    <3>1. g + 1 \in 0 .. n
      BY <2>1
    <3> QED BY <1>1, <2>3, <2>4, <2>5, <3>1 DEF LeftOver
  <2> QED BY <2>1, <2>3, <2>6 DEF next, mac, MatchNext
<1>11. CASE mac # MacOf(h)
  <2>1. Stuck(all, file, c, k + 1, g)
    BY <1>9, <1>11
  <2> HIDE DEF mac, h
  <2>2. next = [st EXCEPT !.ok = FALSE]
    BY <1>3, <1>11 DEF Match
  <2>3. next.expected = st.expected /\ next.whole = st.whole /\ ~next.ok
    BY <2>2 DEF MatchStates
  <2> QED BY <2>1, <2>3 DEF mac, next, MatchNext
<1> QED BY <1>10, <1>11

LEMMA AgreeShorter ==
    ASSUME NEW a, NEW b, NEW m \in Nat, NEW n \in Nat, m <= n, Agree(a, b, n), Len(a) \in Nat, Len(b) \in Nat
    PROVE  Agree(a, b, m)
BY DEF Agree

\* found is what the MACs of d more chunks leave: w chunks are matched.
Matched(found, all, file, c, n, k, g, d, w) ==
    /\ g <= w /\ Agree(all, file, w * c) /\ LeftOver(found.expected, file, c, n, w)
    /\ \/ k = g /\ w = k + d /\ found.ok /\ found.whole = d
       \/ Stuck(all, file, c, k + d, w) /\ (found.ok => found.whole = 0)

\* The MACs of a piece: as long as the receiver is not stuck they are those of the file.
LEMMA MatchGives ==
    ASSUME NEW c \in Nat \ {0}, NEW n \in Nat, NEW k \in Nat, NEW g \in Nat, NEW d \in Nat,
           NEW all \in Seq(MacBytes), NEW file \in Seq(MacBytes), NEW expected, NEW macs,
           LeftOver(expected, file, c, n, g), ChunkMacs(macs, d, all, c, k),
           Agree(all, file, g * c), k = g \/ Stuck(all, file, c, k, g)
    PROVE  \E w \in Nat :
              Matched(MatchAll([expected |-> expected, whole |-> 0, ok |-> TRUE], macs),
                      all, file, c, n, k, g, d, w)
<1> DEFINE base == [expected |-> expected, whole |-> 0, ok |-> TRUE]
<1>1. base \in MatchStates
  BY DEF LeftOver, MatchStates
<1>2. macs \in Seq(MacTags) /\ DOMAIN macs = 1 .. d
  BY DEF ChunkMacs
<1>3. \A x \in MatchStates : \A i \in 1 .. d : Match(x, macs[i]) \in MatchStates
  BY MatchType
<1>4. PICK f : MatchRun(f, MatchStates, base, macs, d)
  <2> HIDE DEF base
  <2> QED BY <1>1, <1>2, <1>3, MatchFold
<1>5. /\ f \in [0 .. d -> MatchStates] /\ f[0] = base
      /\ \A i \in 1 .. d : f[i] = Match(f[i - 1], macs[i])
      /\ MatchAll(base, macs) = f[d]
  <2> HIDE DEF base
  <2> QED BY <1>4 DEF MatchRun
<1> DEFINE Upto(st, i, w) ==
             /\ g <= w /\ Agree(all, file, w * c) /\ LeftOver(st.expected, file, c, n, w)
             /\ \/ k = g /\ w = k + i /\ st.ok /\ st.whole = i
                \/ Stuck(all, file, c, k + i, w) /\ (st.ok => st.whole = 0)
           D == {i \in Nat : i <= d => \E w \in Nat : Upto(f[i], i, w)}
<1>6. 0 \in D
  <2>1. f[0].expected = expected /\ f[0].whole = 0 /\ f[0].ok /\ k + 0 = k /\ g <= g
    BY <1>5
  <2>2. Upto(f[0], 0, g)
    BY <2>1
  <2> HIDE DEF Upto
  <2> QED BY <2>2
<1> HIDE DEF base
<1>7. ASSUME NEW i \in Nat, i \in D
      PROVE  i + 1 \in D
  <2> SUFFICES ASSUME i + 1 <= d PROVE \E w \in Nat : Upto(f[i + 1], i + 1, w)
    <3> HIDE DEF Upto
    <3> QED OBVIOUS
  <2>1. PICK w \in Nat : Upto(f[i], i, w)
    <3>1. i <= d
      OBVIOUS
    <3> HIDE DEF Upto
    <3> QED BY <1>7, <3>1
  <2>2. i + 1 \in 1 .. d /\ (i + 1) - 1 = i /\ i \in 0 .. d /\ i + 1 \in 0 .. d
    OBVIOUS
  <2>3. f[i + 1] = Match(f[i], macs[i + 1])
    BY <1>5, <2>2
  <2>4. (k + (i + 1)) * c <= Len(all) /\ macs[i + 1] = MacOf(SubSeq(all, 1, (k + (i + 1)) * c))
    BY <2>2 DEF ChunkMacs
  <2>5. k + (i + 1) = (k + i) + 1 /\ k + i \in Nat
    OBVIOUS
  <2>6. PICK st \in MatchStates : st = f[i]
    BY <1>5, <2>2
  <2>7. PICK next : next = f[i + 1]
    OBVIOUS
  <2>8. Upto(st, i, w)
    BY <2>1, <2>6
  <2>9. next = Match(st, MacOf(SubSeq(all, 1, ((k + i) + 1) * c))) /\ ((k + i) + 1) * c <= Len(all)
    BY <2>3, <2>4, <2>5, <2>6, <2>7
  <2>10. k + i = w \/ Stuck(all, file, c, k + i, w)
    BY <2>8
  <2>11. \/ /\ k + i = w /\ Agree(all, file, (w + 1) * c)
            /\ LeftOver(next.expected, file, c, n, w + 1)
            /\ next.whole = st.whole + 1 /\ next.ok = st.ok
         \/ /\ Stuck(all, file, c, (k + i) + 1, w)
            /\ next.expected = st.expected /\ next.whole = st.whole /\ ~next.ok
    <3>1. LeftOver(st.expected, file, c, n, w)
      BY <2>8
    <3> HIDE DEF Upto, D
    <3>2. PICK j \in Nat : j = k + i
      BY <2>5
    <3>3. j = w \/ Stuck(all, file, c, j, w)
      BY <2>10, <3>2
    <3>4. next = Match(st, MacOf(SubSeq(all, 1, (j + 1) * c))) /\ (j + 1) * c <= Len(all)
      BY <2>9, <3>2
    <3>5. MatchNext(next, st, all, file, c, n, j, w)
      BY <3>1, <3>3, <3>4, MatchStep
    <3> QED BY <3>2, <3>5 DEF MatchNext
  <2>12. CASE /\ k + i = w /\ Agree(all, file, (w + 1) * c)
              /\ LeftOver(next.expected, file, c, n, w + 1)
              /\ next.whole = st.whole + 1 /\ next.ok = st.ok
    <3>1. ~Stuck(all, file, c, k + i, w)
      BY <2>12 DEF Stuck
    <3>2. k = g /\ st.ok /\ st.whole = i
      BY <2>8, <3>1
    <3>3. g <= w + 1 /\ w + 1 = k + (i + 1)
      BY <2>5, <2>8, <2>12
    <3>4. Upto(next, i + 1, w + 1)
      BY <2>12, <3>2, <3>3
    <3> HIDE DEF Upto
    <3> QED BY <2>7, <3>4
  <2>13. CASE /\ Stuck(all, file, c, (k + i) + 1, w)
              /\ next.expected = st.expected /\ next.whole = st.whole /\ ~next.ok
    <3>1. Upto(next, i + 1, w)
      BY <2>5, <2>8, <2>13
    <3> HIDE DEF Upto
    <3> QED BY <2>7, <3>1
  <2> QED BY <2>11, <2>12, <2>13
<1>8. \A i \in Nat : i \in D
  <2> HIDE DEF D
  <2> QED BY <1>6, <1>7, SetInduction
<1>9. \E w \in Nat : Upto(f[d], d, w)
  <2>1. d \in D
    BY <1>8
  <2> HIDE DEF Upto
  <2> QED BY <2>1
<1> QED BY <1>5, <1>9 DEF base, Matched

-----------------------------------------------------------------------------
(* The inductive invariant                                                 *)

\* The receiver has seen k whole chunks, and matched the first g of the n of the file:
\* all of its own, or it is stuck at one that is not the file's.
MacReading(n, k, g) ==
    LET fed == macReader.inc.seen
        c == macReader.inc.chunk
    IN  /\ WellCut(macReader.inc, k)
        /\ LeftOver(macReader.expected, macFile, c, n, g) /\ Agree(fed, macFile, g * c)
        /\ \/ k = g /\ ~macFailed /\ (macEnd # "done" => macGood = g * c)
           \/ Stuck(fed, macFile, c, k, g) /\ macGood <= g * c
        /\ macEnd = "done" => fed = macFile /\ macGood = Len(macFile)
        /\ macEnd = "refused" => fed # macFile

MacInv ==
    /\ macFile \in Seq(MacBytes) /\ macGood \in Nat /\ macFailed \in BOOLEAN
    /\ macEnd \in {"open", "done", "refused"}
    /\ \E n, k, g \in Nat : MacReading(n, k, g)

MacSpec == MacInit /\ [][MacNext]_macVars

LEMMA BytesSequence ==
    ASSUME NEW m \in Nat, NEW bytes \in BoundedSeq(MacBytes, m)
    PROVE  bytes \in Seq(MacBytes)
<1>1. PICK i \in 0 .. m : bytes \in [1 .. i -> MacBytes]
  BY DEF BoundedSeq, SeqOf
<1> QED BY <1>1, AsSequence

LEMMA MacInitInv == MacInit => MacInv
<1> SUFFICES ASSUME MacInit PROVE MacInv
  OBVIOUS
<1>1. macFile \in Seq(MacBytes) /\ macGood = 0 /\ macFailed = FALSE /\ macEnd = "open"
  BY BytesSequence, MacAssumption DEF MacInit
<1>2. PICK c \in 1 .. MaxChunk :
         macReader = [inc |-> NewIncremental(c), expected |-> MacsOf(macFile, c)]
  BY DEF MacInit
<1>3. c \in Nat \ {0}
  BY MacAssumption
<1>4. PICK n \in Nat : LeftOver(MacsOf(macFile, c), macFile, c, n, 0)
  BY <1>1, <1>3, MacsOfFile
<1>5. WellCut(NewIncremental(c), 0) /\ NewIncremental(c).seen = <<>> /\ NewIncremental(c).chunk = c
  <2>1. /\ NewIncremental(c).seen = <<>> /\ NewIncremental(c).chunk = c /\ NewIncremental(c).unused = c
        /\ NewIncremental(c) \in IncStates
    BY <1>3 DEF NewIncremental, IncStates
  <2>2. Len(<<>>) = 0 * c + (c - c)
    BY <1>3
  <2> QED BY <1>3, <2>1, <2>2 DEF WellCut
<1>6. 0 * c = 0 /\ Agree(<<>>, macFile, 0 * c)
  BY <1>1, <1>3 DEF Agree
<1>7. MacReading(n, 0, 0)
  BY <1>1, <1>2, <1>4, <1>5, <1>6 DEF MacReading
<1> QED BY <1>1, <1>7 DEF MacInv

LEMMA FeedKeeps ==
    ASSUME MacInv, NEW bytes \in Seq(MacBytes), Feed(bytes)
    PROVE  MacInv'
<1> DEFINE inc == macReader.inc
           fed == inc.seen
           c == inc.chunk
           all == fed \o bytes
           done == Update(inc, bytes)
           found == MatchAll([expected |-> macReader.expected, whole |-> 0, ok |-> TRUE], done.macs)
<1>1. PICK n \in Nat, k \in Nat, g \in Nat : MacReading(n, k, g)
  BY DEF MacInv
<1>2. /\ WellCut(inc, k) /\ LeftOver(macReader.expected, macFile, c, n, g) /\ Agree(fed, macFile, g * c)
      /\ \/ k = g /\ ~macFailed /\ (macEnd # "done" => macGood = g * c)
         \/ Stuck(fed, macFile, c, k, g) /\ macGood <= g * c
  BY <1>1 DEF MacReading
<1>3. /\ macFile \in Seq(MacBytes) /\ macGood \in Nat /\ macFailed \in BOOLEAN /\ macEnd = "open"
      /\ macFile' = macFile /\ macEnd' = macEnd
  BY DEF MacInv, Feed
<1>4. /\ inc \in IncStates /\ c \in Nat \ {0} /\ fed \in Seq(MacBytes) /\ all \in Seq(MacBytes)
      /\ Len(all) = Len(fed) + Len(bytes) /\ k * c <= Len(fed) /\ k * c \in Nat
      /\ \A i \in 1 .. Len(fed) : all[i] = fed[i]
  <2>1. inc \in IncStates /\ c \in Nat \ {0} /\ fed \in Seq(MacBytes)
    BY <1>2 DEF WellCut, IncStates
  <2>2. PICK u \in 1 .. c : Len(fed) = k * c + (c - u)
    BY <1>2 DEF WellCut
  <2>3. k * c \in Nat
    BY <2>1
  <2>4. k * c <= Len(fed)
    BY <2>1, <2>2, <2>3
  <2> HIDE DEF fed
  <2> QED BY <2>1, <2>3, <2>4
<1>5. /\ macReader' = [inc |-> done.inc, expected |-> found.expected]
      /\ macGood' = macGood + (IF found.ok THEN found.whole * c ELSE 0)
      /\ macFailed' = (macFailed \/ ~found.ok)
  BY DEF Feed, ValidatingUpdate, MatchAll
<1>6. PICK d \in Nat : /\ WellCut(done.inc, k + d) /\ done.inc.seen = all /\ done.inc.chunk = c
                      /\ ChunkMacs(done.macs, d, all, c, k)
  <2> HIDE DEF inc
  <2> QED BY <1>2, UpdateGives
<1> HIDE DEF inc, fed, c, all, done
<1>7. Agree(all, macFile, g * c) /\ g * c \in Nat
  BY <1>2, <1>3, <1>4 DEF Agree
<1>8. Stuck(fed, macFile, c, k, g) => Stuck(all, macFile, c, k, g)
  <2> SUFFICES ASSUME Stuck(fed, macFile, c, k, g), Agree(all, macFile, (g + 1) * c) PROVE FALSE
    BY DEF Stuck
  <2>1. g + 1 <= k /\ g + 1 \in Nat
    BY DEF Stuck
  <2>2. (g + 1) * c \in Nat /\ (g + 1) * c <= k * c
    BY <1>4, <2>1, MultipleSteps
  <2>3. PICK m \in Nat : m = (g + 1) * c
    BY <2>2
  <2>4. m <= Len(fed)
    <3>1. PICK q \in Nat : q = k * c
      BY <1>4
    <3>2. m <= q /\ q <= Len(fed) /\ Len(fed) \in Nat
      BY <1>4, <2>2, <2>3, <3>1
    <3> QED BY <3>2
  <2>5. Agree(fed, macFile, m)
    BY <1>3, <1>4, <2>3, <2>4 DEF Agree
  <2> QED BY <2>3, <2>5 DEF Stuck
<1>9. \E w \in Nat : Matched(found, all, macFile, c, n, k, g, d, w)
  BY <1>2, <1>3, <1>4, <1>6, <1>7, <1>8, MatchGives
<1> HIDE DEF found
<1>10. PICK w \in Nat :
         /\ g <= w /\ Agree(all, macFile, w * c) /\ LeftOver(found.expected, macFile, c, n, w)
         /\ \/ k = g /\ w = k + d /\ found.ok /\ found.whole = d
            \/ Stuck(all, macFile, c, k + d, w) /\ (found.ok => found.whole = 0)
  BY <1>9 DEF Matched
<1>11. /\ macReader'.inc = done.inc /\ macReader'.expected = found.expected
       /\ macReader'.inc.seen = all /\ macReader'.inc.chunk = c
  BY <1>5, <1>6
<1>12. w * c \in Nat /\ g * c <= w * c
  BY <1>4, <1>10, MultipleSteps
<1>13. macGood <= g * c
  BY <1>2, <1>3, <1>7
<1>14. \/ /\ w = k + d /\ ~macFailed' /\ macGood' = w * c
       \/ /\ Stuck(all, macFile, c, k + d, w) /\ macGood' = macGood
  <2>1. CASE Stuck(all, macFile, c, k + d, w) /\ (found.ok => found.whole = 0)
    <3>1. (IF found.ok THEN found.whole * c ELSE 0) = 0
      BY <1>4, <2>1
    <3> QED BY <1>3, <1>5, <2>1, <3>1
  <2>2. CASE k = g /\ w = k + d /\ found.ok /\ found.whole = d
    <3>1. ~macFailed /\ macGood = g * c
      BY <1>2, <1>3, <2>2 DEF Stuck
    <3>2. macGood' = k * c + d * c
      BY <1>5, <2>2, <3>1
    <3>3. k * c + d * c = (k + d) * c
      BY <1>4
    <3> QED BY <1>5, <2>2, <3>1, <3>2, <3>3
  <2> QED BY <1>10, <2>1, <2>2
<1>15. k + d \in Nat /\ macGood' \in Nat /\ macFailed' \in BOOLEAN
  BY <1>3, <1>5, <1>12, <1>14
<1>16. macGood' <= w * c
  BY <1>3, <1>7, <1>12, <1>13, <1>14
<1>17. MacReading(n, k + d, w)'
  <2>1. WellCut(macReader'.inc, k + d)
    BY <1>6, <1>11
  <2>2. /\ LeftOver(macReader'.expected, macFile', macReader'.inc.chunk, n, w)
        /\ Agree(macReader'.inc.seen, macFile', w * macReader'.inc.chunk)
    BY <1>3, <1>10, <1>11
  <2>3. \/ k + d = w /\ ~macFailed' /\ (macEnd' # "done" => macGood' = w * macReader'.inc.chunk)
        \/ Stuck(macReader'.inc.seen, macFile', macReader'.inc.chunk, k + d, w) /\ macGood' <= w * macReader'.inc.chunk
    BY <1>3, <1>11, <1>14, <1>16
  <2> QED BY <1>3, <2>1, <2>2, <2>3 DEF MacReading
<1>18. macFile' \in Seq(MacBytes) /\ macEnd' \in {"open", "done", "refused"}
  BY <1>3
<1> QED BY <1>15, <1>17, <1>18 DEF MacInv

\* Validating::finalize: the one MAC that may be left is that of the whole file.
LEMMA FinishKeeps ==
    ASSUME MacInv, Finish
    PROVE  MacInv'
<1> DEFINE inc == macReader.inc
           fed == inc.seen
           c == inc.chunk
<1>1. PICK n \in Nat, k \in Nat, g \in Nat : MacReading(n, k, g)
  BY DEF MacInv
<1>2. /\ WellCut(inc, k) /\ LeftOver(macReader.expected, macFile, c, n, g) /\ Agree(fed, macFile, g * c)
      /\ \/ k = g /\ ~macFailed /\ (macEnd # "done" => macGood = g * c)
         \/ Stuck(fed, macFile, c, k, g) /\ macGood <= g * c
  BY <1>1 DEF MacReading
<1>3. /\ macFile \in Seq(MacBytes) /\ macGood \in Nat /\ macFailed \in BOOLEAN /\ macEnd = "open"
      /\ macFile' = macFile /\ macReader' = macReader /\ macFailed' = macFailed
  BY DEF MacInv, Finish
<1>4. PICK u \in 1 .. c : u = inc.unused /\ Len(fed) = k * c + (c - u)
  BY <1>2 DEF WellCut
<1>5. c \in Nat \ {0} /\ fed \in Seq(MacBytes)
  BY <1>2 DEF WellCut, IncStates
<1> DEFINE ok == macReader.expected = <<MacOf(fed)>>
<1>6. /\ macEnd' = IF ok THEN "done" ELSE "refused"
      /\ macGood' = macGood + (IF ok THEN c - u ELSE 0)
  BY <1>4 DEF Finish, ValidatingFinalize, PendingBytesSize
<1>7. /\ macReader.expected \in Seq(MacTags) /\ g \in 0 .. n /\ Len(macReader.expected) = (n + 1) - g
      /\ n * c <= Len(macFile) /\ Len(macFile) < n * c + c
      /\ \A j \in 1 .. (n + 1) - g :
           macReader.expected[j] = MacOf(IF g + j <= n THEN SubSeq(macFile, 1, (g + j) * c) ELSE macFile)
  BY <1>2 DEF LeftOver
<1> HIDE DEF inc, fed, c
<1>8. PICK x \in Nat : x = k * c
  BY <1>5, MultipleSteps
\* What is left when all whole chunks were matched.
<1>9. g = n => macReader.expected = <<MacOf(macFile)>>
  <2> SUFFICES ASSUME g = n PROVE macReader.expected = <<MacOf(macFile)>>
    OBVIOUS
  <2>1. Len(macReader.expected) = 1 /\ 1 \in 1 .. (n + 1) - g /\ ~(g + 1 <= n)
    BY <1>7
  <2>2. macReader.expected[1] = MacOf(macFile)
    BY <1>7, <2>1
  <2>3. PICK e \in Seq(MacTags) : e = macReader.expected
    BY <1>7
  <2>4. e = <<e[1]>>
    BY <2>1, <2>3
  <2> QED BY <2>2, <2>3, <2>4
<1>10. ASSUME fed = macFile
       PROVE  k = g /\ g = n /\ ~macFailed /\ macGood = g * c
  <2>1. /\ n * c \in Nat /\ (n + 1) * c = n * c + c /\ (k + 1) * c = k * c + c
        /\ (k < n + 1 <=> k * c < (n + 1) * c) /\ (n < k + 1 <=> n * c < (k + 1) * c)
    <3>1. k + 1 \in Nat /\ n + 1 \in Nat
      OBVIOUS
    <3> QED BY <1>5, <3>1, MultipleSteps
  <2>2. PICK y \in Nat : y = n * c
    BY <2>1
  <2>3. y <= x + (c - u) /\ x + (c - u) < y + c
    BY <1>4, <1>5, <1>7, <1>8, <1>10, <2>2
  <2>4. k * c < (n + 1) * c /\ n * c < (k + 1) * c
    BY <1>5, <1>8, <2>1, <2>2, <2>3
  <2>5. k = n
    BY <2>1, <2>4
  <2>6. ~Stuck(fed, macFile, c, k, g)
    <3> SUFFICES ASSUME g < k PROVE Agree(fed, macFile, (g + 1) * c)
      BY DEF Stuck
    <3>1. g + 1 <= k /\ g + 1 \in Nat
      OBVIOUS
    <3>2. (g + 1) * c \in Nat /\ (g + 1) * c <= k * c
      BY <1>5, <3>1, MultipleSteps
    <3>3. PICK m \in Nat : m = (g + 1) * c
      BY <3>2
    <3>4. m <= Len(fed)
      BY <1>4, <1>5, <1>8, <3>2, <3>3
    <3>5. Agree(fed, macFile, m)
      BY <1>5, <1>10, <3>4 DEF Agree
    <3> QED BY <3>3, <3>5
  <2> QED BY <1>2, <1>3, <2>5, <2>6
<1>11. ok <=> fed = macFile
  <2>1. ASSUME fed = macFile PROVE ok
    BY <1>9, <1>10, <2>1
  <2>2. ASSUME ok PROVE fed = macFile
    <3>1. Len(<<MacOf(fed)>>) = 1 /\ <<MacOf(fed)>>[1] = MacOf(fed)
      OBVIOUS
    <3>2. g = n
      BY <1>7, <2>2, <3>1
    <3>3. MacOf(macFile) = MacOf(fed)
      <4>1. <<MacOf(macFile)>> = <<MacOf(fed)>>
        BY <1>9, <2>2, <3>2
      <4> QED BY <4>1
    <3> QED BY <3>3 DEF MacOf
  <2> QED BY <2>1, <2>2
<1> HIDE DEF ok
<1>12. CASE fed = macFile
  <2>1. macGood = x /\ ok /\ k = g
    BY <1>8, <1>10, <1>11, <1>12
  <2>2. macGood' = Len(macFile) /\ macEnd' = "done"
    BY <1>4, <1>6, <1>8, <1>12, <2>1
  <2>3. macGood' \in Nat
    BY <1>3, <2>2
  <2>4. MacReading(n, k, g)'
    BY <1>2, <1>3, <1>10, <1>12, <2>1, <2>2 DEF MacReading, inc, fed, c
  <2> QED BY <1>3, <2>2, <2>3, <2>4 DEF MacInv
<1>13. CASE fed # macFile
  <2>1. ~ok
    BY <1>11, <1>13
  <2>2. macGood' = macGood /\ macEnd' = "refused"
    BY <1>3, <1>6, <2>1
  <2>3. MacReading(n, k, g)'
    BY <1>2, <1>3, <1>13, <2>2 DEF MacReading, inc, fed, c
  <2> QED BY <1>3, <2>2, <2>3 DEF MacInv
<1> QED BY <1>12, <1>13

LEMMA MacNextInv == MacInv /\ [MacNext]_macVars => MacInv'
<1> SUFFICES ASSUME MacInv, [MacNext]_macVars PROVE MacInv'
  OBVIOUS
<1>1. ASSUME NEW bytes \in BoundedSeq(MacBytes, MaxFed), Feed(bytes)
      PROVE  MacInv'
  <2>1. bytes \in Seq(MacBytes)
    BY BytesSequence, MacAssumption
  <2> QED BY <1>1, <2>1, FeedKeeps
<1>2. CASE Finish
  BY <1>2, FinishKeeps
<1>3. CASE UNCHANGED macVars
  BY <1>3 DEF MacInv, MacReading, macVars
<1> QED BY <1>1, <1>2, <1>3 DEF MacNext

LEMMA MacInvExact == MacInv => MacExact
<1> SUFFICES ASSUME MacInv PROVE MacExact
  OBVIOUS
<1> DEFINE fed == macReader.inc.seen
           c == macReader.inc.chunk
<1>1. PICK n \in Nat, k \in Nat, g \in Nat : MacReading(n, k, g)
  BY DEF MacInv
<1>2. /\ WellCut(macReader.inc, k) /\ Agree(fed, macFile, g * c)
      /\ \/ k = g /\ ~macFailed /\ (macEnd # "done" => macGood = g * c)
         \/ Stuck(fed, macFile, c, k, g) /\ macGood <= g * c
      /\ macEnd = "done" => fed = macFile /\ macGood = Len(macFile)
      /\ macEnd = "refused" => fed # macFile
  BY <1>1 DEF MacReading
<1>3. macFile \in Seq(MacBytes) /\ macGood \in Nat /\ macFailed \in BOOLEAN
  BY DEF MacInv
<1>4. /\ c \in Nat \ {0} /\ fed \in Seq(MacBytes)
      /\ \E u \in 1 .. c : Len(fed) = k * c + (c - u)
  BY <1>2 DEF WellCut, IncStates
<1> HIDE DEF fed, c
<1>5. g * c \in Nat /\ k * c \in Nat
  BY <1>4, MultipleSteps
<1>6. k * c <= Len(fed) /\ Len(fed) < k * c + c
  <2>1. PICK u \in 1 .. c : Len(fed) = k * c + (c - u)
    BY <1>4
  <2>2. PICK x \in Nat : x = k * c
    BY <1>5
  <2> QED BY <1>4, <2>1, <2>2
<1>7. Agree(fed, macFile, macGood)
  <2>1. CASE macEnd = "done"
    BY <1>2, <1>3, <2>1 DEF Agree
  <2>2. CASE macEnd # "done"
    <3>1. macGood <= g * c
      BY <1>2, <1>5, <2>2
    <3>2. PICK m \in Nat : m = g * c
      BY <1>5
    <3>3. Agree(fed, macFile, m) /\ macGood <= m
      BY <1>2, <3>1, <3>2
    <3> QED BY <1>3, <1>4, <3>3 DEF Agree
  <2> QED BY <2>1, <2>2
<1>8. macGood <= Len(macFile) /\ macGood <= Len(fed) /\ SubSeq(fed, 1, macGood) = SubSeq(macFile, 1, macGood)
  <2>1. macGood <= Len(macFile) /\ macGood <= Len(fed)
    BY <1>7 DEF Agree
  <2> QED BY <1>3, <1>4, <1>7, <2>1, AgreeSubSeq
<1>9. ASSUME IsPrefix(fed, macFile)
      PROVE  ~macFailed /\ (macEnd = "open" => macGood = (Len(fed) \div c) * c)
  <2>1. Len(fed) <= Len(macFile) /\ \A i \in 1 .. Len(fed) : fed[i] = macFile[i]
    BY <1>3, <1>4, <1>9, PrefixPointwise
  <2>2. ~Stuck(fed, macFile, c, k, g)
    <3> SUFFICES ASSUME g < k PROVE Agree(fed, macFile, (g + 1) * c)
      BY DEF Stuck
    <3>1. g + 1 <= k /\ g + 1 \in Nat
      OBVIOUS
    <3>2. (g + 1) * c \in Nat /\ (g + 1) * c <= k * c
      BY <1>4, <3>1, MultipleSteps
    <3>3. PICK m \in Nat : m = (g + 1) * c
      BY <3>2
    <3>4. m <= Len(fed)
      <4>1. PICK x \in Nat : x = k * c
        BY <1>5
      <4>2. m <= x /\ x <= Len(fed) /\ Len(fed) \in Nat
        BY <1>4, <1>6, <3>2, <3>3, <4>1
      <4> QED BY <4>2
    <3>5. Agree(fed, macFile, m)
      <4>1. Len(fed) \in Nat /\ Len(macFile) \in Nat
        BY <1>3, <1>4
      <4> QED BY <2>1, <3>4, <4>1 DEF Agree
    <3> QED BY <3>3, <3>5
  <2>3. k = g /\ ~macFailed /\ (macEnd # "done" => macGood = g * c)
    BY <1>2, <2>2
  <2>4. Len(fed) \div c = k
    <3>1. PICK m \in Nat : m = Len(fed)
      BY <1>4
    <3> QED BY <1>4, <1>6, <3>1, Quotient
  <2> QED BY <2>3, <2>4
<1> QED BY <1>2, <1>8, <1>9 DEF MacExact, fed, c

(* However the bytes of an attachment are cut, those the receiver is told  *)
(* are good are the first ones of the file that was sent, none of the      *)
(* file's own pieces is refused, each of its whole chunks is reported at   *)
(* once, and the receiver ends well exactly when it was given the file:    *)
(* Incremental::update, Validating::update and Validating::finalize.       *)
THEOREM MacSound == MacSpec => []MacExact
<1>1. MacInit => MacInv
  BY MacInitInv
<1>2. MacInv /\ [MacNext]_macVars => MacInv'
  BY MacNextInv
<1>3. MacInv => MacExact
  BY MacInvExact
<1> QED BY <1>1, <1>2, <1>3, PTL DEF MacSpec
=============================================================================
