---------------------------- MODULE SealedSender ----------------------------
(***************************************************************************)
(* Sealed sender: sealed_sender.rs.  A message travels without a visible   *)
(* sender; who sent it is a certificate inside.  Version 1 is sealed for   *)
(* one device; version 2 is one body and, for each account, the key of     *)
(* the body under a key agreement and a tag that proves who the sender is. *)
(* A service splits a version 2 message into what each device receives.    *)
(*                                                                         *)
(* Cryptography is symbolic.  A key pair is <<name, n>>, the n-th identity *)
(* of an account; an agreement is the set of the two keys; what is         *)
(* encrypted opens under an equal key only.  The inner message is that of  *)
(* the session protocol, and of that all that is used here is what         *)
(* SecureChannel states: its addressee opens it, once.                     *)
(***************************************************************************)
EXTENDS Address, Ordering, FiniteSets, SequencesExt

CONSTANTS
  Devices,            \* the devices there are: protocol addresses
  Sender,             \* the one that sends
  Peers,              \* the addresses it may be in contact with
  E164Of,             \* name -> phone number or None
  RegistrationId,     \* device -> registration id
  ServerCertificates, \* those the servers sign with: [id, key, signedBy]
  KnownCertificates,  \* KNOWN_SERVER_CERTIFICATES: id -> certificate
  RevokedIds,         \* REVOKED_SERVER_CERTIFICATE_KEY_IDS
  TrustRoots,         \* what the clients trust
  Destinations,       \* what a caller passes: [to, excluded], two sequences
  Contacts,           \* sets of addresses a run starts with a session to
  MaxTime, MaxCerts, MaxSeals, MaxChanges   \* bounds

ASSUME SealedSenderAssumption ==
  /\ Sender \in Devices /\ Peers \subseteq Devices
  /\ \A d \in Devices : d.name \in Texts /\ d.device \in DeviceIds
  /\ \A d, e \in Devices :   \* a name stands for an account
       ParseText(d.name) # None /\ ParseText(d.name) = ParseText(e.name) => d.name = e.name
  /\ RegistrationId \in [Devices -> Nat]
  /\ {MaxTime, MaxCerts, MaxSeals, MaxChanges} \subseteq Nat
  /\ \A id \in DOMAIN KnownCertificates : KnownCertificates[id] \in ServerCertificates
  /\ \A dest \in Destinations : dest.to \in Seq(Peers) /\ dest.excluded \in Seq(ServiceIds)

VARIABLES
  now,
  gen,        \* name -> the identity the account has at the moment
  known,      \* identity store of the sender: address -> key or None
  session,    \* its session records: address -> [registration, current] or None
  certs,      \* sender certificates issued to the sender
  sealed,     \* what was sealed, for whom and how; the network may deliver any of it
  read,       \* what sealed_sender_decrypt returned, by device
  changes     \* registrations, sessions established and archived; a bound only

vars == <<now, gen, known, session, certs, sealed, read, changes>>

Names == {d.name : d \in Devices}
Key(d) == <<d.name, gen[d.name]>>

-----------------------------------------------------------------------------
(* Certificates *)

(* An absent signer is a reference to a server certificate that the        *)
(* client does not have.                                                   *)
Signer(cert) ==
  CASE cert.signer.by = "embedded" -> cert.signer.certificate
    [] cert.signer.by = "reference" /\ cert.signer.id \in DOMAIN KnownCertificates ->
         KnownCertificates[cert.signer.id]
    [] OTHER -> None

ValidServerCertificate(server, root) ==
  server.id \notin RevokedIds /\ server.signedBy = root

ValidSenderCertificate(cert, roots, time) ==
  LET server == Signer(cert)
  IN  /\ server # None
      /\ \E root \in roots : ValidServerCertificate(server, root)
      /\ cert.signature = server.key
      /\ ~ (time > cert.expires)

SenderCertificate(d, signer, server, expires) ==
  [uuid |-> d.name, e164 |-> E164Of[d.name], device |-> d.device, key |-> Key(d),
   expires |-> expires, signer |-> signer, signature |-> server.key]

-----------------------------------------------------------------------------
(* Version 1 *)

Agreement(ours, theirs) == {ours, theirs}
Encrypted(key, body) == [key |-> key, body |-> body]

EphemeralKeys(ours, theirs, direction) ==
  [salt |-> IF direction = "Sending" THEN <<theirs, ours>> ELSE <<ours, theirs>>,
   secret |-> Agreement(ours, theirs)]

StaticKeys(ours, theirs, chainKey, ciphertext) ==
  [salt |-> <<chainKey, ciphertext>>, secret |-> Agreement(ours, theirs)]

V1Version == 17

SealForOne(ours, theirs, ephemeral, usmc) ==
  LET eph == EphemeralKeys(ephemeral, theirs, "Sending")
      static == Encrypted(eph, ours)
  IN  [version |-> V1Version, ephemeral |-> ephemeral, static |-> static,
       message |-> Encrypted(StaticKeys(ours, theirs, eph, static), usmc)]

Rejected == [ok |-> FALSE]
Opened(usmc) == [ok |-> TRUE, usmc |-> usmc]

(* mutant: the key in the certificate is not compared with the one used.   *)
UnsealOneAnyKey(ours, sealing) ==
  LET eph == EphemeralKeys(ours, sealing.ephemeral, "Receiving")
      theirs == sealing.static.body
  IN  IF /\ sealing.static.key = eph
         /\ sealing.message.key = StaticKeys(ours, theirs, eph, sealing.static)
      THEN Opened(sealing.message.body) ELSE Rejected

UnsealOne(ours, sealing) ==
  LET eph == EphemeralKeys(ours, sealing.ephemeral, "Receiving")
      theirs == sealing.static.body
      usmc == sealing.message.body
  IN  IF /\ sealing.static.key = eph
         /\ sealing.message.key = StaticKeys(ours, theirs, eph, sealing.static)
         /\ theirs = usmc.sender.key
      THEN Opened(usmc) ELSE Rejected

-----------------------------------------------------------------------------
(* Version 2.  A block of 32 bytes is the random number it was made from   *)
(* and the pads xored onto it.                                             *)

Random(n) == [number |-> n, pads |-> {}]
DeriveE(m) == <<None, m>>
DeriveK(m) == <<"K", m>>

ApplyAgreementXor(ours, theirs, direction, input) ==
  LET pad == [secret |-> Agreement(ours, theirs),
              keys |-> IF direction = "Sending" THEN <<ours, theirs>> ELSE <<theirs, ours>>]
  IN  [input EXCEPT !.pads = (@ \ {pad}) \union ({pad} \ @)]

AuthenticationTag(ours, theirs, direction, e, c) ==
  [secret |-> Agreement(ours, theirs), e |-> e, c |-> c,
   keys |-> IF direction = "Sending" THEN <<ours, theirs>> ELSE <<theirs, ours>>]

SentVersion == 35          \* SEALED_SENDER_V2_SERVICE_ID_FULL_VERSION
ReceivedVersion == 34      \* SEALED_SENDER_V2_UUID_FULL_VERSION
RegistrationMask == 16383  \* VALID_REGISTRATION_ID_MASK
HasMore == 32768
Masked(registration) == registration % (RegistrationMask + 1)

(* The runs of destinations with one name, each with its first index.      *)
GroupStarts(dests) == {i \in DOMAIN dests : i = 1 \/ dests[i].name # dests[i - 1].name}
GroupAt(dests, i) ==
  LET last == CHOOSE j \in i..Len(dests) :
                /\ \A k \in i..j : dests[k].name = dests[i].name
                /\ j = Len(dests) \/ dests[j + 1].name # dests[i].name
  IN  SubSeq(dests, i, last)

(* mutant: the last device is announced as one that has a successor.       *)
DeviceListOpen(group) ==
  [k \in DOMAIN group |->
    [device |-> group[k].device,
     registration |-> session[group[k]].registration + (IF k <= Len(group) - 2 THEN HasMore ELSE 0)]]

(* The bits of a registration id, and above them whether devices follow.   *)
DeviceList(group) ==
  [k \in DOMAIN group |->
    [device |-> group[k].device,
     registration |-> session[group[k]].registration + (IF k < Len(group) THEN HasMore ELSE 0)]]

(* The block of one group: its keys are computed once, for the identity    *)
(* that is known of its first device.                                      *)
RecipientBlock(ours, e, m, group) ==
  LET theirs == known[group[1]]
      c == ApplyAgreementXor(e, theirs, "Sending", m)
  IN  [id |-> FixedWidthBinary(ParseText(group[1].name)), devices |-> DeviceList(group),
       cAndAt |-> <<c, AuthenticationTag(ours, theirs, "Sending", e, c)>>]

ExcludedBlock(id) == [id |-> FixedWidthBinary(id), devices |-> <<>>, cAndAt |-> <<>>]

(* What sealed_sender_multi_recipient_encrypt refuses.                     *)
CanSealForMany(dests) ==
  /\ \A i \in GroupStarts(dests) : known[dests[i]] # None
  /\ \A i \in DOMAIN dests :
       /\ ParseText(dests[i].name) # None
       /\ session[dests[i]] # None
       /\ session[dests[i]].current
       /\ Masked(session[dests[i]].registration) = session[dests[i]].registration

(* The groups are computed in parallel, and their outputs put together in  *)
(* the order of the groups.                                                *)
SealForMany(ours, dests, excluded, m, usmc) ==
  LET e == DeriveE(m)
      starts == InOrder(GroupStarts(dests))
      blocks == [i \in DOMAIN starts |-> RecipientBlock(ours, e, m, GroupAt(dests, starts[i]))]
                \o [i \in DOMAIN excluded |-> ExcludedBlock(excluded[i])]
  IN  [version |-> SentVersion, count |-> Len(blocks), recipients |-> blocks,
       shared |-> [e |-> e, message |-> Encrypted(DeriveK(m), usmc)]]

-----------------------------------------------------------------------------
(* The service *)

Malformed == [ok |-> FALSE]

(* A list of devices ends at the first one that announces no other; one    *)
(* that ends elsewhere has its bytes taken for something else.             *)
WellDelimited(devices) ==
  \A k \in DOMAIN devices : (devices[k].registration >= HasMore) = (k < Len(devices))

(* mutant: an account may be listed and excluded in one message.           *)
ParseSentAnyRepeat(sent) ==
  LET IdOf(k) == ParseFixedWidth(sent.recipients[k].id)
      blocks == 1..sent.count
      First(id) == CHOOSE k \in blocks : IdOf(k) = id /\ \A l \in 1..(k - 1) : IdOf(l) # id
  IN  [ok |-> TRUE, recipients |->
        [id \in {IdOf(k) : k \in blocks} |->
          [devices |-> <<>>, cAndAt |-> sent.recipients[First(id)].cAndAt]]]

(* Older messages have UUIDs of ACIs where service ids are now.            *)
BlockId(sent, k) ==
  LET bytes == sent.recipients[k].id
  IN  IF sent.version = ReceivedVersion THEN [kind |-> "ACI", uuid |-> bytes[2]]
      ELSE ParseFixedWidth(bytes)

BlocksOf(sent, id) == {k \in 1..sent.count : BlockId(sent, k) = id}

BlockDevices(sent, k) ==
  LET devices == sent.recipients[k].devices
  IN  [j \in DOMAIN devices |-> [device |-> devices[j].device,
                                 registration |-> Masked(devices[j].registration)]]

(* Blocks of one service id are put together under the keys of the first.  *)
Merged(sent, id) ==
  LET order == InOrder(BlocksOf(sent, id))
  IN  [devices |-> FlattenSeq([i \in DOMAIN order |-> BlockDevices(sent, order[i])]),
       cAndAt |-> sent.recipients[order[1]].cAndAt]

(* A block without devices stands alone.                                   *)
CanParse(sent) ==
  /\ sent.version \in {SentVersion, ReceivedVersion}
  /\ sent.count = Len(sent.recipients)
  /\ \A k \in 1..sent.count : BlockId(sent, k) # None /\ WellDelimited(sent.recipients[k].devices)
  /\ \A k, l \in 1..sent.count :
       k # l /\ BlockId(sent, k) = BlockId(sent, l) =>
         BlockDevices(sent, k) # <<>> /\ BlockDevices(sent, l) # <<>>

(* SealedSenderV2SentMessage::parse                                        *)
ParseSent(sent) ==
  IF CanParse(sent)
  THEN [ok |-> TRUE,
        recipients |-> [id \in {BlockId(sent, k) : k \in 1..sent.count} |-> Merged(sent, id)]]
  ELSE Malformed

(* received_message_parts_for_recipient                                    *)
PartFor(sent, recipient) ==
  [version |-> ReceivedVersion, cAndAt |-> recipient.cAndAt, shared |-> sent.shared]

-----------------------------------------------------------------------------
(* Receiving *)

(* A part cut for an excluded recipient has no keys in front of the body.  *)
UnsealPart(ours, part) ==
  LET c == part.cAndAt[1]
      e == part.shared.e
      m == ApplyAgreementXor(ours, e, "Receiving", c)
      usmc == part.shared.message.body
  IN  IF /\ part.cAndAt # <<>>
         /\ DeriveE(m) = e
         /\ part.shared.message.key = DeriveK(m)
         /\ part.cAndAt[2] = AuthenticationTag(ours, usmc.sender.key, "Receiving", e, c)
      THEN Opened(usmc) ELSE Rejected

(* sealed_sender_decrypt_to_usmc                                           *)
Unseal(ours, packet) ==
  CASE packet.version \div 16 \in {0, 1} -> UnsealOne(ours, packet)
    [] packet.version \div 16 = 2 -> UnsealPart(ours, packet)
    [] OTHER -> Rejected

(* The certificate names the device itself, by account or by number.       *)
SelfSend(d, cert) ==
  /\ \/ d.name = cert.uuid
     \/ E164Of[d.name] # None /\ E164Of[d.name] = cert.e164
  /\ cert.device = d.device

(* What the session protocol does with the contents: the session they were *)
(* encrypted in opens them once.                                           *)
SessionOpens(d, remote, contents) ==
  /\ contents.to = d /\ contents.toKey = Key(d)
  /\ contents.from = remote
  /\ \A r \in read : r.by = d => r.contents # contents

(* sealed_sender_decrypt; a message that is refused changes nothing.       *)
Receive(d, packet) ==
  LET opened == Unseal(Key(d), packet)
      cert == opened.usmc.sender
      contents == opened.usmc.contents
  IN  /\ opened.ok
      /\ ValidSenderCertificate(cert, TrustRoots, now)
      /\ ~ SelfSend(d, cert)
      /\ contents.type \in {"Whisper", "PreKey"}
      /\ SessionOpens(d, ProtocolAddress(cert.uuid, cert.device), contents)
      /\ read' = read \union {[by |-> d, at |-> now, contents |-> contents,
                               from |-> ProtocolAddress(cert.uuid, cert.device)]}
      /\ UNCHANGED <<now, gen, known, session, certs, sealed, changes>>

-----------------------------------------------------------------------------
(* The sender and its surroundings *)

Tick ==
  /\ now < MaxTime /\ now' = now + 1
  /\ UNCHANGED <<gen, known, session, certs, sealed, read, changes>>

(* An account is registered anew and has another identity.                 *)
Change == changes < MaxChanges /\ changes' = changes + 1

Reregister(name) ==
  /\ Change /\ gen' = [gen EXCEPT ![name] = @ + 1]
  /\ UNCHANGED <<now, known, session, certs, sealed, read>>

NewSession(a) == [registration |-> RegistrationId[a], current |-> TRUE]

(* A session is established with an address, and its identity saved.       *)
Establish(a) ==
  /\ Change
  /\ known' = [known EXCEPT ![a] = Key(a)]
  /\ session' = [session EXCEPT ![a] = NewSession(a)]
  /\ UNCHANGED <<now, gen, certs, sealed, read>>

Archive(a) ==
  /\ Change /\ session[a] # None
  /\ session' = [session EXCEPT ![a].current = FALSE]
  /\ UNCHANGED <<now, gen, known, certs, sealed, read>>

(* The server signs with a certificate it includes or refers to.           *)
Issue(server, by, expires) ==
  /\ Cardinality(certs) < MaxCerts
  /\ certs' = certs \union
       {SenderCertificate(Sender, [by |-> by, id |-> server.id, certificate |-> server],
                          server, expires)}
  /\ UNCHANGED <<now, gen, known, session, sealed, read, changes>>

Contents(type, to) ==
  [type |-> type, n |-> Cardinality(sealed), from |-> Sender, to |-> to,
   toKey |-> IF to = None THEN None ELSE known[to]]

Seal(kind, to, excluded, usmc, packet) ==
  /\ Cardinality(sealed) < MaxSeals
  /\ sealed' = sealed \union
       {[kind |-> kind, to |-> to, excluded |-> excluded, usmc |-> usmc, packet |-> packet,
         key |-> Key(Sender), knew |-> [a \in Range(to) |-> known[a]]]}
  /\ UNCHANGED <<now, gen, known, session, certs, read, changes>>

(* sealed_sender_encrypt: the message is encrypted in the session first.   *)
SealOne(a, cert, type) ==
  LET usmc == [type |-> type, sender |-> cert, contents |-> Contents(type, a)]
      ephemeral == DeriveE(Random(Cardinality(sealed)))
  IN  /\ session[a] # None /\ session[a].current /\ known[a] # None
      /\ Seal("one", <<a>>, <<>>, usmc, SealForOne(Key(Sender), known[a], ephemeral, usmc))

(* sealed_sender_multi_recipient_encrypt, of a group message or, to one    *)
(* device, of a message of its session.                                    *)
SealMany(dest, cert, type) ==
  LET to == IF type = "SenderKey" THEN None ELSE dest.to[1]
      usmc == [type |-> type, sender |-> cert, contents |-> Contents(type, to)]
  IN  /\ type = "SenderKey" \/ Len(dest.to) = 1
      /\ CanSealForMany(dest.to)
      /\ Seal("many", dest.to, dest.excluded, usmc,
              SealForMany(Key(Sender), dest.to, dest.excluded,
                          Random(Cardinality(sealed)), usmc))

(* What the service makes of a message and may hand to any device; it may  *)
(* put the body of another message behind the keys.                        *)
Packets(s) ==
  IF s.kind = "one" THEN {s.packet}
  ELSE LET parsed == ParseSent(s.packet)
       IN  IF parsed.ok
           THEN {PartFor(t.packet, parsed.recipients[id]) :
                  id \in DOMAIN parsed.recipients, t \in {x \in sealed : x.kind = "many"}}
           ELSE {}

Init ==
  /\ now = 0
  /\ gen = [n \in Names |-> 0]
  /\ \E with \in Contacts :
       /\ known = [a \in Peers |-> IF a \in with THEN Key(a) ELSE None]
       /\ session = [a \in Peers |-> IF a \in with THEN NewSession(a) ELSE None]
  /\ certs = {} /\ sealed = {} /\ read = {} /\ changes = 0

Next ==
  \/ Tick
  \/ \E n \in Names : Reregister(n)
  \/ \E a \in Peers : Establish(a)
  \/ \E a \in Peers : Archive(a)
  \/ \E server \in ServerCertificates, by \in {"embedded", "reference"},
        expires \in now..MaxTime : Issue(server, by, expires)
  \/ \E a \in Peers, cert \in certs, type \in {"Whisper", "PreKey"} : SealOne(a, cert, type)
  \/ \E dest \in Destinations, cert \in certs, type \in {"Whisper", "SenderKey"} :
        SealMany(dest, cert, type)
  \/ \E d \in Devices, s \in sealed : \E packet \in Packets(s) : Receive(d, packet)

Spec == Init /\ [][Next]_vars

-----------------------------------------------------------------------------
(* Properties *)

(* sealed_sender_decrypt: a message that a device reads was sealed by the  *)
(* device it is said to be from, which is another one, with the identity   *)
(* that a certificate of a server it trusts, and has not revoked, vouches  *)
(* for at the time of reading.                                             *)
SenderAuthentic ==
  \A r \in read : \E s \in sealed :
    /\ s.usmc.contents = r.contents
    /\ r.from = Sender /\ r.by # Sender
    /\ s.usmc.sender.key = s.key
    /\ \E server \in ServerCertificates :
         /\ s.usmc.sender.signature = server.key
         /\ server.signedBy \in TrustRoots /\ server.id \notin RevokedIds
    /\ r.at <= s.usmc.sender.expires

(* sealed_sender_decrypt_to_usmc: whatever packet the service hands to     *)
(* whatever device, it opens only if the sender sealed the message for     *)
(* that account, under the identity the account has, and did not exclude   *)
(* the account.                                                            *)
OnlyDestinationsOpen ==
  \A s \in sealed, d \in Devices : \A packet \in Packets(s) :
    Unseal(Key(d), packet).ok =>
      /\ \E i \in DOMAIN s.to : s.to[i].name = d.name /\ s.knew[s.to[i]] = Key(d)
      /\ \A i \in DOMAIN s.excluded : s.excluded[i] # ParseText(d.name)
      /\ Unseal(Key(d), packet).usmc = s.usmc

(* sealed_sender_multi_recipient_encrypt and parse: the service finds, for *)
(* each account, just the devices the sender addressed, in the sender's    *)
(* order and with the registration ids of their sessions, and the part it  *)
(* cuts for them opens for an account whose identity the sender knows, in  *)
(* whatever order devices are listed.  A message sealed for an account     *)
(* that is excluded too, or with one excluded twice, cannot be split.      *)
EveryDestinationReached ==
  \A s \in {x \in sealed : x.kind = "many"} :
    LET parsed == ParseSent(s.packet)
        Id(a) == ParseText(a.name)
        Current == s.key = s.usmc.sender.key
    IN  /\ parsed.ok <=> /\ \A a \in Range(s.to) : Id(a) \notin Range(s.excluded)
                         /\ IsInjective(s.excluded)
        /\ parsed.ok => \A a \in Range(s.to) :
             LET recipient == parsed.recipients[Id(a)]
                 mine == {i \in DOMAIN s.to : Id(s.to[i]) = Id(a)}
                 Addressed(i) == [device |-> s.to[i].device, registration |-> RegistrationId[s.to[i]]]
             IN  /\ recipient.devices = [k \in 1..Cardinality(mine) |-> Addressed(InOrder(mine)[k])]
                 /\ Current /\ (\A i \in mine : s.knew[s.to[i]] = Key(s.to[i])) =>
                      Unseal(Key(a), PartFor(s.packet, recipient)).ok
=============================================================================
