----------------------------- MODULE WireFormats -----------------------------
(***************************************************************************)
(* What the library writes and reads back: the messages of protocol.rs,    *)
(* the certificates and contents of sealed_sender.rs, and the records and  *)
(* the bundle of state/*.rs.                                               *)
(*                                                                         *)
(* All but the bundle, which is a structure of options, are protocol       *)
(* buffers.  A message is its first byte (0 where it has none), its fields *)
(* by number, and the bytes after the last field; its length is that of    *)
(* the encoding.  Bytes left over from a tail are passed over here as      *)
(* unknown fields: that they make up a known field is left out.            *)
(*                                                                         *)
(* One message is made, changes on the way or in the store (a field is     *)
(* lost, mixed up with that of another message, or longer; so with the     *)
(* first byte and the tail), and is read as any kind there is.             *)
(***************************************************************************)
EXTENDS Keys, Address, FiniteSetsExt, TLC

CONSTANT MaxWireChanges     \* how often a message changes; a bound

ASSUME WireAssumption == MaxWireChanges \in Nat

FieldNumbers == 1..11
Absent == [wire |-> "absent", n |-> 0, bytes |-> NoBytes]
Number(n) == [wire |-> "varint", n |-> n, bytes |-> NoBytes]
Fixed(n) == [wire |-> "fixed64", n |-> n, bytes |-> NoBytes]
Data(b) == [wire |-> "bytes", n |-> 0, bytes |-> b]

Fields(some) == [k \in FieldNumbers |-> IF k \in DOMAIN some THEN some[k] ELSE Absent]
Present(fields) == {k \in FieldNumbers : fields[k] # Absent}

(* Tags take a byte, and numbers here; lengths from 128 on take two.       *)
FieldSize(field) ==
  CASE field.wire = "varint" -> 2
    [] field.wire = "fixed64" -> 9
    [] field.wire = "bytes" -> field.bytes.len + (IF field.bytes.len < 128 THEN 2 ELSE 3)
    [] OTHER -> 0

FieldsSize(fields, from) == MapThenSumSet(LAMBDA k : FieldSize(fields[k]), from)
Size(m) == (IF m.head = 0 THEN 0 ELSE 1) + FieldsSize(m.fields, FieldNumbers) + m.tail.len

Message(head, fields, tail) == [head |-> head, fields |-> fields, tail |-> tail]
Nested(m) == Data(Bytes(<<"message", m>>, m.head, Size(m)))
IsNested(field) == field.bytes.what[1] = "message"
Inner(field) == field.bytes.what[2]

-----------------------------------------------------------------------------
(* Schemas: the fields of a kind of message, whether they must be there,   *)
(* and what is asked of them.                                              *)

F(wire, need, is) == [wire |-> wire, need |-> need, is |-> is]
Must(is) == F("bytes", "must", is)
May(is) == F("bytes", "may", is)
MustNumber == F("varint", "must", "any")
MayNumber == F("varint", "may", "any")
ZeroNumber == F("varint", "zero", "any")

Schema(versions, least, tail, fields) ==
  [versions |-> versions, least |-> least, tail |-> tail, fields |-> fields]
Plain(fields) == Schema({}, 0, 0, fields)

SignalMessage == Schema({3, 4}, 9, 8,
  (1 :> Must("curve")) @@ (2 :> MustNumber) @@ (3 :> ZeroNumber) @@ (4 :> Must("any"))
  @@ (5 :> May("any")))

PreKeySignalMessage == Schema({3, 4}, 1, 0,
  (1 :> MayNumber) @@ (2 :> Must("curve")) @@ (3 :> Must("curve")) @@ (4 :> Must("any"))
  @@ (5 :> ZeroNumber) @@ (6 :> MustNumber) @@ (7 :> MayNumber) @@ (8 :> May("any")))

SenderKeyMessage == Schema({3}, 65, 64,
  (1 :> Must("uuid")) @@ (2 :> MustNumber) @@ (3 :> MustNumber) @@ (4 :> Must("any")))

SenderKeyDistributionMessage == Schema({3}, 65, 0,
  (1 :> Must("uuid")) @@ (2 :> MustNumber) @@ (3 :> MustNumber) @@ (4 :> Must("32 bytes"))
  @@ (5 :> Must("curve, 33 bytes")))

DecryptionErrorMessage == Plain(
  (1 :> May("curve")) @@ (2 :> MustNumber) @@ (3 :> ZeroNumber))

Signed == Plain((1 :> Must("any")) @@ (2 :> Must("any")))
ServerCertificateData == Plain((1 :> MustNumber) @@ (2 :> Must("curve")))
SenderCertificateData == Plain(
  (1 :> May("any")) @@ (2 :> F("varint", "must", "device")) @@ (3 :> F("fixed64", "must", "any"))
  @@ (4 :> Must("curve")) @@ (5 :> May("any")) @@ (6 :> May("any")) @@ (7 :> May("any"))
  @@ (8 :> MayNumber))

UnidentifiedSenderMessageContent == Plain(
  (1 :> F("varint", "must", "type")) @@ (2 :> Must("any")) @@ (3 :> Must("any"))
  @@ (4 :> ZeroNumber) @@ (5 :> May("any")))

(* A field of a record that is absent reads as zero, or as no bytes.       *)
PreKeyRecord == Plain((1 :> ZeroNumber) @@ (2 :> May("any")) @@ (3 :> May("any")))
SignedPreKeyRecord == Plain(PreKeyRecord.fields
  @@ (4 :> May("any")) @@ (5 :> F("fixed64", "zero", "any")))
IdentityKeyPair == Plain((1 :> Must("curve")) @@ (2 :> Must("curve private")))

Fits(field, is) ==
  CASE is = "curve" -> IsCurvePublic(field.bytes)
    [] is = "curve private" -> IsCurvePrivate(field.bytes)
    [] is = "curve, 33 bytes" -> IsCurvePublic(field.bytes) /\ field.bytes.len = 33
    [] is = "32 bytes" -> field.bytes.len = 32
    [] is = "uuid" -> field.bytes.len = 16
    [] is = "device" -> DeviceIdOf(field.n) # None
    [] is = "type" -> field.n \in {1, 2, 7, 8}
    [] OTHER -> TRUE

Taken(field, f) ==
  CASE field = Absent /\ f.need = "zero" /\ f.wire = "fixed64" -> Fixed(0)
    [] field = Absent /\ f.need = "zero" -> Number(0)
    [] field # Absent /\ f.is \in {"curve", "curve, 33 bytes"} -> Data(CurvePublicOf(field.bytes))
    [] OTHER -> field

Refused == [ok |-> FALSE, version |-> 0, fields |-> Fields(<<>>)]

(* mutant: what is decoded is not cut off before the tail.                 *)
FieldsAndTail(m, tail) == {m.fields}

(* The fields in front of a tail.  If the tail is longer than what follows *)
(* them it takes the last ones, and each of them whole or there is none.   *)
FieldsBefore(m, tail) ==
  IF tail <= m.tail.len THEN {m.fields}
  ELSE {[k \in FieldNumbers |-> IF k < from THEN m.fields[k] ELSE Absent] :
          from \in {k \in FieldNumbers : FieldsSize(m.fields, k..11) = tail - m.tail.len}}

(* Read a message by its schema.  A message with a first byte and one      *)
(* without are not taken for each other: the first tags of the latter have *)
(* a high half below 3, and those of the former are no tags.               *)
Read(schema, m) ==
  LET content == CHOOSE c \in FieldsBefore(m, schema.tail) : TRUE
      of == schema.fields
  IN  IF /\ (m.head = 0) = (schema.versions = {})
         /\ Size(m) >= schema.least
         /\ schema.versions # {} => m.head \div 16 \in schema.versions
         /\ FieldsBefore(m, schema.tail) # {}
         /\ \A k \in DOMAIN of :
              /\ content[k] # Absent => content[k].wire = of[k].wire /\ Fits(content[k], of[k].is)
              /\ content[k] = Absent => of[k].need # "must"
      THEN [ok |-> TRUE, version |-> m.head \div 16,
            fields |-> [k \in FieldNumbers |-> IF k \in DOMAIN of THEN Taken(content[k], of[k])
                                               ELSE Absent]]
      ELSE Refused

Require(parsed, condition) == IF parsed.ok /\ condition THEN parsed ELSE Refused

ReadSignal(m) == Read(SignalMessage, m)

ReadPreKeySignal(m) ==
  LET p == Read(PreKeySignalMessage, m)
      both == m.fields[7] # Absent /\ m.fields[8] # Absent
      neither == m.fields[7] = Absent /\ m.fields[8] = Absent
  IN  Require(p, /\ both \/ (neither /\ p.version <= 3)
                 /\ IsNested(m.fields[4]) /\ ReadSignal(Inner(m.fields[4])).ok)

ReadServerCertificate(m) ==
  LET p == Read(Signed, m)
  IN  Require(p, IsNested(m.fields[1]) /\ Read(ServerCertificateData, Inner(m.fields[1])).ok)

(* Of two fields that exclude each other the later one counts.             *)
ReadSenderCertificate(m) ==
  LET p == Read(Signed, m)
      data == Inner(m.fields[1]).fields
  IN  Require(p, /\ IsNested(m.fields[1])
                 /\ Read(SenderCertificateData, Inner(m.fields[1])).ok
                 /\ data[8] # Absent \/
                      (IsNested(data[5]) /\ ReadServerCertificate(Inner(data[5])).ok)
                 /\ IF data[7] # Absent THEN data[7].bytes.len = 16 ELSE data[6] # Absent)

ReadUsmc(m) ==
  LET p == Read(UnidentifiedSenderMessageContent, m)
  IN  Require(p, IsNested(m.fields[2]) /\ ReadSenderCertificate(Inner(m.fields[2])).ok)

PlaintextIdentifier == 192
PaddingBoundary == Bytes(<<"boundary">>, 128, 1)
ReadPlaintext(m) ==
  IF m.head = PlaintextIdentifier THEN [ok |-> TRUE, version |-> 12, fields |-> m.fields] ELSE Refused

(* extract_decryption_error_message_from_serialized_content, for the body. *)
ExtractDecryptionError(body) ==
  IF body.tail = PaddingBoundary /\ IsNested(body.fields[8])
  THEN Read(DecryptionErrorMessage, Inner(body.fields[8])) ELSE Refused

(* A record is read without a look at its keys; using it takes its pair.   *)
ReadPreKeyRecord(m) ==
  LET p == Read(PreKeyRecord, m) IN Require(p, IsCurvePair(m.fields[2].bytes, m.fields[3].bytes))
ReadSignedPreKeyRecord(m) ==
  LET p == Read(SignedPreKeyRecord, m)
  IN  Require(p, IsCurvePair(m.fields[2].bytes, m.fields[3].bytes))
ReadKyberPreKeyRecord(m) ==
  LET p == Read(SignedPreKeyRecord, m)
  IN  Require(p, IsKemPair(m.fields[2].bytes, m.fields[3].bytes))

(* PreKeyBundle::try_from: all but the one-time prekey must be there, and  *)
(* half a one-time prekey is none.                                         *)
ReadBundle(m) ==
  LET some == m.fields
      whole == some[3] # Absent /\ some[4] # Absent
  IN  IF m.head = 0 /\ \A k \in FieldNumbers \ {3, 4} : some[k] # Absent
      THEN [ok |-> TRUE, version |-> 0,
            fields |-> IF whole THEN some ELSE [some EXCEPT ![3] = Absent, ![4] = Absent]]
      ELSE Refused

KindsOfMessage == {"Whisper", "PreKey", "SenderKey", "Distribution", "Plaintext", "Error",
                   "ServerCertificate", "SenderCertificate", "Usmc", "PreKeyRecord",
                   "SignedPreKeyRecord", "KyberPreKeyRecord", "Identity"}

ReadAs(kind, m) ==
  CASE kind = "Whisper" -> ReadSignal(m)
    [] kind = "PreKey" -> ReadPreKeySignal(m)
    [] kind = "SenderKey" -> Read(SenderKeyMessage, m)
    [] kind = "Distribution" -> Read(SenderKeyDistributionMessage, m)
    [] kind = "Plaintext" -> ReadPlaintext(m)
    [] kind = "Error" -> Read(DecryptionErrorMessage, m)
    [] kind = "ServerCertificate" -> ReadServerCertificate(m)
    [] kind = "SenderCertificate" -> ReadSenderCertificate(m)
    [] kind = "Usmc" -> ReadUsmc(m)
    [] kind = "PreKeyRecord" -> ReadPreKeyRecord(m)
    [] kind = "SignedPreKeyRecord" -> ReadSignedPreKeyRecord(m)
    [] kind = "KyberPreKeyRecord" -> ReadKyberPreKeyRecord(m)
    [] kind = "Identity" -> Read(IdentityKeyPair, m)
    [] kind = "Bundle" -> ReadBundle(m)
    [] kind = "Alternate" -> [ok |-> TRUE, version |-> 0, fields |-> m.fields]

-----------------------------------------------------------------------------
(* What is made.  Each kind has three variants, different throughout.      *)

Variants == 1..3
Pair(role, v) == <<role, v>>
Curve(role, v) == Data(CurvePublic(Pair(role, v)))
Private(role, v) == CurvePrivate(Pair(role, v))
Opaque(what, v, len) == Data(Bytes(<<what, v>>, 0, len))
KemType(v) == IF v = 3 THEN CHOOSE t \in KemTypes : \A s \in KemTypes : s <= t
              ELSE CHOOSE t \in KemTypes : \A s \in KemTypes : t <= s
KyberPublic(v) == KemPublic(KemType(v), Pair("kyber", v))
KyberSecret(v) == KemSecret(KemType(v), Pair("kyber", v))

FirstByte(version, current) == 16 * version + current

(* Variant 3 is of the version before Kyber.                               *)
SessionVersion(v) == IF v = 3 THEN 3 ELSE 4

AsBytes(head, fields) ==
  Bytes(<<"message", Message(head, fields, NoBytes)>>, head, Size(Message(head, fields, NoBytes)))

(* mutant: the first byte is not covered by the code.                      *)
MacWithoutHead(key, sender, receiver, head, fields) ==
  Bytes(<<"mac", key, sender, receiver, 0, fields>>, 0, 8)

Mac(key, sender, receiver, head, fields) ==
  Bytes(<<"mac", key, sender, receiver, head, fields>>, 0, 8)

SignalFields(v) == Fields(
  (1 :> Curve("ratchet", v)) @@ (2 :> Number(v)) @@ (3 :> Number(v - 1))
  @@ (4 :> Opaque("ciphertext", v, 32))
  @@ (5 :> IF v = 3 THEN Absent ELSE Opaque("pq", v, 40)))

MakeSignal(v, key) ==
  LET head == FirstByte(SessionVersion(v), 4)
  IN  Message(head, SignalFields(v),
              Mac(key, Curve("identity", v), "receiver", head, SignalFields(v)))

(* The key of a first message follows from the keys its fields name.       *)
HandshakeKey(f) ==
  <<"handshake", f[1], CurvePublicOf(f[2].bytes), CurvePublicOf(f[3].bytes), f[6],
    IF f[7] = Absent THEN <<"none", Pair("kyber", 0), 0>>
    ELSE Decapsulate(KyberSecret(f[7].n), f[8].bytes)>>
SessionKey(v) == <<"session", v>>

PreKeyFields(v) == Fields(
  (1 :> IF v = 2 THEN Absent ELSE Number(v)) @@ (2 :> Curve("base", v))
  @@ (3 :> Curve("identity", v)) @@ (5 :> Number(v)) @@ (6 :> Number(v))
  @@ (7 :> IF v = 3 THEN Absent ELSE Number(v))
  @@ (8 :> IF v = 3 THEN Absent ELSE Data(Encapsulate(KyberPublic(v), v).ciphertext)))
MakePreKeySignal(v) ==
  LET f == PreKeyFields(v)
  IN  Message(FirstByte(SessionVersion(v), 4), [f EXCEPT ![4] = Nested(MakeSignal(v, HandshakeKey(f)))],
              NoBytes)

SenderKeyFields(v) == Fields(
  (1 :> Opaque("uuid", v, 16)) @@ (2 :> Number(v)) @@ (3 :> Number(v - 1))
  @@ (4 :> Opaque("ciphertext", v, 32)))
MakeSenderKey(v) ==
  Message(FirstByte(3, 3), SenderKeyFields(v),
          Sign(Private("sender key", v), <<AsBytes(FirstByte(3, 3), SenderKeyFields(v))>>))

DistributionFields(v) == Fields(
  (1 :> Opaque("uuid", v, 16)) @@ (2 :> Number(v)) @@ (3 :> Number(v - 1))
  @@ (4 :> Opaque("chain key", v, 32)) @@ (5 :> Curve("sender key", v)))

(* DecryptionErrorMessage::for_original: plaintext has no key to name.     *)
ErrorFor(kind, original, timestamp, device) ==
  LET key == CASE kind = "Whisper" -> ReadSignal(original).fields[1]
               [] kind = "PreKey" -> ReadSignal(Inner(ReadPreKeySignal(original).fields[4])).fields[1]
               [] kind = "SenderKey" -> Absent
  IN  Message(0, Fields((1 :> key) @@ (2 :> Number(timestamp)) @@ (3 :> Number(device))), NoBytes)

MakeError(v) ==
  CASE v = 1 -> ErrorFor("Whisper", MakeSignal(v, SessionKey(v)), v, v)
    [] v = 2 -> ErrorFor("PreKey", MakePreKeySignal(v), v, v)
    [] v = 3 -> ErrorFor("SenderKey", MakeSenderKey(v), v, 0)

MakePlaintext(v) ==
  Message(PlaintextIdentifier, Fields(8 :> Nested(MakeError(v))), PaddingBoundary)

SignedBy(private, data) ==
  Message(0, Fields((1 :> Nested(data)) @@ (2 :> Data(Sign(private, <<AsBytes(0, data.fields)>>)))),
          NoBytes)

MakeServerCertificate(v) ==
  SignedBy(Private("root", v),
           Message(0, Fields((1 :> Number(v)) @@ (2 :> Curve("server", v))), NoBytes))

(* Variant 2 has the short forms: the id of a server, the bytes of a UUID. *)
MakeSenderCertificate(v) ==
  SignedBy(Private("server", v), Message(0, Fields(
    (1 :> IF v = 3 THEN Absent ELSE Opaque("number", v, 12)) @@ (2 :> Number(v)) @@ (3 :> Fixed(v))
    @@ (4 :> Curve("identity", v))
    @@ (IF v = 2 THEN (7 :> Opaque("uuid", v, 16)) @@ (8 :> Number(v))
        ELSE (5 :> Nested(MakeServerCertificate(v))) @@ (6 :> Opaque("uuid text", v, 36)))), NoBytes))

(* A default content hint, and an empty group id, are not written.         *)
Written(fields) ==
  [k \in FieldNumbers |->
    IF fields[k] \in {Number(0), Fixed(0), Data(NoBytes)} THEN Absent ELSE fields[k]]

ProtoType(kind) ==
  CASE kind = "PreKey" -> 1 [] kind = "Whisper" -> 2 [] kind = "SenderKey" -> 7 [] OTHER -> 8

UsmcFields(v) == Fields(
  (1 :> Number(ProtoType(<<"PreKey", "Whisper", "SenderKey">>[v])))
  @@ (2 :> Nested(MakeSenderCertificate(v))) @@ (3 :> Opaque("contents", v, 200))
  @@ (4 :> Number(v - 1)) @@ (5 :> IF v = 2 THEN Data(NoBytes) ELSE Opaque("group", v, 32)))

PreKeyRecordFields(v) == Fields(
  (1 :> Number(v - 1)) @@ (2 :> Curve("prekey", v)) @@ (3 :> Data(Private("prekey", v))))
SignedPreKeyFields(v, public, private) == Fields(
  (1 :> Number(v - 1)) @@ (2 :> Data(public)) @@ (3 :> Data(private))
  @@ (4 :> Data(Sign(Private("identity", v), <<public>>))) @@ (5 :> Fixed(v - 1)))
IdentityFields(v) == Fields(
  (1 :> Curve("identity", v)) @@ (2 :> Data(Private("identity", v))))

BundleFields(v) ==
  LET signed == SignedPreKeyFields(v, CurvePublic(Pair("signed", v)), Private("signed", v))
      kyber == SignedPreKeyFields(v, KyberPublic(v), KyberSecret(v))
  IN  Fields((1 :> Number(v)) @@ (2 :> Number(v)) @@ (3 :> Number(v)) @@ (4 :> Curve("prekey", v))
             @@ (5 :> signed[1]) @@ (6 :> signed[2]) @@ (7 :> signed[4]) @@ (8 :> Curve("identity", v))
             @@ (9 :> kyber[1]) @@ (10 :> kyber[2]) @@ (11 :> kyber[4]))

(* An identity, another of the same account, and what says so.             *)
AlternateFields(v) == Fields(
  (1 :> Curve("identity", v)) @@ (2 :> Curve("alternate", v))
  @@ (3 :> Data(SignAlternateIdentity(Private("identity", v), CurvePublic(Pair("alternate", v))))))

Make(kind, v) ==
  CASE kind = "Whisper" -> MakeSignal(v, SessionKey(v))
    [] kind = "PreKey" -> MakePreKeySignal(v)
    [] kind = "SenderKey" -> MakeSenderKey(v)
    [] kind = "Distribution" -> Message(FirstByte(3, 3), DistributionFields(v), NoBytes)
    [] kind = "Plaintext" -> MakePlaintext(v)
    [] kind = "Error" -> MakeError(v)
    [] kind = "ServerCertificate" -> MakeServerCertificate(v)
    [] kind = "SenderCertificate" -> MakeSenderCertificate(v)
    [] kind = "Usmc" -> Message(0, Written(UsmcFields(v)), NoBytes)
    [] kind = "PreKeyRecord" -> Message(0, Written(PreKeyRecordFields(v)), NoBytes)
    [] kind = "SignedPreKeyRecord" ->
         Message(0, Written(SignedPreKeyFields(v, CurvePublic(Pair("signed", v)), Private("signed", v))),
                 NoBytes)
    [] kind = "KyberPreKeyRecord" ->
         Message(0, Written(SignedPreKeyFields(v, KyberPublic(v), KyberSecret(v))), NoBytes)
    [] kind = "Identity" -> Message(0, IdentityFields(v), NoBytes)
    [] kind = "Bundle" -> Message(0, BundleFields(v), NoBytes)
    [] kind = "Alternate" -> Message(0, AlternateFields(v), NoBytes)

-----------------------------------------------------------------------------
(* What a reader makes sure of before it uses what it read.                *)

(* SignalMessage::verify_mac, over all but the last eight bytes.           *)
VerifyMac(m, key, sender) ==
  m.tail = Mac(key, Data(CurvePublicOf(sender.bytes)), "receiver", m.head, m.fields)

AcceptSignal(m, v) == ReadSignal(m).ok /\ VerifyMac(m, SessionKey(v), Curve("identity", v))

(* process_prekey and the decryption it is followed by: a first message of *)
(* the version before Kyber is refused.                                    *)
AcceptPreKeySignal(m) ==
  LET inner == Inner(m.fields[4])
  IN  /\ ReadPreKeySignal(m).ok /\ m.head \div 16 # 3
      /\ m.fields[7] # Absent /\ CanDecapsulate(KyberSecret(m.fields[7].n), m.fields[8].bytes)
      /\ inner.head \div 16 = m.head \div 16
      /\ VerifyMac(inner, HandshakeKey(m.fields), m.fields[3])

AcceptSenderKey(m, v) ==
  /\ Read(SenderKeyMessage, m).ok
  /\ Verifies(CurvePublic(Pair("sender key", v)), <<AsBytes(m.head, m.fields)>>, m.tail)

AcceptServerCertificate(m) ==
  /\ ReadServerCertificate(m).ok
  /\ \E v \in Variants : Verifies(CurvePublic(Pair("root", v)),
                                  <<AsBytes(0, Inner(m.fields[1]).fields)>>, m.fields[2].bytes)

AcceptSenderCertificate(m) ==
  /\ ReadSenderCertificate(m).ok
  /\ LET data == Inner(m.fields[1]).fields
         server == IF data[8] # Absent THEN MakeServerCertificate(data[8].n) ELSE Inner(data[5])
     IN  /\ AcceptServerCertificate(server)
         /\ Verifies(Inner(server.fields[1]).fields[2].bytes, <<AsBytes(0, data)>>, m.fields[2].bytes)

(* process_prekey_bundle verifies both signatures under the identity.      *)
AcceptBundle(m) ==
  LET f == m.fields
  IN  /\ ReadBundle(m).ok
      /\ Verifies(f[8].bytes, <<f[6].bytes>>, f[7].bytes)
      /\ Verifies(f[8].bytes, <<f[10].bytes>>, f[11].bytes)

AcceptAlternate(m) ==
  \A k \in 1..3 : m.fields[k] # Absent
  /\ VerifyAlternateIdentity(m.fields[1].bytes, m.fields[2].bytes, m.fields[3].bytes)

Accept(kind, m, v) ==
  CASE kind = "Whisper" -> AcceptSignal(m, v)
    [] kind = "PreKey" -> AcceptPreKeySignal(m)
    [] kind = "SenderKey" -> AcceptSenderKey(m, v)
    [] kind = "ServerCertificate" -> AcceptServerCertificate(m)
    [] kind = "SenderCertificate" -> AcceptSenderCertificate(m)
    [] kind = "Bundle" -> AcceptBundle(m)
    [] kind = "Alternate" -> AcceptAlternate(m)
    [] OTHER -> ReadAs(kind, m).ok

-----------------------------------------------------------------------------
(* On the way *)

VARIABLES
  wireMade,       \* a message of each variant of a kind, and which of them is sent
  wireNow,        \* the message as it is
  wireChanges     \* how often it has changed; a bound only

wireVars == <<wireMade, wireNow, wireChanges>>

AllKinds == KindsOfMessage \union {"Bundle", "Alternate"}
Original == wireMade.all[wireMade.variant]

WireStart(kinds) ==
  /\ \E kind \in kinds : wireMade \in
       [kind : {kind}, variant : Variants, all : {[v \in Variants |-> Make(kind, v)]}]
  /\ wireNow = Original
  /\ wireChanges = 0

WireInit == WireStart(AllKinds)

Becomes(m) ==
  /\ wireChanges < MaxWireChanges /\ wireChanges' = wireChanges + 1
  /\ wireNow' = m /\ UNCHANGED wireMade

LoseField(k) ==
  /\ wireNow.fields[k] # Absent
  /\ Becomes([wireNow EXCEPT !.fields[k] = Absent])

MixField(k, v) == Becomes([wireNow EXCEPT !.fields[k] = wireMade.all[v].fields[k]])

LengthenField(k) ==
  /\ wireNow.fields[k].wire = "bytes"
  /\ Becomes([wireNow EXCEPT !.fields[k].bytes =
       [@ EXCEPT !.len = @ + 1, !.what = IF @[1] = "curve" THEN @ ELSE <<"longer", @>>]])

ChangeHead(head) ==
  /\ wireNow.head # 0 /\ Becomes([wireNow EXCEPT !.head = head])

ChangeTail(v) == Becomes([wireNow EXCEPT !.tail = wireMade.all[v].tail])
LoseTail == wireNow.tail # NoBytes /\ Becomes([wireNow EXCEPT !.tail = NoBytes])

WireNext ==
  \/ \E k \in FieldNumbers : LoseField(k)
  \/ \E k \in FieldNumbers, v \in Variants : MixField(k, v)
  \/ \E k \in FieldNumbers : LengthenField(k)
  \/ \E head \in {FirstByte(2, 4), FirstByte(3, 3), FirstByte(3, 4), FirstByte(4, 4), FirstByte(5, 4)} : ChangeHead(head)
  \/ \E v \in Variants : ChangeTail(v)
  \/ LoseTail

-----------------------------------------------------------------------------
(* Properties *)

(* The fields a caller gave, as a reader gets them: an empty group id is   *)
(* none.                                                                   *)
Given(kind, v) ==
  CASE kind = "Usmc" ->
         [UsmcFields(v) EXCEPT ![5] = IF @ = Data(NoBytes) THEN Absent ELSE @]
    [] kind = "PreKeyRecord" -> PreKeyRecordFields(v)
    [] kind = "SignedPreKeyRecord" ->
         SignedPreKeyFields(v, CurvePublic(Pair("signed", v)), Private("signed", v))
    [] kind = "KyberPreKeyRecord" -> SignedPreKeyFields(v, KyberPublic(v), KyberSecret(v))
    [] OTHER -> Original.fields

(* protocol.rs, sealed_sender.rs, state/*.rs: what was made reads back as  *)
(* made, and as nothing else.  Only the records of a one-time and of a     *)
(* signed prekey are taken for each other, with the same keys.             *)
ReadAsMade ==
  LET kind == wireMade.kind
      prekeys == {"PreKeyRecord", "SignedPreKeyRecord"}
  IN  wireChanges = 0 =>
        /\ ReadAs(kind, wireNow).ok
        /\ ReadAs(kind, wireNow).fields = Given(kind, wireMade.variant)
        /\ kind = "Plaintext" =>
             ExtractDecryptionError(Message(0, wireNow.fields, wireNow.tail)).fields
               = Inner(wireNow.fields[8]).fields
        /\ kind \in KindsOfMessage => \A other \in KindsOfMessage \ {kind} :
             ReadAs(other, wireNow).ok =>
               /\ {kind, other} = prekeys
               /\ \A k \in 1..3 : ReadAs(other, wireNow).fields[k] = ReadAs(kind, wireNow).fields[k]

(* verify_mac, verify_signature, process_prekey: what is accepted after    *)
(* changes says what was made.  Of a first message only the registration   *)
(* id is not bound to its keys; of a bundle, and of another identity, the  *)
(* keys are those of one account, and nothing binds the ids; a pair of     *)
(* keys is of one algorithm.                                               *)
ChangesNoticed ==
  LET kind == wireMade.kind
      v == wireMade.variant
      SameBut(k) == \A j \in FieldNumbers \ {k} :
                      ReadAs(kind, wireNow).fields[j] = ReadAs(kind, Original).fields[j]
  IN  Accept(kind, wireNow, v) =>
        CASE kind \in {"Whisper", "SenderKey"} -> wireNow = Original
          [] kind = "PreKey" -> SameBut(5)
          [] kind \in {"ServerCertificate", "SenderCertificate"} ->
               \E w \in Variants : wireNow = wireMade.all[w]
          [] kind = "Bundle" -> \E w \in Variants : \A k \in {6, 8, 10} :
               wireNow.fields[k].bytes.what = wireMade.all[w].fields[k].bytes.what
          [] kind = "Alternate" -> \E w \in Variants : \A k \in {1, 2} :
               wireNow.fields[k].bytes.what = wireMade.all[w].fields[k].bytes.what
          [] kind = "KyberPreKeyRecord" ->
               wireNow.fields[2].bytes.head = wireNow.fields[3].bytes.head
          [] OTHER -> TRUE
=============================================================================
