------------------------------ MODULE Address ------------------------------
(***************************************************************************)
(* Who a message is for: service ids, device ids and protocol addresses of *)
(* core/src/address.rs, and the encodings they travel in.                  *)
(*                                                                         *)
(* A UUID is a model value that stands for its 16 bytes; a byte string is  *)
(* a sequence of such values and of single bytes, so that <<u>> is the one *)
(* of length 16 and <<b, u>> the one of length 17.  A textual id is its    *)
(* prefix, the UUID and the form it is written in, one of the four that    *)
(* the uuid crate reads; letter case is a part of the text and not of the  *)
(* UUID.                                                                   *)
(***************************************************************************)
EXTENDS Integers, Sequences

CONSTANTS
  Uuids,      \* the UUIDs in use
  None        \* the absent value of an Option

ASSUME NoneIsNoUuid == None \notin Uuids

Kinds == {"ACI", "PNI"}
Forms == {"hyphenated", "simple", "braced", "urn"}

ServiceIds == [kind : Kinds, uuid : Uuids]

ASSUME NoneIsNoId == None \notin Kinds \union ServiceIds

Texts == [prefix : {"", "PNI:", "ACI:"}, uuid : Uuids, form : Forms, upper : BOOLEAN]

KindByte(kind) == IF kind = "ACI" THEN 0 ELSE 1
KindOfByte(b) == IF b = 0 THEN "ACI" ELSE IF b = 1 THEN "PNI" ELSE None

(* The variable-width form leaves the kind of an ACI out. *)
FixedWidthBinary(id) == <<KindByte(id.kind), id.uuid>>
Binary(id) == IF id.kind = "ACI" THEN <<id.uuid>> ELSE FixedWidthBinary(id)
Text(id) == [prefix |-> IF id.kind = "ACI" THEN "" ELSE "PNI:",
             uuid |-> id.uuid, form |-> "hyphenated", upper |-> FALSE]

ParseFixedWidth(bytes) ==
  LET kind == KindOfByte(bytes[1])
  IN  IF kind = None THEN None ELSE [kind |-> kind, uuid |-> bytes[2]]

(* A marked ACI is refused: each id has one variable-width form. *)
ParseBinary(bytes) ==
  CASE Len(bytes) = 1 -> [kind |-> "ACI", uuid |-> bytes[1]]
    [] Len(bytes) = 2 -> LET id == ParseFixedWidth(bytes)
                         IN  IF id = None THEN None
                             ELSE IF id.kind = "ACI" THEN None ELSE id
    [] OTHER -> None

(* Only the hyphenated form has the length the parser asks for, and only  *)
(* the prefix PNI: is taken off before it is measured.                     *)
ParseText(text) ==
  IF text.form # "hyphenated" \/ text.prefix = "ACI:" THEN None
  ELSE [kind |-> IF text.prefix = "PNI:" THEN "PNI" ELSE "ACI", uuid |-> text.uuid]

(* The downcast of a parsed id to Aci or Pni. *)
OfKind(kind, id) == IF id = None THEN None ELSE IF id.kind = kind THEN id ELSE None

MaxDeviceId == 127
DeviceIds == 1..MaxDeviceId

(* DeviceId::try_from an i32 or u32: first into a u8, then into the range. *)
DeviceIdOf(n) == IF n \in 0..255 /\ n # 0 /\ n <= MaxDeviceId THEN n ELSE None

ProtocolAddress(name, device) == [name |-> name, device |-> device]
ToProtocolAddress(id, device) == ProtocolAddress(Text(id), device)
=============================================================================
