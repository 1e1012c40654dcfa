-------------------------------- MODULE Keys --------------------------------
(***************************************************************************)
(* Keys and what is computed with them: core/src/curve.rs, kem.rs,         *)
(* identity_key.rs and the key pairs of state/signed_prekey.rs.            *)
(*                                                                         *)
(* A string of bytes is what it holds, its first byte where the code looks *)
(* at it, and its length.  A key is held under the name of its pair.       *)
(***************************************************************************)
EXTENDS Integers, Sequences

CONSTANT KemTypes    \* the KEMs the build has, by the byte that marks them

(* 7 is Kyber768, 8 is Kyber1024, 10 is ML-KEM 1024.                       *)
ASSUME KemTypesAssumption == KemTypes \subseteq {7, 8, 10}

Bytes(what, head, len) == [what |-> what, head |-> head, len |-> len]
NoBytes == Bytes(<<"nothing">>, 0, 0)

-----------------------------------------------------------------------------
(* Curve keys *)

DjbType == 5
CurvePublic(pair) == Bytes(<<"curve", pair>>, DjbType, 33)
CurvePrivate(pair) == Bytes(<<"curve private", pair>>, 0, 32)

(* Bytes may follow a public key; they are not part of it.                 *)
IsCurvePublic(b) == b.len >= 33 /\ b.head = DjbType
CurvePublicOf(b) == [b EXCEPT !.len = 33]
IsCurvePrivate(b) == b.len = 32

(* KeyPair::from_public_and_private does not compare the two.              *)
IsCurvePair(public, private) == IsCurvePublic(public) /\ IsCurvePrivate(private)

(* A signature is over the parts of a message put one after the other.     *)
Sign(private, parts) == Bytes(<<"signature", private.what[2], parts>>, 0, 64)
Verifies(public, parts, signature) ==
  signature.len = 64 /\ signature.what = <<"signature", public.what[2], parts>>

AlternatePrefix == Bytes(<<"Signal_PNI_Signature">>, 255, 52)
SignAlternateIdentity(private, other) == Sign(private, <<AlternatePrefix, other>>)
VerifyAlternateIdentity(identity, other, signature) ==
  Verifies(identity, <<AlternatePrefix, CurvePublicOf(other)>>, signature)

-----------------------------------------------------------------------------
(* Keys of a key encapsulation *)

PublicLength(type) == IF type = 7 THEN 1184 ELSE 1568
SecretLength(type) == IF type = 7 THEN 2400 ELSE 3168
CiphertextLength(type) == IF type = 7 THEN 1088 ELSE 1568

KemPublic(type, pair) == Bytes(<<"kem", pair>>, type, PublicLength(type) + 1)
KemSecret(type, pair) == Bytes(<<"kem secret", pair>>, type, SecretLength(type) + 1)

(* The length tells a key from another part, the first byte its algorithm. *)
IsKemPublic(b) == b.len # 0 /\ b.head \in KemTypes /\ b.len = PublicLength(b.head) + 1
IsKemSecret(b) == b.len # 0 /\ b.head \in KemTypes /\ b.len = SecretLength(b.head) + 1
IsKemCiphertext(b) == b.len # 0 /\ b.head \in KemTypes /\ b.len = CiphertextLength(b.head) + 1

(* mutant: a public and a secret key of two algorithms make a pair.        *)
IsKemPairAnyType(public, secret) == IsKemPublic(public) /\ IsKemSecret(secret)

IsKemPair(public, secret) ==
  IsKemPublic(public) /\ IsKemSecret(secret) /\ public.head = secret.head

Encapsulate(public, n) ==
  [secret |-> <<"shared", public.what[2], n>>,
   ciphertext |-> Bytes(<<"encapsulated", public.what[2], n>>, public.head,
                        CiphertextLength(public.head) + 1)]

CanDecapsulate(secret, ciphertext) == IsKemCiphertext(ciphertext) /\ ciphertext.head = secret.head

(* What was encapsulated for another key gives a secret that nobody has.   *)
Decapsulate(secret, ciphertext) ==
  IF Len(ciphertext.what) = 3 /\ ciphertext.what[1] = "encapsulated"
                              /\ ciphertext.what[2] = secret.what[2]
  THEN <<"shared", secret.what[2], ciphertext.what[3]>>
  ELSE <<"rejected", secret.what[2], 0>>
=============================================================================
