--------------------------- MODULE MCSealedSender ---------------------------
(* Alice (two devices) writes to herself, to Bob (two devices), to Carol,  *)
(* whose id is a phone number identifier, and to Dave, whose registration  *)
(* id does not fit into the bits of the format.                            *)
EXTENDS SealedSender, TLC

CONSTANTS alice, bob, carol, dave

Named(uuid, prefix, form) == [prefix |-> prefix, uuid |-> uuid, form |-> form, upper |-> FALSE]
A1 == [name |-> Named(alice, "", "hyphenated"), device |-> 1]
A2 == [A1 EXCEPT !.device = 2]
B1 == [name |-> Named(bob, "", "hyphenated"), device |-> 1]
B2 == [B1 EXCEPT !.device = 127]
C1 == [name |-> Named(carol, "PNI:", "hyphenated"), device |-> 1]
D1 == [name |-> Named(dave, "", "hyphenated"), device |-> 1]

MCDevices == {A1, A2, B1, B2, C1, D1}
MCPeers == {A1, B1, B2, C1, D1}
MCContacts == {MCPeers \ {D1}}
MCE164Of == [n \in {A1.name, B1.name, C1.name, D1.name} |-> IF n = A1.name THEN 1 ELSE None]
MCRegistrationId == (A1 :> 1) @@ (A2 :> 2) @@ (B1 :> 16383) @@ (B2 :> 1) @@ (C1 :> 2) @@ (D1 :> 16384)

Live == [id |-> 3, key |-> "server", signedBy |-> "root"]
Staging == [id |-> 2, key |-> "staging", signedBy |-> "other"]
Revoked == [id |-> 13, key |-> "old", signedBy |-> "root"]
Newer == [id |-> 4, key |-> "newer", signedBy |-> "root"]
MCServerCertificates == {Live, Staging, Revoked, Newer}
MCKnownCertificates == (3 :> Live) @@ (2 :> Staging)

Bob == ParseText(B1.name)
Carol == ParseText(C1.name)
MCDestinations ==
  {[to |-> <<B1>>, excluded |-> <<Carol>>], [to |-> <<B1, B2>>, excluded |-> <<>>],
   [to |-> <<B1, A1, B2>>, excluded |-> <<Carol>>], [to |-> <<A1, C1>>, excluded |-> <<>>],
   [to |-> <<D1>>, excluded |-> <<>>], [to |-> <<B1>>, excluded |-> <<Carol, Carol>>],
   [to |-> <<B2>>, excluded |-> <<Bob>>]}
=============================================================================
