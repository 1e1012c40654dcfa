------------------------- MODULE MCGroupMessaging -------------------------
(***************************************************************************)
(* Instances of GroupMessaging for TLC.                                    *)
(***************************************************************************)
EXTENDS GroupMessaging

\* the sends of a page, the receiving devices and the groups play the same part
Symmetry == Permutations(Send) \cup Permutations(Device) \cup Permutations(Group)

=============================================================================
