-------------------------- MODULE MCDoubleRatchet --------------------------
(***************************************************************************)
(* Instances of DoubleRatchet for TLC.                                     *)
(***************************************************************************)
EXTENDS DoubleRatchet

CONSTANTS alice, bob

\* the two devices play the same part
Symmetry == Permutations({alice, bob})

=============================================================================
