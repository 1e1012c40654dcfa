------------------------- MODULE MCKeyProvisioning -------------------------
(* KeyProvisioning for TLC: the tabs of a profile are interchangeable.      *)
EXTENDS KeyProvisioning, TLC

CONSTANTS t1, t2

TabSymmetry == Permutations(Tab)

=============================================================================
