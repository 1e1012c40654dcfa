-------------------------- MODULE MCDirectSession --------------------------
(***************************************************************************)
(* Instances of DirectSession for TLC.                                     *)
(***************************************************************************)
EXTENDS DirectSession

CONSTANTS alice, bob, carol, f1, f2

\* every user has one device, the first
OwnUser == [p \in Party |-> p]
FirstDevice == [p \in Party |-> 1]

\* bob has two devices, bob and carol
TwoDevices == [p \in Party |-> IF p = carol THEN bob ELSE p]
Numbered == [p \in Party |-> IF p = carol THEN 2 ELSE 1]

\* calls are told apart by what they do only
Symmetry == Permutations({f1, f2})

=============================================================================
