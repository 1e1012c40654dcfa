-------------------------- MODULE MCStoreLifecycle --------------------------
(* StoreLifecycle for TLC: users and pages are interchangeable.             *)
EXTENDS StoreLifecycle, TLC

CONSTANTS u1, u2, p1, p2

UserPageSymmetry == Permutations(User) \cup Permutations(Page)

=============================================================================
