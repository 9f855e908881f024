---------------------------- MODULE MCLockOrder -----------------------------
(* Small instances of LockOrder for TLC. *)
EXTENDS LockOrder, TLC

Symmetry == Permutations(Caller)
=============================================================================
