-------------------------- MODULE MCLockfreeQueue --------------------------
(* Small instances of LockfreeQueue for TLC. *)
EXTENDS LockfreeQueue, TLC

ValueSymmetry == Permutations(Value)
=============================================================================
