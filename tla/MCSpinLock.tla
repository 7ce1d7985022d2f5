----------------------------- MODULE MCSpinLock -----------------------------
(* SpinLock on two harts: threads, one interrupt handler, ordered locks. *)
EXTENDS SpinLock, TLC

MCCPUs == {0, 1}
MCLocks == {1, 2}
NoLocks == {}
Symmetry == Permutations(Threads)
=============================================================================
