----------------------------- MODULE MCSpinLock -----------------------------
(* SpinLock for TLC.  CPUs and threads are interchangeable. *)
EXTENDS SpinLock, TLC

Symmetry == Permutations(CPU) \cup Permutations(Thread)
=============================================================================
