----------------------------- MODULE MCBufCache -----------------------------
(* BufCache for TLC.  Neither processes nor blocks are ever compared by     *)
(* anything but equality, and every property checked is a safety property. *)
EXTENDS BufCache, TLC

Symmetry == Permutations(Proc) \cup Permutations(Block)
=============================================================================
