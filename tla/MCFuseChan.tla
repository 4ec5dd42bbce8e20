------------------------------ MODULE MCFuseChan ------------------------------
(* FuseChan for TLC: threads and values are interchangeable. *)
EXTENDS FuseChan, TLC

ThreadSymmetry == Permutations(Threads) \cup Permutations(Values)
=============================================================================
