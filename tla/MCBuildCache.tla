----------------------------- MODULE MCBuildCache -----------------------------
(* BuildCache for TLC: one configuration that links to one path. *)
EXTENDS BuildCache, TLC

CONSTANTS Release, Exe

OnePath == Release :> Exe
ProcSymmetry == Permutations(Procs)
=============================================================================
