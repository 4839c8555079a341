----------------------------- MODULE MCGarbage -----------------------------
(* Instances of GarbageSystem for TLC.                                     *)
EXTENDS GarbageSystem, TLC

Files == Permutations(File)
=============================================================================
