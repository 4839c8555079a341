----------------------------- MODULE MCVacuum -----------------------------
(* Instances of Vacuum for TLC.                                            *)
EXTENDS Vacuum, TLC

Files == Permutations(File)
=============================================================================
