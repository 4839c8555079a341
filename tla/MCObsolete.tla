----------------------------- MODULE MCObsolete -----------------------------
(* Instances of Obsolete for TLC.                                          *)
EXTENDS Obsolete
=============================================================================
