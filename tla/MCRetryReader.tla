--------------------------- MODULE MCRetryReader ---------------------------
(* Instances of RetryReader for TLC.                                       *)
EXTENDS RetryReader
=============================================================================
