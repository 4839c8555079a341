----------------------------- MODULE MCPgConsole -----------------------------
(* Instances of PgConsole for TLC.                                         *)
EXTENDS PgConsole
=============================================================================
