---------------------------- MODULE MCExitProcs ----------------------------
(* ExitProcs for TLC: two threads and a table that fills up.                *)
EXTENDS ExitProcs

CONSTANTS t1, t2

=============================================================================
