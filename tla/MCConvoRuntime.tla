----------------------------- MODULE MCConvoRuntime -----------------------------
(* A small instance of ConvoRuntime for TLC.                               *)
EXTENDS ConvoRuntime

CONSTANTS c1, c2
=============================================================================
