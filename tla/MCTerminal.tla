----------------------------- MODULE MCTerminal -----------------------------
(* A small instance of Terminal for TLC.                                   *)
EXTENDS Terminal
=============================================================================
