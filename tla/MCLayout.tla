------------------------------ MODULE MCLayout ------------------------------
(* A small instance of Layout for TLC.                                     *)
EXTENDS Layout
=============================================================================
