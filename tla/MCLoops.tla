------------------------------ MODULE MCLoops ------------------------------
(* A small instance of Loops for TLC.                                      *)
EXTENDS Loops

(* Steps that divide the distances between the bounds and steps that do    *)
(* not, in both directions.                                                *)
Bounds == -3 .. 4
Steps == -1 .. 3
=============================================================================
