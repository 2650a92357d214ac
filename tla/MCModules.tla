------------------------------ MODULE MCModules -----------------------------
(* Small instances of Modules for TLC.                                     *)
EXTENDS Modules, TLC

Symmetry == Permutations(Module)
=============================================================================
