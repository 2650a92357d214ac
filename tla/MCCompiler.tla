----------------------------- MODULE MCCompiler -----------------------------
(* Small instances of Compiler for TLC.                                    *)
EXTENDS Compiler
=============================================================================
