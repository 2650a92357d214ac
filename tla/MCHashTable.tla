----------------------------- MODULE MCHashTable -----------------------------
(* Small instances of HashTable for TLC.                                   *)
EXTENDS HashTable, TLC

Symmetry == Permutations(Key) \cup Permutations(Val)
=============================================================================
