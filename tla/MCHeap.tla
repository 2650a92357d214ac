------------------------------- MODULE MCHeap -------------------------------
(* Small instances of Heap for TLC.                                        *)
EXTENDS Heap, TLC

(* Cells of one pool, and the entries of one VM's stack, are interchangeable. *)
Symmetry ==
  Permutations(Leaf) \cup Permutations(Container) \cup Permutations(Box) \cup Permutations(Stack \cap MainSlot)
=============================================================================
