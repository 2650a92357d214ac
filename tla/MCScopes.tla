------------------------------ MODULE MCScopes ------------------------------
(* Small programs for Scopes.                                              *)
EXTENDS Scopes, TLC

(* One function f(p) that reads and writes the global g, shadows it with a  *)
(* loop variable, in its body or in a block, and creates a closure over p   *)
(* and the g in force.                                                      *)
ProgParam == [f \in Fn |-> "p"]
ProgLoopVar == [c \in Fn \cup {"main", "closure"} |-> IF c \in Fn THEN {"g"} ELSE {}]
ProgCaptures == [f \in Fn |-> {"p", "g"}]
ProgFn == [s \in Site |-> IF s = "main_g" THEN "main" ELSE "f"]
ProgName == [s \in Site |-> "g"]
ProgBlock == [s \in Site |-> 0]

(* The same function, but its loop variable has the name of its parameter.  *)
ParamLoopVar == [c \in Fn \cup {"main", "closure"} |-> IF c \in Fn THEN {"p"} ELSE {}]

Symmetry == Permutations(Loc) \cup Permutations(Closure)
=============================================================================
