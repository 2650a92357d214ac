------------------------------ MODULE MCBytecode ------------------------------
(* A small instance of Bytecode for TLC.                                   *)
EXTENDS Bytecode

CONSTANTS x, y, z

Names == {x, y, z}
Expr(form, name) == [form |-> form, name |-> name, negated |-> FALSE]
Minus(form, name) == [form |-> form, name |-> name, negated |-> TRUE]
Zero == Expr("literal", Callee)
Called == Expr("call", Callee)
NoParameter == [params |-> <<>>, dflt |-> 0]
Required == [params |-> <<z>>, dflt |-> 0]
Optional == [params |-> <<x>>, dflt |-> 1]

At(depth, lines) == {[depth |-> depth, kind |-> l[1], name |-> l[2], with |-> l[3]] : l \in lines}

(* Lines of a file, of a function, of a closure and of a function in it.   *)
Program ==
  At(0, {<<"function", Callee, Optional>>, <<"function", Callee, Required>>})
    \cup
  At(1, {<<"closure", y, NoParameter>>, <<"function", Callee, NoParameter>>,
         <<"if", Callee, Zero>>, <<"assign", x, Zero>>, <<"assign!", x, Zero>>, <<"expression!", Callee, Called>>,
         <<"return", Callee, Called>>, <<"return", Callee, Minus("call", Callee)>>,
         <<"return", Callee, Minus("name", y)>>, <<"compound", x, Minus("literal", Callee)>>})
    \cup
  At(2, {<<"closure", y, NoParameter>>, <<"item", y, Zero>>, <<"assign", x, Zero>>,
         <<"assign", y, Expr("name", x)>>, <<"assign!", x, Zero>>, <<"expression!", Callee, Expr("name", y)>>,
         <<"compound", x, Expr("name", y)>>, <<"if", Callee, Zero>>})
    \cup
  At(3, {<<"call", Callee, Zero>>, <<"return", Callee, Expr("name", x)>>})
=============================================================================
