------------------------------ MODULE Compiler ------------------------------
(***************************************************************************)
(* parser.c as a statement machine: a one-pass compiler that emits code    *)
(* with holes for the jumps it cannot resolve yet, and recovers from a     *)
(* syntax error by truncating the code to where the statement began.  The  *)
(* C call stack of the recursive descent is the variable frames; the       *)
(* source text is whatever statement comes next.  Which tokens recovery    *)
(* skips is not modelled: after it, again, any statement may come.         *)
(***************************************************************************)
EXTENDS Integers, Sequences, FiniteSets, SequencesExt

CONSTANTS
  Source,     \* which of "fault", "postfixFault", "import", "loopImport" files contain
  LoopMax,    \* LOOP_MAX
  BreakMax,   \* BREAK_MAX
  CodeMax,    \* bound: no statement begins behind this many words
  DepthMax    \* bound: nesting of constructs and files

ASSUME CompilerAssumption ==
  /\ Source \subseteq {"fault", "postfixFault", "import", "loopImport"}
  /\ {LoopMax, BreakMax, CodeMax, DepthMax} \subseteq Nat

VARIABLES
  code,       \* the chunk's words: each final ("word") or an unpatched "hole"
  frames,     \* the constructs being parsed, outermost first
  loop_stack, \* its loop_depth live entries: those above are reset before use
  loop_floor,
  compile_scope_depth, function_depth,
  parse_had_error,
  any_error,  \* parse()'s local
  reported,   \* errors printed: of a "statement" of parse(), or "inside" one
  eof

context == <<loop_stack, loop_floor, compile_scope_depth, function_depth>>
loop_depth == Len(loop_stack)
vars == <<code, frames, context, parse_had_error, any_error, reported, eof>>

Word == {"word", "hole"}
Scoped == {"if", "else", "each", "function", "lambda"}
Functions == {"function", "lambda"}
Loops == {"while", "each"}
Kind == Scoped \cup Loops \cup {"file"}

Patch == [file : Nat, pos : Nat]
LoopContext == [scope : Nat, iter : Nat, patches : Seq(Patch)]
Construct ==
  [kind : Kind, saved : Nat, hole : Nat, ctx : 0 .. LoopMax, floor : 0 .. LoopMax,
   nested : BOOLEAN, outer : Seq(Word), any : BOOLEAN]
Loop(iter) == [scope |-> compile_scope_depth, iter |-> iter, patches |-> <<>>]

TypeOK ==
  /\ code \in Seq(Word) /\ frames \in Seq(Construct)
  /\ loop_stack \in Seq(LoopContext)
  /\ \A i \in DOMAIN loop_stack : Len(loop_stack[i].patches) <= BreakMax
  /\ loop_depth \in 0 .. LoopMax /\ loop_floor \in 0 .. loop_depth
  /\ compile_scope_depth \in Nat /\ function_depth \in Nat
  /\ parse_had_error \in BOOLEAN /\ any_error \in BOOLEAN /\ eof \in BOOLEAN
  /\ reported \subseteq {"statement", "inside"}

Init ==
  /\ code = <<>> /\ frames = <<>>
  /\ loop_stack = <<>> /\ loop_floor = 0
  /\ compile_scope_depth = 0 /\ function_depth = 0
  /\ parse_had_error = FALSE /\ any_error = FALSE /\ reported = {} /\ eof = FALSE

-----------------------------------------------------------------------------
(* Emitting and patching.                                                  *)

Emit(c, n) == c \o [i \in 1 .. n |-> "word"]

(* An opcode and the placeholder of its target.                            *)
EmitJump(c) == Append(Emit(c, 1), "hole")

PatchWords(c, positions) == [i \in DOMAIN c |-> IF i \in positions THEN "word" ELSE c[i]]

File == Cardinality({i \in DOMAIN frames : frames[i].kind = "file"})

InParse(stack) == stack = <<>> \/ Last(stack).kind = "file"
Where(stack) == IF InParse(stack) THEN "statement" ELSE "inside"

Frame(kind, hole) ==
  [kind |-> kind, saved |-> Len(code), hole |-> hole, ctx |-> loop_depth, floor |-> loop_floor,
   nested |-> FALSE, outer |-> <<>>, any |-> FALSE]

(* Where a statement can begin: the head of the loop of parse() or of      *)
(* parse_compound().                                                       *)
AtStatement == ~eof /\ Len(code) <= CodeMax

(* Mutant: parse() forgets earlier statements.                             *)
EndStatementForgetful(start, c, err, stack) ==
  /\ err => "fault" \in Source
  /\ code' = IF err THEN SubSeq(c, 1, start) ELSE c
  /\ frames' = stack
  /\ parse_had_error' = err
  /\ any_error' = IF InParse(stack) THEN err ELSE any_error
  /\ reported' = reported \cup (IF err THEN {Where(stack)} ELSE {})
  /\ UNCHANGED eof

(* parse_statement has returned to the loop around it, which rolls a       *)
(* failed statement back.  Only parse() accumulates the error.             *)
EndStatement(start, c, err, stack) ==
  /\ err => "fault" \in Source
  /\ code' = IF err THEN SubSeq(c, 1, start) ELSE c
  /\ frames' = stack
  /\ parse_had_error' = err
  /\ any_error' = (any_error \/ (err /\ InParse(stack)))
  /\ reported' = reported \cup (IF err THEN {Where(stack)} ELSE {})
  /\ UNCHANGED eof

Whole(c, err) == EndStatement(Len(code), c, err, frames)

(* A construct whose body follows.  An error in its header that does not   *)
(* return leaves parse_had_error set for parse_compound to reset.          *)
Open(frame, c, err) ==
  /\ Len(frames) < DepthMax
  /\ err => "fault" \in Source
  /\ code' = c
  /\ frames' = Append(frames, frame)
  /\ parse_had_error' = err
  /\ reported' = reported \cup (IF err THEN {"inside"} ELSE {})
  /\ UNCHANGED <<any_error, eof>>

-----------------------------------------------------------------------------
(* Statements.                                                             *)

(* An assignment, a call or a struct, well formed or not.                  *)
Simple(err) == AtStatement /\ Whole(Emit(code, 1), err) /\ UNCHANGED context

(* parse_return; parse_defer has the same guard.                           *)
Return ==
  /\ AtStatement
  /\ Whole(Emit(code, 2), function_depth = 0)
  /\ UNCHANGED context

(* parse_break                                                             *)
Break ==
  /\ AtStatement /\ loop_depth # loop_floor
  /\ LET ctx == loop_stack[loop_depth]
         c == EmitJump(Emit(Emit(code, compile_scope_depth - ctx.scope), ctx.iter))
     IN /\ Len(ctx.patches) < BreakMax
        /\ loop_stack' = [loop_stack EXCEPT
                            ![loop_depth].patches = Append(@, [file |-> File, pos |-> Len(c)])]
        /\ Whole(c, FALSE)
  /\ UNCHANGED <<loop_floor, compile_scope_depth, function_depth>>

(* parse_continue                                                          *)
Continue ==
  /\ AtStatement /\ loop_depth # loop_floor
  /\ Whole(Emit(Emit(code, compile_scope_depth - loop_stack[loop_depth].scope), 2),
           FALSE)
  /\ UNCHANGED context

(* break or continue outside a loop, or one break too many.                *)
BreakRefused ==
  /\ AtStatement
  /\ IF loop_depth = loop_floor THEN TRUE ELSE Len(loop_stack[loop_depth].patches) >= BreakMax
  /\ Whole(code, TRUE)
  /\ UNCHANGED context

(* parse_if                                                                *)
OpenIf(err) ==
  /\ AtStatement
  /\ Open(Frame("if", Len(code) + 2), Emit(EmitJump(code), 1), err)
  /\ compile_scope_depth' = compile_scope_depth + 1
  /\ UNCHANGED <<loop_stack, loop_floor, function_depth>>

Top == Last(frames)
InBody(kinds) == ~eof /\ frames # <<>> /\ Top.kind \in kinds

Else(err) ==
  /\ InBody({"if"})
  /\ err => "fault" \in Source
  /\ LET c == EmitJump(Emit(code, 1))
     IN /\ code' = Emit(PatchWords(c, {Top.hole}), 1)
        /\ frames' = Append(Front(frames), [Top EXCEPT !.kind = "else", !.hole = Len(c)])
  /\ parse_had_error' = (parse_had_error \/ err)
  /\ reported' = reported \cup (IF err THEN {"inside"} ELSE {})
  /\ UNCHANGED <<context, any_error, eof>>

CloseIf ==
  /\ InBody({"if", "else"})
  /\ EndStatement(Top.saved, PatchWords(Emit(code, 1), {Top.hole}), parse_had_error, Front(frames))
  /\ compile_scope_depth' = compile_scope_depth - 1
  /\ UNCHANGED <<loop_stack, loop_floor, function_depth>>

(* parse_for up to the body.  iter_slots are the iterator's words on the   *)
(* value stack (two stand for two or three).                               *)
OpenLoop(kind) ==
  /\ AtStatement /\ loop_depth < LoopMax
  /\ Open([Frame(kind, Len(code) + 2) EXCEPT !.ctx = loop_depth + 1],
          Emit(EmitJump(code), IF kind = "each" THEN 1 ELSE 0), FALSE)
  /\ loop_stack' = Append(loop_stack, Loop(IF kind = "each" THEN 2 ELSE 0))
  /\ compile_scope_depth' = compile_scope_depth + (IF kind = "each" THEN 1 ELSE 0)
  /\ UNCHANGED <<loop_floor, function_depth>>

(* The error exits of a loop header.  Those of a while condition that      *)
(* begins with a postfix chain do not take the context back.               *)
LoopRefused(leaves) ==
  /\ AtStatement
  /\ leaves => "postfixFault" \in Source /\ loop_depth < LoopMax
  /\ Whole(code, TRUE)
  /\ loop_stack' = IF leaves THEN Append(loop_stack, Loop(0)) ELSE loop_stack
  /\ UNCHANGED <<loop_floor, compile_scope_depth, function_depth>>

(* Mutant: finish_loop patches the exit of the loop only.                  *)
BreakHolesForgotten(ctx) == {}

BreakHoles(ctx) == {p.pos : p \in ToSet(ctx.patches)}

(* The rest of parse_for: finish_loop.                                     *)
CloseLoop ==
  /\ InBody(Loops)
  /\ LET body == Emit(code, IF Top.kind = "each" THEN 1 ELSE 0)
         c == Emit(body, 2)
     IN EndStatement(Top.saved,
                     PatchWords(c, {Top.hole} \cup BreakHoles(loop_stack[Top.ctx])),
                     parse_had_error, Front(frames))
  /\ loop_stack' = Front(loop_stack)
  /\ compile_scope_depth' = compile_scope_depth - (IF Top.kind = "each" THEN 1 ELSE 0)
  /\ UNCHANGED <<loop_floor, function_depth>>

(* parse_function and parse_function_expr up to the body; a malformed      *)
(* parameter list is a Simple error.                                       *)
OpenFunction(kind, err) ==
  /\ AtStatement
  /\ LET nested == kind = "function" /\ function_depth > 0
     IN Open([Frame(kind, Len(code) + 2) EXCEPT !.nested = nested],
             Emit(EmitJump(code), 1), err \/ nested)
  /\ loop_floor' = loop_depth
  /\ function_depth' = function_depth + 1
  /\ compile_scope_depth' = compile_scope_depth + 1
  /\ UNCHANGED loop_stack

(* Mutant: the enclosing function's floor is not put back.                 *)
CloseFunctionFloored(err) ==
  /\ InBody(Functions)
  /\ err => Top.kind = "lambda"
  /\ EndStatement(Top.saved, Emit(PatchWords(Emit(code, 2), {Top.hole}), 2),
                  parse_had_error \/ Top.nested \/ err, Front(frames))
  /\ loop_stack' = SubSeq(loop_stack, 1, Top.ctx)
  /\ function_depth' = function_depth - 1
  /\ compile_scope_depth' = compile_scope_depth - 1
  /\ UNCHANGED loop_floor

(* The rest of them, up to the store of the value.  What follows a         *)
(* function expression in its statement may be malformed.                  *)
CloseFunction(err) ==
  /\ InBody(Functions)
  /\ err => Top.kind = "lambda"
  /\ EndStatement(Top.saved, Emit(PatchWords(Emit(code, 2), {Top.hole}), 2),
                  parse_had_error \/ Top.nested \/ err, Front(frames))
  /\ loop_stack' = SubSeq(loop_stack, 1, Top.ctx) /\ loop_floor' = Top.floor
  /\ function_depth' = function_depth - 1
  /\ compile_scope_depth' = compile_scope_depth - 1

(* parse_import refuses where a scope is open.                             *)
ImportRefused ==
  /\ AtStatement /\ "import" \in Source /\ compile_scope_depth # 0
  /\ Whole(code, TRUE)
  /\ UNCHANGED context

(* aer_module_load saves the lexer, not the parser, and parses the file    *)
(* into a chunk of its own.                                                *)
Import ==
  /\ AtStatement /\ "import" \in Source /\ compile_scope_depth = 0
  /\ ~InParse(frames) => "loopImport" \in Source
  /\ Len(frames) < DepthMax
  /\ frames' = Append(frames, [Frame("file", 0) EXCEPT !.outer = code, !.any = any_error])
  /\ code' = <<>> /\ any_error' = FALSE /\ parse_had_error' = FALSE
  /\ UNCHANGED <<context, reported, eof>>

(* The end of the imported file.  Its code is run if it compiled, and a    *)
(* runtime error fails the import as well.                                 *)
EndImport(err) ==
  /\ InBody({"file"})
  /\ LET failed == any_error \/ err
         stack == Front(frames)
     IN /\ failed => "fault" \in Source
        /\ code' = Top.outer /\ frames' = stack
        /\ parse_had_error' = failed
        /\ any_error' = (Top.any \/ (failed /\ InParse(stack)))
        /\ reported' = reported \cup (IF failed THEN {Where(stack)} ELSE {})
  /\ UNCHANGED <<context, eof>>

EndOfFile ==
  /\ ~eof /\ frames = <<>>
  /\ eof' = TRUE
  /\ parse_had_error' = (parse_had_error \/ any_error)
  /\ UNCHANGED <<code, frames, context, any_error, reported>>

Done == eof /\ UNCHANGED vars

Next ==
  \/ Return \/ Break \/ Continue \/ BreakRefused
  \/ CloseIf \/ CloseLoop \/ Import \/ ImportRefused \/ EndOfFile \/ Done
  \/ \E kind \in Loops : OpenLoop(kind)
  \/ \E err \in BOOLEAN :
       \/ Simple(err) \/ OpenIf(err) \/ Else(err) \/ LoopRefused(err)
       \/ CloseFunction(err) \/ EndImport(err)
       \/ \E kind \in Functions : OpenFunction(kind, err)

Spec == Init /\ [][Next]_vars

-----------------------------------------------------------------------------
(* Properties.                                                             *)

Count(S, stack) == Cardinality({i \in DOMAIN stack : stack[i].kind \in S})

Below(i) == SubSeq(frames, 1, i - 1)

(* The loops around the innermost function.                                *)
FloorOf(stack) ==
  LET fs == {i \in DOMAIN stack : stack[i].kind \in Functions}
  IN IF fs = {} THEN 0
     ELSE Count(Loops, SubSeq(stack, 1, (CHOOSE i \in fs : \A j \in fs : j <= i) - 1))

(* The parser's globals tell the constructs that are open, whatever was    *)
(* rolled back on the way: scopes to pop for a break or continue, the loop *)
(* it belongs to, and the function it may not leave.                       *)
ContextMatches ==
  /\ compile_scope_depth = Count(Scoped, frames)
  /\ function_depth = Count(Functions, frames)
  /\ loop_depth = Count(Loops, frames)
  /\ loop_floor = FloorOf(frames)
  /\ \A i \in DOMAIN frames : frames[i].kind \in Loops =>
       /\ frames[i].ctx = Count(Loops, Below(i)) + 1
       /\ loop_stack[frames[i].ctx].scope = Count(Scoped, Below(i))
       /\ loop_stack[frames[i].ctx].iter = IF frames[i].kind = "each" THEN 2 ELSE 0

Holes == {i \in DOMAIN code : code[i] = "hole"}
OpenPatches == UNION {ToSet(loop_stack[i].patches) : i \in DOMAIN loop_stack}

(* Every word of the open file that is still a hole is one that an open    *)
(* construct will patch, however often statements were rolled back: none is *)
(* forgotten, so no jump of a finished file leads nowhere (finish_loop,     *)
(* parse_if, parse_function_body).                                         *)
HolesAccounted ==
  Holes \subseteq
    {frames[i].hole : i \in {j \in DOMAIN frames :
                               frames[j].kind # "file" /\ Count({"file"}, Below(j)) = File}}
      \cup {p.pos : p \in {q \in OpenPatches : q.file = File}}

(* A statement that parse() rolled back, in the file or in one it imports, *)
(* is never forgotten.                                                     *)
FailedStatementsReported == eof /\ "statement" \in reported => parse_had_error

-----------------------------------------------------------------------------
(* Claims of the docs and comments that the code does not keep; README,     *)
(* section 4, says what happens instead.  No run checks them.               *)

(* finish_loop overwrites placeholders only.                               *)
PatchesAreHoles ==
  \A p \in OpenPatches : p.file = File => p.pos \in Holes

(* A file in which any error was printed counts as failed when parse       *)
(* returns.                                                                *)
AllErrorsReported == eof /\ reported # {} => parse_had_error

(* A file is imported between the top-level statements of another.         *)
ImportsAtTopLevel ==
  \A i \in DOMAIN frames : frames[i].kind = "file" => InParse(Below(i))
=============================================================================
