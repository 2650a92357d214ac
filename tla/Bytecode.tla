------------------------------- MODULE Bytecode -------------------------------
(***************************************************************************)
(* What the parser writes into a chunk for names, calls, functions and     *)
(* closures, and what of it outlives the rollback of a failed statement.   *)
(* The words, the line marks and their rollback; the constants, the        *)
(* capture analysis and last_bare_call_end, which no rollback touches; and *)
(* the opcodes that build a closure from what the analysis found.  Jump    *)
(* targets and the loops are in Compiler, the storage of the variables in  *)
(* Scopes.                                                                 *)
(***************************************************************************)
EXTENDS Naturals, FiniteSets, SequencesExt

CONSTANTS
  Name,          \* variables
  Callee,        \* the name every call and every named function uses
  Text,          \* the lines a program is made of, each with the depth it may stand at
  Lost,          \* what a statement may have compiled before its error
  LeftMax,       \* how many boxes a closure may have when a name to capture is undefined
  CaptureMax,    \* MAX_CAPTURES
  LocalMax,      \* MAX_TRACKED_LOCALS
  LineMax        \* bound: lines of a program

Expression == [form : {"literal", "name", "call"}, name : Name \cup {Callee}, negated : BOOLEAN]
Signature == [params : Seq(Name), dflt : {0, 1}]

ASSUME BytecodeAssumption ==
  /\ \A l \in Text :
       /\ IF l.kind \in {"function", "closure"} THEN l.with \in Signature ELSE l.with \in Expression
       /\ l.kind \in {"assign", "assign!", "compound", "item", "closure"} => l.name \in Name
       /\ l.with \in Expression /\ l.with.form = "name" => l.with.name \in Name
  /\ Lost \subseteq {"call", "define", "function"} /\ LeftMax \in Nat
  /\ {CaptureMax, LocalMax, LineMax} \subseteq Nat \ {0}

VARIABLES
  parser,   \* the chunk and the parser's globals: see BytecodeInit
  open,     \* the functions and if-blocks being parsed, outermost first
  line,     \* line of the last statement begun
  pending,  \* vm->pending_upvalues: whose box, and whether this closure's OP_CAPTUREs put it there
  made      \* the last closure made: where its code starts and the names of its boxes

bytecodeVars == <<parser, open, line, pending, made>>

None == [at |-> 0, boxes |-> <<>>]
NothingLost == [calls |-> {}, functions |-> {}]

BytecodeInit ==
  /\ parser = [code |-> <<>>, count |-> 0, marks |-> <<>>, functions |-> {}, lastCall |-> 0,
               capturing |-> FALSE, locals |-> {}, captured |-> <<>>, outer |-> {},
               params |-> <<>>, depth |-> 0, body |-> 0, failed |-> FALSE, line |-> 0, lost |-> NothingLost]
  /\ open = <<>> /\ line = 0 /\ pending = <<>> /\ made = None

-----------------------------------------------------------------------------
(* chunk_emit() for an opcode and its operands.  An instruction stands at  *)
(* the offset of its first word.  meant, line and body are history: what   *)
(* the text says, the line of its statement (0 for what is written after a *)
(* nested block) and the function it belongs to; and so is parser.lost,     *)
(* where discarded calls ended and which constants discarded code loaded.   *)

chunk_emit(s, op, words, arg, meant) ==
  LET instruction == [op |-> op, words |-> words, arg |-> arg, meant |-> meant,
                      line |-> s.line, body |-> s.body]
  IN  [s EXCEPT !.code = [o \in DOMAIN @ \cup {s.count} |-> IF o = s.count THEN instruction ELSE @[o]],
                !.count = @ + words]

Truncated(s, count) ==
  [s EXCEPT !.count = count, !.code = [o \in {q \in DOMAIN @ : q < count} |-> @[o]]]

(* chunk_mark_line().                                                      *)
Marked(s, at) ==
  IF s.marks # <<>> /\ Last(s.marks).at >= at THEN s
  ELSE [s EXCEPT !.marks = Append(@, [at |-> at, line |-> s.line])]

LineFor(at) ==
  LET found == {i \in DOMAIN parser.marks : parser.marks[i].at <= at}
  IN  IF found = {} THEN 0 ELSE parser.marks[Max(found)].line

-----------------------------------------------------------------------------
(* Names.  capture_classify() decides at a name's first occurrence in a    *)
(* closure, from the names of the enclosing function so far.               *)

Room(names) == Cardinality(names) < LocalMax
IsCaptured(s, n) == Contains(s.captured, n)
(* Mutant: the search does not stop at the name.                           *)
capture_slot_unbroken(s, n) == Len(s.captured) + 1
capture_slot(s, n) == IF IsCaptured(s, n) THEN SelectInSeq(s.captured, LAMBDA m : m = n) ELSE Len(s.captured) + 1
current_param_slot(s, n) == SelectInSeq(s.params, LAMBDA m : m = n)

MustCapture(s, n, asWrite) == n \notin s.locals /\ (IsCaptured(s, n) \/ ~ (asWrite /\ n \notin s.outer))

capture_classify(s, n, asWrite) ==
  IF n \in s.locals \/ IsCaptured(s, n) THEN s
  ELSE IF ~ MustCapture(s, n, asWrite) THEN IF Room(s.locals) THEN [s EXCEPT !.locals = @ \cup {n}] ELSE s
  ELSE IF Len(s.captured) < CaptureMax THEN [s EXCEPT !.captured = Append(@, n)]
  ELSE [s EXCEPT !.failed = TRUE]

outer_locals_add(s, n) ==
  IF s.depth = 1 /\ Room(s.outer) THEN [s EXCEPT !.outer = @ \cup {n}] ELSE s

emit_load(s, n) ==
  LET t == IF s.capturing THEN capture_classify(s, n, FALSE) ELSE s
  IN  IF s.capturing /\ MustCapture(s, n, FALSE) THEN chunk_emit(t, "LOAD_UPVALUE", 2, capture_slot(t, n), n)
      ELSE IF Contains(s.params, n) THEN chunk_emit(t, "LOAD_LOCAL", 2, current_param_slot(s, n), n)
      ELSE chunk_emit(t, "LOAD", 3, n, n)

emit_store(s, n) ==
  LET o == outer_locals_add(s, n)
      t == IF s.capturing THEN capture_classify(o, n, TRUE) ELSE o
      fresh == n \notin o.locals /\ ~ IsCaptured(o, n)
  IN  IF s.capturing /\ MustCapture(o, n, TRUE) THEN chunk_emit(t, "STORE_UPVALUE", 2, capture_slot(t, n), n)
      ELSE IF s.capturing /\ fresh THEN chunk_emit(t, "DEFINE", 2, n, n)
      ELSE IF Contains(s.params, n) THEN chunk_emit(t, "STORE_LOCAL", 2, current_param_slot(s, n), n)
      ELSE chunk_emit(t, "STORE", 3, n, n)

emit_define_param(s, n) ==
  LET o == outer_locals_add(s, n)
      t == IF s.capturing /\ ~ IsCaptured(o, n) /\ Room(o.locals) THEN [o EXCEPT !.locals = @ \cup {n}] ELSE o
  IN  chunk_emit([t EXCEPT !.params = Append(@, n)], "DEFINE_LOCAL", 3, Len(s.params) + 1, n)

-----------------------------------------------------------------------------
(* Expressions: a literal, a name or a call, with or without a minus.      *)

parse_call_args(s) ==
  LET t == chunk_emit(s, "CALL", 4, Callee, Callee) IN [t EXCEPT !.lastCall = t.count]

parse_unary(s, e) ==
  LET t == CASE e.form = "literal" -> chunk_emit(s, "PUSH", 2, 0, 0)
             [] e.form = "name"    -> emit_load(s, e.name)
             [] e.form = "call"    -> parse_call_args(s)
  IN  IF e.negated THEN chunk_emit(t, "NEGATE", 1, 0, 0) ELSE t

(* The test of parse_return(): the expression was one call and nothing     *)
(* else.                                                                   *)
(* Mutant: a call somewhere in it will do.                                 *)
IsBareCallAnywhere(s, t) == t.lastCall > s.count
IsBareCall(s, t) == t.lastCall = t.count

(* The word four back becomes OP_TAIL_CALL, whatever it was.               *)
Patched(t) ==
  LET at == t.count - 4
      was == IF at \in DOMAIN t.code THEN t.code[at]
             ELSE [op |-> "", words |-> 1, arg |-> 0, meant |-> 0, line |-> 0, body |-> t.body]
      patched == [was EXCEPT !.op = "TAIL_CALL"]
  IN  [t EXCEPT !.code = [o \in DOMAIN @ \cup {at} |-> IF o = at THEN patched ELSE @[o]]]

parse_return(s, e) ==
  LET t == parse_unary(s, e)
  IN  chunk_emit(IF IsBareCall(s, t) THEN Patched(t) ELSE t, "RETURN", 1, 0, 0)

(* classify_operand(): what the words from one offset to another are.      *)
classify_operand(s, from, to) ==
  LET op == s.code[from].op
  IN  CASE to - from = 2 /\ op = "LOAD_LOCAL" -> "local"
        [] to - from = 3 /\ op = "LOAD"       -> "name"
        [] to - from = 2 /\ op = "PUSH"       -> "literal"
        [] OTHER -> "none"

(* n += e.                                                                 *)
parse_compound_assignment(s, n, e) ==
  LET l == emit_load(s, n)
      r == parse_unary(l, e)
      lhs == classify_operand(r, s.count, l.count)
      rhs == classify_operand(r, l.count, r.count)
      words(operand) == IF operand = "name" THEN 2 ELSE 1
  IN  IF lhs \in {"local", "name"} /\ rhs # "none"
      THEN chunk_emit(Truncated(r, s.count), "COMPOUND", 2 + words(lhs) + words(rhs), [of |-> n, op |-> r.code[l.count].op, with |-> r.code[l.count].meant], e)
      ELSE emit_store(chunk_emit(r, "ADD", 1, 0, 0), n)

-----------------------------------------------------------------------------
(* Statements of one line: the loop body of parse() and parse_compound().  *)

Begun == Marked([parser EXCEPT !.failed = FALSE, !.line = line + 1], parser.count)

(* The rollback of a statement that began with this many words and marks.  *)
(* Mutant: the marks of a discarded statement stay.                        *)
RolledBackMarked(s, count, marks) == IF s.failed THEN Truncated(s, count) ELSE s

Gone(s, count, ops) == {o \in DOMAIN s.code : o >= count /\ s.code[o].op \in ops}
LostWith(s, count) ==
  [calls |-> s.lost.calls \cup {o + 4 : o \in Gone(s, count, {"CALL", "TAIL_CALL"})},
   functions |-> s.lost.functions \cup {s.code[o].arg : o \in Gone(s, count, {"PUSH_FUNCTION"})}]

RolledBack(s, count, marks) ==
  IF s.failed
  THEN Truncated([s EXCEPT !.marks = SubSeq(@, 1, marks), !.lost = LostWith(s, count)], count)
  ELSE s

(* What of the discarded code leaves a trace in the parser.                *)
Discarded(s, count) ==
  LET ops == {s.code[o].op : o \in {q \in DOMAIN s.code : q >= count}}
  IN  UNION {IF ops \cap {"CALL", "TAIL_CALL"} = {} THEN {} ELSE {"call"},
             IF "DEFINE" \in ops THEN {"define"} ELSE {},
             IF "PUSH_FUNCTION" \in ops THEN {"function"} ELSE {}}

Survivable(s, count) == s.failed => Discarded(s, count) \subseteq Lost

Statement(s) ==
  /\ line < LineMax /\ Survivable(s, parser.count)
  /\ line' = line + 1
  /\ parser' = RolledBack(s, parser.count, Len(parser.marks))
  /\ made' = None
  /\ UNCHANGED <<open, pending>>

Failed(s) == [s EXCEPT !.failed = TRUE]
Lines(kind) == {l \in Text : l.kind = kind /\ l.depth = parser.depth}

Assign == \E l \in Lines("assign") : Statement(emit_store(parse_unary(Begun, l.with), l.name))

Compound == \E l \in Lines("compound") : Statement(parse_compound_assignment(Begun, l.name, l.with))

CallStatement == Lines("call") # {} /\ Statement(chunk_emit(parse_call_args(Begun), "POP", 1, 0, 0))

(* n[0] = 0                                                                *)
SetItem ==
  \E l \in Lines("item") :
    LET s == chunk_emit(chunk_emit(emit_load(Begun, l.name), "PUSH", 2, 0, 0), "PUSH", 2, 0, 0)
    IN  Statement(chunk_emit(s, "INDEX_SET", 1, 0, 0))

ReturnStatement == \E l \in Lines("return") : parser.depth > 0 /\ Statement(parse_return(Begun, l.with))

(* An error after an expression, or after a whole assignment.              *)
ExpressionFails == \E l \in Lines("expression!") : Statement(Failed(parse_unary(Begun, l.with)))
AssignFails == \E l \in Lines("assign!") : Statement(Failed(emit_store(parse_unary(Begun, l.with), l.name)))

-----------------------------------------------------------------------------
(* Statements with a block inside.                                         *)

FrameOf(kind, name, sig) ==
  [kind |-> kind, name |-> name, sig |-> sig, count |-> parser.count, marks |-> Len(parser.marks),
   line |-> line + 1, depth |-> parser.depth, body |-> parser.body, params |-> parser.params,
   capturing |-> parser.capturing, locals |-> parser.locals, captured |-> parser.captured]

BlockBegins(s, frame) ==
  /\ line < LineMax
  /\ line' = line + 1
  /\ parser' = s
  /\ open' = Append(open, frame)
  /\ made' = None
  /\ UNCHANGED pending

(* parse_function_body() up to the body: over the function comes a jump,   *)
(* and its parameters are stored last first.                               *)
EnterFunction(s, sig) ==
  LET t == chunk_emit(s, "JUMP", 2, 0, 0)
      b == [t EXCEPT !.depth = @ + 1, !.body = t.count, !.params = <<>>,
                     !.outer = IF s.depth = 0 THEN {} ELSE @]
      arity == Len(sig.params)
      with[k \in 0 .. arity] ==
        IF k = 0 THEN chunk_emit(b, "PUSH_SCOPE", 1, s.body, s.capturing)
        ELSE emit_define_param(with[k - 1], sig.params[arity + 1 - k])
  IN  with[arity]

(* A named function, which is refused inside another one once its body has *)
(* been parsed.                                                            *)
FunctionBegins ==
  \E l \in Lines("function") :
    BlockBegins(EnterFunction([Begun EXCEPT !.capturing = FALSE], l.with), FrameOf("function", Callee, l.with))

(* n = function(...):  Only one directly inside a function captures.       *)
ClosureBegins ==
  \E l \in Lines("closure") :
    LET s == IF parser.depth = 1 THEN [Begun EXCEPT !.capturing = TRUE, !.locals = {}, !.captured = <<>>]
             ELSE [Begun EXCEPT !.capturing = FALSE]
      IN  BlockBegins(EnterFunction(s, l.with), FrameOf("closure", l.name, l.with))

IfBegins ==
  LET s == chunk_emit(chunk_emit(Begun, "PUSH", 2, 0, 0), "JUMP_IF_FALSE", 2, 0, 0)
  IN  Lines("if") # {} /\ BlockBegins(chunk_emit(s, "PUSH_SCOPE", 1, 0, 0), FrameOf("if", Callee, <<>>))

(* chunk_add_pool() for a function.                                        *)
SameConstant(f, g) == f.at = g.at /\ Len(f.sig.params) = Len(g.sig.params)

emit_plain_function_value(s, f) ==
  LET same == {g \in s.functions : SameConstant(g, f)}
      value == IF same = {} THEN f ELSE CHOOSE g \in same : TRUE
  IN  chunk_emit([s EXCEPT !.functions = @ \cup {value}], "PUSH_FUNCTION", 2, value, f)

(* The OP_CAPTUREs, two words each.                                        *)
emit_captures(s) ==
  LET after == {s.count + 2 * (i - 1) : i \in DOMAIN s.captured}
      name(o) == s.captured[(o - s.count) \div 2 + 1]
      capture(o) == [op |-> "CAPTURE", words |-> 2, arg |-> name(o), meant |-> name(o),
                     line |-> s.line, body |-> s.body]
  IN  [s EXCEPT !.code = [o \in DOMAIN @ \cup after |-> IF o \in after THEN capture(o) ELSE @[o]],
                !.count = @ + 2 * Len(s.captured)]

emit_closure(s, f) ==
  LET defaults == IF f.sig.dflt = 0 THEN 0 ELSE Len(f.sig.params)
  IN  chunk_emit(emit_captures(s), "MAKE_CLOSURE", 7 + defaults, f, s.captured)

(* Mutant: capturing is not put back after the body of a function.         *)
OutsideForgetful(s, f) == [s EXCEPT !.captured = f.captured, !.locals = f.locals]

(* What is put back after the body of a function.                          *)
Outside(s, f) == [s EXCEPT !.capturing = f.capturing, !.captured = f.captured, !.locals = f.locals]

(* The end of a block, if it had a statement.  Whether the last one inside *)
(* failed is also whether this one does.                                   *)
BlockEnds(s) ==
  LET frame == Last(open)
  IN  /\ line > frame.line /\ Survivable(s, frame.count)
      /\ parser' = RolledBack(s, frame.count, frame.marks)
      /\ open' = Front(open)
      /\ made' = None
      /\ UNCHANGED <<line, pending>>

IfEnds ==
  /\ open # <<>> /\ Last(open).kind = "if"
  /\ BlockEnds(chunk_emit([parser EXCEPT !.line = 0], "POP_SCOPE", 1, Last(open).count, 0))

FunctionEnds ==
  /\ open # <<>> /\ Last(open).kind # "if"
  /\ LET frame == Last(open)
         void == chunk_emit(chunk_emit([parser EXCEPT !.line = 0], "PUSH", 2, 0, 0), "RETURN", 1, 0, 0)
         s == [void EXCEPT !.params = frame.params, !.depth = frame.depth, !.body = frame.body]
         f == [at |-> parser.body, sig |-> frame.sig]
     IN  IF frame.kind = "closure"
         THEN LET t == IF s.capturing /\ s.captured # <<>> THEN emit_closure(s, f)
                       ELSE emit_plain_function_value(s, f)
              IN  BlockEnds(emit_store(Outside(t, frame), frame.name))
         ELSE IF s.depth > 0
         THEN BlockEnds(Failed(Outside(s, frame)))
         ELSE BlockEnds(chunk_emit(emit_plain_function_value(Outside(s, frame), f), "STORE", 3, Callee, Callee))

-----------------------------------------------------------------------------
(* OP_CAPTURE for each name, then OP_MAKE_CLOSURE.  A call may come between*)
(* two statements of the text, from the shell or from another module.      *)
Closures == {o \in DOMAIN parser.code : parser.code[o].op = "MAKE_CLOSURE"}

RunMakeClosure ==
  /\ open = <<>>
  /\ \E o \in Closures :
       LET names == parser.code[o].meant
           boxes == pending \o names
       IN  /\ Len(boxes) <= CaptureMax
           /\ made' = [at |-> parser.code[o].arg.at, boxes |-> SubSeq(boxes, 1, Len(names))]
           /\ pending' = <<>>
  /\ UNCHANGED <<parser, open, line>>

(* A name is not defined when its box is asked for, or there is no room.   *)
RunCaptureFails ==
  /\ open = <<>>
  /\ \E o \in Closures :
       \E k \in 0 .. Len(parser.code[o].meant) - 1 :
         /\ k <= LeftMax /\ Len(pending) + k <= CaptureMax
         /\ pending' = pending \o SubSeq(parser.code[o].meant, 1, k)
  /\ made' = None
  /\ UNCHANGED <<parser, open, line>>

(* The end of the text: LineMax statements.                                *)
EndOfText == line = LineMax /\ UNCHANGED bytecodeVars

BytecodeNext ==
  \/ Assign \/ Compound \/ CallStatement \/ SetItem \/ ReturnStatement \/ ExpressionFails \/ AssignFails
  \/ FunctionBegins \/ ClosureBegins \/ IfBegins \/ IfEnds \/ FunctionEnds
  \/ RunMakeClosure \/ RunCaptureFails \/ EndOfText

BytecodeSpec == BytecodeInit /\ [][BytecodeNext]_bytecodeVars

-----------------------------------------------------------------------------
written == parser.code
NameOp == {"LOAD", "LOAD_LOCAL", "LOAD_UPVALUE", "STORE", "STORE_LOCAL", "STORE_UPVALUE",
           "DEFINE", "DEFINE_LOCAL"}
Upvalue == {"LOAD_UPVALUE", "STORE_UPVALUE"}
With(ops) == {o \in DOMAIN written : written[o].op \in ops}
InClosure(o) == written[o].body # 0 /\ written[written[o].body].meant = TRUE
Uses(o, n) ==
  \/ written[o].op \in NameOp /\ written[o].meant = n
  \/ written[o].op = "COMPOUND" /\ written[o].arg.of = n
  \/ written[o].op = "COMPOUND" /\ written[o].arg.op # "PUSH" /\ written[o].arg.with = n

(* Types; and the instructions follow one another without gap or overlap   *)
(* through every rollback, fusion and patch of the code.                      *)
BytecodeTypeOK ==
  /\ parser.failed \in BOOLEAN /\ parser.capturing \in BOOLEAN
  /\ {parser.count, parser.lastCall, parser.depth, parser.body, line} \subseteq Nat
  /\ parser.locals \subseteq Name /\ parser.outer \subseteq Name
  /\ {parser.captured, parser.params, pending, made.boxes} \subseteq Seq(Name)
  /\ Len(parser.captured) <= CaptureMax /\ Len(pending) <= CaptureMax
  /\ UNION {o .. o + written[o].words - 1 : o \in DOMAIN written} = 0 .. parser.count - 1
  /\ \A o \in DOMAIN written : (o + 1 .. o + written[o].words - 1) \cap DOMAIN written = {}

(* parse_return() makes a tail call of a call whose value is returned.  It  *)
(* does not hold: of README section 4.                                      *)
IsReturnedCall(o) == written[o].meant = Callee /\ o + 4 \in DOMAIN written /\ written[o + 4].op = "RETURN"
TailCallsAreReturnedCalls == \A o \in With({"TAIL_CALL"}) : IsReturnedCall(o)

(* chunk_add_pool() gives every function its own constant: the code and the *)
(* parameters that its text declares.  It does not hold: of README 4.       *)
FunctionsAreTheirOwn == \A o \in With({"PUSH_FUNCTION"}) : written[o].arg = written[o].meant

(* Statements were discarded before it, a whole function perhaps: still     *)
(* chunk_line_for_offset() finds, for the offset of every instruction that  *)
(* a statement itself wrote, that statement's line.                         *)
LinesNameTheirStatement ==
  \A o \in DOMAIN written : written[o].line # 0 => LineFor(o) = written[o].line

(* A fused assignment has the whole of its right-hand side as its operand.  *)
FusedAssignmentsAreWhole ==
  \A o \in With({"COMPOUND"}) :
    LET e == written[o].meant IN
    /\ ~ e.negated
    /\ IF e.form = "literal" THEN written[o].arg.op = "PUSH"
       ELSE e.form = "name" /\ written[o].arg.op \in {"LOAD", "LOAD_LOCAL"} /\ written[o].arg.with = e.name

(* Constants and last_bare_call_end outlive the statement that made them,   *)
(* but a stale one does no other harm than this: a function may be given    *)
(* the constant of a discarded function that began at the same offset with  *)
(* as many parameters, so its own but for the default values; and a return  *)
(* that is no call's may be patched where its value ends exactly at the     *)
(* word at which a discarded call had ended.                                *)
StaleConstant(i) == i.arg \in parser.lost.functions /\ SameConstant(i.arg, i.meant)
RewrittenCodeMatchesText ==
  /\ \A o \in With({"PUSH_FUNCTION"}) : written[o].arg = written[o].meant \/ StaleConstant(written[o])
  /\ \A o \in With({"TAIL_CALL"}) : IsReturnedCall(o) \/ o + 4 \in parser.lost.calls
  /\ FusedAssignmentsAreWhole

(* The boxes that OP_CAPTURE collects for a closure are, slot for slot,    *)
(* those of the names that its body was compiled to reach through them.    *)
UpvaluesAreTheNamed ==
  \A o \in With(Upvalue) :
    made # None /\ written[o].body = made.at =>
      written[o].arg \in DOMAIN made.boxes /\ made.boxes[written[o].arg] = written[o].meant

(* In one body a name is captured or local, not now this and then that:    *)
(* across failed statements and the functions inside.                      *)
OneMeaningPerName ==
  \A o \in With(Upvalue), q \in DOMAIN written :
    written[q].body = written[o].body /\ Uses(q, written[o].meant) => written[q].op \in Upvalue

(* A closure that assigns to a variable of the function around it updates  *)
(* that variable and does not make one of its own (README.md:631).         *)
SettersCapture ==
  \A o \in With({"DEFINE", "STORE"}) :
    InClosure(o) =>
      ~ \E q \in With({"STORE", "STORE_LOCAL", "DEFINE_LOCAL"}) :
          q < written[o].body /\ written[q].body = written[written[o].body].arg /\ written[q].meant = written[o].meant

(* A closure's first assignment to a name of its own defines it, so that   *)
(* no later one walks up to a global of that name.                         *)
FirstAssignmentDefines ==
  \A o \in With({"STORE"}) :
    InClosure(o) =>
      \E q \in With({"DEFINE"}) : q < o /\ written[q].body = written[o].body /\ written[q].meant = written[o].meant

(* The capture rule of the comment at parser.c:88, kept over failed        *)
(* statements and the functions inside a closure.                          *)
NamesFollowCaptureRule == OneMeaningPerName /\ SettersCapture /\ FirstAssignmentDefines

(* The same for the block it stands in: of README section 4.               *)
FirstAssignmentDefinesHere ==
  \A o \in With({"STORE"}) :
    InClosure(o) =>
      \E q \in With({"DEFINE"}) :
        /\ q < o /\ written[q].body = written[o].body /\ written[q].meant = written[o].meant
        /\ \A e \in With({"POP_SCOPE"}) : written[e].body = written[o].body /\ e < o => q < written[e].arg \/ q > e

(* A closure captures what its code uses: of README section 4.             *)
CapturesAreUsed ==
  \A o \in With({"MAKE_CLOSURE"}), i \in 1 .. CaptureMax :
    i \in DOMAIN written[o].meant =>
      \E q \in With(Upvalue) : written[q].body = written[o].arg.at /\ written[q].arg = i

(* The instruction pointer has passed the operands when an error looks for *)
(* its line: of README section 4.                                          *)
ErrorsNameTheirStatement ==
  \A o \in With({"INDEX_SET"}) : LineFor(o + written[o].words) = written[o].line
=============================================================================
