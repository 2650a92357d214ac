-------------------------- MODULE ParserInvariants --------------------------
(***************************************************************************)
(* The inductive invariants of parser.c and chunk.c, and what relates one  *)
(* state of the parser to the next: the vocabulary of CompilerProofs.      *)
(***************************************************************************)
EXTENDS Compiler, Bytecode, DataFacts

-----------------------------------------------------------------------------
(* Compiler: the open constructs.                                          *)

Counted(S, stack) == {i \in DOMAIN stack : stack[i].kind \in S}

(* What the frame of a loop and its context say about the constructs       *)
(* around it, and what the frame of a function saved of them.              *)
LoopFrames(st, ls) ==
  \A i \in DOMAIN st : st[i].kind \in Loops =>
    /\ st[i].ctx = Count(Loops, Prefix(st, i - 1)) + 1
    /\ ls[st[i].ctx].scope = Count(Scoped, Prefix(st, i - 1))
    /\ ls[st[i].ctx].iter = IF st[i].kind = "each" THEN 2 ELSE 0

FunctionFrames(st) ==
  \A i \in DOMAIN st : st[i].kind \in Functions =>
    /\ st[i].ctx = Count(Loops, Prefix(st, i - 1))
    /\ st[i].floor = FloorOf(Prefix(st, i - 1))

Matches(st, ls) ==
  Len(ls) = Count(Loops, st) /\ LoopFrames(st, ls) /\ FunctionFrames(st)

HolesIn(c) == {i \in DOMAIN c : c[i] = "hole"}

(* Where the frames say their statements began: each not behind the next,  *)
(* so that rolling one back leaves those of the constructs around it.      *)
SavedOrdered(st, n) ==
  \A j \in DOMAIN st : st[j].kind # "file" =>
    st[j].saved <= IF j = Len(st) THEN n ELSE st[j + 1].saved

FilesSaved(st) == \A j \in DOMAIN st : st[j].kind = "file" => st[j].saved = Len(st[j].outer)

(* The invariant.  The globals of the parser tell the open constructs, and *)
(* so do the values a construct saved of them for when it ends.            *)
CompilerInv ==
  /\ TypeOK
  /\ Matches(frames, loop_stack)
  /\ compile_scope_depth = Count(Scoped, frames)
  /\ function_depth = Count(Functions, frames)
  /\ loop_floor = FloorOf(frames)
  /\ SavedOrdered(frames, Len(code)) /\ FilesSaved(frames)

-----------------------------------------------------------------------------
(* Compiler: files and holes.                                              *)

FilesFirst(st) ==
  \A i, j \in DOMAIN st : i <= j /\ st[j].kind = "file" => st[i].kind = "file"

(* A construct or a break will patch the hole h.                           *)
HoldsHole(st, ls, h) ==
  \/ \E i \in DOMAIN st : st[i].kind # "file" /\ st[i].hole = h
  \/ \E k \in DOMAIN ls : \E n \in DOMAIN ls[k].patches : ls[k].patches[n].pos = h

Accounted(c, st, ls) == \A h \in HolesIn(c) : HoldsHole(st, ls, h)

(* The importing files have no holes, and no break waits in them.          *)
OuterDone(st) == \A i \in DOMAIN st : st[i].kind = "file" => HolesIn(st[i].outer) = {}

PatchesHere(ls, st) ==
  \A k \in DOMAIN ls : \A n \in DOMAIN ls[k].patches :
    ls[k].patches[n].file = Count({"file"}, st)

(* A failed statement is known to parse(), to the one that imports the     *)
(* file, or to the caller of the outermost.                                *)
FailureKnown ==
  "statement" \in reported =>
    \/ any_error
    \/ \E i \in DOMAIN frames : frames[i].kind = "file" /\ frames[i].any
    \/ eof /\ parse_had_error

FilesInv ==
  /\ FilesFirst(frames) /\ OuterDone(frames)
  /\ PatchesHere(loop_stack, frames) /\ Accounted(code, frames, loop_stack)
  /\ FailureKnown
  /\ eof => frames = <<>> /\ (any_error => parse_had_error)

-----------------------------------------------------------------------------
(* Bytecode: the record of the parser, and code added to it.               *)

(* The fields of the record.                                               *)
Fields == {"code", "count", "marks", "functions", "lastCall", "capturing", "locals", "captured",
           "outer", "params", "depth", "body", "failed", "line", "lost"}

Kept(s, t, changed) == \A x \in Fields \ changed : t[x] = s[x]

Instruction(s, op, words, arg, meant) ==
  [op |-> op, words |-> words, arg |-> arg, meant |-> meant, line |-> s.line, body |-> s.body]

Shape(s) ==
  /\ DOMAIN s = Fields
  /\ s.count \in Nat /\ s.lastCall \in Nat /\ s.depth \in Nat /\ s.line \in Nat
  /\ s.body \in Nat /\ s.body <= s.count
  /\ s.capturing \in BOOLEAN /\ s.failed \in BOOLEAN
  /\ s.locals \subseteq Name /\ s.outer \subseteq Name
  /\ s.captured \in Seq(Name) /\ s.params \in Seq(Name) /\ Len(s.captured) <= CaptureMax

Calls == {"CALL", "TAIL_CALL"}

CodeShape(s) ==
  \A o \in DOMAIN s.code :
    /\ o \in Nat /\ DOMAIN s.code[o] = {"op", "words", "arg", "meant", "line", "body"}
    /\ s.code[o].words \in Nat /\ s.code[o].words >= 1 /\ o + s.code[o].words <= s.count
    /\ s.code[o].line \in Nat /\ s.code[o].body \in Nat /\ s.code[o].body <= o
    /\ s.code[o].op \in Calls => s.code[o].words = 4 /\ s.code[o].meant = Callee

(* The instructions follow one another without gap or overlap.             *)
Tiled(s) ==
  /\ \A x \in Nat : x < s.count => \E o \in DOMAIN s.code : o <= x /\ x < o + s.code[o].words
  /\ \A o, p \in DOMAIN s.code : o < p => o + s.code[o].words <= p

(* last_bare_call_end is the end of a call that is still in the code.      *)
CallKnown(s) ==
  s.lastCall # 0 => /\ s.lastCall >= 4 /\ s.lastCall - 4 \in DOMAIN s.code
                    /\ s.code[s.lastCall - 4].op \in Calls

Sound(s) == Shape(s) /\ CodeShape(s) /\ Tiled(s) /\ CallKnown(s)

IsWhole(i) ==
  /\ ~ i.meant.negated
  /\ IF i.meant.form = "literal" THEN i.arg.op = "PUSH"
     ELSE i.meant.form = "name" /\ i.arg.op \in {"LOAD", "LOAD_LOCAL"} /\ i.arg.with = i.meant.name

SlotOf(s, i) == i.arg \in DOMAIN s.captured /\ s.captured[i.arg] = i.meant

(* What an instruction written at o on the way from s to t is.             *)
NewOk(s, t, o) ==
  LET i == t.code[o] IN
  /\ i.line = s.line /\ i.body = s.body
  /\ i.op \notin {"PUSH_FUNCTION", "MAKE_CLOSURE"}
  /\ i.op = "TAIL_CALL" => o + 4 \in DOMAIN t.code /\ t.code[o + 4].op = "RETURN"
  /\ i.op = "COMPOUND" => IsWhole(i)
  /\ i.op \in Upvalue => s.capturing /\ (t.failed \/ SlotOf(t, i))

SameBelow(s, t, c) ==
  \A o \in Nat : o < c => /\ (o \in DOMAIN t.code) <=> (o \in DOMAIN s.code)
                          /\ o \in DOMAIN s.code => t.code[o] = s.code[o]

Longer(p, q) == Len(p) <= Len(q) /\ \A i \in DOMAIN p : q[i] = p[i]

(* t comes from s by writing code of the same body.                        *)
Adds(s, t) ==
  /\ Sound(t)
  /\ Kept(s, t, {"code", "count", "lastCall", "locals", "captured", "outer", "params", "failed"})
  /\ s.count <= t.count /\ SameBelow(s, t, s.count)
  /\ Longer(s.captured, t.captured)
  /\ s.failed => t.failed
  /\ \A o \in DOMAIN t.code : o >= s.count => NewOk(s, t, o)

(* t comes from s by a change of the names the parser keeps, with no code. *)
Names(s, t) ==
  /\ DOMAIN t = Fields
  /\ Kept(s, t, {"locals", "captured", "outer", "params", "failed"})
  /\ t.failed \in BOOLEAN /\ (s.failed => t.failed)
  /\ t.locals \subseteq Name /\ t.outer \subseteq Name
  /\ t.captured \in Seq(Name) /\ t.params \in Seq(Name) /\ Len(t.captured) <= CaptureMax
  /\ Longer(s.captured, t.captured)

(* An instruction without a part of its own in the invariants.             *)
Plain == {"PUSH", "NEGATE", "ADD", "POP", "INDEX_SET", "RETURN", "JUMP", "JUMP_IF_FALSE", "PUSH_SCOPE",
          "POP_SCOPE", "LOAD", "LOAD_LOCAL", "STORE", "STORE_LOCAL", "DEFINE", "DEFINE_LOCAL"}

(* What the first instruction written at an offset is.                     *)
At(t, o, op, meant) == o \in DOMAIN t.code /\ t.code[o].op = op /\ t.code[o].meant = meant

LoadFacts(s, t, n) ==
  /\ Adds(s, t) /\ Kept(s, t, {"code", "count", "locals", "captured", "failed"})
  /\ \/ At(t, s.count, "LOAD_UPVALUE", n) /\ t.count = s.count + 2
     \/ At(t, s.count, "LOAD_LOCAL", n) /\ t.count = s.count + 2
     \/ At(t, s.count, "LOAD", n) /\ t.count = s.count + 3

Expr(e) == e \in Expression /\ (e.form = "name" => e.name \in Name)

(* What parse_unary() wrote, by its first instruction and its length.      *)
UnaryFacts(s, t, e) ==
  /\ Adds(s, t) /\ Kept(s, t, {"code", "count", "lastCall", "locals", "captured", "failed"})
  /\ t.count > s.count /\ t.lastCall <= t.count
  /\ LET more == IF e.negated THEN 1 ELSE 0 IN
     \/ e.form = "literal" /\ At(t, s.count, "PUSH", 0) /\ t.count = s.count + 2 + more /\ t.lastCall = s.lastCall
     \/ /\ e.form = "name" /\ t.lastCall = s.lastCall
        /\ \/ At(t, s.count, "LOAD_UPVALUE", e.name) /\ t.count = s.count + 2 + more
           \/ At(t, s.count, "LOAD_LOCAL", e.name) /\ t.count = s.count + 2 + more
           \/ At(t, s.count, "LOAD", e.name) /\ t.count = s.count + 3 + more
     \/ /\ e.form = "call" /\ At(t, s.count, "CALL", Callee)
        /\ t.count = s.count + 4 + more /\ t.lastCall = s.count + 4

-----------------------------------------------------------------------------
(* Bytecode: the invariant in the middle of a statement or block that      *)
(* began at the offset c when there were m line marks.                     *)

(* An offset where an instruction begins or the code ends.                 *)
Boundary(s, c) == \A o \in DOMAIN s.code : o < c => o + s.code[o].words <= c

FrameSet ==
  [kind : {"function", "closure", "if"}, name : Name \cup {Callee}, sig : Signature \cup {<<>>},
   count : Nat, marks : Nat, line : Nat, depth : Nat, body : Nat, params : Seq(Name),
   capturing : BOOLEAN, locals : SUBSET Name, captured : Seq(Name)]

FrameOk(f) ==
  /\ f \in FrameSet /\ Len(f.captured) <= CaptureMax
  /\ f.kind # "if" => f.sig \in Signature
  /\ f.kind = "closure" => f.name \in Name

(* What encloses what: bases of the code and bodies of functions.          *)
FramesOk(s, fs, c) ==
  /\ \A j \in DOMAIN fs :
       /\ FrameOk(fs[j]) /\ fs[j].count <= c /\ fs[j].body <= fs[j].count /\ Boundary(s, fs[j].count)
       /\ fs[j].body <= s.body /\ (fs[j].kind # "if" => fs[j].body < s.body)
       /\ fs[j].kind = "if" => (IF j = Len(fs) THEN s.body ELSE fs[j + 1].body) = fs[j].body
  /\ \A j, k \in DOMAIN fs :
       j < k => /\ fs[j].count <= fs[k].count /\ fs[j].marks <= fs[k].marks /\ fs[j].body <= fs[k].body
                /\ fs[j].kind # "if" => fs[j].body < fs[k].body
  /\ c \in Nat /\ c <= s.count /\ s.body <= c /\ Boundary(s, c)

(* The marks that were there when a base was taken are those below it.     *)
IsBase(s, c, m) ==
  /\ m \in Nat /\ m <= Len(s.marks)
  /\ \A i \in DOMAIN s.marks : i <= m <=> s.marks[i].at < c

Mark == [at : Nat, line : Nat]

MarksOk(s, fs, c, m) ==
  /\ s.marks \in Seq(Mark)
  /\ \A i, j \in DOMAIN s.marks : i < j => s.marks[i].at < s.marks[j].at
  /\ IsBase(s, c, m) /\ \A j \in DOMAIN fs : IsBase(s, fs[j].count, fs[j].marks)

MarkedAt(s, o, l) ==
  \E i \in DOMAIN s.marks :
    /\ s.marks[i].at <= o /\ s.marks[i].line = l
    /\ \A j \in DOMAIN s.marks : j > i => s.marks[j].at > o

LinesOk(s) == \A o \in DOMAIN s.code : s.code[o].line # 0 => MarkedAt(s, o, s.code[o].line)

TailsOk(s, fs, c) ==
  \A o \in DOMAIN s.code :
    s.code[o].op = "TAIL_CALL" =>
      /\ o + 4 \in DOMAIN s.code /\ s.code[o + 4].op = "RETURN"
      /\ o < c => o + 4 < c
      /\ \A j \in DOMAIN fs : o < fs[j].count => o + 4 < fs[j].count

FusedOk(s) == \A o \in DOMAIN s.code : s.code[o].op = "COMPOUND" => IsWhole(s.code[o])

OpenBody(s, fs, b) == b = s.body \/ \E j \in DOMAIN fs : b = fs[j].body

(* A constant that the code loads, of a function behind whose body it is.  *)
Loaded(s, fs, g) ==
  /\ g.at \in Nat /\ ~ OpenBody(s, fs, g.at)
  /\ \E o \in DOMAIN s.code : s.code[o].op = "PUSH_FUNCTION" /\ s.code[o].arg = g /\ g.at < o

(* A function has its own constant or one that discarded code has left.    *)
ConstantOk(s, i) ==
  i.op = "PUSH_FUNCTION" => i.arg = i.meant \/ (i.arg \in s.lost.functions /\ SameConstant(i.arg, i.meant))

FunctionsOk(s, fs) ==
  /\ \A g \in s.functions : g \in s.lost.functions \/ Loaded(s, fs, g)
  /\ \A o \in DOMAIN s.code : ConstantOk(s, s.code[o])

ClosuresOk(s, fs) ==
  \A q \in DOMAIN s.code :
    s.code[q].op = "MAKE_CLOSURE" =>
      /\ s.code[q].meant \in Seq(Name)
      /\ s.code[q].arg.at \in Nat /\ s.code[q].arg.at <= q /\ ~ OpenBody(s, fs, s.code[q].arg.at)
      /\ \A o \in DOMAIN s.code :
           s.code[o].op \in Upvalue /\ s.code[o].body = s.code[q].arg.at =>
             /\ s.code[o].arg \in DOMAIN s.code[q].meant
             /\ s.code[q].meant[s.code[o].arg] = s.code[o].meant

(* A slot that was not to be had has made the statement fail.              *)
SlotsOk(s, fs, c) ==
  \A o \in DOMAIN s.code :
    s.code[o].op \in Upvalue =>
      /\ s.code[o].body = s.body => (o >= c /\ s.failed) \/ SlotOf(s, s.code[o])
      /\ \A j \in DOMAIN fs : fs[j].kind # "if" /\ s.code[o].body = fs[j].body => SlotOf(fs[j], s.code[o])

(* All of it.                                                              *)
Mid(s, fs, c, m) ==
  /\ Sound(s) /\ FramesOk(s, fs, c) /\ MarksOk(s, fs, c, m) /\ LinesOk(s) /\ TailsOk(s, fs, c)
  /\ FusedOk(s) /\ FunctionsOk(s, fs) /\ ClosuresOk(s, fs) /\ SlotsOk(s, fs, c)

(* The last mark is for what is written now.                               *)
Marking(s) ==
  /\ s.line # 0 => s.marks # <<>> /\ s.marks[Len(s.marks)].line = s.line
  /\ \A i \in DOMAIN s.marks : s.marks[i].at <= s.count

RollbackFacts(t, u, c, m) ==
  /\ DOMAIN u = Fields /\ Kept(t, u, {"code", "count", "marks", "lost"}) /\ u.count = c /\ u.lost = LostWith(t, c)
  /\ u.marks \in Seq(Mark) /\ Len(u.marks) = m /\ DOMAIN u.marks = 1 .. m
  /\ \A i \in 1 .. m : u.marks[i] = t.marks[i]
  /\ DOMAIN u.code = {q \in DOMAIN t.code : q < c}
  /\ \A o \in DOMAIN u.code : u.code[o] = t.code[o]

(* Between statements.                                                     *)
Settled(p, fs) == Mid(p, fs, p.count, Len(p.marks))

(* Every statement of one line adds to the code that parse() began.        *)
OneLine ==
  Assign \/ Compound \/ CallStatement \/ SetItem \/ ReturnStatement \/ ExpressionFails \/ AssignFails

(* What EnterFunction() computes: a state for each of the first m of the n *)
(* parameters stored.                                                      *)
ParamStates(w, b, params, n, m) ==
  w = [k \in 0 .. m |-> IF k = 0 THEN b ELSE emit_define_param(w[k - 1], params[n + 1 - k])]

Entered(s) ==
  LET t == chunk_emit(s, "JUMP", 2, 0, 0)
  IN  [t EXCEPT !.depth = @ + 1, !.body = t.count, !.params = <<>>, !.outer = IF s.depth = 0 THEN {} ELSE @]

EnteredKept == {"code", "count", "depth", "body", "params", "outer"}

(* No failed statement had compiled a call.                                *)
NoCallLost == parser.lost.calls = {}

(* Between the statements, with the blocks around them.                    *)
CodeInv == open \in Seq(FrameSet) /\ line \in Nat /\ Settled(parser, open)

ValueOps == {"CAPTURE", "MAKE_CLOSURE", "PUSH_FUNCTION"}

ValueOk(s, i, f, boxes) ==
  /\ i.line = s.line /\ i.op \in ValueOps
  /\ i.op = "MAKE_CLOSURE" => i.arg = f /\ i.meant = boxes
  /\ i.op = "PUSH_FUNCTION" => i.meant = f /\ (i.arg = f \/ (i.arg \in s.functions /\ SameConstant(i.arg, f)))

(* t comes from s by writing the value of the function f, whose boxes, if  *)
(* it is a closure, are named.                                             *)
Valued(s, t, f, boxes) ==
  /\ Sound(t) /\ Kept(s, t, {"code", "count", "functions"}) /\ s.count < t.count /\ SameBelow(s, t, s.count)
  /\ \A o \in DOMAIN t.code : o >= s.count => ValueOk(s, t.code[o], f, boxes)
  /\ \A g \in t.functions :
       \/ g \in s.functions
       \/ g = f /\ \E o \in DOMAIN t.code : o >= s.count /\ t.code[o].op = "PUSH_FUNCTION" /\ t.code[o].arg = f

(* The end of a body: it returns nothing if nothing has returned.          *)
Void(p) == chunk_emit(chunk_emit(p, "PUSH", 2, 0, 0), "RETURN", 1, 0, 0)

(* Back in the function around it.                                         *)
Back(s, f) == [s EXCEPT !.params = f.params, !.depth = f.depth, !.body = f.body]

(* A function has been parsed: what is known when its value is written.    *)
Left(p, s, x, f, g, boxes) ==
  /\ Mid(x, Front(open), f.count, f.marks) /\ Marking(x) /\ x.line = 0 /\ Sound(s) /\ Sound(x)
  /\ x.marks = parser.marks /\ x.count \in Nat /\ parser.count < x.count /\ parser.count \in Nat
  /\ boxes \in Seq(Name)
  /\ g.at \in Nat /\ g.at < x.count /\ ~ OpenBody(x, Front(open), g.at) /\ g.sig \in Signature
  /\ \A h \in x.functions : h \in x.lost.functions \/ ~ SameConstant(h, g)
  /\ \A o \in DOMAIN x.code : x.code[o].op \in Upvalue /\ x.code[o].body = g.at =>
                                x.code[o].arg \in DOMAIN boxes /\ boxes[x.code[o].arg] = x.code[o].meant

(* The boxes at run time.  A capture that cannot fail leaves none behind.  *)
RunInv ==
  /\ pending \in Seq(Name) /\ Len(pending) <= CaptureMax /\ made.boxes \in Seq(Name)
  /\ LeftMax = 0 => /\ pending = <<>>
                    /\ made # None =>
                         \E q \in DOMAIN parser.code : /\ parser.code[q].op = "MAKE_CLOSURE"
                                                       /\ made.at = parser.code[q].arg.at
                                                       /\ made.boxes = parser.code[q].meant

BytecodeInv == CodeInv /\ RunInv

(* What the parser does makes no closure.                                  *)
Parsing == OneLine \/ FunctionBegins \/ ClosureBegins \/ IfBegins \/ IfEnds \/ FunctionEnds

-----------------------------------------------------------------------------
(* Bytecode: the capture rule.                                             *)

(* The instructions that name variables, and the variables they name.      *)
Stores == {"STORE", "STORE_LOCAL", "DEFINE_LOCAL"}

Naming == NameOp \cup {"COMPOUND"}

NamesOf(i) ==
  IF i.op = "COMPOUND" THEN {i.arg.of} \cup (IF i.arg.op = "PUSH" THEN {} ELSE {i.arg.with}) ELSE {i.meant}

NamingIn(s, b) == {o \in DOMAIN s.code : s.code[o].body = b /\ s.code[o].op \in Naming}

(* What is assigned to in the function around a closure, before it.        *)
Before(s, b) == {q \in NamingIn(s, s.code[b].arg) : q < b /\ s.code[q].op \in Stores}

IsDefined(s, b, n, before) ==
  \E q \in NamingIn(s, b) : q < before /\ s.code[q].op = "DEFINE" /\ s.code[q].meant = n

OwnNames(s, b) ==
  \A o \in NamingIn(s, b) :
    /\ s.code[o].op \in {"DEFINE", "STORE"} => \A q \in Before(s, b) : s.code[q].meant # s.code[o].meant
    /\ s.code[o].op = "STORE" => IsDefined(s, b, s.code[o].meant, o)

(* The capture rule for the code of one body.                              *)
RuleOf(s, b) ==
  /\ \A o, q \in NamingIn(s, b) :
       s.code[o].op \in Upvalue /\ s.code[o].meant \in NamesOf(s.code[q]) => s.code[q].op \in Upvalue
  /\ b # 0 /\ s.code[b].meant = TRUE => OwnNames(s, b)

(* What the capture analysis of a body knows of the code of that body.     *)
(* v is the parser or what a frame saved of it; E are names that are about *)
(* to be defined.                                                          *)
KnownUpvalues(s, v, excused) ==
  \A o \in NamingIn(s, v.body) :
    s.code[o].op \in Upvalue =>
      v.capturing /\ ((excused[1] /\ o >= excused[2]) \/ IsCaptured(v, s.code[o].meant))

KnownOuter(s, v) ==
  v.depth = 1 => \A o \in NamingIn(s, v.body) : s.code[o].op \in Stores => s.code[o].meant \in s.outer

KnownLocals(s, v, E) ==
  /\ \A n \in v.locals : ~ IsCaptured(v, n)
  /\ \A o \in NamingIn(s, v.body) : s.code[o].op \notin Upvalue => NamesOf(s.code[o]) \subseteq v.locals
  /\ \A n \in v.locals \ E : Contains(v.params, n) \/ IsDefined(s, v.body, n, s.count)

KnownBefore(s, v) == \A q \in Before(s, v.body) : s.code[q].meant \in s.outer

Known(s, v, excused, E) ==
  /\ KnownUpvalues(s, v, excused) /\ KnownOuter(s, v)
  /\ v.capturing => /\ v.depth = 2 /\ v.body \in DOMAIN s.code /\ v.body # 0
                    /\ KnownLocals(s, v, E) /\ OwnNames(s, v.body) /\ KnownBefore(s, v)

Never == <<FALSE, 0>>

(* local_names has room for every name (MAX_TRACKED_LOCALS).               *)
NamesTracked == IsFiniteSet(Name) /\ Cardinality(Name) <= LocalMax

(* Code is added or cut off behind, but no definition is lost.             *)
Carried(s, t) ==
  /\ \A q \in DOMAIN t.code : q \in Nat /\ (q < s.count => q \in DOMAIN s.code /\ t.code[q] = s.code[q])
  /\ \A o \in DOMAIN s.code : s.code[o].op = "DEFINE" => o \in DOMAIN t.code /\ o < t.count

NoneNew(s, t, b) == \A o \in NamingIn(t, b) : o < s.count

(* When an instruction may be written.                                     *)
MayEmit(s, op, arg, meant, excused, E) ==
  /\ op \in Upvalue => s.capturing /\ ((excused[1] /\ s.count >= excused[2]) \/ IsCaptured(s, meant))
  /\ s.capturing /\ op \notin Upvalue => NamesOf(Instruction(s, op, 1, arg, meant)) \subseteq s.locals
  /\ s.capturing /\ op = "STORE" => meant \in s.locals \ E /\ ~ Contains(s.params, meant)
  /\ s.capturing /\ op = "DEFINE" => meant \notin s.outer
  /\ s.depth = 1 /\ op \in Stores => meant \in s.outer

(* What holds between two instructions of a statement that began at c.     *)
Tracked(s, c) == Sound(s) /\ c \in Nat /\ c <= s.count /\ Known(s, s, <<s.failed, c>>, {})

Silent == {"PUSH", "NEGATE", "ADD", "POP", "INDEX_SET", "RETURN", "JUMP", "JUMP_IF_FALSE", "PUSH_SCOPE", "POP_SCOPE"}

(* A body begins with the OP_PUSH_SCOPE of its function, which says where  *)
(* it stands and whether it captures.                                      *)
HeadOf(s, v, c) ==
  IF v.body = 0 THEN ~ v.capturing
  ELSE v.body \in DOMAIN s.code /\ v.body < c /\ s.code[v.body].meant = v.capturing

RuleInv(s) ==
  \A o \in DOMAIN s.code :
    s.code[o].op \in Naming =>
      RuleOf(s, s.code[o].body) /\ (s.code[o].body = 0 \/ s.code[o].body \in DOMAIN s.code)

FramesKnown(s, fs) ==
  \A j \in DOMAIN fs : HeadOf(s, fs[j], fs[j].count) /\ (fs[j].kind # "if" => Known(s, fs[j], Never, {}))

Around(v, w) == v.depth <= w.depth /\ (v.depth = w.depth <=> v.body = w.body)

DepthOk(s, fs) ==
  /\ \A j \in DOMAIN fs : Around(fs[j], s)
  /\ \A j, k \in DOMAIN fs : j < k => Around(fs[j], fs[k])

(* The capture rule between the statements: for every body of the code,    *)
(* and what is known of those that are still being parsed.                 *)
Named(s, fs) ==
  RuleInv(s) /\ Known(s, s, Never, {}) /\ HeadOf(s, s, s.count) /\ FramesKnown(s, fs) /\ DepthOk(s, fs)

(* Code of a statement that began at c is added, and what is known of its  *)
(* body is kept.                                                           *)
Grown(s, t, c) == Adds(s, t) /\ Tracked(t, c) /\ s.outer \subseteq t.outer

(* t has the code of s, and no more that names a variable.                 *)
NothingNew(s, t) ==
  /\ s.count <= t.count /\ Carried(s, t) /\ \A b : NoneNew(s, t, b)
  /\ \A q \in DOMAIN s.code : q \in DOMAIN t.code
=============================================================================
