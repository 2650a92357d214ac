-------------------------------- MODULE Calls --------------------------------
(***************************************************************************)
(* Calls, returns, tail calls and deferred calls of one VM, over its three  *)
(* fixed stacks: operands, scopes and call frames.  The operand stack and   *)
(* the scope stack are their heights; what the running statement has put on *)
(* them is kept per activation (temps, nest), which is what the parser      *)
(* knows at compile time and the VM does not.                               *)
(*                                                                         *)
(* call_stack is the fixed array of vm.h: a popped frame keeps its words     *)
(* until the slot is used again.  Activation 0 is the program's top level.  *)
(***************************************************************************)
EXTENDS Integers, Sequences, FiniteSets, SequencesExt

CONSTANTS
  StackMax, ScopeMax, CallMax,   \* VM_STACK_MAX, VM_SCOPE_MAX, VM_CALL_MAX
  DeferMax,                      \* MAX_DEFERS_PER_CALL
  ArityMax,                      \* bound: parameters of a function
  TempMax, NestMax,              \* bounds: open operands and blocks of a call
  LoopReturn    \* whether the program returns from inside a for-each loop

VARIABLES
  stack_top, scope_depth, call_depth,
  call_stack,
  status,       \* "running", or "error" until run() resets the VM
  cause         \* which limit the last error was about

vars == <<stack_top, scope_depth, call_depth, call_stack, status, cause>>

Block == {"while", "if", "each", "range"}

(* iter_slots: the iterator words a loop keeps on the operand stack.        *)
Words(b) == CASE b = "each" -> 2 [] b = "range" -> 3 [] OTHER -> 0
(* Only a while loop's body has no scope of its own.                        *)
Scoped(b) == IF b = "while" THEN 0 ELSE 1

BlocksOf(nest, kinds) == Cardinality({i \in DOMAIN nest : nest[i] \in kinds})

(* What the blocks of a call keep on the scope stack, which is its          *)
(* compile_scope_depth, and on the operand stack.                           *)
OpenScopes(nest) == BlocksOf(nest, {b \in Block : Scoped(b) = 1})
OpenWords(nest) ==
  Words("each") * BlocksOf(nest, {"each"}) + Words("range") * BlocksOf(nest, {"range"})

Causes == {"none", "stack", "scope", "scope_at_entry", "call", "defer", "other"}
Frame == [floor : Nat,          \* return_scope_depth
          arity : 0 .. ArityMax,
          defer_count : 0 .. DeferMax,
          draining : BOOLEAN,   \* defers_draining
          pc : {"entry", "body", "ret", "drain"},
          temps : Nat, nest : Seq(Block),
          base : Nat,           \* history: operands below the call's own
          due : Nat]            \* history: defers of this very call not yet run

ASSUME CallsAssumption ==
  /\ StackMax \in Nat /\ ScopeMax \in Nat \ {0} /\ CallMax \in Nat
  /\ DeferMax \in Nat /\ ArityMax \in Nat /\ TempMax \in Nat /\ NestMax \in Nat
  /\ LoopReturn \in BOOLEAN

TypeOK ==
  /\ stack_top \in 0 .. StackMax
  /\ scope_depth \in 1 .. ScopeMax
  /\ call_depth \in 0 .. CallMax
  /\ call_stack \in [0 .. CallMax -> Frame]
  /\ status \in {"running", "error"}
  /\ cause \in Causes

NoFrame == [floor |-> 0, arity |-> 0, defer_count |-> 0, draining |-> FALSE,
            pc |-> "body", temps |-> 0, nest |-> <<>>, base |-> 0, due |-> 0]

Init ==
  /\ stack_top = 0 /\ scope_depth = 1 /\ call_depth = 0
  /\ call_stack = [d \in 0 .. CallMax |-> NoFrame]
  /\ status = "running" /\ cause = "none"

-----------------------------------------------------------------------------
Me == call_stack[call_depth]
In(pc) == status = "running" /\ Me.pc = pc
(* A statement starts with no operand of its function left open.            *)
Statement == In("body") /\ Me.temps = 0

Update(f) == call_stack' = [call_stack EXCEPT ![call_depth] = f]

(* error(), and the checks that return false from vm_run.                   *)
Error(why) ==
  /\ status' = "error" /\ cause' = why
  /\ UNCHANGED <<stack_top, scope_depth, call_depth, call_stack>>

(* Expressions: an operator or literal pushes, an operator or statement     *)
(* end pops.                                                                *)
Push ==
  /\ In("body") /\ Me.temps < TempMax
  /\ IF stack_top >= StackMax THEN Error("stack")
     ELSE /\ stack_top' = stack_top + 1
          /\ Update([Me EXCEPT !.temps = @ + 1])
          /\ UNCHANGED <<scope_depth, call_depth, status, cause>>

Pop ==
  /\ In("body") /\ Me.temps > 0
  /\ stack_top' = stack_top - 1
  /\ Update([Me EXCEPT !.temps = @ - 1])
  /\ UNCHANGED <<scope_depth, call_depth, status, cause>>

(* parse_if and parse_for: the iterator words, then lbl_push_scope.         *)
EnterBlock(b) ==
  /\ Statement /\ Len(Me.nest) < NestMax
  /\ IF stack_top + Words(b) > StackMax THEN Error("stack")
     ELSE IF scope_depth + Scoped(b) > ScopeMax THEN Error("scope")
     ELSE /\ stack_top' = stack_top + Words(b)
          /\ scope_depth' = scope_depth + Scoped(b)
          /\ Update([Me EXCEPT !.nest = Append(@, b)])
          /\ UNCHANGED <<call_depth, status, cause>>

(* lbl_pop_scope at the end of the block; the iterator opcode drops its     *)
(* words when it finds nothing left.                                        *)
LeaveBlock ==
  /\ Statement /\ Me.nest # <<>>
  /\ stack_top' = stack_top - Words(Last(Me.nest))
  /\ scope_depth' = scope_depth - Scoped(Last(Me.nest))
  /\ Update([Me EXCEPT !.nest = Front(@)])
  /\ UNCHANGED <<call_depth, status, cause>>

Loops == {i \in DOMAIN Me.nest : Me.nest[i] # "if"}
InnerLoop == CHOOSE i \in Loops : \A j \in Loops : j <= i

(* The scopes above those of the outermost n blocks.                        *)
ScopesAbove(n) == OpenScopes(Me.nest) - OpenScopes(SubSeq(Me.nest, 1, n))

(* Mutant: the loop's iterator words stay on the stack.                     *)
BreakKeepsWords ==
  /\ Statement /\ Loops # {}
  /\ scope_depth' = scope_depth - ScopesAbove(InnerLoop - 1)
  /\ Update([Me EXCEPT !.nest = SubSeq(@, 1, InnerLoop - 1)])
  /\ UNCHANGED <<stack_top, call_depth, status, cause>>

(* parse_break: the scopes up to the loop, then the loop's iterator words.  *)
Break ==
  /\ Statement /\ Loops # {}
  /\ scope_depth' = scope_depth - ScopesAbove(InnerLoop - 1)
  /\ stack_top' = stack_top - Words(Me.nest[InnerLoop])
  /\ Update([Me EXCEPT !.nest = SubSeq(@, 1, InnerLoop - 1)])
  /\ UNCHANGED <<call_depth, status, cause>>

(* parse_continue, and the scope the next iteration pushes.                 *)
Continue ==
  /\ Statement /\ Loops # {}
  /\ scope_depth' = scope_depth - ScopesAbove(InnerLoop)
  /\ Update([Me EXCEPT !.nest = SubSeq(@, 1, InnerLoop)])
  /\ UNCHANGED <<stack_top, call_depth, status, cause>>

-----------------------------------------------------------------------------
(* Calling.                                                                *)

(* Mutant: the slot's old defer_count is not cleared.                       *)
vm_setup_call_inheriting(slot, arity, base) ==
  [slot EXCEPT !.floor = scope_depth, !.arity = arity, !.base = base,
     !.draining = FALSE, !.pc = "entry", !.temps = 0, !.nest = <<>>, !.due = 0]

(* The frame vm_setup_call and lbl_call fill in.  The slot may hold what a  *)
(* call that ended in an error left there; its defers are dropped.          *)
vm_setup_call(slot, arity, base) ==
  [slot EXCEPT !.floor = scope_depth, !.arity = arity, !.base = base,
     !.defer_count = 0, !.draining = FALSE,
     !.pc = "entry", !.temps = 0, !.nest = <<>>, !.due = 0]

(* A frame for a callee with the given arity, whose caller has args operands *)
(* for it on the stack and extra ones below them (lbl_call_value's function *)
(* value) and will go on at pc.  Omitted arguments are pushed.              *)
Invoke(caller, args, extra, arity, pc) ==
  IF call_depth >= CallMax THEN Error("call")
  ELSE IF stack_top + (arity - args) > StackMax THEN Error("stack")
  ELSE /\ stack_top' = (stack_top - extra) + (arity - args)
       /\ call_stack' =
            [call_stack EXCEPT
               ![call_depth] = [caller EXCEPT !.temps = @ - (args + extra), !.pc = pc],
               ![call_depth + 1] =
                  vm_setup_call(@, arity, stack_top - (args + extra))]
       /\ call_depth' = call_depth + 1
       /\ UNCHANGED <<scope_depth, status, cause>>

(* lbl_call (extra = 0) and lbl_call_value (extra = 1).                     *)
Call(args, extra, arity) ==
  /\ In("body") /\ Me.temps >= args + extra /\ args <= arity
  /\ Invoke(Me, args, extra, arity, "body")

(* A call that is refused: not a function, wrong arity or receiver type.    *)
CallRefused == In("body") /\ Error("other")

(* The callee's first opcodes: lbl_push_scope and one lbl_define_local per  *)
(* parameter.                                                               *)
Enter ==
  /\ In("entry")
  /\ IF scope_depth >= ScopeMax THEN Error("scope_at_entry")
     ELSE /\ scope_depth' = scope_depth + 1
          /\ stack_top' = stack_top - Me.arity
          /\ Update([Me EXCEPT !.pc = "body"])
          /\ UNCHANGED <<call_depth, status, cause>>

MayReturn == call_depth > 0 /\ (LoopReturn \/ OpenWords(Me.nest) = 0)

(* Mutants: the frame is reused although defers are pending; the scopes of  *)
(* the call that is replaced stay.                                          *)
TailCallForgetting(args, arity) ==
  /\ In("body") /\ Me.temps = args /\ args <= arity /\ MayReturn
  /\ IF stack_top + (arity - args) > StackMax THEN Error("stack")
     ELSE /\ stack_top' = stack_top + (arity - args)
          /\ scope_depth' = Me.floor
          /\ Update([Me EXCEPT !.arity = arity, !.pc = "entry", !.temps = 0, !.nest = <<>>])
          /\ UNCHANGED <<call_depth, status, cause>>
TailCallKeepsScopes(args, arity) ==
  /\ In("body") /\ Me.temps = args /\ args <= arity /\ MayReturn
  /\ IF Me.defer_count > 0 THEN Invoke(Me, args, 0, arity, "ret")
     ELSE IF stack_top + (arity - args) > StackMax THEN Error("stack")
     ELSE /\ stack_top' = stack_top + (arity - args)
          /\ Update([Me EXCEPT !.arity = arity, !.pc = "entry", !.temps = 0, !.nest = <<>>])
          /\ UNCHANGED <<scope_depth, call_depth, status, cause>>

(* lbl_tail_call: with no pending defers the frame is used again.           *)
TailCall(args, arity) ==
  /\ In("body") /\ Me.temps = args /\ args <= arity /\ MayReturn
  /\ IF Me.defer_count > 0 THEN Invoke(Me, args, 0, arity, "ret")
     ELSE IF stack_top + (arity - args) > StackMax THEN Error("stack")
     ELSE /\ stack_top' = stack_top + (arity - args)
          /\ scope_depth' = Me.floor
          /\ Update([Me EXCEPT !.arity = arity, !.pc = "entry", !.temps = 0, !.nest = <<>>])
          /\ UNCHANGED <<call_depth, status, cause>>

-----------------------------------------------------------------------------
(* Deferring and returning.                                                *)

(* lbl_defer_push takes the arguments off the stack.                        *)
Defer(args) ==
  /\ In("body") /\ call_depth > 0 /\ Me.temps = args /\ args <= ArityMax
  /\ IF Me.defer_count >= DeferMax THEN Error("defer")
     ELSE /\ stack_top' = stack_top - args
          /\ Update([Me EXCEPT !.temps = 0, !.defer_count = @ + 1, !.due = @ + 1])
          /\ UNCHANGED <<scope_depth, call_depth, status, cause>>

(* The return value is on the stack: OP_RETURN is next.                     *)
ReturnStatement ==
  /\ In("body") /\ Me.temps = 1 /\ MayReturn
  /\ Update([Me EXCEPT !.pc = "ret"])
  /\ UNCHANGED <<stack_top, scope_depth, call_depth, status, cause>>

(* lbl_return pops the return value, or on a later visit the result of a    *)
(* deferred call.                                                           *)
PopResult ==
  /\ In("ret")
  /\ stack_top' = stack_top - 1
  /\ Update([Me EXCEPT !.temps = @ - 1, !.draining = TRUE, !.pc = "drain"])
  /\ UNCHANGED <<scope_depth, call_depth, status, cause>>

(* A deferred builtin runs on the spot, a deferred function in a frame of   *)
(* its own that comes back to this OP_RETURN.                               *)
Popped == [Me EXCEPT !.defer_count = @ - 1, !.due = IF @ > 0 THEN @ - 1 ELSE 0]

DeferredBuiltin ==
  /\ In("drain") /\ Me.defer_count > 0
  /\ Update(Popped)
  /\ UNCHANGED <<stack_top, scope_depth, call_depth, status, cause>>

DeferredCall(arity) ==
  /\ In("drain") /\ Me.defer_count > 0
  /\ Invoke(Popped, 0, 0, arity, "ret")

(* No defers left: the frame's scopes go and the value is pushed for the    *)
(* caller.                                                                  *)
Return ==
  /\ In("drain") /\ Me.defer_count = 0
  /\ scope_depth' = Me.floor
  /\ call_depth' = call_depth - 1
  /\ IF stack_top >= StackMax
     THEN /\ status' = "error" /\ cause' = "stack"
          /\ UNCHANGED <<stack_top, call_stack>>
     ELSE /\ stack_top' = stack_top + 1
          /\ call_stack' = [call_stack EXCEPT
                              ![call_depth] = NoFrame,
                              ![call_depth - 1].temps = @ + 1]
          /\ UNCHANGED <<status, cause>>

(* run() of main.c: the stacks are emptied; the words of the dead frames    *)
(* stay, defer_count and defers_draining among them.                        *)
Restart ==
  /\ status = "error"
  /\ stack_top' = 0 /\ scope_depth' = 1 /\ call_depth' = 0
  /\ call_stack' = [d \in 0 .. CallMax |->
       IF d = 0 THEN NoFrame
       ELSE [NoFrame EXCEPT !.defer_count = call_stack[d].defer_count,
                            !.draining = call_stack[d].draining]]
  /\ status' = "running" /\ cause' = "none"

-----------------------------------------------------------------------------
BlockSteps ==
  \/ Push \/ Pop
  \/ \E b \in Block : EnterBlock(b)
  \/ LeaveBlock \/ Break \/ Continue

CallSteps ==
  \/ \E arity \in 0 .. ArityMax, args \in 0 .. ArityMax :
       (\E extra \in 0 .. 1 : Call(args, extra, arity)) \/ TailCall(args, arity)
  \/ CallRefused \/ Enter

ReturnSteps ==
  \/ \E args \in 0 .. ArityMax : Defer(args) \/ DeferredCall(args)
  \/ ReturnStatement \/ PopResult \/ DeferredBuiltin \/ Return \/ Restart

Next == BlockSteps \/ CallSteps \/ ReturnSteps

Spec == Init /\ [][Next]_vars

-----------------------------------------------------------------------------
(* Properties.                                                             *)

Active == 0 .. call_depth
OwnScopes(f) == (IF f.pc = "entry" THEN 0 ELSE 1) + OpenScopes(f.nest)
OwnWords(f) == f.temps + OpenWords(f.nest) + (IF f.pc = "entry" THEN f.arity ELSE 0)

(* Whatever mix of calls, tail calls, deferred calls, early exits and       *)
(* errors came before, the scopes of a call are exactly the ones its open   *)
(* blocks account for, directly above its caller's (return_scope_depth).    *)
ScopesAccounted ==
  status = "running" =>
    \A d \in Active :
      call_stack[d].floor + OwnScopes(call_stack[d]) =
        IF d = call_depth THEN scope_depth ELSE call_stack[d + 1].floor

(* README: loops keep their state on the value stack and it is unwound      *)
(* correctly on early exit.  Every call finds the operands it left there,   *)
(* and nothing else, on top of its caller's when control comes back to it.  *)
OperandsAccounted ==
  status = "running" =>
    \A d \in Active :
      call_stack[d].base + OwnWords(call_stack[d]) =
        IF d = call_depth THEN stack_top ELSE call_stack[d + 1].base

(* lbl_return runs exactly the calls that this activation deferred: none is *)
(* inherited from a call that used the frame before, even one that an error *)
(* cut short.                                                               *)
DefersBelongToCall ==
  status = "running" =>
    \A d \in 1 .. call_depth : call_stack[d].defer_count = call_stack[d].due

FrameGone ==
  Return \/ \E args, arity \in 0 .. ArityMax : TailCall(args, arity) /\ call_depth' = call_depth

(* A frame is left, or reused by a tail call, only when the calls it        *)
(* deferred have all run (lbl_return, lbl_call).                            *)
NoDeferLost == [][FrameGone /\ status' = "running" => Me.due = 0]_vars

-----------------------------------------------------------------------------
(* Claims of the docs and comments that the code does not keep; README,     *)
(* section 4, says what happens instead.  No run checks them.               *)

(* README, Hard limits: calls nest 64 deep.  A call that got its frame also *)
(* gets its scope.                                                          *)
CallDepthIsTheLimit == cause # "scope_at_entry"
=============================================================================
