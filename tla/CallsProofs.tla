----------------------------- MODULE CallsProofs ----------------------------
(***************************************************************************)
(* Proofs about the three stacks of Calls, for stacks of any height and    *)
(* any number of parameters, defers and blocks.                            *)
(*                                                                         *)
(* The VM only keeps, per frame, where the frame's scopes begin            *)
(* (return_scope_depth); what a call has left on the stacks is known to     *)
(* the compiler alone.  The invariant says, of every call on the stack,     *)
(* that the two agree: the caller's blocks and operands end exactly where   *)
(* the callee's begin.  A frame's words outlive it: what defer_count holds  *)
(* when a slot is used again is whatever the last call to use it left, so   *)
(* that the calls a frame runs on the way out are its own is part of it.    *)
(***************************************************************************)
EXTENDS Calls, DataFacts

(* Whether a return may leave iterator words behind: the code drops none,   *)
(* so that outside LoopReturn a call returns with no loop open.             *)
Unburdened(f) == LoopReturn \/ OpenWords(f.nest) = 0

(* A call whose blocks and operands end where scope and top say.            *)
Fits(f, scope, top) ==
  /\ f.floor + OwnScopes(f) = scope
  /\ f.base + OwnWords(f) <= top
  /\ ~LoopReturn => f.base + OwnWords(f) = top

(* The call that runs, and a call that waits for another to return: the     *)
(* value that OP_RETURN pops is the only operand there.                     *)
Running(f) ==
  /\ f.pc = "ret" => f.temps = 1
  /\ f.pc = "drain" => f.temps = 0
  /\ f.pc \in {"ret", "drain"} => Unburdened(f)
Waiting(f) ==
  /\ f.pc \in {"body", "ret"}
  /\ f.pc = "ret" => f.temps = 0 /\ Unburdened(f)

Balanced ==
  /\ call_stack[0].pc = "body"
  /\ Running(Me) /\ Fits(Me, scope_depth, stack_top)
  /\ \A d \in 0 .. call_depth - 1 :
       /\ Waiting(call_stack[d])
       /\ Fits(call_stack[d], call_stack[d + 1].floor, call_stack[d + 1].base)
  /\ \A d \in 1 .. call_depth :
       call_stack[d].floor >= 1 /\ call_stack[d].defer_count = call_stack[d].due

CallsInv == TypeOK /\ (status = "running" => Balanced)

-----------------------------------------------------------------------------
(* What the open blocks of a call take up on the two stacks.                *)

LEMMA CountFacts ==
  ASSUME NEW nest \in Seq(Block), NEW kinds
  PROVE  BlocksOf(nest, kinds) \in Nat /\ IsFiniteSet({i \in DOMAIN nest : nest[i] \in kinds})
<1>1. DOMAIN nest = 1 .. Len(nest) /\ Len(nest) \in Nat
  BY SeqFacts
<1>2. IsFiniteSet(1 .. Len(nest))
  BY <1>1, FS_Interval
<1>3. IsFiniteSet({i \in DOMAIN nest : nest[i] \in kinds})
  BY <1>1, <1>2, FS_Subset
<1> QED BY <1>3, FS_CardinalityType DEF BlocksOf

LEMMA CountEmpty == ASSUME NEW kinds PROVE BlocksOf(<<>>, kinds) = 0
<1>1. {i \in DOMAIN <<>> : <<>>[i] \in kinds} = {}
  OBVIOUS
<1> QED BY <1>1, FS_EmptySet DEF BlocksOf

LEMMA CountAppend ==
  ASSUME NEW nest \in Seq(Block), NEW b \in Block, NEW kinds
  PROVE  BlocksOf(Append(nest, b), kinds) = BlocksOf(nest, kinds) + (IF b \in kinds THEN 1 ELSE 0)
<1> DEFINE new == Append(nest, b)
           before == {i \in DOMAIN nest : nest[i] \in kinds}
           after == {i \in DOMAIN new : new[i] \in kinds}
           n == Len(nest) + 1
<1>1. /\ Len(nest) \in Nat /\ DOMAIN nest = 1 .. Len(nest)
      /\ DOMAIN new = 1 .. Len(nest) + 1
      /\ \A i \in 1 .. Len(nest) : new[i] = nest[i]
      /\ new[Len(nest) + 1] = b
  BY AppendFacts, SeqFacts
<1>2. IsFiniteSet(before) /\ BlocksOf(nest, kinds) \in Nat
  BY CountFacts
<1> HIDE DEF new
<1>3. n \notin before
  BY <1>1
<1>4. CASE b \in kinds
  <2>1. after = before \cup {n}
    BY <1>1, <1>4
  <2>2. Cardinality(after) = Cardinality(before) + 1
    BY <1>2, <1>3, <2>1, FS_AddElement
  <2> QED BY <1>4, <2>2 DEF BlocksOf, new
<1>5. CASE b \notin kinds
  <2>1. after = before
    BY <1>1, <1>5
  <2>2. BlocksOf(new, kinds) = BlocksOf(nest, kinds)
    BY <2>1 DEF BlocksOf
  <2> QED BY <1>2, <1>5, <2>2 DEF new
<1> QED BY <1>4, <1>5

LEMMA CountPrefix ==
  ASSUME NEW nest \in Seq(Block), NEW n \in 0 .. Len(nest), NEW kinds
  PROVE  /\ BlocksOf(SubSeq(nest, 1, n), kinds) <= BlocksOf(nest, kinds)
         /\ (\A i \in n + 1 .. Len(nest) : nest[i] \notin kinds)
              => BlocksOf(SubSeq(nest, 1, n), kinds) = BlocksOf(nest, kinds)
<1> DEFINE part == SubSeq(nest, 1, n)
           inner == {i \in DOMAIN part : part[i] \in kinds}
           all == {i \in DOMAIN nest : nest[i] \in kinds}
<1>1. /\ Len(nest) \in Nat /\ DOMAIN nest = 1 .. Len(nest) /\ DOMAIN part = 1 .. n
      /\ \A i \in 1 .. n : part[i] = nest[i]
  BY PrefixFacts, SeqFacts
<1>2. IsFiniteSet(all) /\ BlocksOf(nest, kinds) \in Nat
  BY CountFacts
<1> HIDE DEF part
<1>3. inner \subseteq all
  BY <1>1
<1>4. Cardinality(inner) <= Cardinality(all)
  BY <1>2, <1>3, FS_Subset
<1>5. ASSUME \A i \in n + 1 .. Len(nest) : nest[i] \notin kinds PROVE inner = all
  BY <1>1, <1>5
<1> QED BY <1>4, <1>5 DEF BlocksOf, part

LEMMA OpenFacts ==
  ASSUME NEW nest \in Seq(Block)
  PROVE  OpenScopes(nest) \in Nat /\ OpenWords(nest) \in Nat
<1>1. \A kinds : BlocksOf(nest, kinds) \in Nat
  BY CountFacts
<1> QED BY <1>1 DEF OpenScopes, OpenWords, Words

LEMMA OpenEmpty == <<>> \in Seq(Block) /\ OpenScopes(<<>>) = 0 /\ OpenWords(<<>>) = 0
<1>1. \A kinds : BlocksOf(<<>>, kinds) = 0
  BY CountEmpty
<1> QED BY <1>1 DEF OpenScopes, OpenWords, Words

LEMMA OpenAppend ==
  ASSUME NEW nest \in Seq(Block), NEW b \in Block
  PROVE  /\ Append(nest, b) \in Seq(Block) /\ Words(b) \in Nat /\ Scoped(b) \in Nat
         /\ OpenScopes(Append(nest, b)) = OpenScopes(nest) + Scoped(b)
         /\ OpenWords(Append(nest, b)) = OpenWords(nest) + Words(b)
<1>1. \A kinds : /\ BlocksOf(nest, kinds) \in Nat
                 /\ BlocksOf(Append(nest, b), kinds)
                      = BlocksOf(nest, kinds) + (IF b \in kinds THEN 1 ELSE 0)
  BY CountFacts, CountAppend
<1>2. Append(nest, b) \in Seq(Block) /\ Words(b) \in Nat /\ Scoped(b) \in Nat
  BY AppendFacts DEF Words, Scoped
<1>3. OpenScopes(Append(nest, b)) = OpenScopes(nest) + Scoped(b)
  <2>1. (b \in {c \in Block : Scoped(c) = 1}) <=> Scoped(b) = 1
    OBVIOUS
  <2>2. Scoped(b) = IF Scoped(b) = 1 THEN 1 ELSE 0
    BY DEF Scoped
  <2> QED BY <1>1, <2>1, <2>2 DEF OpenScopes
<1>4. OpenWords(Append(nest, b)) = OpenWords(nest) + Words(b)
  <2>1. /\ BlocksOf(nest, {"each"}) \in Nat /\ BlocksOf(nest, {"range"}) \in Nat
        /\ BlocksOf(Append(nest, b), {"each"}) = BlocksOf(nest, {"each"}) + (IF b = "each" THEN 1 ELSE 0)
        /\ BlocksOf(Append(nest, b), {"range"}) = BlocksOf(nest, {"range"}) + (IF b = "range" THEN 1 ELSE 0)
    BY <1>1
  <2> QED BY <2>1 DEF OpenWords, Words, Block
<1> QED BY <1>2, <1>3, <1>4

LEMMA OpenFront ==
  ASSUME NEW nest \in Seq(Block), nest # <<>>
  PROVE  /\ Front(nest) \in Seq(Block)
         /\ OpenScopes(nest) = OpenScopes(Front(nest)) + Scoped(Last(nest))
         /\ OpenWords(nest) = OpenWords(Front(nest)) + Words(Last(nest))
<1>1. Front(nest) \in Seq(Block) /\ Last(nest) \in Block
  BY FrontFacts
<1>2. nest = Append(Front(nest), Last(nest))
  BY AppendLast
<1> DEFINE front == Front(nest)
           last == Last(nest)
<1> HIDE DEF front, last
<1>3. /\ OpenScopes(Append(front, last)) = OpenScopes(front) + Scoped(last)
      /\ OpenWords(Append(front, last)) = OpenWords(front) + Words(last)
  BY <1>1, OpenAppend DEF front, last
<1> QED BY <1>1, <1>2, <1>3 DEF front, last

(* The innermost n blocks above a loop keep scopes but no words.            *)
LEMMA OpenPrefix ==
  ASSUME NEW nest \in Seq(Block), NEW n \in 0 .. Len(nest)
  PROVE  /\ SubSeq(nest, 1, n) \in Seq(Block)
         /\ OpenScopes(SubSeq(nest, 1, n)) <= OpenScopes(nest)
         /\ (\A i \in n + 1 .. Len(nest) : nest[i] = "if")
              => OpenWords(SubSeq(nest, 1, n)) = OpenWords(nest)
<1>1. SubSeq(nest, 1, n) \in Seq(Block)
  BY PrefixFacts
<1>2. OpenScopes(SubSeq(nest, 1, n)) <= OpenScopes(nest)
  BY CountPrefix DEF OpenScopes
<1>3. ASSUME \A i \in n + 1 .. Len(nest) : nest[i] = "if"
      PROVE  OpenWords(SubSeq(nest, 1, n)) = OpenWords(nest)
  <2>1. /\ \A i \in n + 1 .. Len(nest) : nest[i] \notin {"each"}
        /\ \A i \in n + 1 .. Len(nest) : nest[i] \notin {"range"}
    BY <1>3
  <2>2. /\ BlocksOf(SubSeq(nest, 1, n), {"each"}) = BlocksOf(nest, {"each"})
        /\ BlocksOf(SubSeq(nest, 1, n), {"range"}) = BlocksOf(nest, {"range"})
    BY <2>1, CountPrefix
  <2> QED BY <2>2 DEF OpenWords
<1> QED BY <1>1, <1>2, <1>3

(* A prefix is the next shorter one and the block at its end.               *)
LEMMA PrefixNext ==
  ASSUME NEW nest \in Seq(Block), NEW n \in 1 .. Len(nest)
  PROVE  SubSeq(nest, 1, n) = Append(SubSeq(nest, 1, n - 1), nest[n])
<1>1. n \in 0 .. Len(nest) /\ n - 1 \in 0 .. Len(nest) /\ n \in Nat
      /\ nest[n] \in Block /\ Len(nest) \in Nat
  BY SeqFacts
<1> DEFINE short == SubSeq(nest, 1, n - 1)
           m == n - 1
<1>2. /\ SubSeq(nest, 1, n) \in Seq(Block) /\ Len(SubSeq(nest, 1, n)) = n
      /\ \A i \in 1 .. n : SubSeq(nest, 1, n)[i] = nest[i]
  BY <1>1, PrefixFacts
<1>3. /\ short \in Seq(Block) /\ Len(short) = n - 1
      /\ \A i \in 1 .. n - 1 : short[i] = nest[i]
  <2> HIDE DEF m
  <2>1. m \in 0 .. Len(nest)
    BY <1>1 DEF m
  <2>2. /\ SubSeq(nest, 1, m) \in Seq(Block) /\ Len(SubSeq(nest, 1, m)) = m
        /\ \A i \in 1 .. m : SubSeq(nest, 1, m)[i] = nest[i]
    BY <2>1, PrefixFacts
  <2> QED BY <2>2, Zenon DEF m
<1> HIDE DEF short
<1>4. /\ Append(short, nest[n]) \in Seq(Block) /\ Len(Append(short, nest[n])) = Len(short) + 1
      /\ \A i \in 1 .. Len(short) : Append(short, nest[n])[i] = short[i]
      /\ Append(short, nest[n])[Len(short) + 1] = nest[n]
  BY <1>1, <1>3, AppendFacts
<1>5. \A i \in 1 .. n : SubSeq(nest, 1, n)[i] = Append(short, nest[n])[i]
  BY <1>1, <1>2, <1>3, <1>4
<1>6. SubSeq(nest, 1, n) = Append(short, nest[n])
  BY <1>1, <1>2, <1>3, <1>4, <1>5, SameSequence
<1> QED BY <1>6 DEF short

-----------------------------------------------------------------------------
(* What a step does to the frames.                                          *)

LEMMA FrameFacts ==
  ASSUME NEW f \in Frame
  PROVE  /\ OpenScopes(f.nest) \in Nat /\ OpenWords(f.nest) \in Nat
         /\ f.floor \in Nat /\ f.base \in Nat /\ f.temps \in Nat /\ f.arity \in 0 .. ArityMax
         /\ f.defer_count \in 0 .. DeferMax /\ f.due \in Nat /\ f.nest \in Seq(Block)
         /\ f.pc \in {"entry", "body", "ret", "drain"}
         /\ OwnScopes(f) \in Nat /\ OwnWords(f) \in Nat
<1>1. /\ f.floor \in Nat /\ f.base \in Nat /\ f.temps \in Nat /\ f.arity \in 0 .. ArityMax
      /\ f.defer_count \in 0 .. DeferMax /\ f.due \in Nat /\ f.nest \in Seq(Block)
      /\ f.pc \in {"entry", "body", "ret", "drain"}
  BY DEF Frame
<1>2. OpenScopes(f.nest) \in Nat /\ OpenWords(f.nest) \in Nat
  BY <1>1, OpenFacts
<1> QED BY <1>1, <1>2, CallsAssumption, SMTT(30) DEF OwnScopes, OwnWords

LEMMA MeFacts ==
  ASSUME CallsInv, status = "running"
  PROVE  /\ Me \in Frame /\ call_depth \in Nat /\ stack_top \in Nat
         /\ Running(Me) /\ Fits(Me, scope_depth, stack_top)
         /\ call_depth = 0 => Me.pc = "body"
         /\ call_depth > 0 => Me.floor >= 1 /\ Me.defer_count = Me.due
BY CallsAssumption DEF CallsInv, TypeOK, Balanced, Me

LEMMA ErrorKeeps ==
  ASSUME CallsInv, NEW why \in Causes, Error(why)
  PROVE  CallsInv'
BY DEF Error, CallsInv, TypeOK

(* A step of the running call that leaves its frame where it was.           *)
LEMMA UpdateKeeps ==
  ASSUME CallsInv, status = "running", NEW f \in Frame, Update(f),
         stack_top' \in 0 .. StackMax, scope_depth' \in 1 .. ScopeMax,
         UNCHANGED <<call_depth, status, cause>>,
         f.floor = Me.floor, f.base = Me.base,
         call_depth = 0 => f.pc = "body",
         call_depth > 0 => f.defer_count = f.due,
         Running(f), Fits(f, scope_depth', stack_top')
  PROVE  CallsInv'
<1>1. /\ call_stack' \in [0 .. CallMax -> Frame] /\ call_stack'[call_depth] = f
      /\ \A d \in 0 .. CallMax : d # call_depth => call_stack'[d] = call_stack[d]
      /\ call_depth \in 0 .. CallMax /\ call_depth \in Nat /\ 0 \in 0 .. CallMax
  BY CallsAssumption DEF Update, CallsInv, TypeOK
<1>2. TypeOK'
  BY <1>1 DEF CallsInv, TypeOK
<1>3. Me' = f
  BY <1>1 DEF Me
<1>4. call_stack'[0].pc = "body"
  BY <1>1 DEF CallsInv, Balanced
<1>5. ASSUME NEW d \in 0 .. call_depth - 1
      PROVE  /\ Waiting(call_stack'[d])
             /\ Fits(call_stack'[d], call_stack'[d + 1].floor, call_stack'[d + 1].base)
  <2>1. d \in 0 .. CallMax /\ d # call_depth /\ d + 1 \in 0 .. CallMax
    BY <1>1, CallsAssumption
  <2>2. /\ call_stack'[d] = call_stack[d]
        /\ call_stack'[d + 1].floor = call_stack[d + 1].floor
        /\ call_stack'[d + 1].base = call_stack[d + 1].base
    BY <1>1, <2>1 DEF Me
  <2>3. /\ Waiting(call_stack[d])
        /\ Fits(call_stack[d], call_stack[d + 1].floor, call_stack[d + 1].base)
    BY DEF CallsInv, Balanced
  <2> QED BY <2>2, <2>3
<1>6. ASSUME NEW d \in 1 .. call_depth
      PROVE  call_stack'[d].floor >= 1 /\ call_stack'[d].defer_count = call_stack'[d].due
  <2>1. d \in 0 .. CallMax
    BY <1>1, CallsAssumption
  <2>2. call_stack[d].floor >= 1 /\ call_stack[d].defer_count = call_stack[d].due
    BY DEF CallsInv, Balanced
  <2> QED BY <1>1, <2>1, <2>2 DEF Me
<1>7. Balanced'
  BY <1>3, <1>4, <1>5, <1>6 DEF Balanced
<1> QED BY <1>2, <1>7 DEF CallsInv

LEMMA SetupFacts ==
  ASSUME NEW slot \in Frame, NEW arity \in 0 .. ArityMax, NEW base \in Nat, scope_depth \in Nat
  PROVE  LET f == vm_setup_call(slot, arity, base) IN
         /\ f \in Frame /\ f.defer_count = 0 /\ f.due = 0 /\ f.floor = scope_depth
         /\ f.base = base /\ f.arity = arity /\ f.pc = "entry" /\ f.temps = 0 /\ f.nest = <<>>
<1> DEFINE f == vm_setup_call(slot, arity, base)
<1>1. /\ f.defer_count = 0 /\ f.due = 0 /\ f.floor = scope_depth
      /\ f.base = base /\ f.arity = arity /\ f.pc = "entry" /\ f.temps = 0 /\ f.nest = <<>>
  BY DEF vm_setup_call, Frame
<1>2. 0 \in 0 .. DeferMax /\ 0 \in Nat /\ <<>> \in Seq(Block) /\ FALSE \in BOOLEAN
  BY CallsAssumption, OpenEmpty
<1>3. f \in Frame
  BY <1>2 DEF vm_setup_call, Frame
<1> QED BY <1>1, <1>3

LEMMA InvokeKeeps ==
  ASSUME CallsInv, status = "running",
         NEW caller \in Frame, NEW args \in Nat, NEW extra \in Nat, NEW arity \in 0 .. ArityMax,
         NEW pc \in {"body", "ret"}, args <= arity, Invoke(caller, args, extra, arity, pc),
         caller.floor = Me.floor, caller.base = Me.base, caller.nest = Me.nest,
         caller.temps = Me.temps, caller.pc = Me.pc, Me.pc # "entry",
         caller.temps >= args + extra,
         pc = "ret" => caller.temps = args + extra /\ Unburdened(caller),
         call_depth = 0 => pc = "body",
         call_depth > 0 => caller.defer_count = caller.due
  PROVE  CallsInv'
<1>1. CASE call_depth >= CallMax
  BY <1>1, ErrorKeeps DEF Invoke, Causes
<1>2. CASE ~(call_depth >= CallMax) /\ stack_top + (arity - args) > StackMax
  BY <1>2, ErrorKeeps DEF Invoke, Causes
<1>3. CASE ~(call_depth >= CallMax) /\ ~(stack_top + (arity - args) > StackMax)
  <2> DEFINE me == [caller EXCEPT !.temps = @ - (args + extra), !.pc = pc]
             base == stack_top - (args + extra)
             callee == vm_setup_call(call_stack[call_depth + 1], arity, base)
  <2>1. /\ call_depth' = call_depth + 1 /\ UNCHANGED <<scope_depth, status, cause>>
        /\ stack_top' = (stack_top - extra) + (arity - args)
        /\ call_stack' = [call_stack EXCEPT ![call_depth] = me, ![call_depth + 1] = callee]
    BY <1>3 DEF Invoke
  <2>2. /\ call_depth \in Nat /\ call_depth + 1 \in 0 .. CallMax /\ call_depth \in 0 .. CallMax
        /\ stack_top \in 0 .. StackMax /\ scope_depth \in 1 .. ScopeMax /\ 0 \in 0 .. CallMax
        /\ call_stack \in [0 .. CallMax -> Frame]
    BY <1>3, CallsAssumption, SMTT(30) DEF CallsInv, TypeOK
  <2>3. /\ me \in Frame /\ me.pc = pc /\ me.temps = caller.temps - (args + extra)
        /\ me.nest = Me.nest /\ me.floor = Me.floor /\ me.base = Me.base
        /\ me.defer_count = caller.defer_count /\ me.due = caller.due
    <3>1. caller.temps - (args + extra) \in Nat
      BY FrameFacts
    <3> QED BY <3>1 DEF Frame
  <2>4. /\ OpenScopes(Me.nest) \in Nat /\ OpenWords(Me.nest) \in Nat
        /\ Me.floor \in Nat /\ Me.base \in Nat /\ Me.temps \in Nat
        /\ Fits(Me, scope_depth, stack_top)
    BY MeFacts, FrameFacts
  <2>5. base \in Nat
    BY <2>2, <2>4, SMTT(30) DEF Fits, OwnWords
  <2>6. /\ callee \in Frame /\ callee.defer_count = 0 /\ callee.due = 0
        /\ callee.floor = scope_depth /\ callee.base = base /\ callee.arity = arity
        /\ callee.pc = "entry" /\ callee.temps = 0 /\ callee.nest = <<>>
    <3>1. call_stack[call_depth + 1] \in Frame /\ scope_depth \in Nat
      BY <2>2, CallsAssumption
    <3> HIDE DEF base
    <3> QED BY <2>5, <3>1, SetupFacts
  <2> HIDE DEF me, callee
  <2>7. /\ call_stack' \in [0 .. CallMax -> Frame]
        /\ call_stack'[call_depth] = me /\ call_stack'[call_depth + 1] = callee
        /\ \A d \in 0 .. CallMax :
             d # call_depth /\ d # call_depth + 1 => call_stack'[d] = call_stack[d]
    BY <2>1, <2>2, <2>3, <2>6
  <2>8. Waiting(me) /\ Fits(me, callee.floor, callee.base)
    <3>1. Waiting(me)
      BY <2>3 DEF Waiting, Unburdened
    <3>2. OwnScopes(me) = OwnScopes(Me) /\ OwnWords(me) = OwnWords(Me) - (args + extra)
      BY <2>3, <2>4 DEF OwnScopes, OwnWords
    <3>3. OwnScopes(Me) \in Nat /\ OwnWords(Me) \in Nat
      BY MeFacts, FrameFacts
    <3>4. /\ Me.floor + OwnScopes(Me) = scope_depth
          /\ Me.base + OwnWords(Me) <= stack_top
          /\ ~LoopReturn => Me.base + OwnWords(Me) = stack_top
      BY <2>4 DEF Fits
    <3>5. /\ me.floor + OwnScopes(me) = callee.floor
          /\ me.base + OwnWords(me) <= callee.base
          /\ ~LoopReturn => me.base + OwnWords(me) = callee.base
      <4>1. me.floor + OwnScopes(me) = callee.floor
        BY <2>3, <2>6, <3>2, <3>4
      <4>2. \A o, a, e, b, t \in Int : /\ b + o <= t => b + (o - (a + e)) <= t - (a + e)
                                      /\ b + o = t => b + (o - (a + e)) = t - (a + e)
        OBVIOUS
      <4>3. /\ Me.base + OwnWords(Me) <= stack_top
              => Me.base + (OwnWords(Me) - (args + extra)) <= stack_top - (args + extra)
            /\ Me.base + OwnWords(Me) = stack_top
              => Me.base + (OwnWords(Me) - (args + extra)) = stack_top - (args + extra)
        <5>1. OwnWords(Me) \in Int /\ Me.base \in Int /\ args \in Int /\ extra \in Int /\ stack_top \in Int
          BY <2>2, <2>4, <3>3
        <5> QED BY <4>2, <5>1
      <4> QED BY <2>3, <2>6, <3>2, <3>4, <4>1, <4>3, Zenon
    <3> QED BY <3>1, <3>5 DEF Fits
  <2>9. Running(callee) /\ Fits(callee, scope_depth', stack_top')
    BY <2>1, <2>2, <2>6, OpenEmpty DEF Running, Fits, OwnScopes, OwnWords
  <2>10. stack_top' \in 0 .. StackMax
    <3>1. /\ stack_top \in Int /\ args \in Int /\ extra \in Int /\ arity \in Int /\ StackMax \in Int
          /\ base \in Nat /\ arity >= args /\ stack_top + (arity - args) <= StackMax /\ extra >= 0
      BY <1>3, <2>2, <2>5, CallsAssumption
    <3>2. \A s, a, e, r, m \in Int :
            /\ s - (a + e) >= 0 /\ r >= a /\ s + (r - a) <= m /\ e >= 0 /\ a >= 0
            => (s - e) + (r - a) \in 0 .. m
      OBVIOUS
    <3> QED BY <2>1, <3>1, <3>2
  <2>11. TypeOK'
    BY <2>1, <2>2, <2>7, <2>10 DEF CallsInv, TypeOK
  <2>12. call_stack'[0].pc = "body"
    <3>1. CASE call_depth = 0
      BY <2>3, <2>7, <3>1
    <3>2. CASE call_depth # 0
      BY <2>2, <2>7, <3>2 DEF CallsInv, Balanced
    <3> QED BY <3>1, <3>2
  <2>13. ASSUME NEW d \in 0 .. call_depth' - 1
         PROVE  /\ Waiting(call_stack'[d])
                /\ Fits(call_stack'[d], call_stack'[d + 1].floor, call_stack'[d + 1].base)
    <3>1. CASE d = call_depth
      BY <2>7, <2>8, <3>1
    <3>2. CASE d # call_depth
      <4>1. /\ d \in 0 .. call_depth - 1 /\ d \in 0 .. CallMax /\ d # call_depth + 1
            /\ d + 1 \in 0 .. CallMax /\ d + 1 # call_depth + 1
        BY <2>1, <2>2, <3>2, CallsAssumption
      <4>2. /\ Waiting(call_stack[d])
            /\ Fits(call_stack[d], call_stack[d + 1].floor, call_stack[d + 1].base)
        BY <4>1 DEF CallsInv, Balanced
      <4>3. /\ call_stack'[d] = call_stack[d]
            /\ call_stack'[d + 1].floor = call_stack[d + 1].floor
            /\ call_stack'[d + 1].base = call_stack[d + 1].base
        BY <2>3, <2>7, <3>2, <4>1 DEF Me
      <4> QED BY <4>2, <4>3
    <3> QED BY <3>1, <3>2
  <2>14. ASSUME NEW d \in 1 .. call_depth'
         PROVE  call_stack'[d].floor >= 1 /\ call_stack'[d].defer_count = call_stack'[d].due
    <3>1. CASE d = call_depth + 1
      BY <2>2, <2>6, <2>7, <3>1
    <3>2. CASE d = call_depth
      BY <2>2, <2>3, <2>7, <3>2, MeFacts
    <3>3. CASE d # call_depth /\ d # call_depth + 1
      <4>1. d \in 1 .. call_depth /\ d \in 0 .. CallMax
        BY <2>1, <2>2, <3>3, CallsAssumption
      <4> QED BY <2>7, <3>3, <4>1 DEF CallsInv, Balanced
    <3> QED BY <3>1, <3>2, <3>3
  <2>15. Me' = callee
    BY <2>1, <2>7 DEF Me
  <2>16. Balanced'
    BY <2>9, <2>12, <2>13, <2>14, <2>15 DEF Balanced
  <2> QED BY <2>11, <2>16 DEF CallsInv
<1> QED BY <1>1, <1>2, <1>3

(* The same for a step that moves the stacks by what the call gains or      *)
(* gives up: then they cannot fall below what is the caller's.              *)
LEMMA MoveKeeps ==
  ASSUME CallsInv, status = "running", NEW f \in Frame, Update(f),
         UNCHANGED <<call_depth, status, cause>>,
         scope_depth' \in Int, scope_depth' <= ScopeMax, stack_top' \in Int, stack_top' <= StackMax,
         f.floor = Me.floor, f.base = Me.base,
         OwnScopes(f) = OwnScopes(Me) + (scope_depth' - scope_depth),
         OwnWords(f) = OwnWords(Me) + (stack_top' - stack_top),
         call_depth = 0 => f.pc = "body",
         call_depth > 0 => f.defer_count = f.due,
         Running(f)
  PROVE  CallsInv'
<1>1. /\ Me \in Frame /\ call_depth \in Nat
      /\ call_depth > 0 => Me.floor >= 1 /\ Me.defer_count = Me.due
      /\ Me.floor + OwnScopes(Me) = scope_depth
      /\ Me.base + OwnWords(Me) <= stack_top
      /\ ~LoopReturn => Me.base + OwnWords(Me) = stack_top
  BY MeFacts DEF Fits
<1>2. /\ Me.floor \in Nat /\ Me.base \in Nat
      /\ OwnScopes(f) \in Nat /\ OwnWords(f) \in Nat
      /\ OwnScopes(Me) \in Nat /\ OwnWords(Me) \in Nat
      /\ scope_depth \in Nat /\ stack_top \in Nat
  BY <1>1, FrameFacts, CallsAssumption DEF CallsInv, TypeOK
<1>3. Fits(f, scope_depth', stack_top')
  <2>1. f.floor + OwnScopes(f) = scope_depth'
    BY <1>1, <1>2
  <2>2. f.base + OwnWords(f) <= stack_top'
    BY <1>1, <1>2
  <2>3. ~LoopReturn => f.base + OwnWords(f) = stack_top'
    BY <1>1, <1>2
  <2> QED BY <2>1, <2>2, <2>3 DEF Fits
<1>4. stack_top' \in 0 .. StackMax
  BY <1>2, <1>3, CallsAssumption DEF Fits
<1>5. scope_depth' \in 1 .. ScopeMax
  <2>1. CASE call_depth = 0
    <3>1. OwnScopes(f) >= 1
      <4>1. f.pc = "body" /\ OpenScopes(f.nest) \in Nat
        BY <2>1, FrameFacts
      <4> QED BY <4>1 DEF OwnScopes
    <3> QED BY <1>2, <1>3, <3>1, CallsAssumption DEF Fits
  <2>2. CASE call_depth > 0
    BY <1>1, <1>2, <1>3, <2>2, CallsAssumption DEF Fits
  <2> QED BY <1>1, <2>1, <2>2
<1> QED BY <1>3, <1>4, <1>5, UpdateKeeps

-----------------------------------------------------------------------------
(* The steps one by one.                                                    *)

LEMMA InitBalanced == Init => CallsInv
<1> SUFFICES ASSUME Init PROVE CallsInv
  OBVIOUS
<1>1. NoFrame \in Frame
  BY CallsAssumption, OpenEmpty DEF NoFrame, Frame
<1>2. 0 \in 0 .. CallMax /\ call_stack[0] = NoFrame /\ Me = NoFrame
  BY CallsAssumption DEF Init, Me
<1>3. TypeOK
  BY <1>1, CallsAssumption DEF Init, TypeOK, Causes
<1>4. /\ NoFrame.pc = "body" /\ NoFrame.floor = 0 /\ NoFrame.base = 0
      /\ NoFrame.temps = 0 /\ NoFrame.nest = <<>>
  BY DEF NoFrame
<1>5. OwnScopes(NoFrame) = 1 /\ OwnWords(NoFrame) = 0
  BY <1>4, OpenEmpty DEF OwnScopes, OwnWords
<1>6. Running(NoFrame) /\ Fits(NoFrame, 1, 0)
  BY <1>4, <1>5 DEF Running, Fits
<1>7. Balanced
  BY <1>2, <1>4, <1>6 DEF Init, Balanced
<1> QED BY <1>3, <1>7 DEF CallsInv

LEMMA PushKeeps == CallsInv /\ Push => CallsInv'
<1> SUFFICES ASSUME CallsInv, Push PROVE CallsInv'
  OBVIOUS
<1>1. CASE stack_top >= StackMax
  BY <1>1, ErrorKeeps DEF Push, Causes
<1>2. CASE ~(stack_top >= StackMax)
  <2> DEFINE f == [Me EXCEPT !.temps = @ + 1]
  <2>1. /\ status = "running" /\ Me.pc = "body" /\ Update(f) /\ stack_top' = stack_top + 1
        /\ UNCHANGED <<scope_depth, call_depth, status, cause>>
    BY <1>2 DEF Push, In
  <2>2. Me \in Frame /\ stack_top \in 0 .. StackMax /\ scope_depth \in 1 .. ScopeMax
    BY <2>1, MeFacts DEF CallsInv, TypeOK
  <2>3. /\ f \in Frame /\ f.pc = Me.pc /\ f.floor = Me.floor /\ f.base = Me.base
        /\ f.nest = Me.nest /\ f.temps = Me.temps + 1
        /\ f.defer_count = Me.defer_count /\ f.due = Me.due
    BY <2>2, SMTT(30) DEF Frame
  <2> HIDE DEF f
  <2>4. OwnScopes(f) = OwnScopes(Me) /\ OwnWords(f) = OwnWords(Me) + 1
    BY <2>1, <2>2, <2>3, FrameFacts DEF OwnScopes, OwnWords
  <2>5. Running(f)
    BY <2>1, <2>3 DEF Running
  <2>6. /\ scope_depth' \in Int /\ scope_depth' <= ScopeMax
        /\ stack_top' \in Int /\ stack_top' <= StackMax
        /\ OwnScopes(f) = OwnScopes(Me) + (scope_depth' - scope_depth)
        /\ OwnWords(f) = OwnWords(Me) + (stack_top' - stack_top)
    BY <1>2, <2>1, <2>2, <2>4, FrameFacts, CallsAssumption
  <2> QED BY <2>1, <2>3, <2>5, <2>6, MeFacts, MoveKeeps
<1> QED BY <1>1, <1>2

LEMMA PopKeeps == CallsInv /\ Pop => CallsInv'
<1> SUFFICES ASSUME CallsInv, Pop PROVE CallsInv'
  OBVIOUS
<1> DEFINE f == [Me EXCEPT !.temps = @ - 1]
<1>1. /\ status = "running" /\ Me.pc = "body" /\ Me.temps > 0 /\ Update(f)
      /\ stack_top' = stack_top - 1 /\ UNCHANGED <<scope_depth, call_depth, status, cause>>
  BY DEF Pop, In
<1>2. Me \in Frame /\ stack_top \in 0 .. StackMax /\ scope_depth \in 1 .. ScopeMax
  BY <1>1, MeFacts DEF CallsInv, TypeOK
<1>3. /\ f \in Frame /\ f.pc = Me.pc /\ f.floor = Me.floor /\ f.base = Me.base
      /\ f.nest = Me.nest /\ f.temps = Me.temps - 1
      /\ f.defer_count = Me.defer_count /\ f.due = Me.due
  BY <1>1, <1>2, SMTT(30) DEF Frame
<1> HIDE DEF f
<1>4. OwnScopes(f) = OwnScopes(Me) /\ OwnWords(f) = OwnWords(Me) - 1
  BY <1>1, <1>2, <1>3, FrameFacts DEF OwnScopes, OwnWords
<1>5. Running(f)
  BY <1>1, <1>3 DEF Running
<1>6. /\ scope_depth' \in Int /\ scope_depth' <= ScopeMax
      /\ stack_top' \in Int /\ stack_top' <= StackMax
      /\ OwnScopes(f) = OwnScopes(Me) + (scope_depth' - scope_depth)
      /\ OwnWords(f) = OwnWords(Me) + (stack_top' - stack_top)
  BY <1>1, <1>2, <1>4, FrameFacts, CallsAssumption
<1> QED BY <1>1, <1>3, <1>5, <1>6, MeFacts, MoveKeeps

(* A statement that opens or closes blocks: nest is what is open then.      *)
LEMMA NestKeeps ==
  ASSUME CallsInv, Statement, NEW nest \in Seq(Block), Update([Me EXCEPT !.nest = nest]),
         UNCHANGED <<call_depth, status, cause>>,
         scope_depth' = scope_depth + (OpenScopes(nest) - OpenScopes(Me.nest)),
         stack_top' = stack_top + (OpenWords(nest) - OpenWords(Me.nest)),
         scope_depth' <= ScopeMax, stack_top' <= StackMax
  PROVE  CallsInv'
<1> DEFINE f == [Me EXCEPT !.nest = nest]
<1>1. status = "running" /\ Me.pc = "body" /\ Update(f)
  BY DEF Statement, In
<1>2. Me \in Frame /\ stack_top \in 0 .. StackMax /\ scope_depth \in 1 .. ScopeMax
  BY <1>1, MeFacts DEF CallsInv, TypeOK
<1>3. /\ f \in Frame /\ f.pc = Me.pc /\ f.floor = Me.floor /\ f.base = Me.base
      /\ f.nest = nest /\ f.temps = Me.temps
      /\ f.defer_count = Me.defer_count /\ f.due = Me.due
  BY <1>2 DEF Frame
<1> HIDE DEF f
<1>4. /\ OpenScopes(nest) \in Nat /\ OpenWords(nest) \in Nat
      /\ OpenScopes(Me.nest) \in Nat /\ OpenWords(Me.nest) \in Nat /\ Me.temps \in Nat
  BY <1>2, OpenFacts, FrameFacts
<1>5. /\ OwnScopes(f) = OwnScopes(Me) + (scope_depth' - scope_depth)
      /\ OwnWords(f) = OwnWords(Me) + (stack_top' - stack_top)
      /\ scope_depth' \in Int /\ stack_top' \in Int
  <2>1. OwnScopes(f) = 1 + OpenScopes(nest) /\ OwnScopes(Me) = 1 + OpenScopes(Me.nest)
    BY <1>1, <1>3 DEF OwnScopes
  <2>2. /\ OwnWords(f) = Me.temps + OpenWords(nest)
        /\ OwnWords(Me) = Me.temps + OpenWords(Me.nest)
    BY <1>1, <1>3, <1>4 DEF OwnWords
  <2>3. scope_depth' \in Int /\ stack_top' \in Int
    BY <1>2, <1>4
  <2>4. OwnScopes(f) = OwnScopes(Me) + (scope_depth' - scope_depth)
    BY <1>2, <1>4, <2>1
  <2>5. OwnWords(f) = OwnWords(Me) + (stack_top' - stack_top)
    BY <1>2, <1>4, <2>2
  <2> QED BY <2>3, <2>4, <2>5
<1>6. Running(f)
  BY <1>1, <1>3 DEF Running
<1> QED BY <1>1, <1>3, <1>5, <1>6, MeFacts, MoveKeeps

LEMMA EnterBlockKeeps ==
  ASSUME CallsInv, NEW b \in Block, EnterBlock(b)
  PROVE  CallsInv'
<1>1. CASE stack_top + Words(b) > StackMax
  BY <1>1, ErrorKeeps DEF EnterBlock, Causes
<1>2. CASE ~(stack_top + Words(b) > StackMax) /\ scope_depth + Scoped(b) > ScopeMax
  BY <1>2, ErrorKeeps DEF EnterBlock, Causes
<1>3. CASE ~(stack_top + Words(b) > StackMax) /\ ~(scope_depth + Scoped(b) > ScopeMax)
  <2> DEFINE nest == Append(Me.nest, b)
  <2>1. /\ Statement /\ Update([Me EXCEPT !.nest = nest])
        /\ UNCHANGED <<call_depth, status, cause>>
        /\ stack_top' = stack_top + Words(b) /\ scope_depth' = scope_depth + Scoped(b)
    BY <1>3 DEF EnterBlock
  <2>2. Me.nest \in Seq(Block) /\ stack_top \in 0 .. StackMax /\ scope_depth \in 1 .. ScopeMax
    BY <2>1, MeFacts, FrameFacts DEF CallsInv, TypeOK, Statement, In
  <2>3. /\ nest \in Seq(Block) /\ Words(b) \in Nat /\ Scoped(b) \in Nat
        /\ OpenScopes(Me.nest) \in Nat /\ OpenWords(Me.nest) \in Nat
        /\ OpenScopes(nest) = OpenScopes(Me.nest) + Scoped(b)
        /\ OpenWords(nest) = OpenWords(Me.nest) + Words(b)
    BY <2>2, OpenAppend, OpenFacts
  <2> HIDE DEF nest
  <2>4. /\ scope_depth' = scope_depth + (OpenScopes(nest) - OpenScopes(Me.nest))
        /\ stack_top' = stack_top + (OpenWords(nest) - OpenWords(Me.nest))
        /\ scope_depth' <= ScopeMax /\ stack_top' <= StackMax
    <3>1. scope_depth' = scope_depth + (OpenScopes(nest) - OpenScopes(Me.nest))
      BY <1>3, <2>1, <2>2, <2>3, CallsAssumption
    <3>2. stack_top' = stack_top + (OpenWords(nest) - OpenWords(Me.nest))
      BY <1>3, <2>1, <2>2, <2>3, CallsAssumption
    <3>3. scope_depth' <= ScopeMax
      BY <1>3, <2>1, <2>2, <2>3, CallsAssumption, SMTT(30)
    <3>4. stack_top' <= StackMax
      BY <1>3, <2>1, <2>2, <2>3, CallsAssumption, SMTT(30)
    <3> QED BY <3>1, <3>2, <3>3, <3>4
  <2> QED BY <2>1, <2>3, <2>4, NestKeeps
<1> QED BY <1>1, <1>2, <1>3

LEMMA LeaveBlockKeeps == CallsInv /\ LeaveBlock => CallsInv'
<1> SUFFICES ASSUME CallsInv, LeaveBlock PROVE CallsInv'
  OBVIOUS
<1> DEFINE nest == Front(Me.nest)
<1>1. /\ Statement /\ Update([Me EXCEPT !.nest = nest]) /\ Me.nest # <<>>
      /\ UNCHANGED <<call_depth, status, cause>>
      /\ stack_top' = stack_top - Words(Last(Me.nest))
      /\ scope_depth' = scope_depth - Scoped(Last(Me.nest))
  BY DEF LeaveBlock
<1>2. Me.nest \in Seq(Block) /\ stack_top \in 0 .. StackMax /\ scope_depth \in 1 .. ScopeMax
  BY <1>1, MeFacts, FrameFacts DEF CallsInv, TypeOK, Statement, In
<1>3. /\ nest \in Seq(Block) /\ OpenScopes(nest) \in Nat /\ OpenWords(nest) \in Nat
      /\ Words(Last(Me.nest)) \in Nat /\ Scoped(Last(Me.nest)) \in Nat
      /\ OpenScopes(Me.nest) = OpenScopes(nest) + Scoped(Last(Me.nest))
      /\ OpenWords(Me.nest) = OpenWords(nest) + Words(Last(Me.nest))
  BY <1>1, <1>2, OpenFront, OpenFacts DEF Words, Scoped
<1> HIDE DEF nest
<1>4. /\ scope_depth' = scope_depth + (OpenScopes(nest) - OpenScopes(Me.nest))
      /\ stack_top' = stack_top + (OpenWords(nest) - OpenWords(Me.nest))
      /\ scope_depth' <= ScopeMax /\ stack_top' <= StackMax
  <2>1. scope_depth' = scope_depth + (OpenScopes(nest) - OpenScopes(Me.nest))
    BY <1>1, <1>2, <1>3, CallsAssumption, SMTT(30)
  <2>2. stack_top' = stack_top + (OpenWords(nest) - OpenWords(Me.nest))
    BY <1>1, <1>2, <1>3, CallsAssumption, SMTT(30)
  <2>3. scope_depth' <= ScopeMax
    BY <1>1, <1>2, <1>3, CallsAssumption, SMTT(30)
  <2>4. stack_top' <= StackMax
    BY <1>1, <1>2, <1>3, CallsAssumption, SMTT(30)
  <2> QED BY <2>1, <2>2, <2>3, <2>4
<1> QED BY <1>1, <1>3, <1>4, NestKeeps

(* The loop that break and continue are about: only ifs are inside it.      *)
LEMMA InnerLoopFacts ==
  ASSUME Me.nest \in Seq(Block), Loops # {}
  PROVE  /\ InnerLoop \in 1 .. Len(Me.nest)
         /\ \A i \in InnerLoop + 1 .. Len(Me.nest) : Me.nest[i] = "if"
<1>1. Len(Me.nest) \in Nat /\ DOMAIN Me.nest = 1 .. Len(Me.nest)
  BY SeqFacts
<1>2. Loops \in SUBSET Nat /\ \A i \in Loops : i <= Len(Me.nest)
  BY <1>1 DEF Loops
<1>3. PICK n \in Loops : \A j \in Loops : j <= n
  BY <1>1, <1>2, GreatestElement
<1>4. InnerLoop \in Loops /\ \A j \in Loops : j <= InnerLoop
  BY <1>3 DEF InnerLoop
<1>5. ASSUME NEW i \in InnerLoop + 1 .. Len(Me.nest) PROVE Me.nest[i] = "if"
  <2>1. InnerLoop \in Nat /\ i \in DOMAIN Me.nest /\ ~(i <= InnerLoop)
    BY <1>1, <1>2, <1>4
  <2> QED BY <1>4, <2>1 DEF Loops
<1> QED BY <1>1, <1>4, <1>5 DEF Loops

LEMMA BreakKeeps == CallsInv /\ Break => CallsInv'
<1> SUFFICES ASSUME CallsInv, Break PROVE CallsInv'
  OBVIOUS
<1> DEFINE n == InnerLoop
           m == InnerLoop - 1
           nest == SubSeq(Me.nest, 1, m)
           loop == SubSeq(Me.nest, 1, n)
<1>1. /\ Statement /\ Update([Me EXCEPT !.nest = nest]) /\ Loops # {}
      /\ UNCHANGED <<call_depth, status, cause>>
      /\ stack_top' = stack_top - Words(Me.nest[n])
      /\ scope_depth' = scope_depth - (OpenScopes(Me.nest) - OpenScopes(nest))
  BY DEF Break, ScopesAbove
<1>2. Me.nest \in Seq(Block) /\ stack_top \in 0 .. StackMax /\ scope_depth \in 1 .. ScopeMax
  BY <1>1, MeFacts, FrameFacts DEF CallsInv, TypeOK, Statement, In
<1>3. /\ n \in 1 .. Len(Me.nest) /\ Len(Me.nest) \in Nat /\ Me.nest[n] \in Block
      /\ \A i \in n + 1 .. Len(Me.nest) : Me.nest[i] = "if"
  BY <1>1, <1>2, InnerLoopFacts, SeqFacts
<1>4. m \in 0 .. Len(Me.nest) /\ n \in 0 .. Len(Me.nest)
  BY <1>3
<1>5. loop = Append(nest, Me.nest[n])
  BY <1>2, <1>3, PrefixNext
<1> HIDE DEF m, n
<1>6. /\ nest \in Seq(Block) /\ OpenScopes(nest) <= OpenScopes(Me.nest)
      /\ OpenWords(loop) = OpenWords(Me.nest)
  BY <1>2, <1>3, <1>4, OpenPrefix
<1> HIDE DEF nest, loop
<1>7. /\ OpenWords(loop) = OpenWords(nest) + Words(Me.nest[n]) /\ Words(Me.nest[n]) \in Nat
      /\ OpenScopes(nest) \in Nat /\ OpenWords(nest) \in Nat
      /\ OpenScopes(Me.nest) \in Nat /\ OpenWords(Me.nest) \in Nat
  BY <1>2, <1>3, <1>5, <1>6, OpenAppend, OpenFacts
<1>8. /\ scope_depth' = scope_depth + (OpenScopes(nest) - OpenScopes(Me.nest))
      /\ stack_top' = stack_top + (OpenWords(nest) - OpenWords(Me.nest))
      /\ scope_depth' <= ScopeMax /\ stack_top' <= StackMax
  <2>1. scope_depth' = scope_depth + (OpenScopes(nest) - OpenScopes(Me.nest))
    BY <1>1, <1>2, <1>6, <1>7, CallsAssumption
  <2>2. stack_top' = stack_top + (OpenWords(nest) - OpenWords(Me.nest))
    BY <1>1, <1>2, <1>6, <1>7, CallsAssumption, SMTT(30)
  <2>3. scope_depth' <= ScopeMax
    BY <1>1, <1>2, <1>6, <1>7, CallsAssumption, SMTT(30)
  <2>4. stack_top' <= StackMax
    BY <1>1, <1>2, <1>6, <1>7, CallsAssumption, SMTT(30)
  <2> QED BY <2>1, <2>2, <2>3, <2>4
<1> QED BY <1>1, <1>6, <1>8, NestKeeps

LEMMA ContinueKeeps == CallsInv /\ Continue => CallsInv'
<1> SUFFICES ASSUME CallsInv, Continue PROVE CallsInv'
  OBVIOUS
<1> DEFINE n == InnerLoop
           nest == SubSeq(Me.nest, 1, n)
<1>1. /\ Statement /\ Update([Me EXCEPT !.nest = nest]) /\ Loops # {}
      /\ UNCHANGED <<stack_top, call_depth, status, cause>>
      /\ scope_depth' = scope_depth - (OpenScopes(Me.nest) - OpenScopes(nest))
  BY DEF Continue, ScopesAbove
<1>2. Me.nest \in Seq(Block) /\ stack_top \in 0 .. StackMax /\ scope_depth \in 1 .. ScopeMax
  BY <1>1, MeFacts, FrameFacts DEF CallsInv, TypeOK, Statement, In
<1>3. n \in 0 .. Len(Me.nest) /\ \A i \in n + 1 .. Len(Me.nest) : Me.nest[i] = "if"
  BY <1>1, <1>2, InnerLoopFacts, SeqFacts
<1> HIDE DEF n
<1>4. /\ nest \in Seq(Block) /\ OpenScopes(nest) <= OpenScopes(Me.nest)
      /\ OpenWords(nest) = OpenWords(Me.nest)
  BY <1>2, <1>3, OpenPrefix
<1> HIDE DEF nest
<1>5. /\ OpenScopes(nest) \in Nat /\ OpenWords(nest) \in Nat
      /\ OpenScopes(Me.nest) \in Nat /\ OpenWords(Me.nest) \in Nat
  BY <1>2, <1>4, OpenFacts
<1>6. /\ scope_depth' = scope_depth + (OpenScopes(nest) - OpenScopes(Me.nest))
      /\ stack_top' = stack_top + (OpenWords(nest) - OpenWords(Me.nest))
      /\ scope_depth' <= ScopeMax /\ stack_top' <= StackMax
  BY <1>1, <1>2, <1>4, <1>5, CallsAssumption, SMTT(30)
<1> QED BY <1>1, <1>4, <1>6, NestKeeps

LEMMA BlockStepsKeep == CallsInv /\ BlockSteps => CallsInv'
BY PushKeeps, PopKeeps, EnterBlockKeeps, LeaveBlockKeeps, BreakKeeps, ContinueKeeps DEF BlockSteps

LEMMA CallKeeps ==
  ASSUME CallsInv, NEW args \in 0 .. ArityMax, NEW extra \in 0 .. 1, NEW arity \in 0 .. ArityMax,
         Call(args, extra, arity)
  PROVE  CallsInv'
<1>1. /\ status = "running" /\ Me.pc = "body" /\ Me.temps >= args + extra /\ args <= arity
      /\ Invoke(Me, args, extra, arity, "body") /\ args \in Nat /\ extra \in Nat
  BY CallsAssumption DEF Call, In
<1> QED BY <1>1, MeFacts, InvokeKeeps

LEMMA TailCallKeeps ==
  ASSUME CallsInv, NEW args \in 0 .. ArityMax, NEW arity \in 0 .. ArityMax, TailCall(args, arity)
  PROVE  CallsInv'
<1>1. /\ status = "running" /\ Me.pc = "body" /\ Me.temps = args /\ args <= arity
      /\ call_depth > 0 /\ Unburdened(Me) /\ args \in Nat
  BY CallsAssumption DEF TailCall, In, MayReturn, Unburdened
<1>2. Me \in Frame /\ stack_top \in 0 .. StackMax /\ scope_depth \in 1 .. ScopeMax
  BY <1>1, MeFacts DEF CallsInv, TypeOK
<1>3. CASE Me.defer_count > 0
  <2>1. Invoke(Me, args, 0, arity, "ret")
    BY <1>3 DEF TailCall
  <2>2. Me.temps >= args + 0 /\ Me.temps = args + 0 /\ call_depth # 0
    BY <1>1
  <2> QED BY <1>1, <1>2, <2>1, <2>2, MeFacts, InvokeKeeps
<1>4. CASE ~(Me.defer_count > 0) /\ stack_top + (arity - args) > StackMax
  BY <1>4, ErrorKeeps DEF TailCall, Causes
<1>5. CASE ~(Me.defer_count > 0) /\ ~(stack_top + (arity - args) > StackMax)
  <2> DEFINE f == [Me EXCEPT !.arity = arity, !.pc = "entry", !.temps = 0, !.nest = <<>>]
  <2>1. /\ Update(f) /\ stack_top' = stack_top + (arity - args) /\ scope_depth' = Me.floor
        /\ UNCHANGED <<call_depth, status, cause>>
    BY <1>5 DEF TailCall
  <2>2. /\ f \in Frame /\ f.pc = "entry" /\ f.floor = Me.floor /\ f.base = Me.base
        /\ f.nest = <<>> /\ f.temps = 0 /\ f.arity = arity
        /\ f.defer_count = Me.defer_count /\ f.due = Me.due
    BY <1>2, OpenEmpty DEF Frame
  <2> HIDE DEF f
  <2>3. /\ Me.floor + OwnScopes(Me) = scope_depth /\ Me.floor >= 1
        /\ Me.base + OwnWords(Me) <= stack_top
        /\ ~LoopReturn => Me.base + OwnWords(Me) = stack_top
        /\ Me.defer_count = Me.due
    BY <1>1, MeFacts DEF Fits
  <2>4. /\ OwnScopes(Me) \in Nat /\ Me.base \in Nat /\ Me.floor \in Nat
        /\ OpenWords(Me.nest) \in Nat /\ OwnWords(Me) = args + OpenWords(Me.nest)
    BY <1>1, <1>2, FrameFacts DEF OwnWords
  <2>5. OwnScopes(f) = 0 /\ OwnWords(f) = arity
    BY <2>2, OpenEmpty, CallsAssumption DEF OwnScopes, OwnWords
  <2>6. stack_top' \in 0 .. StackMax
    BY <1>1, <1>2, <1>5, <2>1, CallsAssumption
  <2>7. scope_depth' \in 1 .. ScopeMax
    BY <1>2, <2>1, <2>3, <2>4, CallsAssumption
  <2>8. Fits(f, scope_depth', stack_top')
    <3>1. f.floor + OwnScopes(f) = scope_depth'
      BY <2>1, <2>2, <2>4, <2>5
    <3>2. f.base + OwnWords(f) <= stack_top'
      BY <1>1, <1>2, <2>1, <2>2, <2>3, <2>4, <2>5
    <3>3. ~LoopReturn => f.base + OwnWords(f) = stack_top'
      <4> SUFFICES ASSUME ~LoopReturn PROVE f.base + OwnWords(f) = stack_top'
        OBVIOUS
      <4>1. OpenWords(Me.nest) = 0
        BY <1>1, Zenon DEF Unburdened
      <4>2. Me.base + OwnWords(Me) = stack_top
        BY <2>3
      <4> QED BY <1>1, <1>2, <2>1, <2>2, <2>4, <2>5, <4>1, <4>2
    <3> QED BY <3>1, <3>2, <3>3 DEF Fits
  <2>9. Running(f)
    BY <2>2 DEF Running
  <2>10. call_depth # 0
    BY <1>1
  <2> QED BY <1>1, <2>1, <2>2, <2>3, <2>6, <2>7, <2>8, <2>9, <2>10, UpdateKeeps
<1> QED BY <1>3, <1>4, <1>5

LEMMA EnterKeeps == CallsInv /\ Enter => CallsInv'
<1> SUFFICES ASSUME CallsInv, Enter PROVE CallsInv'
  OBVIOUS
<1>1. CASE scope_depth >= ScopeMax
  BY <1>1, ErrorKeeps DEF Enter, Causes
<1>2. CASE ~(scope_depth >= ScopeMax)
  <2> DEFINE f == [Me EXCEPT !.pc = "body"]
  <2>1. /\ status = "running" /\ Me.pc = "entry" /\ Update(f)
        /\ stack_top' = stack_top - Me.arity /\ scope_depth' = scope_depth + 1
        /\ UNCHANGED <<call_depth, status, cause>>
    BY <1>2 DEF Enter, In
  <2>2. Me \in Frame /\ stack_top \in 0 .. StackMax /\ scope_depth \in 1 .. ScopeMax
    BY <2>1, MeFacts DEF CallsInv, TypeOK
  <2>3. /\ f \in Frame /\ f.pc = "body" /\ f.floor = Me.floor /\ f.base = Me.base
        /\ f.nest = Me.nest /\ f.temps = Me.temps
        /\ f.defer_count = Me.defer_count /\ f.due = Me.due
    BY <2>2 DEF Frame
  <2> HIDE DEF f
  <2>4. /\ Me.arity \in Nat /\ Me.temps \in Nat
        /\ OpenScopes(Me.nest) \in Nat /\ OpenWords(Me.nest) \in Nat
    BY <2>2, FrameFacts, CallsAssumption
  <2>5. /\ OwnScopes(f) = OwnScopes(Me) + (scope_depth' - scope_depth)
        /\ scope_depth' \in Int /\ scope_depth' <= ScopeMax
    BY <1>2, <2>1, <2>2, <2>3, <2>4, CallsAssumption DEF OwnScopes
  <2>6. /\ OwnWords(f) = OwnWords(Me) + (stack_top' - stack_top)
        /\ stack_top' \in Int /\ stack_top' <= StackMax
    BY <2>1, <2>2, <2>3, <2>4, CallsAssumption DEF OwnWords
  <2>7. Running(f)
    BY <2>3 DEF Running
  <2> QED BY <2>1, <2>3, <2>5, <2>6, <2>7, MeFacts, MoveKeeps
<1> QED BY <1>1, <1>2

LEMMA CallStepsKeep == CallsInv /\ CallSteps => CallsInv'
<1>1. CallsInv /\ CallRefused => CallsInv'
  BY ErrorKeeps DEF CallRefused, Causes
<1> QED BY <1>1, CallKeeps, TailCallKeeps, EnterKeeps DEF CallSteps

-----------------------------------------------------------------------------
(* A frame that is returning is not the top level's.                        *)
LEMMA Returning ==
  ASSUME CallsInv, NEW pc, pc # "body", In(pc)
  PROVE  status = "running" /\ Me.pc = pc /\ call_depth > 0 /\ Me.defer_count = Me.due
BY MeFacts DEF In

LEMMA DeferKeeps ==
  ASSUME CallsInv, NEW args \in 0 .. ArityMax, Defer(args)
  PROVE  CallsInv'
<1>1. CASE Me.defer_count >= DeferMax
  BY <1>1, ErrorKeeps DEF Defer, Causes
<1>2. CASE ~(Me.defer_count >= DeferMax)
  <2> DEFINE f == [Me EXCEPT !.temps = 0, !.defer_count = @ + 1, !.due = @ + 1]
  <2>1. /\ status = "running" /\ Me.pc = "body" /\ Update(f) /\ Me.temps = args /\ call_depth > 0
        /\ stack_top' = stack_top - args /\ UNCHANGED <<scope_depth, call_depth, status, cause>>
    BY <1>2 DEF Defer, In
  <2>2. Me \in Frame /\ stack_top \in 0 .. StackMax /\ scope_depth \in 1 .. ScopeMax
    BY <2>1, MeFacts DEF CallsInv, TypeOK
  <2>3. Me.defer_count + 1 \in 0 .. DeferMax /\ Me.due + 1 \in Nat
    BY <1>2, <2>2, FrameFacts, CallsAssumption
  <2>4. /\ f \in Frame /\ f.pc = Me.pc /\ f.floor = Me.floor /\ f.base = Me.base
        /\ f.nest = Me.nest /\ f.temps = 0
        /\ f.defer_count = Me.defer_count + 1 /\ f.due = Me.due + 1
    BY <2>2, <2>3 DEF Frame
  <2> HIDE DEF f
  <2>5. f.defer_count = f.due /\ call_depth # 0
    BY <2>1, <2>4, MeFacts
  <2>6. OwnScopes(f) = OwnScopes(Me) /\ OwnWords(f) = OwnWords(Me) - args
    BY <2>1, <2>2, <2>4, FrameFacts DEF OwnScopes, OwnWords
  <2>7. Running(f)
    BY <2>1, <2>4 DEF Running
  <2>8. /\ scope_depth' \in Int /\ scope_depth' <= ScopeMax
        /\ stack_top' \in Int /\ stack_top' <= StackMax
        /\ OwnScopes(f) = OwnScopes(Me) + (scope_depth' - scope_depth)
        /\ OwnWords(f) = OwnWords(Me) + (stack_top' - stack_top)
    BY <2>1, <2>2, <2>6, FrameFacts, CallsAssumption
  <2> QED BY <2>1, <2>4, <2>5, <2>7, <2>8, MoveKeeps
<1> QED BY <1>1, <1>2

LEMMA ReturnStatementKeeps == CallsInv /\ ReturnStatement => CallsInv'
<1> SUFFICES ASSUME CallsInv, ReturnStatement PROVE CallsInv'
  OBVIOUS
<1> DEFINE f == [Me EXCEPT !.pc = "ret"]
<1>1. /\ status = "running" /\ Me.pc = "body" /\ Update(f) /\ Me.temps = 1 /\ call_depth > 0
      /\ Unburdened(Me) /\ UNCHANGED <<stack_top, scope_depth, call_depth, status, cause>>
  BY DEF ReturnStatement, In, MayReturn, Unburdened
<1>2. Me \in Frame /\ stack_top \in 0 .. StackMax /\ scope_depth \in 1 .. ScopeMax
  BY <1>1, MeFacts DEF CallsInv, TypeOK
<1>3. /\ f \in Frame /\ f.pc = "ret" /\ f.floor = Me.floor /\ f.base = Me.base
      /\ f.nest = Me.nest /\ f.temps = Me.temps
      /\ f.defer_count = Me.defer_count /\ f.due = Me.due
  BY <1>2 DEF Frame
<1> HIDE DEF f
<1>4. /\ OwnScopes(f) = OwnScopes(Me) /\ OwnWords(f) = OwnWords(Me) /\ call_depth # 0
      /\ OwnScopes(Me) \in Nat /\ OwnWords(Me) \in Nat
  BY <1>1, <1>2, <1>3, FrameFacts, SMTT(30) DEF OwnScopes, OwnWords
<1>5. Running(f)
  BY <1>1, <1>3 DEF Running, Unburdened
<1>6. /\ scope_depth' \in Int /\ scope_depth' <= ScopeMax
      /\ stack_top' \in Int /\ stack_top' <= StackMax
      /\ OwnScopes(f) = OwnScopes(Me) + (scope_depth' - scope_depth)
      /\ OwnWords(f) = OwnWords(Me) + (stack_top' - stack_top)
  BY <1>1, <1>2, <1>4, CallsAssumption
<1> QED BY <1>1, <1>3, <1>4, <1>5, <1>6, MeFacts, MoveKeeps

LEMMA PopResultKeeps == CallsInv /\ PopResult => CallsInv'
<1> SUFFICES ASSUME CallsInv, PopResult PROVE CallsInv'
  OBVIOUS
<1> DEFINE f == [Me EXCEPT !.temps = @ - 1, !.draining = TRUE, !.pc = "drain"]
<1>1. /\ status = "running" /\ Me.pc = "ret" /\ Update(f) /\ call_depth > 0
      /\ stack_top' = stack_top - 1 /\ UNCHANGED <<scope_depth, call_depth, status, cause>>
  BY Returning DEF PopResult
<1>2. /\ Me \in Frame /\ stack_top \in 0 .. StackMax /\ scope_depth \in 1 .. ScopeMax
      /\ Me.temps = 1 /\ Unburdened(Me)
  BY <1>1, MeFacts DEF CallsInv, TypeOK, Running
<1>3. /\ f \in Frame /\ f.pc = "drain" /\ f.floor = Me.floor /\ f.base = Me.base
      /\ f.nest = Me.nest /\ f.temps = 0
      /\ f.defer_count = Me.defer_count /\ f.due = Me.due
  <2>1. Me.temps - 1 = 0 /\ 0 \in Nat /\ TRUE \in BOOLEAN
    BY <1>2
  <2> QED BY <1>2, <2>1 DEF Frame
<1> HIDE DEF f
<1>4. /\ OwnScopes(f) = OwnScopes(Me) /\ OwnWords(f) = OwnWords(Me) - 1 /\ call_depth # 0
      /\ OwnScopes(Me) \in Nat /\ OwnWords(Me) \in Nat
  <2>1. OwnScopes(f) = OwnScopes(Me)
    BY <1>1, <1>3 DEF OwnScopes
  <2>2. OpenWords(Me.nest) \in Nat /\ OwnScopes(Me) \in Nat /\ OwnWords(Me) \in Nat
    BY <1>2, FrameFacts
  <2>3. OwnWords(f) = 0 + OpenWords(Me.nest) + 0 /\ OwnWords(Me) = 1 + OpenWords(Me.nest) + 0
    BY <1>1, <1>2, <1>3 DEF OwnWords
  <2> QED BY <1>1, <2>1, <2>2, <2>3
<1>5. Running(f)
  BY <1>2, <1>3 DEF Running, Unburdened
<1>6. /\ scope_depth' \in Int /\ scope_depth' <= ScopeMax
      /\ stack_top' \in Int /\ stack_top' <= StackMax
      /\ OwnScopes(f) = OwnScopes(Me) + (scope_depth' - scope_depth)
      /\ OwnWords(f) = OwnWords(Me) + (stack_top' - stack_top)
  BY <1>1, <1>2, <1>4, CallsAssumption
<1> QED BY <1>1, <1>3, <1>4, <1>5, <1>6, MeFacts, MoveKeeps

LEMMA PoppedFacts ==
  ASSUME CallsInv, In("drain"), Me.defer_count > 0
  PROVE  /\ Popped \in Frame /\ Popped.defer_count = Popped.due
         /\ Popped.pc = "drain" /\ Popped.floor = Me.floor /\ Popped.base = Me.base
         /\ Popped.nest = Me.nest /\ Popped.temps = Me.temps /\ Me.temps = 0 /\ Unburdened(Me)
<1>1. /\ status = "running" /\ Me.pc = "drain" /\ Me \in Frame /\ Me.defer_count = Me.due
      /\ Me.temps = 0 /\ Unburdened(Me)
  BY MeFacts, Returning DEF Running
<1>2. Me.defer_count \in 0 .. DeferMax /\ Me.due \in Nat
  BY <1>1, FrameFacts
<1>3. Me.defer_count - 1 \in 0 .. DeferMax /\ Me.due > 0 /\ Me.due - 1 \in Nat
  BY <1>1, <1>2, CallsAssumption
<1> QED BY <1>1, <1>3 DEF Popped, Frame

LEMMA DeferredBuiltinKeeps == CallsInv /\ DeferredBuiltin => CallsInv'
<1> SUFFICES ASSUME CallsInv, DeferredBuiltin PROVE CallsInv'
  OBVIOUS
<1>1. /\ In("drain") /\ Me.defer_count > 0 /\ Update(Popped) /\ call_depth > 0
      /\ status = "running" /\ Me.pc = "drain"
      /\ UNCHANGED <<stack_top, scope_depth, call_depth, status, cause>>
  BY Returning DEF DeferredBuiltin
<1>2. Me \in Frame /\ stack_top \in 0 .. StackMax /\ scope_depth \in 1 .. ScopeMax /\ call_depth # 0
  BY <1>1, MeFacts DEF CallsInv, TypeOK
<1> DEFINE f == Popped
<1>3. /\ f \in Frame /\ f.defer_count = f.due /\ f.pc = "drain" /\ f.floor = Me.floor
      /\ f.base = Me.base /\ f.nest = Me.nest /\ f.temps = Me.temps /\ Me.temps = 0
      /\ Unburdened(Me)
  BY <1>1, PoppedFacts
<1>4. Update(f)
  BY <1>1
<1> HIDE DEF f
<1>5. /\ OwnScopes(f) = OwnScopes(Me) /\ OwnWords(f) = OwnWords(Me)
      /\ OwnScopes(Me) \in Nat /\ OwnWords(Me) \in Nat
  BY <1>1, <1>2, <1>3, FrameFacts DEF OwnScopes, OwnWords
<1>6. Running(f)
  BY <1>3 DEF Running, Unburdened
<1>7. /\ scope_depth' \in Int /\ scope_depth' <= ScopeMax
      /\ stack_top' \in Int /\ stack_top' <= StackMax
      /\ OwnScopes(f) = OwnScopes(Me) + (scope_depth' - scope_depth)
      /\ OwnWords(f) = OwnWords(Me) + (stack_top' - stack_top)
  BY <1>1, <1>2, <1>5, CallsAssumption
<1> QED BY <1>1, <1>2, <1>3, <1>4, <1>6, <1>7, MoveKeeps

LEMMA DeferredCallKeeps ==
  ASSUME CallsInv, NEW arity \in 0 .. ArityMax, DeferredCall(arity)
  PROVE  CallsInv'
<1>1. /\ In("drain") /\ Me.defer_count > 0 /\ Invoke(Popped, 0, 0, arity, "ret")
      /\ call_depth > 0 /\ call_depth # 0 /\ status = "running" /\ Me.pc = "drain"
  BY Returning DEF DeferredCall
<1> DEFINE f == Popped
<1>2. /\ f \in Frame /\ f.defer_count = f.due /\ f.pc = "drain" /\ f.floor = Me.floor
      /\ f.base = Me.base /\ f.nest = Me.nest /\ f.temps = Me.temps /\ Me.temps = 0
      /\ Unburdened(Me)
  BY <1>1, PoppedFacts
<1>3. Invoke(f, 0, 0, arity, "ret")
  BY <1>1
<1> HIDE DEF f
<1>4. 0 \in Nat /\ 0 <= arity /\ f.temps >= 0 + 0 /\ f.temps = 0 + 0 /\ Unburdened(f)
  BY <1>2, CallsAssumption DEF Unburdened
<1> QED BY <1>1, <1>2, <1>3, <1>4, InvokeKeeps

LEMMA ReturnKeeps == CallsInv /\ Return => CallsInv'
<1> SUFFICES ASSUME CallsInv, Return PROVE CallsInv'
  OBVIOUS
<1> DEFINE c == call_depth - 1
<1>1. /\ status = "running" /\ Me.pc = "drain" /\ call_depth > 0
      /\ scope_depth' = Me.floor /\ call_depth' = c
  BY Returning DEF Return
<1>2. /\ Me \in Frame /\ stack_top \in 0 .. StackMax /\ scope_depth \in 1 .. ScopeMax
      /\ call_stack \in [0 .. CallMax -> Frame] /\ call_depth \in 0 .. CallMax
      /\ Me.temps = 0 /\ Unburdened(Me) /\ Me.floor >= 1 /\ Fits(Me, scope_depth, stack_top)
  BY <1>1, MeFacts DEF CallsInv, TypeOK, Running
<1>3. c \in 0 .. call_depth - 1 /\ c \in 0 .. CallMax /\ c # call_depth /\ call_depth \in Nat
      /\ c \in Nat /\ c + 1 = call_depth /\ 0 \in 0 .. CallMax
  BY <1>1, <1>2, CallsAssumption
<1>4. scope_depth' \in 1 .. ScopeMax
  <2>1. OwnScopes(Me) \in Nat /\ Me.floor \in Nat /\ Me.floor + OwnScopes(Me) = scope_depth
    BY <1>2, FrameFacts DEF Fits
  <2> QED BY <1>1, <1>2, <2>1, CallsAssumption
<1>5. CASE stack_top >= StackMax
  <2>1. status' = "error" /\ cause' = "stack" /\ UNCHANGED <<stack_top, call_stack>>
    BY <1>5 DEF Return
  <2>2. TypeOK'
    BY <1>1, <1>2, <1>3, <1>4, <2>1 DEF TypeOK, Causes
  <2> QED BY <2>1, <2>2 DEF CallsInv
<1>6. CASE ~(stack_top >= StackMax)
  <2> DEFINE old == call_stack[c]
             f == [old EXCEPT !.temps = @ + 1]
  <2>1. /\ stack_top' = stack_top + 1 /\ UNCHANGED <<status, cause>>
        /\ call_stack' = [call_stack EXCEPT ![call_depth] = NoFrame, ![c].temps = @ + 1]
    BY <1>6 DEF Return
  <2>2. old \in Frame /\ NoFrame \in Frame
    <3>1. old \in Frame
      BY <1>2, <1>3
    <3>2. NoFrame \in Frame
      BY CallsAssumption, OpenEmpty DEF NoFrame, Frame
    <3> QED BY <3>1, <3>2
  <2>3. /\ f \in Frame /\ f.pc = old.pc /\ f.floor = old.floor /\ f.base = old.base
        /\ f.nest = old.nest /\ f.temps = old.temps + 1 /\ f.arity = old.arity
        /\ f.defer_count = old.defer_count /\ f.due = old.due
    <3> HIDE DEF old
    <3>1. old.temps + 1 \in Nat
      BY <2>2, FrameFacts
    <3>2. f \in Frame
      BY <2>2, <3>1 DEF Frame
    <3> QED BY <2>2, <3>2 DEF Frame
  <2>4. /\ call_stack' \in [0 .. CallMax -> Frame] /\ call_stack'[c] = f
        /\ \A d \in 0 .. CallMax : d # call_depth /\ d # c => call_stack'[d] = call_stack[d]
    <3>1. call_stack'[c] = f
      BY <1>2, <1>3, <2>1
    <3>2. \A d \in 0 .. CallMax : d # call_depth /\ d # c => call_stack'[d] = call_stack[d]
      BY <1>2, <1>3, <2>1
    <3>3. call_stack'[call_depth] = NoFrame
      BY <1>2, <1>3, <2>1
    <3>4. call_stack' = [d \in 0 .. CallMax |-> call_stack'[d]]
      BY <1>2, <2>1
    <3> HIDE DEF f
    <3>5. \A d \in 0 .. CallMax : call_stack'[d] \in Frame
      BY <1>2, <2>2, <2>3, <3>1, <3>2, <3>3
    <3> QED BY <3>1, <3>2, <3>4, <3>5
  <2>5. Waiting(old) /\ Fits(old, Me.floor, Me.base)
    <3>1. /\ Waiting(call_stack[c])
          /\ Fits(call_stack[c], call_stack[c + 1].floor, call_stack[c + 1].base)
      BY <1>1, <1>3 DEF CallsInv, Balanced
    <3> QED BY <1>3, <3>1, Zenon DEF Me
  <2> HIDE DEF old, f
  <2>6. Running(f)
    BY <2>3, <2>5 DEF Running, Waiting, Unburdened
  <2>7. Fits(f, scope_depth', stack_top')
    <3>1. /\ OwnScopes(f) = OwnScopes(old) /\ OwnWords(f) = OwnWords(old) + 1
          /\ OwnWords(old) \in Nat /\ old.base \in Nat /\ old.floor \in Nat
      <4>1. /\ OpenWords(old.nest) \in Nat /\ old.temps \in Nat /\ old.arity \in Nat
            /\ OwnWords(old) \in Nat /\ old.base \in Nat /\ old.floor \in Nat
        BY <2>2, FrameFacts, CallsAssumption
      <4>2. OwnScopes(f) = OwnScopes(old)
        BY <2>3 DEF OwnScopes
      <4>3. OwnWords(f) = OwnWords(old) + 1
        BY <2>3, <4>1 DEF OwnWords
      <4> QED BY <4>1, <4>2, <4>3
    <3>2. /\ OwnWords(Me) = OpenWords(Me.nest) /\ OpenWords(Me.nest) \in Nat
          /\ Me.base \in Nat
      BY <1>1, <1>2, FrameFacts DEF OwnWords
    <3>3. f.floor + OwnScopes(f) = scope_depth'
      BY <1>1, <2>3, <2>5, <3>1 DEF Fits
    <3>4. f.base + OwnWords(f) <= stack_top'
      <4>1. old.base + OwnWords(old) <= Me.base /\ Me.base + OwnWords(Me) <= stack_top
        BY <1>2, <2>5 DEF Fits
      <4> QED BY <1>2, <2>1, <2>3, <3>1, <3>2, <4>1
    <3>5. ASSUME ~LoopReturn PROVE f.base + OwnWords(f) = stack_top'
      <4>1. old.base + OwnWords(old) = Me.base /\ Me.base + OwnWords(Me) = stack_top
        BY <1>2, <2>5, <3>5 DEF Fits
      <4>2. OpenWords(Me.nest) = 0
        BY <1>2, <3>5, Zenon DEF Unburdened
      <4> QED BY <1>2, <2>1, <2>3, <3>1, <3>2, <4>1, <4>2, SMTT(30)
    <3> QED BY <3>3, <3>4, <3>5 DEF Fits
  <2>8. stack_top' \in 0 .. StackMax
    BY <1>2, <1>6, <2>1, CallsAssumption
  <2>9. TypeOK'
    BY <1>1, <1>3, <1>4, <2>1, <2>4, <2>8 DEF CallsInv, TypeOK
  <2>10. Me' = f
    BY <1>1, <2>4 DEF Me
  <2>11. call_stack'[0].pc = "body"
    <3>1. call_stack[0].pc = "body"
      BY <1>1 DEF CallsInv, Balanced
    <3>2. CASE c = 0
      BY <2>3, <2>4, <3>1, <3>2 DEF old
    <3>3. CASE c # 0
      <4>1. 0 # call_depth /\ 0 # c
        BY <1>1, <1>3, <3>3
      <4> QED BY <1>3, <2>4, <3>1, <4>1, Zenon
    <3> QED BY <3>2, <3>3
  <2>12. ASSUME NEW d \in 0 .. c - 1
         PROVE  /\ Waiting(call_stack'[d])
                /\ Fits(call_stack'[d], call_stack'[d + 1].floor, call_stack'[d + 1].base)
    <3>1. /\ d \in 0 .. call_depth - 1 /\ d \in 0 .. CallMax /\ d + 1 \in 0 .. CallMax
          /\ d # call_depth /\ d # c /\ d + 1 # call_depth
      BY <1>1, <1>2, <1>3, CallsAssumption
    <3>2. /\ Waiting(call_stack[d])
          /\ Fits(call_stack[d], call_stack[d + 1].floor, call_stack[d + 1].base)
      BY <1>1, <3>1 DEF CallsInv, Balanced
    <3>3. /\ call_stack'[d] = call_stack[d]
          /\ call_stack'[d + 1].floor = call_stack[d + 1].floor
          /\ call_stack'[d + 1].base = call_stack[d + 1].base
      BY <2>3, <2>4, <3>1 DEF old
    <3> QED BY <3>2, <3>3
  <2>13. ASSUME NEW d \in 1 .. c
         PROVE  call_stack'[d].floor >= 1 /\ call_stack'[d].defer_count = call_stack'[d].due
    <3>1. d \in 1 .. call_depth /\ d \in 0 .. CallMax /\ d # call_depth
      BY <1>1, <1>2, <1>3, CallsAssumption
    <3>2. call_stack[d].floor >= 1 /\ call_stack[d].defer_count = call_stack[d].due
      BY <1>1, <3>1 DEF CallsInv, Balanced
    <3> QED BY <2>3, <2>4, <3>1, <3>2 DEF old
  <2>14. Balanced'
    <3> HIDE DEF c
    <3> QED BY <1>1, <2>6, <2>7, <2>10, <2>11, <2>12, <2>13 DEF Balanced
  <2> QED BY <2>9, <2>14 DEF CallsInv
<1> QED BY <1>5, <1>6

(* Only types carry over from the calls an error cut short.                 *)
LEMMA RestartKeeps == CallsInv /\ Restart => CallsInv'
<1> SUFFICES ASSUME CallsInv, Restart PROVE CallsInv'
  OBVIOUS
<1>1. /\ stack_top' = 0 /\ scope_depth' = 1 /\ call_depth' = 0
      /\ status' = "running" /\ cause' = "none"
  BY DEF Restart
<1>2. NoFrame \in Frame /\ 0 \in 0 .. CallMax /\ call_stack \in [0 .. CallMax -> Frame]
  BY CallsAssumption, OpenEmpty, SMTT(30) DEF NoFrame, Frame, CallsInv, TypeOK
<1>3. call_stack'[0] = NoFrame /\ Me' = NoFrame
  BY <1>1, <1>2 DEF Restart, Me
<1>4. ASSUME NEW d \in 0 .. CallMax PROVE call_stack'[d] \in Frame
  <2>1. CASE d = 0
    BY <1>2, <1>3, <2>1
  <2>2. CASE d # 0
    <3> DEFINE count == call_stack[d].defer_count
               draining == call_stack[d].draining
               f == [NoFrame EXCEPT !.defer_count = count, !.draining = draining]
    <3>1. call_stack'[d] = f
      BY <2>2 DEF Restart
    <3>2. count \in 0 .. DeferMax /\ draining \in BOOLEAN
      BY <1>2 DEF Frame
    <3> HIDE DEF count, draining
    <3>3. f \in Frame
      BY <1>2, <3>2 DEF Frame
    <3> QED BY <3>1, <3>3
  <2> QED BY <2>1, <2>2
<1>5. call_stack' \in [0 .. CallMax -> Frame]
  <2>1. call_stack' = [d \in 0 .. CallMax |-> call_stack'[d]]
    BY DEF Restart
  <2> QED BY <1>4, <2>1
<1>6. TypeOK'
  BY <1>1, <1>2, <1>5, CallsAssumption DEF TypeOK, Causes
<1>7. /\ NoFrame.pc = "body" /\ NoFrame.floor = 0 /\ NoFrame.base = 0
      /\ NoFrame.temps = 0 /\ NoFrame.nest = <<>>
  BY DEF NoFrame
<1>8. OwnScopes(NoFrame) = 1 /\ OwnWords(NoFrame) = 0
  BY <1>7, OpenEmpty DEF OwnScopes, OwnWords
<1>9. Running(NoFrame) /\ Fits(NoFrame, 1, 0)
  BY <1>7, <1>8 DEF Running, Fits
<1>10. 0 .. call_depth' - 1 = {} /\ 1 .. call_depth' = {}
  BY <1>1
<1>11. Balanced'
  BY <1>1, <1>3, <1>7, <1>9, <1>10 DEF Balanced
<1> QED BY <1>6, <1>11 DEF CallsInv

LEMMA ReturnStepsKeep == CallsInv /\ ReturnSteps => CallsInv'
BY DeferKeeps, DeferredCallKeeps, ReturnStatementKeeps, PopResultKeeps, DeferredBuiltinKeeps,
   ReturnKeeps, RestartKeeps DEF ReturnSteps

-----------------------------------------------------------------------------
THEOREM CallsInvariant == Spec => []CallsInv
<1>1. Init => CallsInv
  BY InitBalanced
<1>2. CallsInv /\ [Next]_vars => CallsInv'
  <2> SUFFICES ASSUME CallsInv, [Next]_vars PROVE CallsInv'
    OBVIOUS
  <2>1. CASE UNCHANGED vars
    BY <2>1 DEF vars, CallsInv, TypeOK, Balanced, Me
  <2> QED BY <2>1, BlockStepsKeep, CallStepsKeep, ReturnStepsKeep DEF Next
<1> QED BY <1>1, <1>2, PTL DEF Spec

(* No sequence of calls, early exits and errors takes a stack or a frame    *)
(* out of its bounds: the limits that error() reports are the only ones.    *)
THEOREM CallsTypes == Spec => []TypeOK
<1>1. CallsInv => TypeOK
  BY DEF CallsInv
<1> QED BY <1>1, CallsInvariant, PTL

(* The scopes of every call are those of its open blocks, directly above    *)
(* its caller's, whatever the program returns from: OP_RETURN and           *)
(* OP_TAIL_CALL pop to return_scope_depth, break and continue to the depth  *)
(* the compiler counted.                                                    *)
THEOREM ScopesOfCalls == Spec => []ScopesAccounted
<1>1. CallsInv => ScopesAccounted
  <2> SUFFICES ASSUME CallsInv, status = "running", NEW d \in Active
               PROVE  call_stack[d].floor + OwnScopes(call_stack[d]) =
                        IF d = call_depth THEN scope_depth ELSE call_stack[d + 1].floor
    BY DEF ScopesAccounted
  <2>1. CASE d = call_depth
    BY <2>1, MeFacts DEF Me, Fits
  <2>2. CASE d # call_depth
    <3>1. d \in 0 .. call_depth - 1
      BY <2>2, MeFacts DEF Active
    <3> QED BY <2>2, <3>1 DEF CallsInv, Balanced, Fits
  <2> QED BY <2>1, <2>2
<1> QED BY <1>1, CallsInvariant, PTL

(* Every call finds exactly the operands it left when control comes back to *)
(* it, in a program that never returns from inside a for-each or range      *)
(* loop; one that does leaves the loop's iterator words behind.             *)
THEOREM OperandsOfCalls ==
  ASSUME LoopReturn = FALSE
  PROVE  Spec => []OperandsAccounted
<1>1. CallsInv => OperandsAccounted
  <2> SUFFICES ASSUME CallsInv, status = "running", NEW d \in Active
               PROVE  call_stack[d].base + OwnWords(call_stack[d]) =
                        IF d = call_depth THEN stack_top ELSE call_stack[d + 1].base
    BY DEF OperandsAccounted
  <2>1. CASE d = call_depth
    BY <2>1, MeFacts DEF Me, Fits
  <2>2. CASE d # call_depth
    <3>1. d \in 0 .. call_depth - 1
      BY <2>2, MeFacts DEF Active
    <3> QED BY <2>2, <3>1 DEF CallsInv, Balanced, Fits
  <2> QED BY <2>1, <2>2
<1> QED BY <1>1, CallsInvariant, PTL

(* lbl_return never runs a deferred call of another activation, and never   *)
(* passes over one of its own, at any depth and after any error.            *)
THEOREM DefersAreOwn == Spec => []DefersBelongToCall
<1>1. CallsInv => DefersBelongToCall
  BY DEF CallsInv, Balanced, DefersBelongToCall
<1> QED BY <1>1, CallsInvariant, PTL

(* lbl_return and lbl_tail_call give a frame up only when nothing that it   *)
(* deferred is left.                                                        *)
THEOREM DefersAllRun == Spec => NoDeferLost
<1>1. CallsInv /\ [Next]_vars => [FrameGone /\ status' = "running" => Me.due = 0]_vars
  <2> SUFFICES ASSUME CallsInv, FrameGone, status' = "running" PROVE Me.due = 0
    OBVIOUS
  <2>1. CASE Return
    BY <2>1, Returning DEF Return
  <2>2. ASSUME NEW args, NEW arity, TailCall(args, arity), call_depth' = call_depth
        PROVE  Me.due = 0
    <3>1. /\ status = "running" /\ call_depth > 0 /\ call_depth \in Nat
          /\ Me.defer_count \in Nat /\ Me.defer_count = Me.due
      BY <2>2, MeFacts, FrameFacts DEF TailCall, In, MayReturn
    <3>2. ~(Me.defer_count > 0)
      BY <2>2, <3>1 DEF TailCall, Invoke, Error
    <3> QED BY <3>1, <3>2
  <2> QED BY <2>1, <2>2 DEF FrameGone
<1> QED BY <1>1, CallsInvariant, PTL DEF NoDeferLost, Spec

=============================================================================
