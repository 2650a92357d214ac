-------------------------------- MODULE Heap --------------------------------
(***************************************************************************)
(* The shared heap of AER: the slab pools of pool.c and the generational   *)
(* mark-and-sweep collector of vm.c that runs over them between opcodes.   *)
(*                                                                         *)
(* A cell is one pool element.  Its state byte is its membership in the    *)
(* four sets marked, old, free and remBit (POOL_MARKED, POOL_OLD,          *)
(* POOL_FREE, POOL_REMEMBERED); carved holds the cells the bump index has  *)
(* passed.  A value is the cell it points to, or Nothing for the values    *)
(* that own no cell (null, boolean, real, inline integer).                 *)
(*                                                                         *)
(* The mutator is the opcode loop of vm_run, reduced to the opcodes that   *)
(* allocate cells or move values between the places a value can live in:   *)
(* operand stack and call frames (Stack), scope slots (Scope), the         *)
(* constant pool (Const), container items and closure boxes.               *)
(***************************************************************************)
EXTENDS Integers, FiniteSets

CONSTANTS
  Leaf,         \* cells of string_pool and long_pool: they refer to nothing
  Container,    \* cells of array_pool and dict_pool
  Func,         \* cells of function_pool
  Box,          \* cells of closure_box_pool
  Field,        \* the items of a container
  Stack,        \* operand stack entries, frame functions, defer arguments
  Scope,        \* scope slots; only these are ever boxed
  Const,        \* entries of Chunk.pool and shape field defaults
  MainSlot,     \* the locations that belong to the program's own VM
  Nothing,      \* a value without a cell; also "no box"
  MinorThreshold, MajorEvery, Ceiling,   \* aer_gc_configure, aer_gc_set_ceiling
  MaxNesting    \* bound: nested module calls

VARIABLES
  carved, marked, old, free, remBit,     \* the pools' cell_state bytes
  item,            \* AerArray.items / AerDict.map payloads
  upvalues,        \* AerFunction.upvalues
  content,         \* the AerVal in a closure box
  clobbered,       \* freed boxes whose free-list link was overwritten
  wildList,        \* closure_box_pool.free_list is no longer a cell
  slotVal, slotBox,     \* a location's inline value, and its box
  pending,         \* vm->pending_upvalues, per VM
  remembered,      \* remembered_set
  allocCount,      \* pool_total_alloc_count
  minorSinceMajor,
  suppressDepth,   \* gc_suppress_depth
  nesting,         \* module calls in progress: > 0 while a module VM runs
  phase,           \* where gc_run_collection_cycle stands; "run" outside it
  status           \* "running", "error" (runtime_had_error), "crashed"

pools == <<carved, marked, old, free, remBit>>
boxes == <<content, clobbered, wildList, slotBox, pending>>
vars == <<pools, boxes, item, upvalues, slotVal, remembered, allocCount,
          minorSinceMajor, suppressDepth, nesting, phase, status>>

Slot == Stack \cup Scope \cup Const
ValueCell == Leaf \cup Container \cup Func
Cell == ValueCell \cup Box
Value == ValueCell \cup {Nothing}
VMs == {"main", "module"}
Phases == {"run", "major", "ceiling", "forced", "final"}

ASSUME HeapAssumption ==
  /\ Leaf \cap Container = {} /\ Leaf \cap Func = {} /\ Leaf \cap Box = {}
  /\ Container \cap Func = {} /\ Container \cap Box = {} /\ Func \cap Box = {}
  /\ Nothing \notin Cell
  /\ Stack \cap Scope = {} /\ Stack \cap Const = {} /\ Scope \cap Const = {}
  /\ MainSlot \subseteq Slot
  /\ MinorThreshold \in Nat /\ MajorEvery \in Nat /\ Ceiling \in Nat
  /\ MaxNesting \in Nat

TypeOK ==
  /\ carved \subseteq Cell /\ marked \subseteq Cell /\ old \subseteq Cell
  /\ free \subseteq Cell /\ remBit \subseteq Cell
  /\ item \in [Container -> [Field -> Value]]
  /\ upvalues \in [Func -> SUBSET Box]
  /\ content \in [Box -> Value]
  /\ clobbered \subseteq Box /\ wildList \in BOOLEAN
  /\ slotVal \in [Slot -> Value]
  /\ slotBox \in [Slot -> Box \cup {Nothing}]
  /\ pending \in [VMs -> SUBSET Box]
  /\ remembered \subseteq Container \cup Box
  /\ allocCount \in Nat /\ minorSinceMajor \in Nat
  /\ suppressDepth \in Nat /\ nesting \in Nat
  /\ phase \in Phases
  /\ status \in {"running", "error", "crashed"}

Init ==
  /\ carved = {} /\ marked = {} /\ old = {} /\ free = {} /\ remBit = {}
  /\ item = [c \in Container |-> [f \in Field |-> Nothing]]
  /\ upvalues = [f \in Func |-> {}]
  /\ content = [b \in Box |-> Nothing]
  /\ clobbered = {} /\ wildList = FALSE
  /\ slotVal = [r \in Slot |-> Nothing]
  /\ slotBox = [r \in Slot |-> Nothing]
  /\ pending = [v \in VMs |-> {}]
  /\ remembered = {}
  /\ allocCount = 0 /\ minorSinceMajor = 0
  /\ suppressDepth = 0 /\ nesting = 0
  /\ phase = "run" /\ status = "running"

-----------------------------------------------------------------------------
(* The pool allocator.                                                     *)

(* pool_alloc takes from the free list first and carves a new cell only     *)
(* when the list is empty; which of several free cells heads the list is    *)
(* left open.                                                               *)
Fresh(pool) == IF pool \cap free # {} THEN pool \cap free ELSE pool \ carved

(* Every cell is born young: its whole state byte is cleared.               *)
pool_alloc(c) ==
  /\ carved' = carved \cup {c}
  /\ marked' = marked \ {c}
  /\ old' = old \ {c}
  /\ free' = free \ {c}
  /\ remBit' = remBit \ {c}
  /\ allocCount' = allocCount + 1

-----------------------------------------------------------------------------
(* The write barrier.                                                      *)

value_is_young(v) == v \in ValueCell /\ v \notin old

gc_remember(p) ==
  IF p \in remBit THEN UNCHANGED <<remembered, remBit>>
  ELSE /\ remembered' = remembered \cup {p}
       /\ remBit' = remBit \cup {p}

gc_barrier_container(c, v) ==
  IF c \in old /\ value_is_young(v)
  THEN gc_remember(c)
  ELSE UNCHANGED <<remembered, remBit>>

(* Unlike the container barriers it does not ask how old the box is.        *)
gc_barrier_box(b, v) ==
  IF value_is_young(v)
  THEN gc_remember(b)
  ELSE UNCHANGED <<remembered, remBit>>

-----------------------------------------------------------------------------
(* Marking.                                                                *)

(* What mark_value and mark_function push for a cell: a container's items,  *)
(* and for a function the contents of its boxes, not the boxes themselves.  *)
Children(c) ==
  IF c \in Container THEN {item[c][f] : f \in Field}
  ELSE IF c \in Func THEN {content[b] : b \in upvalues[c]}
  ELSE {}

(* S is a set of cells that marking from seeds may end with: it has the     *)
(* seeds and the children of every member that was not marked beforehand    *)
(* (pool_mark stops the trace at a cell whose mark bit is already set).     *)
Closed(S, seeds, stale) ==
  /\ seeds \cap ValueCell \subseteq S
  /\ \A c \in S \ stale : Children(c) \cap ValueCell \subseteq S

(* The worklist loop of mark_drain visits the least such set.               *)
Trace(seeds, stale) ==
  {c \in ValueCell : \A S \in SUBSET ValueCell : Closed(S, seeds, stale) => c \in S}

(* A captured slot is read through its box.                                 *)
Read(r) == IF slotBox[r] \in Box THEN content[slotBox[r]] ELSE slotVal[r]

(* The locations mark_vm_roots and mark_chunk_roots walk: those of the VM   *)
(* that is dispatching, and those of every file module.                     *)
RootSlots == IF nesting = 0 THEN Slot ELSE Slot \ MainSlot

mark_vm_roots ==
  {Read(r) : r \in RootSlots}
    \cup {content[b] : b \in (UNION {pending[v] : v \in VMs})}

(* What a minor collection traces for the entries of remembered_set that    *)
(* still point at a live cell: their contents, not the entries.             *)
RememberedContents ==
  (UNION {Children(c) : c \in (remembered \ free) \cap Container})
    \cup {content[b] : b \in (remembered \ free) \cap Box}

(* Mutants: a minor pass that forgets remembered_set, and a major pass that *)
(* traces it too.                                                           *)
MarkSeedsNoRemembered(minor) == mark_vm_roots
MarkSeedsAlwaysRemembered(minor) == mark_vm_roots \cup RememberedContents

MarkSeeds(minor) ==
  IF minor THEN mark_vm_roots \cup RememberedContents ELSE mark_vm_roots

(* Mutant: the marks of the cycle before are not cleared.                   *)
StaleMarksKept == marked

(* pool_clear_marks runs first, so no mark of an earlier cycle is left.     *)
StaleMarks == {}

-----------------------------------------------------------------------------
(* Collection.                                                             *)

(* pool_sweep over all six pools: free-listed cells are skipped, and in a   *)
(* minor pass old cells too; a marked cell is promoted, any other is freed, *)
(* with what its finalizer owns (free_array, free_dict, free_function).  A   *)
(* freed box's word becomes the free list's link: no value is left in it.   *)
pool_sweep(marks, minor) ==
  LET visited == (carved \ free) \ (IF minor THEN old ELSE {})
      dead == visited \ marks
  IN /\ marked' = marks \ visited
     /\ old' = (old \cup visited) \ dead
     /\ free' = free \cup dead
     /\ remBit' = remBit \ dead
     /\ item' = [c \in Container |->
                   IF c \in dead THEN [f \in Field |-> Nothing] ELSE item[c]]
     /\ upvalues' = [f \in Func |-> IF f \in dead THEN {} ELSE upvalues[f]]
     /\ content' = [b \in Box |-> IF b \in dead THEN Nothing ELSE content[b]]
     /\ UNCHANGED carved

gc_collect(minor) ==
  /\ pool_sweep(Trace(MarkSeeds(minor), StaleMarks), minor)
  /\ remembered' = IF minor THEN remembered \ free ELSE remembered
  /\ UNCHANGED <<slotVal, slotBox, pending, clobbered, wildList, suppressDepth,
                 nesting>>

CollectDue == suppressDepth = 0 /\ allocCount >= MinorThreshold

gc_count_live_cells == Cardinality(carved \ free)
OverCeiling == Ceiling # 0 /\ gc_count_live_cells > Ceiling

(* gc_run_collection_cycle: a minor collection, a major one every           *)
(* MajorEvery cycles, then the ceiling with one forced major collection.    *)
MinorCollect ==
  /\ phase = "run" /\ status = "running" /\ CollectDue
  /\ gc_collect(TRUE)
  /\ allocCount' = 0
  /\ minorSinceMajor' = minorSinceMajor + 1
  /\ phase' = IF minorSinceMajor + 1 >= MajorEvery THEN "major" ELSE "ceiling"
  /\ UNCHANGED status

MajorCollect ==
  /\ phase \in {"major", "forced"}
  /\ gc_collect(FALSE)
  /\ minorSinceMajor' = 0
  /\ phase' = "final"
  /\ UNCHANGED <<allocCount, status>>

(* Mutant: no forced major collection before the verdict.                   *)
CeilingCheckUnforced ==
  /\ phase = "ceiling"
  /\ phase' = IF OverCeiling THEN "final" ELSE "run"
  /\ UNCHANGED <<pools, boxes, item, upvalues, slotVal, remembered, allocCount,
                 minorSinceMajor, suppressDepth, nesting, status>>

CeilingCheck ==
  /\ phase = "ceiling"
  /\ phase' = IF OverCeiling THEN "forced" ELSE "run"
  /\ UNCHANGED <<pools, boxes, item, upvalues, slotVal, remembered, allocCount,
                 minorSinceMajor, suppressDepth, nesting, status>>

CeilingVerdict ==
  /\ phase = "final"
  /\ phase' = "run"
  /\ status' = IF OverCeiling THEN "error" ELSE status
  /\ UNCHANGED <<pools, boxes, item, upvalues, slotVal, remembered, allocCount,
                 minorSinceMajor, suppressDepth, nesting>>

-----------------------------------------------------------------------------
(* The mutator: one opcode of the VM that is running.  DISPATCH() lets no   *)
(* opcode start after an error or while a collection is due.                *)

Dispatch == phase = "run" /\ status = "running" /\ ~CollectDue

Running == IF nesting = 0 THEN "main" ELSE "module"
Mine == IF nesting = 0 THEN MainSlot ELSE Slot \ MainSlot
OnStack(v) == \E t \in Stack \cap Mine : slotVal[t] = v

control == <<minorSinceMajor, suppressDepth, nesting, phase, status>>

Push(s, v) == slotVal' = [slotVal EXCEPT ![s] = v]

(* lbl_load, lbl_load_local, lbl_push                                       *)
Load(r, s) ==
  /\ Dispatch
  /\ Push(s, Read(r))
  /\ UNCHANGED <<pools, boxes, item, upvalues, remembered, allocCount, control>>

(* A write through a box that is on the free list lands on its link word.   *)
WriteBox(b, v) ==
  /\ content' = [content EXCEPT ![b] = v]
  /\ clobbered' = IF b \in free THEN clobbered \cup {b} ELSE clobbered

(* lbl_store, lbl_define, lbl_store_local: no barrier on this path.         *)
Store(s, r) ==
  /\ Dispatch
  /\ IF slotBox[r] \in Box
     THEN WriteBox(slotBox[r], slotVal[s]) /\ UNCHANGED slotVal
     ELSE slotVal' = [slotVal EXCEPT ![r] = slotVal[s]] /\ UNCHANGED <<content, clobbered>>
  /\ UNCHANGED <<pools, wildList, slotBox, pending, item, upvalues, remembered,
                 allocCount, control>>

(* A scope slot is dropped with its scope, a stack entry is popped.         *)
Drop(r) ==
  /\ Dispatch
  /\ r \notin Const
  /\ slotVal' = [slotVal EXCEPT ![r] = Nothing]
  /\ slotBox' = [slotBox EXCEPT ![r] = Nothing]
  /\ UNCHANGED <<pools, content, clobbered, wildList, pending, item, upvalues,
                 remembered, allocCount, control>>

(* A string or a big integer: the result of an operator, or, when it goes   *)
(* to Const, a literal the parser interns.                                  *)
NewLeaf(c, r) ==
  /\ Dispatch
  /\ c \in Fresh(Leaf)
  /\ pool_alloc(c)
  /\ Push(r, c)
  /\ UNCHANGED <<boxes, item, upvalues, remembered, control>>

(* lbl_array_new, lbl_dict_new: the items come off the stack.               *)
NewContainer(c, s, v) ==
  /\ Dispatch
  /\ c \in Fresh(Container)
  /\ v = Nothing \/ v = slotVal[s]
  /\ pool_alloc(c)
  /\ item' = [item EXCEPT ![c] = [f \in Field |-> v]]
  /\ Push(s, c)
  /\ UNCHANGED <<boxes, upvalues, remembered, control>>

(* lbl_index_get, lbl_field_get, lbl_iter_next                              *)
IndexGet(c, f, s) ==
  /\ Dispatch
  /\ OnStack(c)
  /\ Push(s, item[c][f])
  /\ UNCHANGED <<pools, boxes, item, upvalues, remembered, allocCount, control>>

(* lbl_index_set, lbl_field_set, append                                     *)
IndexSet(c, f, s) ==
  /\ Dispatch
  /\ OnStack(c)
  /\ gc_barrier_container(c, slotVal[s])
  /\ item' = [item EXCEPT ![c][f] = slotVal[s]]
  /\ UNCHANGED <<carved, marked, old, free, boxes, upvalues, slotVal,
                 allocCount, control>>

(* remove and pop: the item leaves the container, no barrier.               *)
Remove(c, f) ==
  /\ Dispatch
  /\ OnStack(c)
  /\ item' = [item EXCEPT ![c][f] = Nothing]
  /\ UNCHANGED <<pools, boxes, upvalues, slotVal, remembered, allocCount, control>>

(* lbl_capture on a slot that is captured already shares its box.           *)
CaptureShared(r) ==
  /\ Dispatch
  /\ slotBox[r] \in Box
  /\ pending' = [pending EXCEPT ![Running] = @ \cup {slotBox[r]}]
  /\ UNCHANGED <<pools, content, clobbered, wildList, slotBox, item, upvalues,
                 slotVal, remembered, allocCount, control>>

(* lbl_capture on a plain slot: vm_box_slot moves its value into a new box. *)
(* If the popped cell's link was overwritten, the free list ends in a       *)
(* pointer that is not a cell.                                              *)
CaptureNew(r, b) ==
  /\ Dispatch
  /\ slotBox[r] = Nothing
  /\ b \in Fresh(Box)
  /\ pool_alloc(b)
  /\ content' = [content EXCEPT ![b] = slotVal[r]]
  /\ slotBox' = [slotBox EXCEPT ![r] = b]
  /\ pending' = [pending EXCEPT ![Running] = @ \cup {b}]
  /\ wildList' = (wildList \/ b \in clobbered)
  /\ clobbered' = clobbered \ {b}
  /\ UNCHANGED <<item, upvalues, slotVal, remembered, control>>

(* pool_alloc through such a pointer is undefined; a fault is one outcome.  *)
CaptureFault(r) ==
  /\ Dispatch
  /\ slotBox[r] = Nothing
  /\ wildList
  /\ status' = "crashed"
  /\ UNCHANGED <<pools, boxes, item, upvalues, slotVal, remembered, allocCount,
                 minorSinceMajor, suppressDepth, nesting, phase>>

(* lbl_make_closure takes the boxes collected by the captures before it.    *)
MakeClosure(f, s) ==
  /\ Dispatch
  /\ f \in Fresh(Func)
  /\ pool_alloc(f)
  /\ upvalues' = [upvalues EXCEPT ![f] = pending[Running]]
  /\ pending' = [pending EXCEPT ![Running] = {}]
  /\ Push(s, f)
  /\ UNCHANGED <<content, clobbered, wildList, slotBox, item, remembered, control>>

(* lbl_load_upvalue and lbl_store_upvalue in a call of the function f.      *)
LoadUpvalue(f, b, s) ==
  /\ Dispatch
  /\ OnStack(f) /\ b \in upvalues[f]
  /\ Push(s, content[b])
  /\ UNCHANGED <<pools, boxes, item, upvalues, remembered, allocCount, control>>

StoreUpvalue(f, b, s) ==
  /\ Dispatch
  /\ OnStack(f) /\ b \in upvalues[f]
  /\ gc_barrier_box(b, slotVal[s])
  /\ WriteBox(b, slotVal[s])
  /\ UNCHANGED <<carved, marked, old, free, wildList, slotBox, pending, item,
                 upvalues, slotVal, allocCount, control>>

-----------------------------------------------------------------------------
(* Crossing between VMs, and errors.                                       *)

(* Mutant: the module's VM runs with collection still enabled.              *)
ModuleCallUnsuppressed(s, t) ==
  /\ Dispatch
  /\ nesting < MaxNesting
  /\ nesting' = nesting + 1
  /\ slotVal' = IF s = t THEN slotVal
                ELSE [slotVal EXCEPT ![t] = slotVal[s], ![s] = Nothing]
  /\ UNCHANGED <<pools, boxes, item, upvalues, remembered, allocCount,
                 minorSinceMajor, suppressDepth, phase, status>>

(* aer_module_call copies an argument onto the module's own stack and runs  *)
(* the module's VM with collection suppressed.                              *)
ModuleCall(s, t) ==
  /\ Dispatch
  /\ nesting < MaxNesting
  /\ nesting' = nesting + 1
  /\ suppressDepth' = suppressDepth + 1
  /\ slotVal' = IF s = t THEN slotVal
                ELSE [slotVal EXCEPT ![t] = slotVal[s], ![s] = Nothing]
  /\ UNCHANGED <<pools, boxes, item, upvalues, remembered, allocCount,
                 minorSinceMajor, phase, status>>

(* The nested vm_run reaches HALT and its result goes to the caller's       *)
(* stack.                                                                   *)
ModuleReturn(s, t) ==
  /\ Dispatch
  /\ nesting > 0
  /\ nesting' = nesting - 1
  /\ suppressDepth' = IF suppressDepth > 0 THEN suppressDepth - 1 ELSE 0
  /\ slotVal' = IF s = t THEN slotVal
                ELSE [slotVal EXCEPT ![t] = slotVal[s], ![s] = Nothing]
  /\ UNCHANGED <<pools, boxes, item, upvalues, remembered, allocCount,
                 minorSinceMajor, phase, status>>

(* An opcode reports a runtime error: every nested vm_run returns, and each *)
(* aer_module_call on the way out lifts its suppression.  The module's own  *)
(* stack keeps what it held.                                                *)
Fail ==
  /\ Dispatch
  /\ status' = "error"
  /\ nesting' = 0 /\ suppressDepth' = 0
  /\ UNCHANGED <<pools, boxes, item, upvalues, slotVal, remembered, allocCount,
                 minorSinceMajor, phase>>

(* run() of main.c before the next line: the operand stack is emptied and   *)
(* the scopes above the global one are popped.                              *)
Restart(local) ==
  /\ status = "error"
  /\ status' = "running"
  /\ slotVal' = [r \in Slot |-> IF r \in (Stack \cap MainSlot) \cup local
                                THEN Nothing ELSE slotVal[r]]
  /\ slotBox' = [r \in Slot |-> IF r \in local THEN Nothing ELSE slotBox[r]]
  /\ UNCHANGED <<pools, content, clobbered, wildList, pending, item, upvalues,
                 remembered, allocCount, minorSinceMajor, suppressDepth, nesting, phase>>

-----------------------------------------------------------------------------
ValueSteps ==
  \/ \E s \in Stack \cap Mine :
       \/ \E r \in (Scope \cup Const) \cap Mine : Load(r, s)
       \/ \E r \in Scope \cap Mine : Store(s, r)
       \/ \E c \in Leaf : NewLeaf(c, s)
       \/ \E c \in Container :
            \/ \E v \in Value : NewContainer(c, s, v)
            \/ \E f \in Field : IndexGet(c, f, s) \/ IndexSet(c, f, s)
  \/ \E r \in Mine : Drop(r)
  \/ \E r \in Const \cap Mine, c \in Leaf : slotVal[r] = Nothing /\ NewLeaf(c, r)
  \/ \E c \in Container, f \in Field : Remove(c, f)

ClosureSteps ==
  \/ \E r \in Scope \cap Mine :
       \/ CaptureShared(r)
       \/ CaptureFault(r)
       \/ \E b \in Box : CaptureNew(r, b)
  \/ \E s \in Stack \cap Mine, f \in Func :
       \/ MakeClosure(f, s)
       \/ \E b \in Box : LoadUpvalue(f, b, s) \/ StoreUpvalue(f, b, s)

ModuleSteps ==
  \/ \E s \in Stack \cap Mine, t \in Stack \ MainSlot : ModuleCall(s, t)
  \/ \E s \in Stack \ MainSlot :
       \E t \in Stack \cap (IF nesting = 1 THEN MainSlot ELSE Slot \ MainSlot) :
         ModuleReturn(s, t)

CollectSteps == MinorCollect \/ MajorCollect \/ CeilingCheck \/ CeilingVerdict

ErrorSteps == Fail \/ \E local \in SUBSET (Scope \cap MainSlot) : Restart(local)

Next == ValueSteps \/ ClosureSteps \/ ModuleSteps \/ CollectSteps \/ ErrorSteps

Spec == Init /\ [][Next]_vars

-----------------------------------------------------------------------------
(* Properties.                                                             *)

(* What a running program can still reach: from every location of every VM, *)
(* and through the boxes waiting for the next closure.                      *)
Reachable ==
  Trace({Read(r) : r \in Slot} \cup {content[b] : b \in (UNION {pending[v] : v \in VMs})}, {})

(* pool_sweep never hands a cell back to its free list while some VM can    *)
(* still reach it, whatever mix of minor and major collections ran and      *)
(* whether or not a module call was in progress (vm.c gc_collect).          *)
ReachableNotFreed == Reachable \cap free = {}

(* remembered_set keeps entries for containers that became garbage, and for *)
(* cells that were freed and handed out again.  Tracing what the set still  *)
(* considers alive never leads the next minor collection to a freed cell.   *)
RememberedNotDangling == Trace(RememberedContents, {}) \cap free = {}

(* A major collection frees all garbage: entries of remembered_set keep     *)
(* nothing alive across it (gc_collect with minor = false).                 *)
MajorReclaimsGarbage ==
  [][MajorCollect => (carved' \ free') \cap ValueCell = Reachable']_vars

(* "Memory ceiling exceeded" is reported only when the cells the program    *)
(* really reaches exceed the ceiling, never because of garbage that a       *)
(* collection could have reclaimed.                                         *)
CeilingErrorIsReal ==
  [][CeilingVerdict /\ status' = "error" => Cardinality(Reachable) > Ceiling]_vars

(* README, vm.h: a captured variable lives in a box that the closures and   *)
(* the enclosing scope share, so the box of a reachable closure or of a     *)
(* scope slot is never on closure_box_pool's free list.                     *)
ClosureBoxesNotFreed ==
  /\ \A f \in Reachable \cap Func : upvalues[f] \cap free = {}
  /\ \A r \in Slot : slotBox[r] \notin free

-----------------------------------------------------------------------------
(* Claims of the docs and comments that the code does not keep; README,     *)
(* section 4, says what happens instead.  No run checks them.               *)

(* gc_collect's comment: a minor pass never looks at old cells other than   *)
(* through remembered_set.  An old cell it marked is one the set leads to.  *)
MinorSkipsOldCells ==
  [][MinorCollect => marked' \subseteq Trace(RememberedContents, {})]_vars

(* pool.h: bit 3 marks a cell that is in the remembered set already.        *)
RememberedBitMatchesSet == remembered \ free \subseteq remBit
=============================================================================
