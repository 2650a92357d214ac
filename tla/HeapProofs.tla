----------------------------- MODULE HeapProofs -----------------------------
(***************************************************************************)
(* Proofs about Heap for any set of cells, locations and thresholds.       *)
(*                                                                         *)
(* ReachableNotFreed is not inductive: a minor collection also traces what *)
(* remembered_set points at, so the invariant has to speak of everything a *)
(* later collection or opcode may follow.  Instead of reachability, which  *)
(* would need induction over paths, it says that some set S of allocated   *)
(* cells contains every root, everything a remembered entry holds, and the *)
(* children of its own members.  Each opcode preserves it with S or with S *)
(* and the new cell; a collection preserves it with the cells it marked.   *)
(***************************************************************************)
EXTENDS Heap, TLAPS

Opt(S) == S \cup {Nothing}

(* S holds no freed cell and is closed under all the code can follow.       *)
Safe(S) ==
  /\ S \subseteq carved /\ S \cap free = {}
  /\ \A r \in Slot : Read(r) \in Opt(S)
  /\ \A v \in VMs : \A b \in pending[v] : content[b] \in Opt(S)
  /\ \A c \in Container : (c \in remembered /\ c \notin free) =>
                             \A f \in Field : item[c][f] \in Opt(S)
  /\ \A b \in Box : (b \in remembered /\ b \notin free) => content[b] \in Opt(S)
  /\ \A c \in S \cap Container : \A f \in Field : item[c][f] \in Opt(S)
  /\ \A u \in S \cap Func : \A b \in upvalues[u] : content[b] \in Opt(S)

(* What does not depend on S: collection is suppressed exactly while a      *)
(* module runs, and every pointer is to a cell the pools have handed out.   *)
Shape ==
  /\ TypeOK
  /\ suppressDepth = nesting
  /\ phase # "run" => nesting = 0
  /\ remembered \subseteq carved
  /\ \A f \in Func : upvalues[f] \subseteq carved
  /\ \A r \in Slot : slotBox[r] \in carved \cup {Nothing}
  /\ \A s \in Stack : slotBox[s] = Nothing
  /\ \A v \in VMs : pending[v] \subseteq carved

HeapInv == Shape /\ \E S \in SUBSET ValueCell : Safe(S)

-----------------------------------------------------------------------------
(* Opcodes that move values.  The set S stays as it is.                     *)

LEMMA ReadSafe ==
  ASSUME Shape, NEW S \in SUBSET ValueCell, Safe(S), NEW r \in Slot
  PROVE  Read(r) \in Value /\ Read(r) \in Opt(S)
BY DEF Shape, TypeOK, Safe, Opt, Read, Value, ValueCell

(* A stack entry is never boxed: what it holds is its inline value.         *)
LEMMA StackSafe ==
  ASSUME Shape, NEW S \in SUBSET ValueCell, Safe(S), NEW s \in Stack
  PROVE  slotVal[s] \in Value /\ slotVal[s] \in Opt(S)
BY ReadSafe, HeapAssumption DEF Shape, TypeOK, Read, Slot, Cell

LEMMA LoadSafe ==
  ASSUME Shape, NEW S \in SUBSET ValueCell, Safe(S),
         NEW r \in Slot, NEW s \in Stack, Load(r, s)
  PROVE  Shape' /\ Safe(S)'
<1>1. Shape'
  BY ReadSafe DEF Shape, TypeOK, Load, Push, pools, boxes, control
<1>2. \A q \in Slot : Read(q)' \in Opt(S)
  BY DEF Shape, TypeOK, Load, Push, Read, pools, boxes, Safe, Opt
<1>3. Safe(S)'
  BY <1>2 DEF Load, Push, pools, boxes, Safe, Opt
<1> QED BY <1>1, <1>3

LEMMA DropSafe ==
  ASSUME Shape, NEW S \in SUBSET ValueCell, Safe(S), NEW r \in Slot, Drop(r)
  PROVE  Shape' /\ Safe(S)'
<1>1. Shape'
  BY DEF Shape, TypeOK, Drop, pools, boxes, control, Value, Cell
<1>2. \A q \in Slot : Read(q)' \in Opt(S)
  BY HeapAssumption DEF Shape, TypeOK, Drop, Read, pools, boxes, Safe, Opt, Cell
<1>3. Safe(S)'
  BY <1>2 DEF Drop, pools, Safe, Opt
<1> QED BY <1>1, <1>3

LEMMA StoreSafe ==
  ASSUME Shape, NEW S \in SUBSET ValueCell, Safe(S),
         NEW s \in Stack, NEW r \in Scope, Store(s, r)
  PROVE  Shape' /\ Safe(S)'
<1> USE DEF Slot
<1>1. Shape'
  BY StackSafe DEF Shape, TypeOK, Store, WriteBox, pools, boxes, control
<1>2. \A b \in Box : content'[b] = content[b] \/ content'[b] \in Opt(S)
  BY StackSafe DEF Shape, TypeOK, Store, WriteBox
<1>3. \A q \in Slot : Read(q)' \in Opt(S)
  BY <1>2, StackSafe DEF Shape, TypeOK, Store, WriteBox, Read, Safe, pools
<1>4. Safe(S)'
  BY <1>2, <1>3 DEF Store, pools, Safe, Shape, TypeOK
<1> QED BY <1>1, <1>4

(* The items of a container that a VM holds are in S.                       *)
LEMMA HeldSafe ==
  ASSUME Shape, NEW S \in SUBSET ValueCell, Safe(S), NEW v \in ValueCell, OnStack(v)
  PROVE  v \in S
BY StackSafe, HeapAssumption DEF OnStack, Opt, Cell

LEMMA IndexGetSafe ==
  ASSUME Shape, NEW S \in SUBSET ValueCell, Safe(S),
         NEW c \in Container, NEW f \in Field, NEW s \in Stack, IndexGet(c, f, s)
  PROVE  Shape' /\ Safe(S)'
<1>1. item[c][f] \in Opt(S) /\ item[c][f] \in Value
  BY HeldSafe DEF Shape, TypeOK, Safe, IndexGet, ValueCell
<1>2. Shape'
  BY <1>1 DEF Shape, TypeOK, IndexGet, Push, pools, boxes, control, Slot
<1>3. \A q \in Slot : Read(q)' \in Opt(S)
  BY <1>1 DEF Shape, TypeOK, IndexGet, Push, Read, boxes, Safe
<1>4. Safe(S)'
  BY <1>3 DEF IndexGet, pools, boxes, Safe
<1> QED BY <1>2, <1>4

LEMMA IndexSetSafe ==
  ASSUME Shape, NEW S \in SUBSET ValueCell, Safe(S),
         NEW c \in Container, NEW f \in Field, NEW s \in Stack, IndexSet(c, f, s)
  PROVE  Shape' /\ Safe(S)'
<1>0. c \in S
  BY HeldSafe DEF IndexSet, ValueCell
<1>1. remembered' \subseteq remembered \cup {c} /\ remBit' \subseteq remBit \cup {c}
  BY DEF IndexSet, gc_barrier_container, gc_remember
<1>2. Shape'
  BY <1>0, <1>1, StackSafe DEF Shape, TypeOK, IndexSet, boxes, control, Safe, Cell, ValueCell
<1>3. \A q \in Slot : Read(q)' \in Opt(S)
  BY DEF IndexSet, Read, boxes, Safe
<1>4. \A d \in Container : \A g \in Field :
        item'[d][g] = item[d][g] \/ item'[d][g] \in Opt(S)
  BY StackSafe DEF IndexSet, Shape, TypeOK
<1>5. Safe(S)'
  BY <1>0, <1>1, <1>3, <1>4, HeapAssumption DEF IndexSet, boxes, Safe, Cell, ValueCell
<1> QED BY <1>2, <1>5

LEMMA RemoveSafe ==
  ASSUME Shape, NEW S \in SUBSET ValueCell, Safe(S),
         NEW c \in Container, NEW f \in Field, Remove(c, f)
  PROVE  Shape' /\ Safe(S)'
<1>1. Shape'
  BY DEF Shape, TypeOK, Remove, pools, boxes, control, Value
<1>2. \A q \in Slot : Read(q)' \in Opt(S)
  BY DEF Remove, Read, boxes, Safe
<1>3. \A d \in Container : \A g \in Field :
        item'[d][g] = item[d][g] \/ item'[d][g] \in Opt(S)
  BY DEF Remove, Shape, TypeOK, Opt
<1>4. Safe(S)'
  BY <1>2, <1>3 DEF Remove, pools, boxes, Safe
<1> QED BY <1>1, <1>4

-----------------------------------------------------------------------------
(* Opcodes that allocate.  The new cell joins S.                            *)

LEMMA NewLeafSafe ==
  ASSUME Shape, NEW S \in SUBSET ValueCell, Safe(S),
         NEW c \in Leaf, NEW r \in Stack \cup Const, NewLeaf(c, r)
  PROVE  Shape' /\ Safe(S \cup {c})'
<1>1. Shape'
  BY DEF Shape, TypeOK, NewLeaf, pool_alloc, Push, boxes, control, Cell, ValueCell, Value, Slot
<1>2. \A q \in Slot : Read(q)' \in Opt(S \cup {c})
  BY DEF Shape, TypeOK, NewLeaf, Push, Read, boxes, Safe, Opt
<1>3. c \notin Container /\ c \notin Func /\ c \notin Box
  BY HeapAssumption
<1>4. Safe(S \cup {c})'
  BY <1>2, <1>3 DEF NewLeaf, pool_alloc, boxes, Safe, Opt
<1> QED BY <1>1, <1>4

LEMMA NewContainerSafe ==
  ASSUME Shape, NEW S \in SUBSET ValueCell, Safe(S),
         NEW c \in Container, NEW s \in Stack, NEW v \in Value, NewContainer(c, s, v)
  PROVE  Shape' /\ Safe(S \cup {c})'
<1>0. v \in Opt(S)
  BY StackSafe DEF NewContainer, Opt
<1>1. Shape'
  BY DEF Shape, TypeOK, NewContainer, pool_alloc, Push, boxes, control, Cell, ValueCell, Value, Slot
<1>2. \A q \in Slot : Read(q)' \in Opt(S \cup {c})
  BY DEF Shape, TypeOK, NewContainer, Push, Read, boxes, Safe, Opt
<1>3. c \notin Func /\ c \notin Box
  BY HeapAssumption
<1>4. \A d \in Container : \A f \in Field :
        item'[d][f] = IF d = c THEN v ELSE item[d][f]
  BY DEF NewContainer, Shape, TypeOK
<1>5. Safe(S \cup {c})'
  BY <1>0, <1>2, <1>3, <1>4 DEF NewContainer, pool_alloc, boxes, Safe, Opt
<1> QED BY <1>1, <1>5

LEMMA MakeClosureSafe ==
  ASSUME Shape, NEW S \in SUBSET ValueCell, Safe(S),
         NEW f \in Func, NEW s \in Stack, MakeClosure(f, s)
  PROVE  Shape' /\ Safe(S \cup {f})'
<1>0. Running \in VMs
  BY DEF Running, VMs
<1>1. Shape'
  BY <1>0 DEF Shape, TypeOK, MakeClosure, pool_alloc, Push, control, Cell, ValueCell, Value, Slot
<1>2. \A q \in Slot : Read(q)' \in Opt(S \cup {f})
  BY DEF Shape, TypeOK, MakeClosure, Push, Read, Safe, Opt
<1>3. f \notin Container /\ f \notin Box
  BY HeapAssumption
<1>4. \A u \in Func : upvalues'[u] = IF u = f THEN pending[Running] ELSE upvalues[u]
  BY DEF MakeClosure, Shape, TypeOK
<1>5. \A v \in VMs : pending'[v] \subseteq pending[v]
  BY DEF MakeClosure, Shape, TypeOK
<1>6. Safe(S \cup {f})'
  BY <1>0, <1>2, <1>3, <1>4, <1>5 DEF MakeClosure, pool_alloc, Safe, Opt
<1> QED BY <1>1, <1>6

-----------------------------------------------------------------------------
(* Captures and upvalues.                                                   *)

LEMMA CaptureSharedSafe ==
  ASSUME Shape, NEW S \in SUBSET ValueCell, Safe(S),
         NEW r \in Slot, CaptureShared(r)
  PROVE  Shape' /\ Safe(S)'
<1>0. Running \in VMs
  BY DEF Running, VMs
<1>1. Shape'
  BY <1>0, HeapAssumption DEF Shape, TypeOK, CaptureShared, pools, control, Cell
<1>2. \A q \in Slot : Read(q)' \in Opt(S)
  BY DEF CaptureShared, Read, Safe
<1>3. \A v \in VMs : pending'[v] \subseteq pending[v] \cup {slotBox[r]}
  BY DEF CaptureShared, Shape, TypeOK
<1>4. content[slotBox[r]] \in Opt(S)
  BY DEF CaptureShared, Read, Safe
<1>5. Safe(S)'
  BY <1>2, <1>3, <1>4 DEF CaptureShared, pools, Safe
<1> QED BY <1>1, <1>5

LEMMA CaptureNewSafe ==
  ASSUME Shape, NEW S \in SUBSET ValueCell, Safe(S),
         NEW r \in Scope, NEW b \in Box, CaptureNew(r, b)
  PROVE  Shape' /\ Safe(S)'
<1> USE DEF Slot
<1>0. Running \in VMs
  BY DEF Running, VMs
<1>1. Shape'
  BY <1>0, HeapAssumption
     DEF Shape, TypeOK, CaptureNew, pool_alloc, control, Cell, ValueCell, Value
<1>2. slotVal[r] \in Opt(S)
  BY HeapAssumption DEF CaptureNew, Safe, Read, Cell
<1>3. \A d \in Box : content'[d] = IF d = b THEN slotVal[r] ELSE content[d]
  BY DEF CaptureNew, Shape, TypeOK
<1>4. \A q \in Slot : Read(q)' \in Opt(S)
  BY <1>2, <1>3 DEF CaptureNew, Read, Safe, Shape, TypeOK
<1>5. \A v \in VMs : pending'[v] \subseteq pending[v] \cup {b}
  BY DEF CaptureNew, Shape, TypeOK
<1>6. b \notin ValueCell
  BY HeapAssumption DEF ValueCell
<1>7. Safe(S)'
  BY <1>2, <1>3, <1>4, <1>5, <1>6 DEF CaptureNew, pool_alloc, Safe, Shape, TypeOK, ValueCell
<1> QED BY <1>1, <1>7

LEMMA CaptureFaultSafe ==
  ASSUME Shape, NEW S \in SUBSET ValueCell, Safe(S),
         NEW r \in Slot, CaptureFault(r)
  PROVE  Shape' /\ Safe(S)'
<1>1. Shape'
  BY DEF Shape, TypeOK, CaptureFault, pools, boxes
<1>2. Safe(S)'
  BY DEF CaptureFault, pools, boxes, Safe, Read
<1> QED BY <1>1, <1>2

LEMMA LoadUpvalueSafe ==
  ASSUME Shape, NEW S \in SUBSET ValueCell, Safe(S),
         NEW f \in Func, NEW b \in Box, NEW s \in Stack, LoadUpvalue(f, b, s)
  PROVE  Shape' /\ Safe(S)'
<1>1. content[b] \in Opt(S) /\ content[b] \in Value
  BY HeldSafe DEF Shape, TypeOK, Safe, LoadUpvalue, ValueCell
<1>2. Shape'
  BY <1>1 DEF Shape, TypeOK, LoadUpvalue, Push, pools, boxes, control, Slot
<1>3. \A q \in Slot : Read(q)' \in Opt(S)
  BY <1>1 DEF Shape, TypeOK, LoadUpvalue, Push, Read, boxes, Safe
<1>4. Safe(S)'
  BY <1>3 DEF LoadUpvalue, pools, boxes, Safe
<1> QED BY <1>2, <1>4

LEMMA StoreUpvalueSafe ==
  ASSUME Shape, NEW S \in SUBSET ValueCell, Safe(S),
         NEW f \in Func, NEW b \in Box, NEW s \in Stack, StoreUpvalue(f, b, s)
  PROVE  Shape' /\ Safe(S)'
<1>1. remembered' \subseteq remembered \cup {b} /\ remBit' \subseteq remBit \cup {b}
  BY DEF StoreUpvalue, gc_barrier_box, gc_remember
<1>2. Shape'
  BY <1>1, StackSafe DEF Shape, TypeOK, StoreUpvalue, WriteBox, control, Cell
<1>3. \A d \in Box : content'[d] = IF d = b THEN slotVal[s] ELSE content[d]
  BY DEF StoreUpvalue, WriteBox, Shape, TypeOK
<1>4. \A q \in Slot : Read(q)' \in Opt(S)
  BY <1>3, StackSafe DEF StoreUpvalue, Read, Safe
<1>5. b \notin Container
  BY HeapAssumption
<1>6. Safe(S)'
  BY <1>1, <1>3, <1>4, <1>5, StackSafe DEF StoreUpvalue, Safe, Shape, TypeOK
<1> QED BY <1>2, <1>6

-----------------------------------------------------------------------------
(* Module calls and errors.                                                 *)

LEMMA ModuleCallSafe ==
  ASSUME Shape, NEW S \in SUBSET ValueCell, Safe(S),
         NEW s \in Stack, NEW t \in Stack, ModuleCall(s, t)
  PROVE  Shape' /\ Safe(S)'
<1>1. Shape'
  BY StackSafe DEF Shape, TypeOK, ModuleCall, Dispatch, pools, boxes, Value, Slot
<1>2. \A q \in Slot : Read(q)' \in Opt(S)
  BY StackSafe DEF Shape, TypeOK, ModuleCall, Read, boxes, Safe, Opt, Slot
<1>3. Safe(S)'
  BY <1>2 DEF ModuleCall, pools, boxes, Safe
<1> QED BY <1>1, <1>3

LEMMA ModuleReturnSafe ==
  ASSUME Shape, NEW S \in SUBSET ValueCell, Safe(S),
         NEW s \in Stack, NEW t \in Stack, ModuleReturn(s, t)
  PROVE  Shape' /\ Safe(S)'
<1>1. Shape'
  BY StackSafe DEF Shape, TypeOK, ModuleReturn, Dispatch, pools, boxes, Value, Slot
<1>2. \A q \in Slot : Read(q)' \in Opt(S)
  BY StackSafe DEF Shape, TypeOK, ModuleReturn, Read, boxes, Safe, Opt, Slot
<1>3. Safe(S)'
  BY <1>2 DEF ModuleReturn, pools, boxes, Safe
<1> QED BY <1>1, <1>3

LEMMA FailSafe ==
  ASSUME Shape, NEW S \in SUBSET ValueCell, Safe(S), Fail
  PROVE  Shape' /\ Safe(S)'
<1>1. Shape'
  BY DEF Shape, TypeOK, Fail, pools, boxes
<1>2. Safe(S)'
  BY DEF Fail, pools, boxes, Safe, Read
<1> QED BY <1>1, <1>2

LEMMA RestartSafe ==
  ASSUME Shape, NEW S \in SUBSET ValueCell, Safe(S),
         NEW local \in SUBSET Slot, Restart(local)
  PROVE  Shape' /\ Safe(S)'
<1>1. Shape'
  BY DEF Shape, TypeOK, Restart, pools, Value, Slot
<1>2. \A q \in Slot : Read(q)' \in Opt(S)
  BY HeapAssumption DEF Shape, TypeOK, Restart, Read, Safe, Opt, Cell
<1>3. Safe(S)'
  BY <1>2 DEF Restart, pools, Safe
<1> QED BY <1>1, <1>3

-----------------------------------------------------------------------------
(* Collections.                                                             *)

(* The marked cells are closed, and every closed set contains them.         *)
LEMMA TraceClosed ==
  ASSUME NEW seeds
  PROVE  Closed(Trace(seeds, {}), seeds, {})
BY DEF Closed, Trace

LEMMA TraceLeast ==
  ASSUME NEW seeds, NEW S \in SUBSET ValueCell, Closed(S, seeds, {})
  PROVE  Trace(seeds, {}) \subseteq S
BY DEF Trace

(* While a collection runs, S contains all that it starts from and follows. *)
LEMMA SafeClosed ==
  ASSUME Shape, NEW S \in SUBSET ValueCell, Safe(S), NEW minor \in BOOLEAN
  PROVE  Closed(S, MarkSeeds(minor), {})
<1>1. \A c \in S : Children(c) \cap ValueCell \subseteq S
  BY HeapAssumption DEF Children, Safe, Opt, Cell, ValueCell
<1>2. mark_vm_roots \cap ValueCell \subseteq S
  BY HeapAssumption DEF mark_vm_roots, RootSlots, Safe, Opt, Cell
<1>3. RememberedContents \cap ValueCell \subseteq S
  BY HeapAssumption DEF RememberedContents, Children, Safe, Opt, Cell
<1> QED BY <1>1, <1>2, <1>3 DEF Closed, MarkSeeds

(* What marking leaves: the set M of marked cells has every root, what the  *)
(* live entries of remembered_set hold (in a minor collection), and the     *)
(* children of its members.                                                 *)
Marking(M, minor) ==
  /\ \A r \in Slot : Read(r) \in Opt(M)
  /\ \A v \in VMs : \A b \in pending[v] : content[b] \in Opt(M)
  /\ minor => \A c \in Container : (c \in remembered /\ c \notin free) =>
                \A f \in Field : item[c][f] \in Opt(M)
  /\ minor => \A b \in Box : (b \in remembered /\ b \notin free) =>
                content[b] \in Opt(M)
  /\ \A c \in M \cap Container : \A f \in Field : item[c][f] \in Opt(M)
  /\ \A u \in M \cap Func : \A b \in upvalues[u] : content[b] \in Opt(M)

LEMMA TraceMarking ==
  ASSUME Shape, nesting = 0, NEW minor \in BOOLEAN,
         NEW M \in SUBSET ValueCell, Closed(M, MarkSeeds(minor), {})
  PROVE  Marking(M, minor)
<1>1. mark_vm_roots \cap ValueCell \subseteq M
  BY DEF Closed, MarkSeeds
<1>2. \A r \in Slot : Read(r) \in Opt(M)
  <2>1. \A r \in Slot : Read(r) \in Value
    BY DEF Shape, TypeOK, Read
  <2> QED BY <1>1, <2>1 DEF mark_vm_roots, RootSlots, Opt, Value
<1>3. \A v \in VMs : \A b \in pending[v] : content[b] \in Opt(M)
  <2>1. \A v \in VMs : \A b \in pending[v] : content[b] \in Value
    BY DEF Shape, TypeOK
  <2> QED BY <1>1, <2>1 DEF mark_vm_roots, Opt, Value
<1>4. ASSUME minor
      PROVE  RememberedContents \cap ValueCell \subseteq M
  BY <1>4 DEF Closed, MarkSeeds
<1>5. ASSUME minor, NEW c \in Container, c \in remembered, c \notin free, NEW f \in Field
      PROVE  item[c][f] \in Opt(M)
  <2>1. item[c][f] \in Children(c)
    BY DEF Children
  <2>2. item[c][f] \in RememberedContents
    BY <1>5, <2>1 DEF RememberedContents
  <2> QED BY <1>4, <1>5, <2>2 DEF Opt, Shape, TypeOK, Value
<1>6. ASSUME minor, NEW b \in Box, b \in remembered, b \notin free
      PROVE  content[b] \in Opt(M)
  <2>1. content[b] \in RememberedContents
    BY <1>6 DEF RememberedContents
  <2> QED BY <1>4, <1>6, <2>1 DEF Opt, Shape, TypeOK, Value
<1>7. \A c \in M : Children(c) \cap ValueCell \subseteq M
  BY DEF Closed
<1>8. ASSUME NEW c \in M \cap Container, NEW f \in Field
      PROVE  item[c][f] \in Opt(M)
  <2>1. item[c][f] \in Children(c)
    BY DEF Children
  <2> QED BY <1>7, <2>1 DEF Opt, Shape, TypeOK, Value
<1>9. ASSUME NEW u \in M \cap Func, NEW b \in upvalues[u]
      PROVE  content[b] \in Opt(M)
  <2>1. content[b] \in Children(u)
    BY HeapAssumption DEF Children
  <2>2. content[b] \in Value
    BY DEF Shape, TypeOK
  <2> QED BY <1>7, <2>1, <2>2 DEF Opt, Value
<1> QED BY <1>2, <1>3, <1>5, <1>6, <1>8, <1>9 DEF Marking

(* The sweep keeps the marked cells: they are the new S.                    *)
LEMMA CollectSafe ==
  ASSUME Shape, nesting = 0, NEW minor \in BOOLEAN,
         NEW S \in SUBSET ValueCell, Safe(S), gc_collect(minor)
  PROVE  \E M \in SUBSET ValueCell : Safe(M)'
<1>1. PICK M \in SUBSET ValueCell : M = Trace(MarkSeeds(minor), {})
  BY DEF Trace
<1> DEFINE visited == (carved \ free) \ (IF minor THEN old ELSE {})
<1> DEFINE dead == visited \ M
<1>2. M \subseteq S
  BY <1>1, SafeClosed, TraceLeast
<1>3. Marking(M, minor)
  <2>1. Closed(M, MarkSeeds(minor), {})
    BY <1>1, TraceClosed
  <2> QED BY <2>1, TraceMarking
<1>4. /\ free' = free \cup dead
      /\ carved' = carved
      /\ item' = [c \in Container |->
                    IF c \in dead THEN [f \in Field |-> Nothing] ELSE item[c]]
      /\ upvalues' = [f \in Func |-> IF f \in dead THEN {} ELSE upvalues[f]]
      /\ content' = [b \in Box |-> IF b \in dead THEN Nothing ELSE content[b]]
  BY <1>1 DEF gc_collect, pool_sweep, StaleMarks
<1>5. /\ remembered' \subseteq remembered
      /\ slotVal' = slotVal /\ slotBox' = slotBox /\ pending' = pending
  BY DEF gc_collect
<1>6. M \subseteq carved' /\ M \cap free' = {}
  BY <1>2, <1>4 DEF Safe
<1>7. \A b \in Box : content'[b] = content[b] \/ content'[b] = Nothing
  BY <1>4
<1>8. \A q \in Slot : Read(q)' \in Opt(M)
  BY <1>3, <1>5, <1>7 DEF Read, Marking, Opt
<1>9. \A v \in VMs : \A b \in pending'[v] : content'[b] \in Opt(M)
  BY <1>3, <1>5, <1>7 DEF Marking, Opt, Shape, TypeOK
<1>10. ASSUME NEW c \in Container, c \in remembered', c \notin free', NEW f \in Field
       PROVE  item'[c][f] \in Opt(M)
  <2>1. item'[c][f] = item[c][f]
    BY <1>4, <1>10
  <2>2. CASE minor
    BY <1>3, <1>4, <1>5, <1>10, <2>1, <2>2 DEF Marking
  <2>3. CASE ~minor
    <3>1. c \in M
      BY <1>4, <1>5, <1>10, <2>3 DEF Shape
    <3> QED BY <1>3, <2>1, <3>1 DEF Marking
  <2> QED BY <2>2, <2>3
<1>11. ASSUME NEW b \in Box, b \in remembered', b \notin free'
       PROVE  content'[b] \in Opt(M)
  <2>1. CASE minor
    BY <1>3, <1>4, <1>5, <1>7, <1>11, <2>1 DEF Marking, Opt
  <2>2. CASE ~minor
    <3>1. b \in dead
      BY <1>4, <1>5, <1>11, <2>2, HeapAssumption DEF Shape, ValueCell
    <3> QED BY <1>4, <1>11, <3>1
  <2> QED BY <2>1, <2>2
<1>12. \A c \in M \cap Container : \A f \in Field : item'[c][f] \in Opt(M)
  BY <1>3, <1>4 DEF Marking
<1>13. \A u \in M \cap Func : \A b \in upvalues'[u] : content'[b] \in Opt(M)
  BY <1>3, <1>4, <1>7 DEF Marking, Opt, Shape, TypeOK
<1>14. Safe(M)'
  BY <1>6, <1>8, <1>9, <1>10, <1>11, <1>12, <1>13 DEF Safe
<1> QED BY <1>14

LEMMA CollectTypes ==
  ASSUME Shape, NEW minor \in BOOLEAN, gc_collect(minor)
  PROVE  /\ carved' = carved /\ marked' \subseteq Cell /\ old' \subseteq Cell
         /\ free' \subseteq Cell /\ remBit' \subseteq Cell
         /\ item' \in [Container -> [Field -> Value]]
         /\ upvalues' \in [Func -> SUBSET Box]
         /\ \A f \in Func : upvalues'[f] \subseteq upvalues[f]
         /\ content' \in [Box -> Value]
         /\ remembered' \subseteq remembered
         /\ UNCHANGED <<slotVal, slotBox, pending, clobbered, wildList,
                        suppressDepth, nesting>>
<1> DEFINE M == Trace(MarkSeeds(minor), StaleMarks)
<1>1. M \subseteq Cell
  BY DEF Trace, Cell
<1> HIDE DEF M
<1>2. pool_sweep(M, minor)
  BY DEF gc_collect, M
<1>3. /\ carved' = carved /\ marked' \subseteq Cell /\ old' \subseteq Cell
      /\ free' \subseteq Cell /\ remBit' \subseteq Cell
  BY <1>1, <1>2 DEF pool_sweep, Shape, TypeOK
<1>4. item' \in [Container -> [Field -> Value]]
  BY <1>2 DEF pool_sweep, Shape, TypeOK, Value
<1>5. /\ upvalues' \in [Func -> SUBSET Box]
      /\ \A f \in Func : upvalues'[f] \subseteq upvalues[f]
  BY <1>2 DEF pool_sweep, Shape, TypeOK
<1>6. content' \in [Box -> Value]
  BY <1>2 DEF pool_sweep, Shape, TypeOK, Value
<1> QED BY <1>3, <1>4, <1>5, <1>6 DEF gc_collect

LEMMA CollectShape ==
  ASSUME Shape, nesting = 0, NEW minor \in BOOLEAN, gc_collect(minor),
         phase' \in Phases, status' = status,
         allocCount' \in Nat, minorSinceMajor' \in Nat
  PROVE  Shape'
BY CollectTypes DEF Shape, TypeOK

LEMMA CollectStepSafe ==
  ASSUME HeapInv, CollectSteps
  PROVE  HeapInv'
<1>0. Shape
  BY DEF HeapInv
<1>1. PICK S \in SUBSET ValueCell : Safe(S)
  BY DEF HeapInv
<1>2. CASE MinorCollect
  <2>1. gc_collect(TRUE) /\ nesting = 0
    BY <1>0, <1>2 DEF MinorCollect, CollectDue, Shape
  <2>2. Shape'
    <3>1. /\ phase' \in Phases /\ status' = status
          /\ allocCount' \in Nat /\ minorSinceMajor' \in Nat
      BY <1>0, <1>2 DEF MinorCollect, Shape, TypeOK, Phases
    <3> QED BY <1>0, <2>1, <3>1, CollectShape
  <2> QED BY <1>0, <1>1, <2>1, <2>2, CollectSafe DEF HeapInv
<1>3. CASE MajorCollect
  <2>1. gc_collect(FALSE) /\ nesting = 0
    BY <1>0, <1>3 DEF MajorCollect, Shape
  <2>2. Shape'
    <3>1. /\ phase' \in Phases /\ status' = status
          /\ allocCount' \in Nat /\ minorSinceMajor' \in Nat
      BY <1>0, <1>3 DEF MajorCollect, Shape, TypeOK, Phases
    <3> QED BY <1>0, <2>1, <3>1, CollectShape
  <2> QED BY <1>0, <1>1, <2>1, <2>2, CollectSafe DEF HeapInv
<1>4. CASE CeilingCheck
  <2>1. Shape'
    BY <1>0, <1>4 DEF CeilingCheck, Shape, TypeOK, pools, boxes, Phases
  <2>2. Safe(S)'
    BY <1>1, <1>4 DEF CeilingCheck, pools, boxes, Safe, Read
  <2> QED BY <2>1, <2>2 DEF HeapInv
<1>5. CASE CeilingVerdict
  <2>1. Shape'
    BY <1>0, <1>5 DEF CeilingVerdict, Shape, TypeOK, pools, boxes, Phases
  <2>2. Safe(S)'
    BY <1>1, <1>5 DEF CeilingVerdict, pools, boxes, Safe, Read
  <2> QED BY <2>1, <2>2 DEF HeapInv
<1> QED BY <1>2, <1>3, <1>4, <1>5 DEF CollectSteps

-----------------------------------------------------------------------------
(* The invariant.                                                           *)

LEMMA InitSafe == Init => HeapInv
<1> SUFFICES ASSUME Init PROVE HeapInv
  OBVIOUS
<1>1. Shape
  BY DEF Init, Shape, TypeOK, Value, VMs, Phases, Slot
<1>2. Safe({})
  BY DEF Init, Safe, Opt, Read
<1> QED BY <1>1, <1>2 DEF HeapInv

LEMMA ValueStepSafe == ASSUME HeapInv, ValueSteps PROVE HeapInv'
<1>0. Shape
  BY DEF HeapInv
<1>1. PICK S \in SUBSET ValueCell : Safe(S)
  BY DEF HeapInv
<1>2. ASSUME NEW s \in Stack, NEW r \in Slot, Load(r, s) PROVE HeapInv'
  BY <1>0, <1>1, <1>2, LoadSafe DEF HeapInv
<1>3. ASSUME NEW s \in Stack, NEW r \in Scope, Store(s, r) PROVE HeapInv'
  BY <1>0, <1>1, <1>3, StoreSafe DEF HeapInv
<1>4. ASSUME NEW c \in Leaf, NEW r \in Stack \cup Const, NewLeaf(c, r) PROVE HeapInv'
  <2>1. S \cup {c} \in SUBSET ValueCell
    BY <1>1 DEF ValueCell
  <2> QED BY <1>0, <1>1, <1>4, <2>1, NewLeafSafe DEF HeapInv
<1>5. ASSUME NEW c \in Container, NEW s \in Stack, NEW v \in Value, NewContainer(c, s, v)
      PROVE  HeapInv'
  <2>1. S \cup {c} \in SUBSET ValueCell
    BY <1>1 DEF ValueCell
  <2> QED BY <1>0, <1>1, <1>5, <2>1, NewContainerSafe DEF HeapInv
<1>6. ASSUME NEW c \in Container, NEW f \in Field, NEW s \in Stack,
             IndexGet(c, f, s) \/ IndexSet(c, f, s)
      PROVE  HeapInv'
  BY <1>0, <1>1, <1>6, IndexGetSafe, IndexSetSafe DEF HeapInv
<1>7. ASSUME NEW r \in Slot, Drop(r) PROVE HeapInv'
  BY <1>0, <1>1, <1>7, DropSafe DEF HeapInv
<1>8. ASSUME NEW c \in Container, NEW f \in Field, Remove(c, f) PROVE HeapInv'
  BY <1>0, <1>1, <1>8, RemoveSafe DEF HeapInv
<1>9. Mine \subseteq Slot
  BY HeapAssumption DEF Mine
<1> QED BY <1>2, <1>3, <1>4, <1>5, <1>6, <1>7, <1>8, <1>9 DEF ValueSteps

LEMMA ClosureStepSafe == ASSUME HeapInv, ClosureSteps PROVE HeapInv'
<1>0. Shape
  BY DEF HeapInv
<1>1. PICK S \in SUBSET ValueCell : Safe(S)
  BY DEF HeapInv
<1>2. ASSUME NEW r \in Scope, CaptureShared(r) \/ CaptureFault(r) PROVE HeapInv'
  <2>1. r \in Slot
    BY DEF Slot
  <2> QED BY <1>0, <1>1, <1>2, <2>1, CaptureSharedSafe, CaptureFaultSafe DEF HeapInv
<1>3. ASSUME NEW r \in Scope, NEW b \in Box, CaptureNew(r, b) PROVE HeapInv'
  BY <1>0, <1>1, <1>3, CaptureNewSafe DEF HeapInv
<1>4. ASSUME NEW s \in Stack, NEW f \in Func, MakeClosure(f, s) PROVE HeapInv'
  <2>1. S \cup {f} \in SUBSET ValueCell
    BY <1>1 DEF ValueCell
  <2> QED BY <1>0, <1>1, <1>4, <2>1, MakeClosureSafe DEF HeapInv
<1>5. ASSUME NEW s \in Stack, NEW f \in Func, NEW b \in Box,
             LoadUpvalue(f, b, s) \/ StoreUpvalue(f, b, s)
      PROVE  HeapInv'
  BY <1>0, <1>1, <1>5, LoadUpvalueSafe, StoreUpvalueSafe DEF HeapInv
<1> QED BY <1>2, <1>3, <1>4, <1>5 DEF ClosureSteps

LEMMA ModuleStepSafe == ASSUME HeapInv, ModuleSteps PROVE HeapInv'
<1>0. Shape
  BY DEF HeapInv
<1>1. PICK S \in SUBSET ValueCell : Safe(S)
  BY DEF HeapInv
<1>2. ASSUME NEW s \in Stack, NEW t \in Stack, ModuleCall(s, t) \/ ModuleReturn(s, t)
      PROVE  HeapInv'
  BY <1>0, <1>1, <1>2, ModuleCallSafe, ModuleReturnSafe DEF HeapInv
<1> QED BY <1>2 DEF ModuleSteps

LEMMA ErrorStepSafe == ASSUME HeapInv, ErrorSteps PROVE HeapInv'
<1>0. Shape
  BY DEF HeapInv
<1>1. PICK S \in SUBSET ValueCell : Safe(S)
  BY DEF HeapInv
<1>2. CASE Fail
  BY <1>0, <1>1, <1>2, FailSafe DEF HeapInv
<1>3. ASSUME NEW local \in SUBSET (Scope \cap MainSlot), Restart(local) PROVE HeapInv'
  <2>1. local \in SUBSET Slot
    BY DEF Slot
  <2> QED BY <1>0, <1>1, <1>3, <2>1, RestartSafe DEF HeapInv
<1> QED BY <1>2, <1>3 DEF ErrorSteps

(* No step of the opcode loop or of the collector breaks HeapInv.           *)
THEOREM HeapInvariant == Spec => []HeapInv
<1>1. Init => HeapInv
  BY InitSafe
<1>2. HeapInv /\ [Next]_vars => HeapInv'
  <2> SUFFICES ASSUME HeapInv, [Next]_vars PROVE HeapInv'
    OBVIOUS
  <2>1. CASE Next
    BY <2>1, ValueStepSafe, ClosureStepSafe, ModuleStepSafe, CollectStepSafe,
       ErrorStepSafe DEF Next
  <2>2. CASE UNCHANGED vars
    <3>1. PICK S \in SUBSET ValueCell : Safe(S)
      BY DEF HeapInv
    <3>2. Safe(S)'
      BY <2>2, <3>1 DEF vars, pools, boxes, Safe, Read
    <3>3. Shape'
      BY <2>2 DEF HeapInv, Shape, TypeOK, vars, pools, boxes
    <3> QED BY <3>2, <3>3 DEF HeapInv
  <2> QED BY <2>1, <2>2
<1> QED BY <1>1, <1>2, PTL DEF Spec

(* Every variable of the model keeps its type, for any sets of cells.       *)
THEOREM HeapTypes == Spec => []TypeOK
<1>1. HeapInv => TypeOK
  BY DEF HeapInv, Shape
<1> QED BY <1>1, HeapInvariant, PTL

(* No cell that some VM can reach is ever on a free list.                   *)
THEOREM CollectorIsSafe == Spec => []ReachableNotFreed
<1>1. HeapInv => ReachableNotFreed
  <2> SUFFICES ASSUME HeapInv PROVE ReachableNotFreed
    OBVIOUS
  <2>1. PICK S \in SUBSET ValueCell : Safe(S)
    BY DEF HeapInv
  <2> DEFINE seeds == {Read(r) : r \in Slot}
                        \cup {content[b] : b \in (UNION {pending[v] : v \in VMs})}
  <2>2. seeds \cap ValueCell \subseteq S
    BY <2>1, HeapAssumption DEF Safe, Opt, Cell
  <2>3. \A c \in S : Children(c) \cap ValueCell \subseteq S
    BY <2>1, HeapAssumption DEF Children, Safe, Opt, Cell, ValueCell
  <2>4. Closed(S, seeds, {})
    BY <2>2, <2>3 DEF Closed
  <2>5. Reachable \subseteq S
    BY <2>4, TraceLeast DEF Reachable
  <2> QED BY <2>1, <2>5 DEF ReachableNotFreed, Safe
<1> QED BY <1>1, HeapInvariant, PTL

(* What remembered_set leads a minor collection to has not been freed.      *)
THEOREM RememberedSetIsSafe == Spec => []RememberedNotDangling
<1>1. HeapInv => RememberedNotDangling
  <2> SUFFICES ASSUME HeapInv PROVE RememberedNotDangling
    OBVIOUS
  <2>1. PICK S \in SUBSET ValueCell : Safe(S)
    BY DEF HeapInv
  <2>2. RememberedContents \cap ValueCell \subseteq S
    BY <2>1, HeapAssumption DEF RememberedContents, Children, Safe, Opt, Cell
  <2>3. \A c \in S : Children(c) \cap ValueCell \subseteq S
    BY <2>1, HeapAssumption DEF Children, Safe, Opt, Cell, ValueCell
  <2>4. Trace(RememberedContents, {}) \subseteq S
    BY <2>2, <2>3, TraceLeast DEF Closed
  <2> QED BY <2>1, <2>4 DEF RememberedNotDangling, Safe
<1> QED BY <1>1, HeapInvariant, PTL

-----------------------------------------------------------------------------
(* What a major collection leaves.                                          *)

(* The cells that a major collection leaves allocated are those it marked.  *)
LEMMA MajorLeavesMarked ==
  ASSUME Shape, nesting = 0, NEW S \in SUBSET ValueCell, Safe(S), gc_collect(FALSE)
  PROVE  (carved' \ free') \cap ValueCell = Trace(mark_vm_roots, {})
<1> DEFINE M == Trace(mark_vm_roots, {})
<1>1. M \in SUBSET ValueCell
  BY DEF Trace
<1>2. M \subseteq S
  <2>1. MarkSeeds(FALSE) = mark_vm_roots
    BY DEF MarkSeeds
  <2> QED BY <2>1, SafeClosed, TraceLeast
<1>3. carved' = carved /\ free' = free \cup ((carved \ free) \ M)
  BY DEF gc_collect, pool_sweep, MarkSeeds, StaleMarks
<1> QED BY <1>1, <1>2, <1>3 DEF Safe

(* While the collector runs no module does, so the roots of the main VM and *)
(* of the modules are all there are.                                        *)
LEMMA RootsReach ==
  ASSUME nesting = 0
  PROVE  Reachable = Trace(mark_vm_roots, {})
BY DEF Reachable, mark_vm_roots, RootSlots

(* Without boxes a sweep takes nothing from what the marked cells lead to.  *)
LEMMA ReachableStays ==
  ASSUME Shape, nesting = 0, Box = {}, gc_collect(FALSE)
  PROVE  Reachable' = Reachable
<1>1. PICK R : R = {slotVal[r] : r \in Slot}
  OBVIOUS
<1>2. PICK M \in SUBSET ValueCell : M = Trace(R, {})
  BY DEF Trace
<1>3. mark_vm_roots = R /\ Reachable = M
  <2>1. \A r \in Slot : Read(r) = slotVal[r]
    BY DEF Read
  <2>2. \A v \in VMs : pending[v] = {}
    BY DEF Shape, TypeOK
  <2>3. {Read(r) : r \in Slot} \cup {content[b] : b \in (UNION {pending[v] : v \in VMs})} = R
    BY <1>1, <2>1, <2>2
  <2> QED BY <1>2, <2>3 DEF mark_vm_roots, RootSlots, Reachable
<1>4. ({Read(r) : r \in Slot} \cup {content[b] : b \in (UNION {pending[v] : v \in VMs})})' = R
  <2>1. \A r \in Slot : Read(r)' = slotVal[r]
    BY DEF Read, gc_collect
  <2>2. \A v \in VMs : pending'[v] = {}
    BY DEF Shape, TypeOK, gc_collect
  <2> QED BY <1>1, <2>1, <2>2
<1>5. Closed(M, R, {})
  BY <1>2, TraceClosed
<1>6. \A c \in M : Children(c)' = Children(c)
  <2>1. /\ item' = [c \in Container |->
                      IF c \in (carved \ free) \ M THEN [f \in Field |-> Nothing] ELSE item[c]]
        /\ upvalues' = [f \in Func |-> IF f \in (carved \ free) \ M THEN {} ELSE upvalues[f]]
    BY <1>2, <1>3 DEF gc_collect, pool_sweep, MarkSeeds, StaleMarks
  <2>2. ASSUME NEW c \in M \cap Container PROVE Children(c)' = Children(c)
    <3>1. item'[c] = item[c]
      BY <2>1
    <3> QED BY <3>1 DEF Children
  <2>3. ASSUME NEW c \in M \cap Func PROVE Children(c)' = Children(c)
    <3>1. c \notin Container
      BY HeapAssumption
    <3>2. upvalues'[c] = {} /\ upvalues[c] = {}
      BY <2>1 DEF Shape, TypeOK
    <3>3. \A T, U : {T[b] : b \in {}} = {U[b] : b \in {}}
      OBVIOUS
    <3> QED BY <3>1, <3>2, <3>3 DEF Children
  <2> QED BY <2>2, <2>3 DEF Children
<1>7. ASSUME NEW T \in SUBSET ValueCell, Closed(T, R, {})'
      PROVE  M \subseteq T
  <2>1. Closed(T \cap M, R, {})
    BY <1>5, <1>6, <1>7 DEF Closed
  <2>2. T \cap M \in SUBSET ValueCell
    OBVIOUS
  <2>3. Trace(R, {}) \subseteq T \cap M
    BY <2>1, <2>2, TraceLeast
  <2> QED BY <1>2, <2>3
<1>8. Closed(M, R, {})'
  BY <1>5, <1>6 DEF Closed
<1>9. Reachable' = {c \in ValueCell : \A T \in SUBSET ValueCell : Closed(T, R, {})' => c \in T}
  BY <1>4 DEF Reachable, Trace
<1> QED BY <1>3, <1>7, <1>8, <1>9

(* Between a major collection and the verdict on the ceiling no opcode      *)
(* runs, so the cells that are allocated are those the program reaches.     *)
Settled ==
  /\ phase # "run" => status = "running"
  /\ phase = "final" => (carved \ free) \cap ValueCell = Reachable

LEMMA SettledStep ==
  ASSUME Box = {}, HeapInv, Settled, [Next]_vars
  PROVE  Settled'
<1>1. CASE MajorCollect
  <2>1. PICK S \in SUBSET ValueCell : Safe(S)
    BY DEF HeapInv
  <2>2. Shape /\ nesting = 0 /\ gc_collect(FALSE)
    BY <1>1 DEF HeapInv, Shape, MajorCollect
  <2>3. (carved' \ free') \cap ValueCell = Reachable'
    BY <2>1, <2>2, MajorLeavesMarked, RootsReach, ReachableStays
  <2>4. status' = "running"
    BY <1>1 DEF MajorCollect, Settled
  <2> QED BY <2>3, <2>4 DEF Settled
<1>2. CASE MinorCollect \/ CeilingCheck \/ CeilingVerdict
  BY <1>2 DEF MinorCollect, CeilingCheck, CeilingVerdict, Settled
<1>3. CASE ErrorSteps
  BY <1>3 DEF ErrorSteps, Fail, Restart, Dispatch, Settled
<1>4. CASE ModuleSteps
  <2>1. phase' = "run"
    BY <1>4 DEF ModuleSteps, ModuleCall, ModuleReturn, Dispatch
  <2> QED BY <2>1 DEF Settled
<1>5. CASE ClosureSteps
  <2>1. phase' = "run"
    BY <1>5 DEF ClosureSteps, CaptureShared, CaptureNew, CaptureFault, MakeClosure,
                LoadUpvalue, StoreUpvalue, Dispatch, control
  <2> QED BY <2>1 DEF Settled
<1>6. CASE ValueSteps
  <2>1. phase' = "run"
    BY <1>6 DEF ValueSteps, Load, Store, NewLeaf, NewContainer, IndexGet, IndexSet, Drop,
                Remove, Dispatch, control
  <2> QED BY <2>1 DEF Settled
<1>7. CASE UNCHANGED vars
  <2>1. Reachable' = Reachable
    BY <1>7 DEF Reachable, Trace, Closed, Children, Read, vars, boxes
  <2> QED BY <1>7, <2>1 DEF Settled, vars, pools
<1> QED BY <1>1, <1>2, <1>3, <1>4, <1>5, <1>6, <1>7 DEF Next, CollectSteps

(* A major collection leaves exactly the cells that were reachable when it  *)
(* began: every unreachable one is freed, with the entries of               *)
(* remembered_set or without.                                               *)
THEOREM MajorLeavesReachable ==
  Spec => [][MajorCollect => (carved' \ free') \cap ValueCell = Reachable]_vars
<1>1. HeapInv /\ [Next]_vars =>
        [MajorCollect => (carved' \ free') \cap ValueCell = Reachable]_vars
  <2> SUFFICES ASSUME HeapInv, MajorCollect
               PROVE  (carved' \ free') \cap ValueCell = Reachable
    OBVIOUS
  <2>1. PICK S \in SUBSET ValueCell : Safe(S)
    BY DEF HeapInv
  <2>2. Shape /\ nesting = 0 /\ gc_collect(FALSE)
    BY DEF HeapInv, Shape, MajorCollect
  <2> QED BY <2>1, <2>2, MajorLeavesMarked, RootsReach
<1> QED BY <1>1, HeapInvariant, PTL DEF Spec

(* A program whose functions capture nothing, so that no box is allocated,  *)
(* still reaches after a major collection every cell that it left.          *)
THEOREM GarbageIsReclaimed ==
  ASSUME Box = {}
  PROVE  Spec => MajorReclaimsGarbage
<1>1. HeapInv /\ [Next]_vars =>
        [MajorCollect => (carved' \ free') \cap ValueCell = Reachable']_vars
  <2> SUFFICES ASSUME HeapInv, MajorCollect
               PROVE  (carved' \ free') \cap ValueCell = Reachable'
    OBVIOUS
  <2>1. PICK S \in SUBSET ValueCell : Safe(S)
    BY DEF HeapInv
  <2>2. Shape /\ nesting = 0 /\ gc_collect(FALSE)
    BY DEF HeapInv, Shape, MajorCollect
  <2> QED BY <2>1, <2>2, MajorLeavesMarked, RootsReach, ReachableStays
<1> QED BY <1>1, HeapInvariant, PTL DEF Spec, MajorReclaimsGarbage

(* The ceiling is reported as exceeded only if what such a program reaches  *)
(* exceeds it: the forced major collection has freed all the rest.          *)
THEOREM CeilingIsExceeded ==
  ASSUME Box = {}
  PROVE  Spec => CeilingErrorIsReal
<1>1. Init => Settled
  BY DEF Init, Settled
<1>2. HeapInv /\ Settled /\ [Next]_vars => Settled'
  BY SettledStep
<1>3. HeapInv /\ Settled /\ [Next]_vars =>
        [CeilingVerdict /\ status' = "error" => Cardinality(Reachable) > Ceiling]_vars
  <2> SUFFICES ASSUME HeapInv, Settled, CeilingVerdict, status' = "error"
               PROVE  Cardinality(Reachable) > Ceiling
    OBVIOUS
  <2>1. OverCeiling
    BY DEF CeilingVerdict, Settled
  <2>2. carved \ free = Reachable
    BY DEF HeapInv, Shape, TypeOK, Cell, CeilingVerdict, Settled
  <2> QED BY <2>1, <2>2 DEF OverCeiling, gc_count_live_cells
<1> QED BY <1>1, <1>2, <1>3, HeapInvariant, PTL DEF Spec, CeilingErrorIsReal

=============================================================================
