------------------------------- MODULE Scopes -------------------------------
(***************************************************************************)
(* Variables as vm.c stores them: scopes of at most SlotMax inline slots    *)
(* that spill into a hash map, slots that move into a heap box when a       *)
(* closure captures them, parameters read by slot number, and the address   *)
(* cache of every name site (Chunk.addr_cache), which keeps the address of  *)
(* a global inline slot for ever.                                           *)
(*                                                                         *)
(* The program is a constant: its functions, which names they loop over or  *)
(* capture, and its name sites.  Control flow inside a function is left     *)
(* open, so every order in which the sites can be visited is explored.      *)
(***************************************************************************)
EXTENDS Integers, Sequences, FiniteSets, FiniteSetsExt

CONSTANTS
  Name, Value, Loc, NoLoc, Null, Freed,
  SlotMax,      \* SCOPE_SLOT_MAX
  MaxScopes,    \* bound: scopes in use
  Fn, Param,    \* named functions, and the parameter of each
  LoopVar,      \* running function -> the names it loops over
  Captures,     \* named function -> what its anonymous function captures
  Closure,      \* bound: closures that exist at the same time
  Site, SiteFn, SiteName, SiteBlock    \* name sites and where they stand

VARIABLES
  scopes,       \* vm->scopes[0 .. scope_depth-1]
  content,      \* the word a box or a map payload holds
  frames,       \* vm->call_stack[0 .. call_depth-1]
  closures,     \* AerFunction.upvalues of each closure
  addr_cache,   \* Chunk.addr_cache
  acc,          \* the value most recently pushed
  status        \* "running", or "error" until run() resets the VM

vars == <<scopes, content, frames, closures, addr_cache, acc, status>>

Unbound == [n \in Name |-> NoLoc]
EmptyScope == [slots |-> <<>>, map |-> Unbound, captured |-> FALSE]
Top == Len(scopes)

(* Addresses: of an inline slot, of a box or map payload, and NULL.         *)
SlotAddr(i, j) == <<"val", i, j>>
BoxAddr(l) == <<"box", l, 0>>
NullAddr == <<"null", 0, 0>>

SlotRec == [name : Name, loc : Loc, val : Value, boxed : BOOLEAN]
TypeOK ==
  /\ scopes # <<>>
  /\ \A i \in 1 .. Top :
       /\ Len(scopes[i].slots) <= SlotMax
       /\ \A j \in DOMAIN scopes[i].slots : scopes[i].slots[j] \in SlotRec
       /\ scopes[i].map \in [Name -> Loc \cup {NoLoc}]
       /\ scopes[i].captured \in BOOLEAN
  /\ content \in [Loc -> Value \cup {Freed}]
  /\ \A i \in DOMAIN frames : frames[i].floor \in 2 .. Top
  /\ closures \in [Closure -> [Name -> Loc \cup {NoLoc}]]
  /\ acc \in Value \cup {Freed}
  /\ status \in {"running", "error"}

ASSUME ScopesAssumption ==
  /\ SlotMax \in Nat \ {0} /\ MaxScopes \in Nat \ {0}
  /\ NoLoc \notin Loc /\ Freed \notin Value /\ Null \in Value
  /\ "main" \notin Fn /\ "closure" \notin Fn
  /\ Param \in [Fn -> Name] /\ Captures \in [Fn -> SUBSET Name]
  /\ LoopVar \in [Fn \cup {"main", "closure"} -> SUBSET Name]
  /\ SiteFn \in [Site -> Fn \cup {"main", "closure"}] /\ SiteName \in [Site -> Name]
  /\ \A s \in Site : SiteFn[s] \in Fn => SiteName[s] # Param[SiteFn[s]]

Init ==
  /\ scopes = <<EmptyScope>>
  /\ content = [l \in Loc |-> Null]
  /\ frames = <<>>
  /\ closures = [k \in Closure |-> Unbound]
  /\ addr_cache = [s \in Site |-> NullAddr]
  /\ acc = Null
  /\ status = "running"

-----------------------------------------------------------------------------
(* Looking a name up.                                                      *)

vm_scope_floor == IF frames = <<>> THEN 1 ELSE frames[Len(frames)].floor

SlotsNamed(i, n) == {j \in DOMAIN scopes[i].slots : scopes[i].slots[j].name = n}
Holds(i, n) == SlotsNamed(i, n) # {} \/ scopes[i].map[n] # NoLoc
Slot(i, n) == CHOOSE j \in SlotsNamed(i, n) : TRUE

(* Mutant: the box of a captured slot is overlooked.                        *)
AddrInNoBox(i, n) ==
  IF SlotsNamed(i, n) = {} THEN BoxAddr(scopes[i].map[n]) ELSE SlotAddr(i, Slot(i, n))

(* One scope's answer: its inline slot, or the slot's box, or the map.       *)
AddrIn(i, n) ==
  IF SlotsNamed(i, n) = {} THEN BoxAddr(scopes[i].map[n])
  ELSE LET s == scopes[i].slots[Slot(i, n)]
       IN IF s.boxed THEN BoxAddr(s.loc) ELSE SlotAddr(i, Slot(i, n))

(* The scopes of the running call, then the global one.                     *)
Visible == {1} \cup (vm_scope_floor .. Top)

vm_scope_get(n) ==
  LET found == {i \in Visible : Holds(i, n)}
  IN IF found = {} THEN NullAddr ELSE AddrIn(Max(found), n)

(* Only a global inline slot that is not boxed is worth caching.            *)
vm_global_slot_address(n) ==
  IF SlotsNamed(1, n) # {} /\ ~scopes[1].slots[Slot(1, n)].boxed
  THEN SlotAddr(1, Slot(1, n)) ELSE NullAddr

Deref(a) == IF a[1] = "val" THEN scopes[a[2]].slots[a[3]].val ELSE content[a[2]]

Write(a, v) ==
  IF a[1] = "val"
  THEN scopes' = [scopes EXCEPT ![a[2]].slots[a[3]].val = v] /\ UNCHANGED content
  ELSE content' = [content EXCEPT ![a[2]] = v] /\ UNCHANGED scopes

(* What a site uses: the cached address if there is one, else the lookup.   *)
Resolve(s) ==
  IF addr_cache[s] # NullAddr THEN addr_cache[s] ELSE vm_scope_get(SiteName[s])

(* Mutant: whatever address the lookup found is kept.                       *)
RememberAny(s) ==
  LET a == Resolve(s) IN
  addr_cache' = IF a # NullAddr THEN [addr_cache EXCEPT ![s] = a] ELSE addr_cache

(* The address a site keeps: the lookup's answer when it is the global slot. *)
Remember(s) ==
  LET a == Resolve(s) IN
  addr_cache' = IF a # NullAddr /\ a = vm_global_slot_address(SiteName[s])
                THEN [addr_cache EXCEPT ![s] = a] ELSE addr_cache

-----------------------------------------------------------------------------
(* Defining names.  A binding gets a location of its own, which is also the *)
(* identity of its box or map payload.                                      *)

LocsOf(i) ==
  {scopes[i].slots[j].loc : j \in DOMAIN scopes[i].slots}
    \cup {scopes[i].map[n] : n \in Name}

InUse ==
  ((UNION {LocsOf(i) : i \in 1 .. Top})
     \cup {frames[i].ups[n] : i \in DOMAIN frames, n \in Name}
     \cup {closures[k][n] : k \in Closure, n \in Name}) \ {NoLoc}

NewSlot(n, l, v) == [name |-> n, loc |-> l, val |-> v, boxed |-> FALSE]

(* vm_scope_define: always in the innermost scope; a full scope spills.     *)
vm_scope_define(n, v) ==
  IF Holds(Top, n) THEN Write(AddrIn(Top, n), v)
  ELSE \E l \in Loc \ InUse :
         IF Len(scopes[Top].slots) < SlotMax
         THEN /\ scopes' = [scopes EXCEPT ![Top].slots = Append(@, NewSlot(n, l, v))]
              /\ UNCHANGED content
         ELSE /\ scopes' = [scopes EXCEPT ![Top].map[n] = l]
              /\ content' = [content EXCEPT ![l] = v]

-----------------------------------------------------------------------------
(* The opcodes.  A name site runs only where the parser put it: in its      *)
(* function, at its block depth.                                            *)

Running == IF frames = <<>> THEN "main" ELSE frames[Len(frames)].fn
At(s) ==
  /\ status = "running"
  /\ SiteFn[s] = Running
  /\ SiteBlock[s] = Top - vm_scope_floor

(* lbl_load, and the operand of a fused name opcode                         *)
Load(s) ==
  /\ At(s)
  /\ Remember(s)
  /\ IF Resolve(s) = NullAddr
     THEN acc' = Null /\ status' = "error"
     ELSE acc' = Deref(Resolve(s)) /\ UNCHANGED status
  /\ UNCHANGED <<scopes, content, frames, closures>>

(* lbl_store                                                                *)
Store(s, v) ==
  /\ At(s)
  /\ IF Resolve(s) # NullAddr
     THEN Write(Resolve(s), v) /\ Remember(s)
     ELSE vm_scope_define(SiteName[s], v) /\ UNCHANGED addr_cache
  /\ UNCHANGED <<frames, closures, acc, status>>

(* lbl_compound_name_const and its kin: the name must exist already.        *)
Compound(s, v) ==
  /\ At(s)
  /\ Remember(s)
  /\ IF Resolve(s) = NullAddr
     THEN status' = "error" /\ UNCHANGED <<scopes, content>>
     ELSE Write(Resolve(s), v) /\ UNCHANGED status
  /\ UNCHANGED <<frames, closures, acc>>

(* lbl_define: a loop variable gets its next item.                          *)
DefineLoopVar(n, v) ==
  /\ status = "running"
  /\ n \in LoopVar[Running]
  /\ vm_scope_define(n, v)
  /\ UNCHANGED <<frames, closures, addr_cache, acc, status>>

(* Mutant: the box of a captured parameter is overlooked.                   *)
ParamAddrInline == SlotAddr(vm_scope_floor, 1)

(* lbl_load_local, lbl_store_local: slot 1 of the call's base scope.        *)
ParamAddr ==
  LET s == scopes[vm_scope_floor].slots[1]
  IN IF s.boxed THEN BoxAddr(s.loc) ELSE SlotAddr(vm_scope_floor, 1)

LoadLocal ==
  /\ status = "running" /\ Running \in Fn
  /\ acc' = Deref(ParamAddr)
  /\ UNCHANGED <<scopes, content, frames, closures, addr_cache, status>>

StoreLocal(v) ==
  /\ status = "running" /\ Running \in Fn
  /\ Write(ParamAddr, v)
  /\ UNCHANGED <<frames, closures, addr_cache, acc, status>>

(* lbl_push_scope, lbl_pop_scope                                            *)
PushScope ==
  /\ status = "running" /\ Top < MaxScopes
  /\ scopes' = Append(scopes, EmptyScope)
  /\ UNCHANGED <<content, frames, closures, addr_cache, acc, status>>

(* Mutant: overflow_has_captures is not consulted.                          *)
PopToFreeing(depth) ==
  LET payloads == {scopes[i].map[n] : i \in depth + 1 .. Top, n \in Name}
  IN /\ scopes' = SubSeq(scopes, 1, depth)
     /\ content' = [l \in Loc |-> IF l \in payloads THEN Freed ELSE content[l]]

(* Popped maps are freed, unless a closure took the address of a payload.   *)
PopTo(depth) ==
  LET gone == {i \in depth + 1 .. Top : ~scopes[i].captured}
      payloads == {scopes[i].map[n] : i \in gone, n \in Name}
  IN /\ scopes' = SubSeq(scopes, 1, depth)
     /\ content' = [l \in Loc |-> IF l \in payloads THEN Freed ELSE content[l]]

PopScope ==
  /\ status = "running" /\ Top > vm_scope_floor
  /\ PopTo(Top - 1)
  /\ UNCHANGED <<frames, closures, addr_cache, acc, status>>

(* lbl_call and the callee's prologue, lbl_push_scope and lbl_define_local. *)
Call(f, v) ==
  /\ status = "running" /\ Top < MaxScopes
  /\ \E l \in Loc \ InUse :
       scopes' = Append(scopes, [EmptyScope EXCEPT !.slots = <<NewSlot(Param[f], l, v)>>])
  /\ frames' = Append(frames, [fn |-> f, floor |-> Top + 1, ups |-> Unbound])
  /\ UNCHANGED <<content, closures, addr_cache, acc, status>>

(* lbl_call_value on a closure, with the prologue.                          *)
CallClosure(k) ==
  /\ status = "running" /\ Top < MaxScopes
  /\ closures[k] # Unbound
  /\ scopes' = Append(scopes, EmptyScope)
  /\ frames' = Append(frames, [fn |-> "closure", floor |-> Top + 1, ups |-> closures[k]])
  /\ UNCHANGED <<content, closures, addr_cache, acc, status>>

(* lbl_return                                                               *)
Return ==
  /\ status = "running" /\ frames # <<>>
  /\ PopTo(vm_scope_floor - 1)
  /\ frames' = SubSeq(frames, 1, Len(frames) - 1)
  /\ UNCHANGED <<closures, addr_cache, acc, status>>

-----------------------------------------------------------------------------
(* Closures.                                                               *)

(* vm_box_slot for every name of ns: an inline slot moves into a box, a map *)
(* payload becomes the box and its scope's map is kept for ever.            *)
HolderOf(n) == Max({i \in Visible : Holds(i, n)})
BoxedSlots(ns) == {<<HolderOf(n), Slot(HolderOf(n), n)>> :
                     n \in {m \in ns : SlotsNamed(HolderOf(m), m) # {}}}
BoxLoc(n) ==
  IF SlotsNamed(HolderOf(n), n) = {} THEN scopes[HolderOf(n)].map[n]
  ELSE scopes[HolderOf(n)].slots[Slot(HolderOf(n), n)].loc

vm_box_slot(ns) ==
  LET fresh == {p \in BoxedSlots(ns) : ~scopes[p[1]].slots[p[2]].boxed}
      spilled == {HolderOf(n) : n \in {m \in ns : SlotsNamed(HolderOf(m), m) = {}}}
      BoxedNow(p) == scopes[p[1]].slots[p[2]]
  IN /\ scopes' = [i \in 1 .. Top |->
          [scopes[i] EXCEPT
             !.slots = [j \in DOMAIN @ |-> IF <<i, j>> \in fresh
                                           THEN [@[j] EXCEPT !.boxed = TRUE] ELSE @[j]],
             !.captured = @ \/ i \in spilled]]
     /\ content' = [l \in Loc |->
          IF \E p \in fresh : BoxedNow(p).loc = l
          THEN BoxedNow(CHOOSE p \in fresh : BoxedNow(p).loc = l).val ELSE content[l]]

(* The OP_CAPTUREs of an anonymous function and the OP_MAKE_CLOSURE after   *)
(* them.  A name that is not defined is an error.                           *)
MakeClosure(k) ==
  /\ status = "running" /\ Running \in Fn
  /\ LET ns == Captures[Running]
         bound == {n \in ns : vm_scope_get(n) # NullAddr}
     IN IF bound = ns
        THEN /\ vm_box_slot(ns)
             /\ closures' = [closures EXCEPT ![k] =
                               [n \in Name |-> IF n \in ns THEN BoxLoc(n) ELSE NoLoc]]
             /\ UNCHANGED status
        ELSE /\ \E done \in SUBSET bound : vm_box_slot(done)
             /\ status' = "error"
             /\ UNCHANGED closures
  /\ UNCHANGED <<frames, addr_cache, acc>>

(* lbl_load_upvalue, lbl_store_upvalue                                      *)
Upvalue(n) == frames # <<>> /\ frames[Len(frames)].ups[n] # NoLoc

LoadUpvalue(n) ==
  /\ status = "running" /\ Upvalue(n)
  /\ acc' = content[frames[Len(frames)].ups[n]]
  /\ UNCHANGED <<scopes, content, frames, closures, addr_cache, status>>

StoreUpvalue(n, v) ==
  /\ status = "running" /\ Upvalue(n)
  /\ content' = [content EXCEPT ![frames[Len(frames)].ups[n]] = v]
  /\ UNCHANGED <<scopes, frames, closures, addr_cache, acc, status>>

(* run() of main.c, before the line after a failed one.                     *)
Restart ==
  /\ status = "error"
  /\ status' = "running"
  /\ frames' = <<>>
  /\ PopTo(1)
  /\ UNCHANGED <<closures, addr_cache, acc>>

-----------------------------------------------------------------------------
NameSteps ==
  \/ \E s \in Site : Load(s) \/ \E v \in Value : Store(s, v) \/ Compound(s, v)
  \/ \E n \in Name, v \in Value : DefineLoopVar(n, v)
  \/ LoadLocal \/ \E v \in Value : StoreLocal(v)

ScopeSteps ==
  \/ PushScope \/ PopScope \/ Return \/ Restart
  \/ \E f \in Fn, v \in Value : Call(f, v)

ClosureSteps ==
  \/ \E k \in Closure : MakeClosure(k) \/ CallClosure(k)
  \/ \E n \in Name : LoadUpvalue(n) \/ \E v \in Value : StoreUpvalue(n, v)

Next == NameSteps \/ ScopeSteps \/ ClosureSteps

Spec == Init /\ [][Next]_vars

-----------------------------------------------------------------------------
(* Properties.                                                             *)

InlineSlots == UNION {{<<i, j>> : j \in DOMAIN scopes[i].slots} : i \in 1 .. Top}
Inline(l) == {p \in InlineSlots : LET s == scopes[p[1]].slots[p[2]]
                                  IN s.loc = l /\ ~s.boxed}
ValueOf(l) ==
  IF Inline(l) = {} THEN content[l]
  ELSE LET p == CHOOSE q \in Inline(l) : TRUE IN scopes[p[1]].slots[p[2]].val

LocIn(i, n) ==
  IF SlotsNamed(i, n) = {} THEN scopes[i].map[n]
  ELSE scopes[i].slots[Slot(i, n)].loc

EnvScopes == [i \in 1 .. Top |-> [n \in Name |-> LocIn(i, n)]]
EnvStore == [l \in InUse |-> ValueOf(l)]
EnvFrames == [i \in DOMAIN frames |-> [floor |-> frames[i].floor, ups |-> frames[i].ups]]

Env == INSTANCE Environment WITH
  env <- EnvScopes, store <- EnvStore, frames <- EnvFrames

(* What overtakes an address that a site keeps for ever: a closer binding   *)
(* of the name, or a closure that moved the global into a box.              *)
Captured(n) == SlotsNamed(1, n) # {} /\ scopes[1].slots[Slot(1, n)].boxed
Shadowed(n) == \E i \in Visible \ {1} : Holds(i, n)

Stale(s) ==
  At(s) /\ addr_cache[s] # NullAddr /\ (Captured(SiteName[s]) \/ Shadowed(SiteName[s]))

(* A hit of such a site reads or writes the global of its name although     *)
(* another binding is in force; or, if the global is captured, the word     *)
(* that its slot had before, which is no variable's any more.               *)
StaleHit(s) ==
  LET g == LocIn(1, SiteName[s]) IN
  /\ Stale(s) /\ UNCHANGED <<EnvScopes, EnvFrames, closures>>
  /\ IF Captured(SiteName[s])
     THEN EnvStore' = EnvStore /\ acc' \in {acc, Deref(addr_cache[s])}
     ELSE \/ EnvStore' = EnvStore /\ acc' = EnvStore[g]
          \/ (\E v \in Value : EnvStore' = [EnvStore EXCEPT ![g] = v]) /\ acc' = acc

(* Inline slots, spilled maps, boxes, parameter slots and cached addresses  *)
(* together behave like Environment: one value per variable, whichever way  *)
(* it is reached, for as long as a scope or a closure holds it.  Only a     *)
(* site whose cached address was overtaken departs from it, and that never  *)
(* reaches a variable of another name, a local one or a captured one.       *)
RefinesEnvironment ==
  Env!Init /\ [][Env!Next \/ \E s \in Site : StaleHit(s)]_(Env!vars)

(* overflow_has_captures: a map payload that a closure took as its box is   *)
(* never freed with the scope it came from (lbl_pop_scope, lbl_return,      *)
(* run()).                                                                  *)
CapturedPayloadNotFreed ==
  \A k \in Closure, n \in Name :
    closures[k][n] # NoLoc => content[closures[k][n]] # Freed

(* vm.h, addr_cache: "No invalidation needed".  Whatever scopes are pushed, *)
(* spilled and popped, by errors too, the address a site has kept stays     *)
(* that of the global slot of its own name, and wins at each visit unless   *)
(* that name is shadowed or captured there by then.                         *)
CachedIsGlobal ==
  \A s \in Site : addr_cache[s] # NullAddr =>
    /\ SlotsNamed(1, SiteName[s]) # {}
    /\ addr_cache[s] = SlotAddr(1, Slot(1, SiteName[s]))
    /\ At(s) /\ ~Stale(s) => addr_cache[s] = vm_scope_get(SiteName[s])

(* README, Inline caching: the binding in force "must keep winning on every *)
(* visit through that site, not just the first one before the cache         *)
(* populated", and every access goes through a captured variable's box.  It *)
(* does not hold (README of this directory, 4).                             *)
CacheHitWins ==
  \A s \in Site : At(s) /\ addr_cache[s] # NullAddr
                    => addr_cache[s] = vm_scope_get(SiteName[s])

(* parser.c, emit_load and emit_store: the opcodes that take a parameter by  *)
(* its slot have "identical behavior" to those that look its name up.        *)
ParamIsLookup ==
  status = "running" /\ Running \in Fn => ParamAddr = vm_scope_get(Param[Running])
=============================================================================
