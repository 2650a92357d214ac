---------------------------- MODULE ScopesProofs ----------------------------
(***************************************************************************)
(* Proofs about the variables of vm.c, for any program, any number of      *)
(* scopes and any size of their inline part.                               *)
(*                                                                         *)
(* A binding has a location of its own (DistinctLocs), and what a closure  *)
(* or a running call of one holds is never the payload of a map that will  *)
(* be freed with its scope (Live): ScopesInv, and CapturedPayloadNotFreed. *)
(* A cached address is that of the global slot of its site's name, and     *)
(* wins until it is overtaken (KeptOk): CacheInv, and CachedIsGlobal.      *)
(* A scope binds a name in one place, what a closure holds is in a box,    *)
(* and a parameter is in the first slot of its call and nowhere else in it *)
(* (LinkOk): LinkInv, and ParamIsLookup.  From these, Scopes refines       *)
(* Environment.                                                            *)
(***************************************************************************)
EXTENDS Scopes, DataFacts

ScopeRec == [slots : Seq(SlotRec), map : [Name -> Loc \cup {NoLoc}], captured : BOOLEAN]
FrameRec == [fn : Fn \cup {"closure"}, floor : Nat, ups : [Name -> Loc \cup {NoLoc}]]

(* Bindings as they are found, whatever the values.                         *)
SameBindings(new, sc) ==
  /\ new \in Seq(ScopeRec) /\ Len(new) = Len(sc)
  /\ \A i \in 1 .. Len(sc) :
       /\ new[i].map = sc[i].map /\ new[i].captured = sc[i].captured
       /\ Len(new[i].slots) = Len(sc[i].slots)
       /\ \A j \in 1 .. Len(sc[i].slots) :
            /\ new[i].slots[j].name = sc[i].slots[j].name
            /\ new[i].slots[j].loc = sc[i].slots[j].loc
            /\ new[i].slots[j].boxed = sc[i].slots[j].boxed

(* No two bindings share a location.                                        *)
DistinctSlots(sc) ==
  \A i, k \in 1 .. Len(sc) :
    \A j \in 1 .. Len(sc[i].slots), m \in 1 .. Len(sc[k].slots) :
      sc[i].slots[j].loc = sc[k].slots[m].loc => i = k /\ j = m
SlotsOffMaps(sc) ==
  \A i, k \in 1 .. Len(sc) : \A j \in 1 .. Len(sc[i].slots), n \in Name :
    sc[i].slots[j].loc # sc[k].map[n]
DistinctPayloads(sc) ==
  \A i, k \in 1 .. Len(sc) : \A m, n \in Name :
    sc[i].map[m] = sc[k].map[n] /\ sc[i].map[m] # NoLoc => i = k /\ m = n
DistinctLocs(sc) == DistinctSlots(sc) /\ SlotsOffMaps(sc) /\ DistinctPayloads(sc)

(* The locations that closures and running calls of closures hold.          *)
HeldBy(fr, cl) ==
  ({cl[k][n] : k \in Closure, n \in Name} \cup {fr[i].ups[n] : i \in DOMAIN fr, n \in Name})
    \ {NoLoc}

(* What will be freed is held by nobody, and what is freed is used by       *)
(* nobody.                                                                  *)
HeldSafe(sc, ct, held) ==
  \A l \in held : ct[l] # Freed /\ \A i \in 1 .. Len(sc) : \A n \in Name :
                                     sc[i].map[n] = l => sc[i].captured
PayloadsLive(sc, ct) ==
  \A i \in 1 .. Len(sc) : \A n \in Name : sc[i].map[n] # NoLoc => ct[sc[i].map[n]] # Freed
BoxesLive(sc, ct) ==
  \A i \in 1 .. Len(sc) : \A j \in 1 .. Len(sc[i].slots) :
    sc[i].slots[j].boxed => ct[sc[i].slots[j].loc] # Freed
Live(sc, ct, held) == HeldSafe(sc, ct, held) /\ PayloadsLive(sc, ct) /\ BoxesLive(sc, ct)

Contents == [Loc -> Value \cup {Freed}]

-----------------------------------------------------------------------------
(* Scopes as data.                                                          *)

LEMMA ScopeFacts ==
  ASSUME NEW sc \in Seq(ScopeRec)
  PROVE  /\ Len(sc) \in Nat /\ DOMAIN sc = 1 .. Len(sc)
         /\ \A i \in 1 .. Len(sc) :
              /\ sc[i] \in ScopeRec
              /\ sc[i].slots \in Seq(SlotRec) /\ Len(sc[i].slots) \in Nat
              /\ DOMAIN sc[i].slots = 1 .. Len(sc[i].slots)
              /\ sc[i].map \in [Name -> Loc \cup {NoLoc}] /\ sc[i].captured \in BOOLEAN
              /\ \A j \in 1 .. Len(sc[i].slots) :
                   /\ sc[i].slots[j] \in SlotRec
                   /\ sc[i].slots[j].name \in Name /\ sc[i].slots[j].loc \in Loc
                   /\ sc[i].slots[j].loc # NoLoc /\ sc[i].slots[j].val \in Value
                   /\ sc[i].slots[j].boxed \in BOOLEAN
<1>1. Len(sc) \in Nat /\ DOMAIN sc = 1 .. Len(sc) /\ \A i \in 1 .. Len(sc) : sc[i] \in ScopeRec
  BY SeqFacts
<1>2. ASSUME NEW r \in ScopeRec
      PROVE  /\ r.slots \in Seq(SlotRec) /\ Len(r.slots) \in Nat
             /\ DOMAIN r.slots = 1 .. Len(r.slots)
             /\ r.map \in [Name -> Loc \cup {NoLoc}] /\ r.captured \in BOOLEAN
             /\ \A j \in 1 .. Len(r.slots) : r.slots[j] \in SlotRec
  <2>1. /\ r.slots \in Seq(SlotRec) /\ r.map \in [Name -> Loc \cup {NoLoc}]
        /\ r.captured \in BOOLEAN
    BY DEF ScopeRec
  <2> QED BY <2>1, SeqFacts
<1>3. \A s \in SlotRec : /\ s.name \in Name /\ s.loc \in Loc /\ s.loc # NoLoc
                         /\ s.val \in Value /\ s.boxed \in BOOLEAN
  BY ScopesAssumption DEF SlotRec
<1> QED BY <1>1, <1>2, <1>3

LEMMA SameKeepsDistinct ==
  ASSUME NEW sc, NEW new, SameBindings(new, sc), DistinctLocs(sc)
  PROVE  DistinctLocs(new)
<1>1. DistinctSlots(new)
  <2> SUFFICES ASSUME NEW i \in 1 .. Len(new), NEW k \in 1 .. Len(new),
                      NEW j \in 1 .. Len(new[i].slots), NEW m \in 1 .. Len(new[k].slots),
                      new[i].slots[j].loc = new[k].slots[m].loc
               PROVE  i = k /\ j = m
    BY DEF DistinctSlots
  <2>1. i \in 1 .. Len(sc) /\ k \in 1 .. Len(sc)
    BY DEF SameBindings
  <2>2. /\ j \in 1 .. Len(sc[i].slots) /\ new[i].slots[j].loc = sc[i].slots[j].loc
        /\ m \in 1 .. Len(sc[k].slots) /\ new[k].slots[m].loc = sc[k].slots[m].loc
    BY <2>1 DEF SameBindings
  <2>3. sc[i].slots[j].loc = sc[k].slots[m].loc
    BY <2>2
  <2> QED BY <2>1, <2>2, <2>3, SMTT(30) DEF DistinctLocs, DistinctSlots
<1>2. SlotsOffMaps(new)
  <2> SUFFICES ASSUME NEW i \in 1 .. Len(new), NEW k \in 1 .. Len(new),
                      NEW j \in 1 .. Len(new[i].slots), NEW n \in Name
               PROVE  new[i].slots[j].loc # new[k].map[n]
    BY DEF SlotsOffMaps
  <2>1. i \in 1 .. Len(sc) /\ k \in 1 .. Len(sc) /\ j \in 1 .. Len(sc[i].slots)
    BY DEF SameBindings
  <2>2. new[i].slots[j].loc = sc[i].slots[j].loc /\ new[k].map = sc[k].map
    BY <2>1 DEF SameBindings
  <2> QED BY <2>1, <2>2 DEF DistinctLocs, SlotsOffMaps
<1>3. DistinctPayloads(new)
  BY DEF SameBindings, DistinctLocs, DistinctPayloads
<1> QED BY <1>1, <1>2, <1>3 DEF DistinctLocs

(* Writing a value through an address that a lookup gives.                  *)
WrittenSlot(sc, i, j, v) == [sc EXCEPT ![i].slots[j].val = v]

LEMMA WriteSlotFacts ==
  ASSUME NEW sc \in Seq(ScopeRec), NEW i \in 1 .. Len(sc), NEW j \in 1 .. Len(sc[i].slots),
         NEW v \in Value
  PROVE  SameBindings(WrittenSlot(sc, i, j, v), sc)
<1> DEFINE new == WrittenSlot(sc, i, j, v)
           r == [sc[i] EXCEPT !.slots[j].val = v]
           ss == [sc[i].slots EXCEPT ![j].val = v]
<1>1. sc[i] \in ScopeRec /\ sc[i].slots \in Seq(SlotRec) /\ Len(sc) \in Nat
      /\ Len(sc[i].slots) \in Nat
      /\ \A k \in 1 .. Len(sc) : sc[k] \in ScopeRec
      /\ \A m \in 1 .. Len(sc[i].slots) : sc[i].slots[m] \in SlotRec
  BY ScopeFacts
<1>2. /\ ss \in Seq(SlotRec) /\ Len(ss) = Len(sc[i].slots)
      /\ \A m \in 1 .. Len(sc[i].slots) :
           /\ ss[m].name = sc[i].slots[m].name /\ ss[m].loc = sc[i].slots[m].loc
           /\ ss[m].boxed = sc[i].slots[m].boxed
  <2>1. [sc[i].slots[j] EXCEPT !.val = v] \in SlotRec
    BY <1>1 DEF SlotRec
  <2>2. ss = [sc[i].slots EXCEPT ![j] = [sc[i].slots[j] EXCEPT !.val = v]]
    OBVIOUS
  <2>3. \A m \in 1 .. Len(sc[i].slots) :
          ss[m] = IF m = j THEN [sc[i].slots[j] EXCEPT !.val = v] ELSE sc[i].slots[m]
    BY <1>1, <2>2
  <2>4. ss \in Seq(SlotRec) /\ Len(ss) = Len(sc[i].slots)
    <3> HIDE DEF ss
    <3> QED BY <1>1, <2>1, <2>2
  <2>5. LET s == [sc[i].slots[j] EXCEPT !.val = v] IN
        /\ s.name = sc[i].slots[j].name /\ s.loc = sc[i].slots[j].loc
        /\ s.boxed = sc[i].slots[j].boxed
    BY <1>1 DEF SlotRec
  <2> HIDE DEF ss
  <2> QED BY <2>3, <2>4, <2>5
<1>3. r = [sc[i] EXCEPT !.slots = ss]
  OBVIOUS
<1> HIDE DEF ss
<1>4. r \in ScopeRec /\ r.slots = ss /\ r.map = sc[i].map /\ r.captured = sc[i].captured
  BY <1>1, <1>2, <1>3 DEF ScopeRec
<1>5. new = [sc EXCEPT ![i] = r]
  BY DEF WrittenSlot
<1> HIDE DEF r, new
<1>6. new \in Seq(ScopeRec) /\ Len(new) = Len(sc)
      /\ \A k \in 1 .. Len(sc) : new[k] = IF k = i THEN r ELSE sc[k]
  BY <1>1, <1>4, <1>5
<1>7. \A k \in 1 .. Len(sc) :
        /\ new[k].map = sc[k].map /\ new[k].captured = sc[k].captured
        /\ Len(new[k].slots) = Len(sc[k].slots)
        /\ \A m \in 1 .. Len(sc[k].slots) :
             /\ new[k].slots[m].name = sc[k].slots[m].name
             /\ new[k].slots[m].loc = sc[k].slots[m].loc
             /\ new[k].slots[m].boxed = sc[k].slots[m].boxed
  BY <1>2, <1>4, <1>6
<1> QED BY <1>6, <1>7 DEF SameBindings, new

LEMMA SameKeepsLive ==
  ASSUME NEW sc, NEW new, NEW ct, NEW held, SameBindings(new, sc), Live(sc, ct, held)
  PROVE  Live(new, ct, held)
<1>1. HeldSafe(new, ct, held)
  <2> SUFFICES ASSUME NEW l \in held
               PROVE  ct[l] # Freed /\ \A i \in 1 .. Len(new) : \A n \in Name :
                                         new[i].map[n] = l => new[i].captured
    BY DEF HeldSafe
  <2>1. ct[l] # Freed /\ \A i \in 1 .. Len(sc) : \A n \in Name : sc[i].map[n] = l => sc[i].captured
    BY DEF Live, HeldSafe
  <2> QED BY <2>1 DEF SameBindings
<1>2. PayloadsLive(new, ct)
  BY DEF SameBindings, Live, PayloadsLive
<1>3. BoxesLive(new, ct)
  <2> SUFFICES ASSUME NEW i \in 1 .. Len(new), NEW j \in 1 .. Len(new[i].slots),
                      new[i].slots[j].boxed
               PROVE  ct[new[i].slots[j].loc] # Freed
    BY DEF BoxesLive
  <2>1. i \in 1 .. Len(sc) /\ j \in 1 .. Len(sc[i].slots)
    BY DEF SameBindings
  <2>2. new[i].slots[j].loc = sc[i].slots[j].loc /\ sc[i].slots[j].boxed
    BY <2>1 DEF SameBindings
  <2> QED BY <2>1, <2>2 DEF Live, BoxesLive
<1> QED BY <1>1, <1>2, <1>3 DEF Live

(* A value written to a location frees nothing.                             *)
LEMMA WriteBoxFacts ==
  ASSUME NEW sc \in Seq(ScopeRec), NEW ct \in Contents, NEW held \in SUBSET Loc,
         NEW l \in Loc, NEW v \in Value, Live(sc, ct, held)
  PROVE  LET new == [ct EXCEPT ![l] = v] IN new \in Contents /\ Live(sc, new, held)
<1> DEFINE new == [ct EXCEPT ![l] = v]
<1>1. new \in Contents /\ \A k \in Loc : new[k] = IF k = l THEN v ELSE ct[k]
  BY DEF Contents
<1>2. v # Freed
  BY ScopesAssumption
<1> HIDE DEF new
<1>3. \A k \in Loc : ct[k] # Freed => new[k] # Freed
  BY <1>1, <1>2
<1>4. HeldSafe(sc, new, held)
  BY <1>3 DEF Live, HeldSafe
<1>5. PayloadsLive(sc, new)
  <2>1. \A i \in 1 .. Len(sc) : \A n \in Name : sc[i].map[n] # NoLoc => sc[i].map[n] \in Loc
    BY ScopeFacts
  <2> QED BY <1>3, <2>1 DEF Live, PayloadsLive
<1>6. BoxesLive(sc, new)
  <2>1. \A i \in 1 .. Len(sc) : \A j \in 1 .. Len(sc[i].slots) : sc[i].slots[j].loc \in Loc
    BY ScopeFacts
  <2> QED BY <1>3, <2>1 DEF Live, BoxesLive
<1> QED BY <1>1, <1>4, <1>5, <1>6 DEF Live, new

(* No binding has the location, and nothing holds it.                       *)
Fresh(l, sc, held) ==
  /\ l \in Loc \ held
  /\ \A i \in 1 .. Len(sc) : /\ \A j \in 1 .. Len(sc[i].slots) : sc[i].slots[j].loc # l
                             /\ \A n \in Name : sc[i].map[n] # l

(* A new inline slot of the innermost scope.                                *)
SlotAdded(sc, n, l, v) == [sc EXCEPT ![Len(sc)].slots = Append(@, NewSlot(n, l, v))]

LEMMA SlotAddedShape ==
  ASSUME NEW sc \in Seq(ScopeRec), sc # <<>>, NEW n \in Name, NEW l \in Loc, NEW v \in Value
  PROVE  LET new == SlotAdded(sc, n, l, v)
             t == Len(sc)
             m == Len(sc[t].slots) + 1
         IN /\ t \in Nat \ {0} /\ m \in Nat \ {0}
            /\ new \in Seq(ScopeRec) /\ Len(new) = t
            /\ \A i \in 1 .. t : i # t => new[i] = sc[i]
            /\ new[t].map = sc[t].map /\ new[t].captured = sc[t].captured
            /\ Len(new[t].slots) = m
            /\ \A j \in 1 .. m - 1 : new[t].slots[j] = sc[t].slots[j]
            /\ new[t].slots[m] = NewSlot(n, l, v)
<1> DEFINE new == SlotAdded(sc, n, l, v)
           t == Len(sc)
           s == NewSlot(n, l, v)
           ss == Append(sc[t].slots, s)
           r == [sc[t] EXCEPT !.slots = ss]
<1>1. t \in Nat \ {0} /\ t \in 1 .. t
  BY SeqFacts
<1>2. sc[t] \in ScopeRec /\ sc[t].slots \in Seq(SlotRec)
  BY <1>1, ScopeFacts
<1>3. s \in SlotRec
  BY DEF NewSlot, SlotRec
<1> HIDE DEF s
<1>4. /\ ss \in Seq(SlotRec) /\ Len(sc[t].slots) \in Nat /\ Len(ss) = Len(sc[t].slots) + 1
      /\ \A j \in 1 .. Len(sc[t].slots) : ss[j] = sc[t].slots[j]
      /\ ss[Len(sc[t].slots) + 1] = s
  BY <1>2, <1>3, AppendFacts
<1> HIDE DEF ss
<1>5. r \in ScopeRec /\ r.slots = ss /\ r.map = sc[t].map /\ r.captured = sc[t].captured
  BY <1>2, <1>4 DEF ScopeRec
<1>6. new = [sc EXCEPT ![t] = r]
  BY DEF SlotAdded, s, ss
<1> HIDE DEF r, new, t
<1>7. /\ new \in Seq(ScopeRec) /\ Len(new) = t
      /\ \A i \in 1 .. t : new[i] = IF i = t THEN r ELSE sc[i]
  BY <1>1, <1>5, <1>6 DEF t
<1>8. Len(new[t].slots) = Len(sc[t].slots) + 1 /\ Len(sc[t].slots) + 1 \in Nat \ {0}
      /\ new[t].slots = ss
  BY <1>1, <1>4, <1>5, <1>7
<1>9. \A j \in 1 .. Len(sc[t].slots) + 1 - 1 : new[t].slots[j] = sc[t].slots[j]
  BY <1>4, <1>8
<1>10. new[t].slots[Len(sc[t].slots) + 1] = s
  BY <1>4, <1>8
<1>11. \A i \in 1 .. t : i # t => new[i] = sc[i]
  BY <1>7
<1>12. new[t].map = sc[t].map /\ new[t].captured = sc[t].captured
  BY <1>1, <1>5, <1>7
<1> QED BY <1>1, <1>7, <1>8, <1>9, <1>10, <1>11, <1>12 DEF new, t, s

LEMMA SlotAddedKeeps ==
  ASSUME NEW sc \in Seq(ScopeRec), sc # <<>>, NEW n \in Name, NEW l, NEW v \in Value,
         NEW ct, NEW held, Fresh(l, sc, held), DistinctLocs(sc), Live(sc, ct, held)
  PROVE  LET new == SlotAdded(sc, n, l, v) IN DistinctLocs(new) /\ Live(new, ct, held)
<1> DEFINE new == SlotAdded(sc, n, l, v)
           t == Len(sc)
           m == Len(sc[t].slots) + 1
<1>1. l \in Loc /\ l # NoLoc
  BY ScopesAssumption DEF Fresh
<1>2. /\ t \in Nat \ {0} /\ m \in Nat \ {0}
      /\ new \in Seq(ScopeRec) /\ Len(new) = t
      /\ \A i \in 1 .. t : i # t => new[i] = sc[i]
      /\ new[t].map = sc[t].map /\ new[t].captured = sc[t].captured
      /\ Len(new[t].slots) = m
      /\ \A j \in 1 .. m - 1 : new[t].slots[j] = sc[t].slots[j]
      /\ new[t].slots[m] = NewSlot(n, l, v)
  BY <1>1, SlotAddedShape
<1>3. NewSlot(n, l, v).loc = l /\ NewSlot(n, l, v).boxed = FALSE
  BY DEF NewSlot
<1>4. \A i \in 1 .. t : Len(sc[i].slots) \in Nat
  BY ScopeFacts
<1> HIDE DEF new
(* A slot is the new one or was there.                                      *)
<1>5. \A i \in 1 .. t : \A j \in 1 .. Len(new[i].slots) :
        \/ i = t /\ j = m /\ new[i].slots[j].loc = l /\ ~new[i].slots[j].boxed
        \/ ~(i = t /\ j = m) /\ j \in 1 .. Len(sc[i].slots) /\ new[i].slots[j] = sc[i].slots[j]
  <2>1. ASSUME NEW i \in 1 .. t, NEW j \in 1 .. Len(new[i].slots), i # t
        PROVE  j \in 1 .. Len(sc[i].slots) /\ new[i].slots[j] = sc[i].slots[j]
    BY <1>2, <2>1
  <2>2. ASSUME NEW j \in 1 .. Len(new[t].slots), j # m
        PROVE  j \in 1 .. Len(sc[t].slots) /\ new[t].slots[j] = sc[t].slots[j]
    <3>1. j \in 1 .. m - 1
      BY <1>2, <2>2
    <3>2. m - 1 = Len(sc[t].slots)
      BY <1>2, <1>4
    <3> QED BY <1>2, <3>1, <3>2
  <2>3. new[t].slots[m].loc = l /\ ~new[t].slots[m].boxed
    BY <1>2, <1>3
  <2> QED BY <2>1, <2>2, <2>3
<1> HIDE DEF m
<1>6. \A i \in 1 .. t : new[i].map = sc[i].map /\ new[i].captured = sc[i].captured
  BY <1>2
<1>7. DistinctSlots(new)
  <2> SUFFICES ASSUME NEW i \in 1 .. t, NEW k \in 1 .. t,
                      NEW a \in 1 .. Len(new[i].slots), NEW b \in 1 .. Len(new[k].slots),
                      new[i].slots[a].loc = new[k].slots[b].loc
               PROVE  i = k /\ a = b
    BY <1>2 DEF DistinctSlots
  <2>1. \/ i = t /\ a = m /\ new[i].slots[a].loc = l
        \/ ~(i = t /\ a = m) /\ a \in 1 .. Len(sc[i].slots) /\ new[i].slots[a] = sc[i].slots[a]
    BY <1>5
  <2>2. \/ k = t /\ b = m /\ new[k].slots[b].loc = l
        \/ ~(k = t /\ b = m) /\ b \in 1 .. Len(sc[k].slots) /\ new[k].slots[b] = sc[k].slots[b]
    BY <1>5
  <2>3. \A x \in 1 .. Len(sc[i].slots) : sc[i].slots[x].loc # l
    BY DEF Fresh
  <2>4. \A x \in 1 .. Len(sc[k].slots) : sc[k].slots[x].loc # l
    BY DEF Fresh
  <2>5. \A x \in 1 .. Len(sc[i].slots), y \in 1 .. Len(sc[k].slots) :
          sc[i].slots[x].loc = sc[k].slots[y].loc => i = k /\ x = y
    BY DEF DistinctLocs, DistinctSlots
  <2> QED BY <2>1, <2>2, <2>3, <2>4, <2>5
<1>8. SlotsOffMaps(new)
  <2> SUFFICES ASSUME NEW i \in 1 .. t, NEW k \in 1 .. t,
                      NEW a \in 1 .. Len(new[i].slots), NEW x \in Name
               PROVE  new[i].slots[a].loc # sc[k].map[x]
    BY <1>2, <1>6 DEF SlotsOffMaps
  <2>1. CASE i = t /\ a = m
    BY <1>5, <2>1 DEF Fresh
  <2>2. CASE ~(i = t /\ a = m)
    <3>1. a \in 1 .. Len(sc[i].slots) /\ new[i].slots[a] = sc[i].slots[a]
      BY <1>5, <2>2
    <3> QED BY <3>1 DEF DistinctLocs, SlotsOffMaps
  <2> QED BY <2>1, <2>2
<1>9. DistinctPayloads(new)
  BY <1>2, <1>6 DEF DistinctLocs, DistinctPayloads
<1>10. HeldSafe(new, ct, held)
  BY <1>2, <1>6 DEF Live, HeldSafe
<1>11. PayloadsLive(new, ct)
  BY <1>2, <1>6 DEF Live, PayloadsLive
<1>12. BoxesLive(new, ct)
  <2> SUFFICES ASSUME NEW i \in 1 .. t, NEW j \in 1 .. Len(new[i].slots), new[i].slots[j].boxed
               PROVE  ct[new[i].slots[j].loc] # Freed
    BY <1>2 DEF BoxesLive
  <2>1. j \in 1 .. Len(sc[i].slots) /\ new[i].slots[j] = sc[i].slots[j]
    BY <1>5
  <2> QED BY <2>1 DEF Live, BoxesLive
<1> QED BY <1>7, <1>8, <1>9, <1>10, <1>11, <1>12 DEF DistinctLocs, Live, new

(* A new payload of the innermost scope's map.                              *)
PayloadAdded(sc, n, l) == [sc EXCEPT ![Len(sc)].map[n] = l]

LEMMA PayloadAddedShape ==
  ASSUME NEW sc \in Seq(ScopeRec), sc # <<>>, NEW n \in Name, NEW l \in Loc
  PROVE  LET new == PayloadAdded(sc, n, l)
             t == Len(sc)
         IN /\ t \in Nat \ {0} /\ new \in Seq(ScopeRec) /\ Len(new) = t
            /\ \A i \in 1 .. t : /\ new[i].slots = sc[i].slots /\ new[i].captured = sc[i].captured
                                 /\ \A x \in Name : new[i].map[x] =
                                      IF i = t /\ x = n THEN l ELSE sc[i].map[x]
<1> DEFINE new == PayloadAdded(sc, n, l)
           t == Len(sc)
           mp == [sc[t].map EXCEPT ![n] = l]
           r == [sc[t] EXCEPT !.map = mp]
<1>1. t \in Nat \ {0} /\ t \in 1 .. t
  BY SeqFacts
<1>2. sc[t] \in ScopeRec /\ sc[t].map \in [Name -> Loc \cup {NoLoc}]
  BY <1>1, ScopeFacts
<1>3. mp \in [Name -> Loc \cup {NoLoc}] /\ \A x \in Name : mp[x] = IF x = n THEN l ELSE sc[t].map[x]
  BY <1>2
<1> HIDE DEF mp
<1>4. r \in ScopeRec /\ r.slots = sc[t].slots /\ r.map = mp /\ r.captured = sc[t].captured
  BY <1>2, <1>3 DEF ScopeRec
<1>5. new = [sc EXCEPT ![t] = r]
  BY DEF PayloadAdded, mp
<1> HIDE DEF r, new, t
<1>6. /\ new \in Seq(ScopeRec) /\ Len(new) = t
      /\ \A i \in 1 .. t : new[i] = IF i = t THEN r ELSE sc[i]
  BY <1>1, <1>4, <1>5 DEF t
<1>7. \A i \in 1 .. t : /\ new[i].slots = sc[i].slots /\ new[i].captured = sc[i].captured
                        /\ \A x \in Name : new[i].map[x] =
                             IF i = t /\ x = n THEN l ELSE sc[i].map[x]
  BY <1>3, <1>4, <1>6
<1> QED BY <1>1, <1>6, <1>7 DEF new, t

LEMMA PayloadAddedKeeps ==
  ASSUME NEW sc \in Seq(ScopeRec), sc # <<>>, NEW n \in Name, NEW l, NEW v \in Value,
         NEW ct \in Contents, NEW held \in SUBSET Loc, Fresh(l, sc, held),
         DistinctLocs(sc), Live(sc, ct, held)
  PROVE  LET new == PayloadAdded(sc, n, l) IN
         DistinctLocs(new) /\ Live(new, [ct EXCEPT ![l] = v], held)
<1> DEFINE new == PayloadAdded(sc, n, l)
           t == Len(sc)
           nc == [ct EXCEPT ![l] = v]
<1>1. l \in Loc /\ l # NoLoc /\ v # Freed /\ l \notin held
  BY ScopesAssumption DEF Fresh
<1>2. /\ t \in Nat \ {0} /\ new \in Seq(ScopeRec) /\ Len(new) = t
      /\ \A i \in 1 .. t : /\ new[i].slots = sc[i].slots /\ new[i].captured = sc[i].captured
                           /\ \A x \in Name : new[i].map[x] =
                                IF i = t /\ x = n THEN l ELSE sc[i].map[x]
  BY <1>1, PayloadAddedShape
<1>3. \A k \in Loc : nc[k] = IF k = l THEN v ELSE ct[k]
  BY DEF Contents
<1>4. Live(sc, nc, held)
  BY <1>1, WriteBoxFacts
<1> HIDE DEF new, nc
<1>5. DistinctSlots(new)
  <2> SUFFICES ASSUME NEW i \in 1 .. t, NEW k \in 1 .. t,
                      NEW a \in 1 .. Len(new[i].slots), NEW b \in 1 .. Len(new[k].slots),
                      new[i].slots[a].loc = new[k].slots[b].loc
               PROVE  i = k /\ a = b
    BY <1>2 DEF DistinctSlots
  <2>1. new[i].slots = sc[i].slots /\ new[k].slots = sc[k].slots
    BY <1>2
  <2> QED BY <2>1 DEF DistinctLocs, DistinctSlots
<1>6. SlotsOffMaps(new)
  <2> SUFFICES ASSUME NEW i \in 1 .. t, NEW k \in 1 .. t,
                      NEW a \in 1 .. Len(sc[i].slots), NEW x \in Name
               PROVE  sc[i].slots[a].loc # new[k].map[x]
    BY <1>2 DEF SlotsOffMaps
  <2>1. CASE k = t /\ x = n
    BY <1>2, <2>1 DEF Fresh
  <2>2. CASE ~(k = t /\ x = n)
    BY <1>2, <2>2 DEF DistinctLocs, SlotsOffMaps
  <2> QED BY <2>1, <2>2
<1>7. DistinctPayloads(new)
  <2> SUFFICES ASSUME NEW i \in 1 .. t, NEW k \in 1 .. t, NEW x \in Name, NEW y \in Name,
                      new[i].map[x] = new[k].map[y], new[i].map[x] # NoLoc
               PROVE  i = k /\ x = y
    BY <1>2 DEF DistinctPayloads
  <2>1. CASE (i = t /\ x = n) \/ (k = t /\ y = n)
    BY <1>2, <2>1 DEF Fresh
  <2>2. CASE ~(i = t /\ x = n) /\ ~(k = t /\ y = n)
    <3>1. new[i].map[x] = sc[i].map[x] /\ new[k].map[y] = sc[k].map[y]
      BY <1>2, <2>2
    <3>2. \A p, q \in Name : sc[i].map[p] = sc[k].map[q] /\ sc[i].map[p] # NoLoc => i = k /\ p = q
      BY DEF DistinctLocs, DistinctPayloads
    <3> QED BY <3>1, <3>2
  <2> QED BY <2>1, <2>2
<1>8. HeldSafe(new, nc, held)
  BY <1>1, <1>2, <1>4 DEF Live, HeldSafe
<1>9. PayloadsLive(new, nc)
  BY <1>1, <1>2, <1>3, <1>4 DEF Live, PayloadsLive
<1>10. BoxesLive(new, nc)
  BY <1>2, <1>4 DEF Live, BoxesLive
<1> QED BY <1>5, <1>6, <1>7, <1>8, <1>9, <1>10 DEF DistinctLocs, Live, new, nc

-----------------------------------------------------------------------------
(* Opening and dropping scopes.                                             *)

(* A scope that is opened: of a block, or of a call with its parameter.     *)
ParamScope(n, l, v) == [EmptyScope EXCEPT !.slots = <<NewSlot(n, l, v)>>]

LEMMA EmptyScopeFacts ==
  /\ EmptyScope \in ScopeRec /\ EmptyScope.slots = <<>> /\ Len(EmptyScope.slots) = 0
  /\ EmptyScope.captured = FALSE /\ \A n \in Name : EmptyScope.map[n] = NoLoc
<1>1. <<>> \in Seq(SlotRec) /\ Unbound \in [Name -> Loc \cup {NoLoc}]
  BY DEF Unbound
<1> QED BY <1>1 DEF EmptyScope, ScopeRec, Unbound

LEMMA ParamScopeFacts ==
  ASSUME NEW n \in Name, NEW l \in Loc, NEW v \in Value
  PROVE  LET s == ParamScope(n, l, v) IN
         /\ s \in ScopeRec /\ s.slots = <<NewSlot(n, l, v)>> /\ Len(s.slots) = 1
         /\ s.slots[1] = NewSlot(n, l, v)
         /\ s.captured = FALSE /\ \A x \in Name : s.map[x] = NoLoc
<1>1. NewSlot(n, l, v) \in SlotRec
  BY DEF NewSlot, SlotRec
<1> DEFINE w == NewSlot(n, l, v)
<1> HIDE DEF w
<1>2. <<w>> \in Seq(SlotRec) /\ Len(<<w>>) = 1 /\ <<w>>[1] = w
  BY <1>1 DEF w
<1>3. ParamScope(n, l, v) = [EmptyScope EXCEPT !.slots = <<w>>]
  BY DEF ParamScope, w
<1> QED BY <1>2, <1>3, EmptyScopeFacts DEF ScopeRec, w

LEMMA EmptyPushed ==
  ASSUME NEW sc \in Seq(ScopeRec), NEW ct, NEW held \in SUBSET Loc,
         DistinctLocs(sc), Live(sc, ct, held)
  PROVE  LET new == Append(sc, EmptyScope) IN
         /\ new \in Seq(ScopeRec) /\ Len(new) = Len(sc) + 1
         /\ DistinctLocs(new) /\ Live(new, ct, held)
<1> DEFINE new == Append(sc, EmptyScope)
           t == Len(sc)
<1>1. EmptyScope \in ScopeRec
  BY EmptyScopeFacts
<1>2. /\ new \in Seq(ScopeRec) /\ t \in Nat /\ Len(new) = t + 1
      /\ \A i \in 1 .. t : new[i] = sc[i]
      /\ new[t + 1] = EmptyScope
  BY <1>1, AppendFacts
<1> HIDE DEF new, t
<1>3. \A i \in 1 .. t + 1 : (\E x \in 1 .. Len(new[i].slots) : TRUE) => i \in 1 .. t
  <2>1. \A x : x \notin 1 .. Len(EmptyScope.slots)
    BY EmptyScopeFacts
  <2> QED BY <1>2, <2>1
<1>4. \A i \in 1 .. t + 1 : \A n \in Name : new[i].map[n] # NoLoc => i \in 1 .. t
  BY <1>2, EmptyScopeFacts
<1>5. DistinctSlots(new)
  <2> SUFFICES ASSUME NEW i \in 1 .. t + 1, NEW k \in 1 .. t + 1,
                      NEW a \in 1 .. Len(new[i].slots), NEW b \in 1 .. Len(new[k].slots),
                      new[i].slots[a].loc = new[k].slots[b].loc
               PROVE  i = k /\ a = b
    BY <1>2 DEF DistinctSlots
  <2>1. i \in 1 .. t /\ k \in 1 .. t
    BY <1>3
  <2>2. new[i] = sc[i] /\ new[k] = sc[k]
    BY <1>2, <2>1
  <2> QED BY <2>1, <2>2 DEF DistinctLocs, DistinctSlots, t
<1>6. SlotsOffMaps(new)
  <2> SUFFICES ASSUME NEW i \in 1 .. t + 1, NEW k \in 1 .. t + 1,
                      NEW a \in 1 .. Len(new[i].slots), NEW x \in Name
               PROVE  new[i].slots[a].loc # new[k].map[x]
    BY <1>2 DEF SlotsOffMaps
  <2>1. i \in 1 .. t /\ new[i] = sc[i]
    BY <1>2, <1>3
  <2>2. sc[i].slots[a].loc # NoLoc
    BY <2>1, ScopeFacts DEF t
  <2>3. CASE k \in 1 .. t
    <3>1. new[k] = sc[k]
      BY <1>2, <2>3
    <3> QED BY <2>1, <2>3, <3>1 DEF DistinctLocs, SlotsOffMaps, t
  <2>4. CASE k \notin 1 .. t
    BY <1>4, <2>1, <2>2, <2>4
  <2> QED BY <2>3, <2>4
<1>7. DistinctPayloads(new)
  <2> SUFFICES ASSUME NEW i \in 1 .. t + 1, NEW k \in 1 .. t + 1, NEW x \in Name, NEW y \in Name,
                      new[i].map[x] = new[k].map[y], new[i].map[x] # NoLoc
               PROVE  i = k /\ x = y
    BY <1>2 DEF DistinctPayloads
  <2>1. i \in 1 .. t /\ k \in 1 .. t
    BY <1>4
  <2>2. new[i] = sc[i] /\ new[k] = sc[k]
    BY <1>2, <2>1
  <2>3. \A p, q \in Name : sc[i].map[p] = sc[k].map[q] /\ sc[i].map[p] # NoLoc => i = k /\ p = q
    BY <2>1 DEF DistinctLocs, DistinctPayloads, t
  <2> QED BY <2>2, <2>3
<1>8. HeldSafe(new, ct, held)
  <2> SUFFICES ASSUME NEW l \in held
               PROVE  ct[l] # Freed /\ \A i \in 1 .. t + 1 : \A n \in Name :
                                         new[i].map[n] = l => new[i].captured
    BY <1>2 DEF HeldSafe
  <2>1. ct[l] # Freed /\ \A i \in 1 .. t : \A n \in Name : sc[i].map[n] = l => sc[i].captured
    BY DEF Live, HeldSafe, t
  <2>2. l # NoLoc
    BY ScopesAssumption
  <2> QED BY <1>2, <1>4, <2>1, <2>2
<1>9. PayloadsLive(new, ct)
  BY <1>2, <1>4 DEF Live, PayloadsLive, t
<1>10. BoxesLive(new, ct)
  BY <1>2, <1>3 DEF Live, BoxesLive, t
<1> QED BY <1>2, <1>5, <1>6, <1>7, <1>8, <1>9, <1>10 DEF DistinctLocs, Live, new, t

LEMMA ParamPushed ==
  ASSUME NEW sc \in Seq(ScopeRec), NEW n \in Name, NEW l, NEW v \in Value, NEW ct,
         NEW held \in SUBSET Loc, Fresh(l, sc, held), DistinctLocs(sc), Live(sc, ct, held)
  PROVE  LET new == Append(sc, ParamScope(n, l, v)) IN
         /\ new \in Seq(ScopeRec) /\ Len(new) = Len(sc) + 1
         /\ DistinctLocs(new) /\ Live(new, ct, held)
<1> DEFINE mid == Append(sc, EmptyScope)
           t == Len(sc) + 1
<1>1. l \in Loc /\ l # NoLoc /\ l \notin held
  BY ScopesAssumption DEF Fresh
<1>2. EmptyScope \in ScopeRec /\ EmptyScope.slots = <<>>
  BY EmptyScopeFacts
<1>3. /\ mid \in Seq(ScopeRec) /\ Len(mid) = t /\ Len(sc) \in Nat /\ mid[t] = EmptyScope
      /\ \A i \in 1 .. Len(sc) : mid[i] = sc[i]
  BY <1>2, AppendFacts
<1>4. DistinctLocs(mid) /\ Live(mid, ct, held)
  BY EmptyPushed
<1>5. Append(sc, ParamScope(n, l, v)) = SlotAdded(mid, n, l, v)
  <2> DEFINE w == NewSlot(n, l, v)
             r == [EmptyScope EXCEPT !.slots = Append(@, w)]
  <2>1. r = ParamScope(n, l, v)
    BY <1>2 DEF ParamScope
  <2>2. ParamScope(n, l, v) \in ScopeRec
    BY <1>1, ParamScopeFacts
  <2> HIDE DEF r, mid
  <2>3. SlotAdded(mid, n, l, v) = [mid EXCEPT ![t] = r]
    BY <1>3 DEF SlotAdded, r
  <2>4. [mid EXCEPT ![t] = r] = Append(sc, r)
    <3>1. r \in ScopeRec
      BY <2>1, <2>2
    <3> DEFINE x == [mid EXCEPT ![t] = r]
               y == Append(sc, r)
    <3>2. /\ y \in Seq(ScopeRec) /\ Len(y) = t /\ y[t] = r
          /\ \A i \in 1 .. Len(sc) : y[i] = sc[i]
      BY <3>1, AppendFacts
    <3>3. /\ x \in Seq(ScopeRec) /\ Len(x) = t
          /\ \A i \in 1 .. t : x[i] = IF i = t THEN r ELSE mid[i]
      BY <1>3, <3>1
    <3> HIDE DEF x, y
    <3>4. \A i \in 1 .. t : x[i] = y[i]
      BY <1>3, <3>2, <3>3
    <3>5. x = y
      BY <3>2, <3>3, <3>4, SameSequence
    <3> QED BY <3>5 DEF x, y
  <2> QED BY <2>1, <2>3, <2>4
<1>6. Fresh(l, mid, held)
  <2>1. ASSUME NEW i \in 1 .. t
        PROVE  /\ \A j \in 1 .. Len(mid[i].slots) : mid[i].slots[j].loc # l
               /\ \A x \in Name : mid[i].map[x] # l
    <3>1. CASE i \in 1 .. Len(sc)
      <4>1. mid[i] = sc[i]
        BY <1>3, <3>1
      <4> QED BY <3>1, <4>1 DEF Fresh
    <3>2. CASE i = t
      <4>1. mid[i] = EmptyScope
        BY <1>3, <3>2
      <4>2. /\ \A j : j \notin 1 .. Len(EmptyScope.slots)
            /\ \A x \in Name : EmptyScope.map[x] # l
        BY <1>1, EmptyScopeFacts
      <4> QED BY <4>1, <4>2
    <3> QED BY <1>3, <3>1, <3>2
  <2> HIDE DEF mid
  <2> QED BY <1>1, <1>3, <2>1 DEF Fresh
<1> HIDE DEF mid
<1>7. mid # <<>>
  BY <1>3
<1>8. SlotAdded(mid, n, l, v) \in Seq(ScopeRec) /\ Len(SlotAdded(mid, n, l, v)) = t
  BY <1>1, <1>3, <1>7, SlotAddedShape
<1>9. DistinctLocs(SlotAdded(mid, n, l, v)) /\ Live(SlotAdded(mid, n, l, v), ct, held)
  BY <1>3, <1>4, <1>6, <1>7, SlotAddedKeeps
<1> QED BY <1>5, <1>8, <1>9

(* Dropping the scopes above d frees the payloads of their maps, but for    *)
(* the maps a closure took a payload of.                                    *)
Gone(sc, d) == {i \in d + 1 .. Len(sc) : ~sc[i].captured}
Dropped(sc, ct, d) ==
  [l \in Loc |-> IF l \in {sc[i].map[n] : i \in Gone(sc, d), n \in Name} THEN Freed ELSE ct[l]]

LEMMA DropKeeps ==
  ASSUME NEW sc \in Seq(ScopeRec), NEW ct \in Contents, NEW held \in SUBSET Loc,
         NEW d \in 1 .. Len(sc), DistinctLocs(sc), Live(sc, ct, held)
  PROVE  LET new == SubSeq(sc, 1, d) IN
         /\ new \in Seq(ScopeRec) /\ Len(new) = d /\ \A i \in 1 .. d : new[i] = sc[i]
         /\ Dropped(sc, ct, d) \in Contents
         /\ DistinctLocs(new) /\ Live(new, Dropped(sc, ct, d), held)
<1> DEFINE new == SubSeq(sc, 1, d)
           nc == Dropped(sc, ct, d)
           lost == {sc[i].map[n] : i \in Gone(sc, d), n \in Name}
           t == Len(sc)
<1>1. t \in Nat /\ d \in Nat /\ d <= t /\ \A i \in 1 .. d : i \in 1 .. t
  BY ScopeFacts
<1>2. new \in Seq(ScopeRec) /\ Len(new) = d /\ \A i \in 1 .. d : new[i] = sc[i]
  BY <1>1, PrefixFacts
<1>3. nc \in Contents /\ \A l \in Loc : nc[l] = IF l \in lost THEN Freed ELSE ct[l]
  BY DEF Contents, Dropped
<1>4. \A l \in lost : \E k \in 1 .. t, m \in Name : k > d /\ ~sc[k].captured /\ l = sc[k].map[m]
  BY <1>1 DEF Gone
<1> HIDE DEF new, nc, lost, t
<1>5. DistinctSlots(new)
  <2> SUFFICES ASSUME NEW i \in 1 .. d, NEW k \in 1 .. d,
                      NEW a \in 1 .. Len(new[i].slots), NEW b \in 1 .. Len(new[k].slots),
                      new[i].slots[a].loc = new[k].slots[b].loc
               PROVE  i = k /\ a = b
    BY <1>2 DEF DistinctSlots
  <2>1. new[i] = sc[i] /\ new[k] = sc[k] /\ i \in 1 .. Len(sc) /\ k \in 1 .. Len(sc)
    BY <1>1, <1>2 DEF t
  <2> QED BY <2>1 DEF DistinctLocs, DistinctSlots
<1>6. SlotsOffMaps(new)
  <2> SUFFICES ASSUME NEW i \in 1 .. d, NEW k \in 1 .. d,
                      NEW a \in 1 .. Len(new[i].slots), NEW x \in Name
               PROVE  new[i].slots[a].loc # new[k].map[x]
    BY <1>2 DEF SlotsOffMaps
  <2>1. new[i] = sc[i] /\ new[k] = sc[k] /\ i \in 1 .. Len(sc) /\ k \in 1 .. Len(sc)
    BY <1>1, <1>2 DEF t
  <2> QED BY <2>1 DEF DistinctLocs, SlotsOffMaps
<1>7. DistinctPayloads(new)
  <2> SUFFICES ASSUME NEW i \in 1 .. d, NEW k \in 1 .. d, NEW x \in Name, NEW y \in Name,
                      new[i].map[x] = new[k].map[y], new[i].map[x] # NoLoc
               PROVE  i = k /\ x = y
    BY <1>2 DEF DistinctPayloads
  <2>1. new[i] = sc[i] /\ new[k] = sc[k] /\ i \in 1 .. Len(sc) /\ k \in 1 .. Len(sc)
    BY <1>1, <1>2 DEF t
  <2>2. \A p, q \in Name : sc[i].map[p] = sc[k].map[q] /\ sc[i].map[p] # NoLoc => i = k /\ p = q
    BY <2>1 DEF DistinctLocs, DistinctPayloads
  <2> QED BY <2>1, <2>2
<1>8. HeldSafe(new, nc, held)
  <2> SUFFICES ASSUME NEW l \in held
               PROVE  nc[l] # Freed /\ \A i \in 1 .. d : \A n \in Name :
                                         new[i].map[n] = l => new[i].captured
    BY <1>2 DEF HeldSafe
  <2>1. /\ ct[l] # Freed
        /\ \A i \in 1 .. t : \A n \in Name : sc[i].map[n] = l => sc[i].captured
    BY DEF Live, HeldSafe, t
  <2>2. l \notin lost
    BY <1>4, <2>1
  <2>3. nc[l] = ct[l]
    BY <1>3, <2>2
  <2> QED BY <1>1, <1>2, <2>1, <2>3
<1>9. PayloadsLive(new, nc)
  <2> SUFFICES ASSUME NEW i \in 1 .. d, NEW n \in Name, new[i].map[n] # NoLoc
               PROVE  nc[new[i].map[n]] # Freed
    BY <1>2 DEF PayloadsLive
  <2>1. new[i] = sc[i] /\ i \in 1 .. Len(sc) /\ sc[i].map[n] \in Loc
    BY <1>1, <1>2, ScopeFacts DEF t
  <2>2. sc[i].map[n] \notin lost
    <3> SUFFICES ASSUME sc[i].map[n] \in lost PROVE FALSE
      OBVIOUS
    <3>1. PICK k \in 1 .. t, m \in Name : k > d /\ sc[i].map[n] = sc[k].map[m]
      BY <1>4
    <3>2. i = k
      BY <2>1, <3>1 DEF DistinctLocs, DistinctPayloads, t
    <3> QED BY <1>1, <3>1, <3>2
  <2>3. ct[sc[i].map[n]] # Freed
    BY <2>1 DEF Live, PayloadsLive
  <2> QED BY <1>3, <2>1, <2>2, <2>3
<1>10. BoxesLive(new, nc)
  <2> SUFFICES ASSUME NEW i \in 1 .. d, NEW j \in 1 .. Len(new[i].slots), new[i].slots[j].boxed
               PROVE  nc[new[i].slots[j].loc] # Freed
    BY <1>2 DEF BoxesLive
  <2>1. new[i] = sc[i] /\ i \in 1 .. Len(sc)
    BY <1>1, <1>2 DEF t
  <2>2. sc[i].slots[j].loc \in Loc /\ j \in 1 .. Len(sc[i].slots)
    BY <2>1, ScopeFacts
  <2>3. sc[i].slots[j].loc \notin lost
    <3>1. \A k \in 1 .. t, m \in Name : sc[i].slots[j].loc # sc[k].map[m]
      BY <2>1, <2>2 DEF DistinctLocs, SlotsOffMaps, t
    <3> QED BY <1>4, <3>1
  <2>4. ct[sc[i].slots[j].loc] # Freed
    BY <2>1, <2>2 DEF Live, BoxesLive
  <2> QED BY <1>3, <2>1, <2>2, <2>3, <2>4
<1> QED BY <1>2, <1>3, <1>5, <1>6, <1>7, <1>8, <1>9, <1>10 DEF DistinctLocs, Live, new, nc

-----------------------------------------------------------------------------
(* Boxing.                                                                  *)

Boxed(sc, fresh, spilled) ==
  [i \in 1 .. Len(sc) |->
     [sc[i] EXCEPT
        !.slots = [j \in DOMAIN @ |-> IF <<i, j>> \in fresh
                                      THEN [@[j] EXCEPT !.boxed = TRUE] ELSE @[j]],
        !.captured = @ \/ i \in spilled]]

BoxFilled(sc, ct, fresh) ==
  [l \in Loc |->
     IF \E p \in fresh : sc[p[1]].slots[p[2]].loc = l
     THEN LET q == CHOOSE p \in fresh : sc[p[1]].slots[p[2]].loc = l
          IN sc[q[1]].slots[q[2]].val
     ELSE ct[l]]

(* The inline slots.                                                        *)
Slots(sc) == {p \in (1 .. Len(sc)) \X Nat : p[2] \in 1 .. Len(sc[p[1]].slots)}

LEMMA BoxedShape ==
  ASSUME NEW sc \in Seq(ScopeRec), NEW fresh, NEW spilled
  PROVE  LET new == Boxed(sc, fresh, spilled) IN
         /\ new \in Seq(ScopeRec) /\ Len(new) = Len(sc)
         /\ \A i \in 1 .. Len(sc) :
              /\ new[i].map = sc[i].map
              /\ new[i].captured <=> (sc[i].captured \/ i \in spilled)
              /\ Len(new[i].slots) = Len(sc[i].slots)
              /\ \A j \in 1 .. Len(sc[i].slots) :
                   /\ new[i].slots[j].name = sc[i].slots[j].name
                   /\ new[i].slots[j].loc = sc[i].slots[j].loc
                   /\ new[i].slots[j].val = sc[i].slots[j].val
                   /\ new[i].slots[j].boxed <=> (sc[i].slots[j].boxed \/ <<i, j>> \in fresh)
<1> DEFINE new == Boxed(sc, fresh, spilled)
           SS(i) == [j \in DOMAIN sc[i].slots |->
                       IF <<i, j>> \in fresh
                       THEN [sc[i].slots[j] EXCEPT !.boxed = TRUE] ELSE sc[i].slots[j]]
           CC(i) == sc[i].captured \/ i \in spilled
           RR(i) == [sc[i] EXCEPT !.slots = SS(i), !.captured = CC(i)]
<1>1. new = [i \in 1 .. Len(sc) |-> RR(i)]
  BY DEF Boxed
<1>2. ASSUME NEW i \in 1 .. Len(sc)
      PROVE  /\ SS(i) \in Seq(SlotRec) /\ Len(SS(i)) = Len(sc[i].slots)
             /\ \A j \in 1 .. Len(sc[i].slots) :
                  /\ SS(i)[j].name = sc[i].slots[j].name
                  /\ SS(i)[j].loc = sc[i].slots[j].loc
                  /\ SS(i)[j].val = sc[i].slots[j].val
                  /\ SS(i)[j].boxed <=> (sc[i].slots[j].boxed \/ <<i, j>> \in fresh)
  <2> DEFINE n == Len(sc[i].slots)
  <2>1. /\ n \in Nat /\ DOMAIN sc[i].slots = 1 .. n
        /\ \A j \in 1 .. n : sc[i].slots[j] \in SlotRec
    BY ScopeFacts
  <2>2. \A s \in SlotRec : LET b == [s EXCEPT !.boxed = TRUE] IN
          b \in SlotRec /\ b.name = s.name /\ b.loc = s.loc /\ b.val = s.val /\ b.boxed = TRUE
    BY DEF SlotRec
  <2>3. \A j \in 1 .. n : SS(i)[j] = IF <<i, j>> \in fresh
                                     THEN [sc[i].slots[j] EXCEPT !.boxed = TRUE]
                                     ELSE sc[i].slots[j]
    BY <2>1
  <2>4. SS(i) \in [1 .. n -> SlotRec]
    BY <2>1, <2>2
  <2>5. \A j \in 1 .. n : sc[i].slots[j].boxed \in BOOLEAN
    BY <2>1 DEF SlotRec
  <2> HIDE DEF n, SS
  <2>6. SS(i) \in Seq(SlotRec) /\ Len(SS(i)) = n
    BY <2>1, <2>4, SeqOfFunction
  <2>7. ASSUME NEW j \in 1 .. n
        PROVE  /\ SS(i)[j].name = sc[i].slots[j].name
               /\ SS(i)[j].loc = sc[i].slots[j].loc
               /\ SS(i)[j].val = sc[i].slots[j].val
               /\ SS(i)[j].boxed <=> (sc[i].slots[j].boxed \/ <<i, j>> \in fresh)
    <3>1. CASE <<i, j>> \in fresh
      BY <2>1, <2>2, <2>3, <3>1
    <3>2. CASE <<i, j>> \notin fresh
      BY <2>3, <2>5, <3>2
    <3> QED BY <3>1, <3>2
  <2> QED BY <2>6, <2>7 DEF n
<1> HIDE DEF SS
<1>3. ASSUME NEW i \in 1 .. Len(sc)
      PROVE  /\ RR(i) \in ScopeRec /\ RR(i).slots = SS(i) /\ RR(i).map = sc[i].map
             /\ RR(i).captured = CC(i)
  <2>1. sc[i] \in ScopeRec /\ CC(i) \in BOOLEAN
    BY ScopeFacts
  <2> HIDE DEF CC
  <2> QED BY <1>2, <2>1 DEF ScopeRec
<1>4. new \in Seq(ScopeRec) /\ Len(new) = Len(sc)
  <2> HIDE DEF RR
  <2>1. Len(sc) \in Nat /\ new \in [1 .. Len(sc) -> ScopeRec]
    BY <1>1, <1>3, ScopeFacts
  <2> HIDE DEF new
  <2> QED BY <2>1, SeqOfFunction
<1>5. \A i \in 1 .. Len(sc) : new[i] = RR(i)
  BY <1>1
<1> HIDE DEF RR, new
<1>6. ASSUME NEW i \in 1 .. Len(sc)
      PROVE  /\ new[i].map = sc[i].map
             /\ new[i].captured <=> (sc[i].captured \/ i \in spilled)
             /\ Len(new[i].slots) = Len(sc[i].slots)
             /\ \A j \in 1 .. Len(sc[i].slots) :
                  /\ new[i].slots[j].name = sc[i].slots[j].name
                  /\ new[i].slots[j].loc = sc[i].slots[j].loc
                  /\ new[i].slots[j].val = sc[i].slots[j].val
                  /\ new[i].slots[j].boxed <=> (sc[i].slots[j].boxed \/ <<i, j>> \in fresh)
  <2>1. new[i].map = sc[i].map /\ new[i].captured = CC(i) /\ new[i].slots = SS(i)
    BY <1>3, <1>5
  <2>2. new[i].captured <=> (sc[i].captured \/ i \in spilled)
    BY <2>1
  <2>3. /\ Len(SS(i)) = Len(sc[i].slots)
        /\ \A j \in 1 .. Len(sc[i].slots) :
             /\ SS(i)[j].name = sc[i].slots[j].name
             /\ SS(i)[j].loc = sc[i].slots[j].loc
             /\ SS(i)[j].val = sc[i].slots[j].val
             /\ SS(i)[j].boxed <=> (sc[i].slots[j].boxed \/ <<i, j>> \in fresh)
    BY <1>2
  <2> QED BY <2>1, <2>2, <2>3, Zenon
<1> QED BY <1>4, <1>6 DEF new

(* The boxes a closure takes: boxed slots, or payloads of captured maps.     *)
HaveHomes(boxes, sc, fresh, spilled) ==
  /\ boxes \in SUBSET Loc /\ fresh \in SUBSET Slots(sc)
  /\ \A l \in boxes :
       \/ \E i \in 1 .. Len(sc) : \E j \in 1 .. Len(sc[i].slots) :
            l = sc[i].slots[j].loc /\ (sc[i].slots[j].boxed \/ <<i, j>> \in fresh)
       \/ \E i \in 1 .. Len(sc), n \in Name : i \in spilled /\ l = sc[i].map[n]

LEMMA BoxKeeps ==
  ASSUME NEW sc \in Seq(ScopeRec), NEW ct \in Contents, NEW held \in SUBSET Loc,
         NEW fresh, NEW spilled, NEW boxes,
         HaveHomes(boxes, sc, fresh, spilled),
         DistinctLocs(sc), Live(sc, ct, held)
  PROVE  LET new == Boxed(sc, fresh, spilled)
             nc == BoxFilled(sc, ct, fresh)
         IN /\ new \in Seq(ScopeRec) /\ Len(new) = Len(sc)
            /\ nc \in Contents /\ DistinctLocs(new) /\ Live(new, nc, held \cup boxes)
<1> DEFINE new == Boxed(sc, fresh, spilled)
           nc == BoxFilled(sc, ct, fresh)
           t == Len(sc)
           IsFresh(l) == \E p \in fresh : sc[p[1]].slots[p[2]].loc = l
<1>1. /\ new \in Seq(ScopeRec) /\ Len(new) = t
      /\ \A i \in 1 .. t :
           /\ new[i].map = sc[i].map
           /\ new[i].captured <=> (sc[i].captured \/ i \in spilled)
           /\ Len(new[i].slots) = Len(sc[i].slots)
           /\ \A j \in 1 .. Len(sc[i].slots) :
                /\ new[i].slots[j].name = sc[i].slots[j].name
                /\ new[i].slots[j].loc = sc[i].slots[j].loc
                /\ new[i].slots[j].val = sc[i].slots[j].val
                /\ new[i].slots[j].boxed <=> (sc[i].slots[j].boxed \/ <<i, j>> \in fresh)
  BY BoxedShape
<1>2. \A p \in fresh : sc[p[1]].slots[p[2]].val \in Value
  BY ScopeFacts DEF Slots, HaveHomes
<1>3. \A l \in Loc : IF IsFresh(l) THEN nc[l] \in Value ELSE nc[l] = ct[l]
  <2> TAKE l \in Loc
  <2>1. CASE IsFresh(l)
    <3> DEFINE q == CHOOSE p \in fresh : sc[p[1]].slots[p[2]].loc = l
    <3>1. q \in fresh
      BY <2>1
    <3>2. nc[l] = sc[q[1]].slots[q[2]].val
      BY <2>1 DEF BoxFilled
    <3> HIDE DEF q
    <3>3. nc[l] \in Value
      BY <1>2, <3>1, <3>2
    <3> QED BY <2>1, <3>3
  <2>2. CASE ~IsFresh(l)
    BY <2>2 DEF BoxFilled
  <2> QED BY <2>1, <2>2
<1>4. nc = [l \in Loc |-> nc[l]]
  BY DEF BoxFilled
<1> HIDE DEF new, nc, IsFresh
<1>5. nc \in Contents
  <2>1. \A l \in Loc : nc[l] \in Value \cup {Freed}
    BY <1>3 DEF Contents
  <2> QED BY <1>4, <2>1 DEF Contents
<1>6. \A l \in Loc : (ct[l] # Freed \/ IsFresh(l)) => nc[l] # Freed
  BY <1>3, ScopesAssumption
<1>7. DistinctSlots(new)
  <2> SUFFICES ASSUME NEW i \in 1 .. t, NEW k \in 1 .. t,
                      NEW a \in 1 .. Len(new[i].slots), NEW b \in 1 .. Len(new[k].slots),
                      new[i].slots[a].loc = new[k].slots[b].loc
               PROVE  i = k /\ a = b
    BY <1>1 DEF DistinctSlots
  <2>1. /\ a \in 1 .. Len(sc[i].slots) /\ b \in 1 .. Len(sc[k].slots)
        /\ sc[i].slots[a].loc = sc[k].slots[b].loc
    BY <1>1
  <2> QED BY <2>1 DEF DistinctLocs, DistinctSlots
<1>8. SlotsOffMaps(new)
  <2> SUFFICES ASSUME NEW i \in 1 .. t, NEW k \in 1 .. t,
                      NEW a \in 1 .. Len(new[i].slots), NEW x \in Name
               PROVE  new[i].slots[a].loc # new[k].map[x]
    BY <1>1 DEF SlotsOffMaps
  <2>1. /\ a \in 1 .. Len(sc[i].slots) /\ new[i].slots[a].loc = sc[i].slots[a].loc
        /\ new[k].map = sc[k].map
    BY <1>1
  <2> QED BY <2>1 DEF DistinctLocs, SlotsOffMaps
<1>9. DistinctPayloads(new)
  <2> SUFFICES ASSUME NEW i \in 1 .. t, NEW k \in 1 .. t, NEW x \in Name, NEW y \in Name,
                      new[i].map[x] = new[k].map[y], new[i].map[x] # NoLoc
               PROVE  i = k /\ x = y
    BY <1>1 DEF DistinctPayloads
  <2>1. new[i].map = sc[i].map /\ new[k].map = sc[k].map
    BY <1>1
  <2>2. \A p, q \in Name : sc[i].map[p] = sc[k].map[q] /\ sc[i].map[p] # NoLoc => i = k /\ p = q
    BY DEF DistinctLocs, DistinctPayloads
  <2> QED BY <2>1, <2>2
<1>10. PayloadsLive(new, nc)
  <2> SUFFICES ASSUME NEW i \in 1 .. t, NEW n \in Name, sc[i].map[n] # NoLoc
               PROVE  nc[sc[i].map[n]] # Freed
    BY <1>1 DEF PayloadsLive
  <2>1. sc[i].map[n] \in Loc
    BY ScopeFacts
  <2>2. ct[sc[i].map[n]] # Freed
    BY DEF Live, PayloadsLive
  <2> QED BY <1>6, <2>1, <2>2
(* A slot that has a box, old or new.                                       *)
<1>11. ASSUME NEW i \in 1 .. t, NEW j \in 1 .. Len(sc[i].slots),
              sc[i].slots[j].boxed \/ <<i, j>> \in fresh
       PROVE  nc[sc[i].slots[j].loc] # Freed
  <2>1. sc[i].slots[j].loc \in Loc
    BY ScopeFacts
  <2>2. CASE sc[i].slots[j].boxed
    BY <1>6, <2>1, <2>2 DEF Live, BoxesLive
  <2>3. CASE <<i, j>> \in fresh
    <3>1. IsFresh(sc[i].slots[j].loc)
      BY <2>3 DEF IsFresh
    <3> QED BY <1>6, <2>1, <3>1
  <2> QED BY <1>11, <2>2, <2>3
<1>12. BoxesLive(new, nc)
  <2> SUFFICES ASSUME NEW i \in 1 .. t, NEW j \in 1 .. Len(new[i].slots), new[i].slots[j].boxed
               PROVE  nc[new[i].slots[j].loc] # Freed
    BY <1>1 DEF BoxesLive
  <2>1. /\ j \in 1 .. Len(sc[i].slots) /\ new[i].slots[j].loc = sc[i].slots[j].loc
        /\ sc[i].slots[j].boxed \/ <<i, j>> \in fresh
    BY <1>1
  <2> QED BY <1>11, <2>1
<1>13. \A l \in held \cup boxes : l \in Loc
  BY DEF HaveHomes
<1>14. ASSUME NEW l \in held \cup boxes
       PROVE  nc[l] # Freed /\ \A i \in 1 .. t : \A n \in Name :
                                 new[i].map[n] = l => new[i].captured
  <2>1. CASE l \in held
    <3>1. ct[l] # Freed /\ \A i \in 1 .. t : \A n \in Name : sc[i].map[n] = l => sc[i].captured
      BY <2>1 DEF Live, HeldSafe
    <3> QED BY <1>1, <1>6, <2>1, <3>1
  <2>2. CASE \E i \in 1 .. t : \E j \in 1 .. Len(sc[i].slots) :
               l = sc[i].slots[j].loc /\ (sc[i].slots[j].boxed \/ <<i, j>> \in fresh)
    <3>1. PICK i \in 1 .. t : \E j \in 1 .. Len(sc[i].slots) :
                 l = sc[i].slots[j].loc /\ (sc[i].slots[j].boxed \/ <<i, j>> \in fresh)
      BY <2>2
    <3>2. PICK j \in 1 .. Len(sc[i].slots) :
                 l = sc[i].slots[j].loc /\ (sc[i].slots[j].boxed \/ <<i, j>> \in fresh)
      BY <3>1
    <3>3. nc[l] # Freed
      BY <1>11, <3>2
    <3>4. \A k \in 1 .. t : \A n \in Name : sc[k].map[n] # l
      BY <3>2 DEF DistinctLocs, SlotsOffMaps
    <3> QED BY <1>1, <3>3, <3>4
  <2>3. CASE \E i \in 1 .. t, n \in Name : i \in spilled /\ l = sc[i].map[n]
    <3>1. PICK i \in 1 .. t, n \in Name : i \in spilled /\ l = sc[i].map[n]
      BY <2>3
    <3>2. l \in Loc /\ l # NoLoc
      BY <1>14, <1>13, <2>3, ScopesAssumption
    <3>3. ct[l] # Freed
      BY <3>1, <3>2 DEF Live, PayloadsLive
    <3>4. \A k \in 1 .. t : \A m \in Name : sc[k].map[m] = l => k = i
      BY <3>1, <3>2 DEF DistinctLocs, DistinctPayloads
    <3>5. nc[l] # Freed
      BY <1>6, <3>2, <3>3
    <3>6. new[i].captured
      BY <1>1, <3>1
    <3>7. \A k \in 1 .. t : \A m \in Name : new[k].map[m] = l => new[k].captured
      <4> TAKE k \in 1 .. t
      <4>1. new[k].map = sc[k].map
        BY <1>1
      <4> TAKE m \in Name
      <4> HAVE new[k].map[m] = l
      <4>2. k = i
        BY <3>4, <4>1
      <4> QED BY <3>6, <4>2
    <3> QED BY <3>5, <3>7
  <2> QED BY <2>1, <2>2, <2>3 DEF HaveHomes
<1>15. HeldSafe(new, nc, held \cup boxes)
  BY <1>1, <1>14 DEF HeldSafe
<1> QED BY <1>1, <1>5, <1>7, <1>8, <1>9, <1>10, <1>12, <1>15 DEF DistinctLocs, Live, new, nc

-----------------------------------------------------------------------------
(* The invariant.                                                           *)

(* Scopes and what they lead to: boxes and payloads.                        *)
StoreOk(sc, ct, held) ==
  /\ sc \in Seq(ScopeRec) /\ sc # <<>> /\ ct \in Contents
  /\ \A i \in 1 .. Len(sc) : Len(sc[i].slots) <= SlotMax
  /\ DistinctLocs(sc) /\ Live(sc, ct, held)

(* The calls that are running: each owns the scopes from its floor up, and  *)
(* a named function finds its parameter in the first slot of its floor.     *)
FramesOk(fr, sc) ==
  /\ fr \in Seq(FrameRec)
  /\ \A i \in 1 .. Len(fr) : /\ fr[i].floor \in 2 .. Len(sc)
                             /\ fr[i].fn \in Fn => Len(sc[fr[i].floor].slots) >= 1
  /\ \A i, k \in 1 .. Len(fr) : i < k => fr[i].floor < fr[k].floor

(* A cached address is one of an inline slot of the global scope.           *)
CacheOk(cache, sc) ==
  /\ DOMAIN cache = Site
  /\ \A s \in Site : cache[s] # NullAddr =>
                       \E j \in 1 .. Len(sc[1].slots) : cache[s] = SlotAddr(1, j)

ClosureSet == [Closure -> [Name -> Loc \cup {NoLoc}]]

StateOk(sc, ct, fr, cl, cache) ==
  /\ cl \in ClosureSet /\ FramesOk(fr, sc)
  /\ StoreOk(sc, ct, HeldBy(fr, cl)) /\ CacheOk(cache, sc)

ScopesInv ==
  /\ StateOk(scopes, content, frames, closures, addr_cache)
  /\ acc \in Value \cup {Freed} /\ status \in {"running", "error"}

(* Nothing that is there goes away.                                         *)
Grows(new, sc) ==
  /\ Len(new) >= Len(sc)
  /\ \A i \in 1 .. Len(sc) : Len(new[i].slots) >= Len(sc[i].slots)

LEMMA SameGrows ==
  ASSUME NEW sc \in Seq(ScopeRec), NEW new, SameBindings(new, sc)
  PROVE  Grows(new, sc)
BY ScopeFacts DEF SameBindings, Grows

LEMMA GrowsKeeps ==
  ASSUME NEW sc \in Seq(ScopeRec), NEW new \in Seq(ScopeRec), sc # <<>>, Grows(new, sc),
         NEW fr, FramesOk(fr, sc), NEW cache, CacheOk(cache, sc)
  PROVE  FramesOk(fr, new) /\ CacheOk(cache, new)
<1>1. Len(sc) \in Nat /\ Len(sc) >= 1 /\ Len(new) \in Nat
  BY ScopeFacts, SeqFacts
<1>2. \A i \in 1 .. Len(sc) : /\ i \in 1 .. Len(new) /\ Len(sc[i].slots) \in Nat
                              /\ Len(new[i].slots) \in Nat
                              /\ Len(new[i].slots) >= Len(sc[i].slots)
  BY <1>1, ScopeFacts DEF Grows
<1>3. FramesOk(fr, new)
  <2>1. Len(new) >= Len(sc)
    BY DEF Grows
  <2>2. ASSUME NEW i \in 1 .. Len(fr)
        PROVE  /\ fr[i].floor \in 2 .. Len(new)
               /\ fr[i].fn \in Fn => Len(new[fr[i].floor].slots) >= 1
    <3>1. /\ fr[i].floor \in 2 .. Len(sc)
          /\ fr[i].fn \in Fn => Len(sc[fr[i].floor].slots) >= 1
      BY DEF FramesOk
    <3>2. fr[i].floor \in 1 .. Len(sc) /\ fr[i].floor \in 2 .. Len(new)
      BY <1>1, <2>1, <3>1
    <3> QED BY <1>2, <3>1, <3>2
  <2> QED BY <2>2 DEF FramesOk
<1>4. CacheOk(cache, new)
  BY <1>1, <1>2 DEF CacheOk
<1> QED BY <1>3, <1>4

LEMMA HeldLocs ==
  ASSUME NEW cl \in ClosureSet, NEW fr \in Seq(FrameRec)
  PROVE  /\ HeldBy(fr, cl) \in SUBSET Loc
         /\ \A i \in 1 .. Len(fr) : /\ fr[i] \in FrameRec /\ fr[i].floor \in Nat
                                    /\ fr[i].ups \in [Name -> Loc \cup {NoLoc}]
<1>1. DOMAIN fr = 1 .. Len(fr) /\ \A i \in 1 .. Len(fr) : fr[i] \in FrameRec
  BY SeqFacts
<1>2. \A i \in 1 .. Len(fr) : fr[i].floor \in Nat /\ fr[i].ups \in [Name -> Loc \cup {NoLoc}]
  BY <1>1 DEF FrameRec
<1>3. \A k \in Closure, n \in Name : cl[k][n] \in Loc \cup {NoLoc}
  BY DEF ClosureSet
<1>4. \A i \in DOMAIN fr, n \in Name : fr[i].ups[n] \in Loc \cup {NoLoc}
  BY <1>1, <1>2
<1> QED BY <1>1, <1>2, <1>3, <1>4 DEF HeldBy

(* What the invariant says in the terms of the model.                       *)
Held == HeldBy(frames, closures)

LEMMA InvFacts ==
  ASSUME ScopesInv
  PROVE  /\ scopes \in Seq(ScopeRec) /\ scopes # <<>> /\ Top \in Nat \ {0}
         /\ content \in Contents /\ Held \in SUBSET Loc
         /\ frames \in Seq(FrameRec) /\ Len(frames) \in Nat
         /\ closures \in ClosureSet
         /\ StoreOk(scopes, content, Held) /\ DistinctLocs(scopes) /\ Live(scopes, content, Held)
         /\ FramesOk(frames, scopes) /\ CacheOk(addr_cache, scopes)
         /\ vm_scope_floor \in 1 .. Top /\ Visible \subseteq 1 .. Top
<1>1. /\ closures \in ClosureSet /\ FramesOk(frames, scopes)
      /\ StoreOk(scopes, content, Held) /\ CacheOk(addr_cache, scopes)
  BY DEF ScopesInv, StateOk, Held
<1>2. /\ scopes \in Seq(ScopeRec) /\ scopes # <<>> /\ content \in Contents
      /\ DistinctLocs(scopes) /\ Live(scopes, content, Held)
  BY <1>1 DEF StoreOk
<1>3. frames \in Seq(FrameRec)
  BY <1>1 DEF FramesOk
<1>4. Held \in SUBSET Loc
  BY <1>1, <1>3, HeldLocs DEF Held
<1>5. Top \in Nat \ {0} /\ Len(frames) \in Nat /\ (frames # <<>> => Len(frames) > 0)
  BY <1>2, <1>3, SeqFacts DEF Top
<1>6. vm_scope_floor \in 1 .. Top
  BY <1>1, <1>5 DEF vm_scope_floor, FramesOk, Top
<1>7. Visible \subseteq 1 .. Top
  BY <1>5, <1>6 DEF Visible
<1> QED BY <1>1, <1>2, <1>3, <1>4, <1>5, <1>6, <1>7

(* What a lookup finds: an inline slot, or a location.                      *)
ValidAddr(a, sc) ==
  \/ \E i \in 1 .. Len(sc) : \E j \in 1 .. Len(sc[i].slots) : a = SlotAddr(i, j)
  \/ \E l \in Loc : a = BoxAddr(l)

LEMMA SlotsNamedFacts ==
  ASSUME ScopesInv, NEW i \in 1 .. Top, NEW n, SlotsNamed(i, n) # {}
  PROVE  /\ Slot(i, n) \in 1 .. Len(scopes[i].slots)
         /\ scopes[i].slots[Slot(i, n)].name = n
         /\ scopes[i].slots[Slot(i, n)] \in SlotRec
         /\ scopes[i].slots[Slot(i, n)].loc \in Loc
<1>1. Slot(i, n) \in SlotsNamed(i, n)
  BY DEF Slot
<1>2. scopes \in Seq(ScopeRec) /\ i \in 1 .. Len(scopes)
  BY InvFacts DEF Top
<1> QED BY <1>1, <1>2, ScopeFacts DEF SlotsNamed

LEMMA AddrInValid ==
  ASSUME ScopesInv, NEW i \in 1 .. Top, NEW n \in Name, Holds(i, n)
  PROVE  ValidAddr(AddrIn(i, n), scopes)
<1>1. scopes \in Seq(ScopeRec) /\ i \in 1 .. Len(scopes)
  BY InvFacts DEF Top
<1>2. CASE SlotsNamed(i, n) = {}
  <2>1. scopes[i].map[n] \in Loc
    BY <1>1, <1>2, ScopeFacts DEF Holds
  <2>2. AddrIn(i, n) = BoxAddr(scopes[i].map[n])
    BY <1>2 DEF AddrIn
  <2> QED BY <2>1, <2>2 DEF ValidAddr
<1>3. CASE SlotsNamed(i, n) # {}
  <2>1. /\ Slot(i, n) \in 1 .. Len(scopes[i].slots)
        /\ scopes[i].slots[Slot(i, n)].loc \in Loc
    BY <1>3, SlotsNamedFacts
  <2>2. \/ AddrIn(i, n) = BoxAddr(scopes[i].slots[Slot(i, n)].loc)
        \/ AddrIn(i, n) = SlotAddr(i, Slot(i, n))
    BY <1>3 DEF AddrIn
  <2> QED BY <1>1, <2>1, <2>2 DEF ValidAddr
<1> QED BY <1>2, <1>3

(* The innermost visible scope that holds a name.                           *)
LEMMA HolderFacts ==
  ASSUME ScopesInv, NEW n, {i \in Visible : Holds(i, n)} # {}
  PROVE  /\ HolderOf(n) \in Visible /\ HolderOf(n) \in 1 .. Top /\ Holds(HolderOf(n), n)
         /\ \A i \in Visible : Holds(i, n) => i <= HolderOf(n)
<1> DEFINE S == {i \in Visible : Holds(i, n)}
<1>1. S \subseteq 1 .. Top /\ Top \in Nat
  BY InvFacts
<1>2. \E x \in S : \A y \in S : y <= x
  <2>2. S # {}
    OBVIOUS
  <2> HIDE DEF S
  <2>1. S \in SUBSET Nat /\ \A m \in S : m <= Top
    BY <1>1
  <2> QED BY <1>1, <2>1, <2>2, GreatestElement
<1>3. \E x \in S : \A y \in S : x >= y
  BY <1>1, <1>2
<1>4. HolderOf(n) = CHOOSE x \in S : \A y \in S : x >= y
  BY DEF HolderOf, Max
<1>5. HolderOf(n) \in S /\ \A y \in S : HolderOf(n) >= y
  BY <1>3, <1>4
<1> QED BY <1>1, <1>5

LEMMA LookupValid ==
  ASSUME ScopesInv, NEW n \in Name, vm_scope_get(n) # NullAddr
  PROVE  /\ {i \in Visible : Holds(i, n)} # {} /\ vm_scope_get(n) = AddrIn(HolderOf(n), n)
         /\ ValidAddr(vm_scope_get(n), scopes)
<1>1. {i \in Visible : Holds(i, n)} # {}
  BY DEF vm_scope_get
<1>2. vm_scope_get(n) = AddrIn(HolderOf(n), n)
  BY <1>1 DEF vm_scope_get, HolderOf
<1>3. HolderOf(n) \in 1 .. Top /\ Holds(HolderOf(n), n)
  BY <1>1, HolderFacts
<1> QED BY <1>1, <1>2, <1>3, AddrInValid

LEMMA ResolveValid ==
  ASSUME ScopesInv, NEW s \in Site, Resolve(s) # NullAddr
  PROVE  ValidAddr(Resolve(s), scopes)
<1>1. CASE addr_cache[s] # NullAddr
  <2>1. PICK j \in 1 .. Len(scopes[1].slots) : addr_cache[s] = SlotAddr(1, j)
    BY <1>1, InvFacts DEF CacheOk
  <2>2. 1 \in 1 .. Len(scopes)
    BY InvFacts DEF Top
  <2>3. Resolve(s) = SlotAddr(1, j)
    BY <1>1, <2>1 DEF Resolve
  <2> QED BY <2>1, <2>2, <2>3 DEF ValidAddr
<1>2. CASE addr_cache[s] = NullAddr
  <2>1. SiteName[s] \in Name
    BY ScopesAssumption
  <2>2. Resolve(s) = vm_scope_get(SiteName[s])
    BY <1>2 DEF Resolve
  <2> QED BY <2>1, <2>2, LookupValid
<1> QED BY <1>1, <1>2

(* What a lookup reads is a value, unless the box was freed.                *)
LEMMA DerefFacts ==
  ASSUME ScopesInv, NEW a, ValidAddr(a, scopes)
  PROVE  Deref(a) \in Value \cup {Freed}
<1>1. CASE \E i \in 1 .. Len(scopes) : \E j \in 1 .. Len(scopes[i].slots) : a = SlotAddr(i, j)
  <2>1. PICK i \in 1 .. Len(scopes) : \E j \in 1 .. Len(scopes[i].slots) : a = SlotAddr(i, j)
    BY <1>1
  <2>2. PICK j \in 1 .. Len(scopes[i].slots) : a = SlotAddr(i, j)
    BY <2>1
  <2>3. scopes[i].slots[j].val \in Value
    BY InvFacts, ScopeFacts
  <2>4. a[1] = "val" /\ a[2] = i /\ a[3] = j
    BY <2>2 DEF SlotAddr
  <2> QED BY <2>3, <2>4 DEF Deref
<1>2. CASE \E l \in Loc : a = BoxAddr(l)
  <2>1. PICK l \in Loc : a = BoxAddr(l)
    BY <1>2
  <2>2. a[1] = "box" /\ a[2] = l
    BY <2>1 DEF BoxAddr
  <2>3. content[l] \in Value \cup {Freed}
    BY InvFacts DEF Contents
  <2> QED BY <2>2, <2>3 DEF Deref
<1> QED BY <1>1, <1>2 DEF ValidAddr

LEMMA RememberOk ==
  ASSUME ScopesInv, NEW s \in Site, Remember(s)
  PROVE  CacheOk(addr_cache', scopes)
<1>1. CacheOk(addr_cache, scopes)
  BY InvFacts
<1>2. CASE Resolve(s) # NullAddr /\ Resolve(s) = vm_global_slot_address(SiteName[s])
  <2>1. addr_cache' = [addr_cache EXCEPT ![s] = Resolve(s)]
    BY <1>2 DEF Remember
  <2>2. /\ SlotsNamed(1, SiteName[s]) # {}
        /\ Resolve(s) = SlotAddr(1, Slot(1, SiteName[s]))
    BY <1>2 DEF vm_global_slot_address
  <2>3. 1 \in 1 .. Top
    BY InvFacts
  <2>4. Slot(1, SiteName[s]) \in 1 .. Len(scopes[1].slots)
    BY <2>2, <2>3, SlotsNamedFacts
  <2> QED BY <1>1, <2>1, <2>2, <2>4 DEF CacheOk
<1>3. CASE ~(Resolve(s) # NullAddr /\ Resolve(s) = vm_global_slot_address(SiteName[s]))
  <2>1. addr_cache' = addr_cache
    BY <1>3 DEF Remember
  <2> QED BY <1>1, <2>1
<1> QED BY <1>2, <1>3

-----------------------------------------------------------------------------
(* What the steps are made of.                                              *)

LEMMA WriteStep ==
  ASSUME ScopesInv, NEW a, NEW v \in Value, ValidAddr(a, scopes), Write(a, v)
  PROVE  SameBindings(scopes', scopes) /\ StoreOk(scopes', content', Held)
<1>1. /\ scopes \in Seq(ScopeRec) /\ scopes # <<>> /\ content \in Contents
      /\ Held \in SUBSET Loc
      /\ DistinctLocs(scopes) /\ Live(scopes, content, Held)
      /\ \A i \in 1 .. Len(scopes) : Len(scopes[i].slots) <= SlotMax
  BY InvFacts DEF StoreOk
<1>2. CASE \E i \in 1 .. Len(scopes) : \E j \in 1 .. Len(scopes[i].slots) : a = SlotAddr(i, j)
  <2>1. PICK i \in 1 .. Len(scopes) : \E j \in 1 .. Len(scopes[i].slots) : a = SlotAddr(i, j)
    BY <1>2
  <2>2. PICK j \in 1 .. Len(scopes[i].slots) : a = SlotAddr(i, j)
    BY <2>1
  <2>3. a[1] = "val" /\ a[2] = i /\ a[3] = j
    BY <2>2 DEF SlotAddr
  <2>4. scopes' = WrittenSlot(scopes, i, j, v) /\ content' = content
    BY <2>3 DEF Write, WrittenSlot
  <2>5. SameBindings(scopes', scopes)
    BY <1>1, <2>4, WriteSlotFacts
  <2>6. DistinctLocs(scopes') /\ Live(scopes', content', Held)
    BY <1>1, <2>4, <2>5, SameKeepsDistinct, SameKeepsLive
  <2>7. scopes' # <<>> /\ \A k \in 1 .. Len(scopes') : Len(scopes'[k].slots) <= SlotMax
    BY <1>1, <2>5, SeqFacts DEF SameBindings
  <2> QED BY <1>1, <2>4, <2>5, <2>6, <2>7 DEF StoreOk, SameBindings
<1>3. CASE \E l \in Loc : a = BoxAddr(l)
  <2>1. PICK l \in Loc : a = BoxAddr(l)
    BY <1>3
  <2>2. a[1] = "box" /\ a[2] = l
    BY <2>1 DEF BoxAddr
  <2>3. content' = [content EXCEPT ![l] = v] /\ scopes' = scopes
    BY <2>2 DEF Write
  <2>4. content' \in Contents /\ Live(scopes', content', Held)
    BY <1>1, <2>3, WriteBoxFacts
  <2>5. SameBindings(scopes', scopes)
    BY <1>1, <2>3 DEF SameBindings
  <2> QED BY <1>1, <2>3, <2>4, <2>5 DEF StoreOk
<1> QED BY <1>2, <1>3 DEF ValidAddr

LEMMA FreshLoc ==
  ASSUME ScopesInv, NEW l \in Loc \ InUse
  PROVE  Fresh(l, scopes, Held)
<1>1. l # NoLoc
  BY ScopesAssumption
<1>2. l \notin Held
  BY <1>1 DEF InUse, Held, HeldBy
<1>3. ASSUME NEW i \in 1 .. Len(scopes)
      PROVE  /\ \A j \in 1 .. Len(scopes[i].slots) : scopes[i].slots[j].loc # l
             /\ \A n \in Name : scopes[i].map[n] # l
  <2>1. l \notin LocsOf(i)
    BY <1>1 DEF InUse, Top
  <2>2. DOMAIN scopes[i].slots = 1 .. Len(scopes[i].slots)
    BY InvFacts, ScopeFacts
  <2> QED BY <2>1, <2>2 DEF LocsOf
<1> QED BY <1>2, <1>3 DEF Fresh

LEMMA DefineStep ==
  ASSUME ScopesInv, NEW n \in Name, NEW v \in Value, vm_scope_define(n, v)
  PROVE  /\ scopes' \in Seq(ScopeRec) /\ Grows(scopes', scopes)
         /\ StoreOk(scopes', content', Held)
<1>1. /\ scopes \in Seq(ScopeRec) /\ scopes # <<>> /\ content \in Contents
      /\ Held \in SUBSET Loc
      /\ DistinctLocs(scopes) /\ Live(scopes, content, Held)
      /\ Top \in Nat \ {0} /\ Top = Len(scopes) /\ Top \in 1 .. Top
      /\ \A i \in 1 .. Len(scopes) : Len(scopes[i].slots) <= SlotMax
  BY InvFacts DEF StoreOk, Top
<1>2. CASE Holds(Top, n)
  <2>1. Write(AddrIn(Top, n), v)
    BY <1>2 DEF vm_scope_define
  <2>2. ValidAddr(AddrIn(Top, n), scopes)
    BY <1>1, <1>2, AddrInValid
  <2>3. SameBindings(scopes', scopes) /\ StoreOk(scopes', content', Held)
    BY <2>1, <2>2, WriteStep
  <2> QED BY <1>1, <2>3, SameGrows DEF SameBindings
<1>3. CASE ~Holds(Top, n)
  <2>1. PICK l \in Loc \ InUse :
          IF Len(scopes[Top].slots) < SlotMax
          THEN scopes' = SlotAdded(scopes, n, l, v) /\ content' = content
          ELSE scopes' = PayloadAdded(scopes, n, l) /\ content' = [content EXCEPT ![l] = v]
    BY <1>3 DEF vm_scope_define, SlotAdded, PayloadAdded, Top
  <2>2. Fresh(l, scopes, Held) /\ l \in Loc
    BY FreshLoc
  <2>3. CASE Len(scopes[Top].slots) < SlotMax
    <3>1. scopes' = SlotAdded(scopes, n, l, v) /\ content' = content
      BY <2>1, <2>3
    <3>2. /\ scopes' \in Seq(ScopeRec) /\ Len(scopes') = Top
          /\ \A i \in 1 .. Top : i # Top => scopes'[i] = scopes[i]
          /\ Len(scopes'[Top].slots) = Len(scopes[Top].slots) + 1
      BY <1>1, <2>2, <3>1, SlotAddedShape
    <3>3. DistinctLocs(scopes') /\ Live(scopes', content', Held)
      BY <1>1, <2>2, <3>1, SlotAddedKeeps
    <3>4. \A i \in 1 .. Top : Len(scopes[i].slots) \in Nat
      BY <1>1, ScopeFacts
    <3>5. Grows(scopes', scopes)
      BY <1>1, <3>2, <3>4 DEF Grows
    <3>6. \A i \in 1 .. Top : Len(scopes'[i].slots) <= SlotMax
      BY <1>1, <2>3, <3>2, <3>4, ScopesAssumption
    <3>7. scopes' # <<>>
      BY <1>1, <3>2
    <3> QED BY <1>1, <3>1, <3>2, <3>3, <3>5, <3>6, <3>7 DEF StoreOk
  <2>4. CASE ~(Len(scopes[Top].slots) < SlotMax)
    <3>1. scopes' = PayloadAdded(scopes, n, l) /\ content' = [content EXCEPT ![l] = v]
      BY <2>1, <2>4
    <3>2. /\ scopes' \in Seq(ScopeRec) /\ Len(scopes') = Top
          /\ \A i \in 1 .. Top : scopes'[i].slots = scopes[i].slots
      BY <1>1, <2>2, <3>1, PayloadAddedShape
    <3>3. DistinctLocs(scopes') /\ Live(scopes', content', Held)
      BY <1>1, <2>2, <3>1, PayloadAddedKeeps
    <3>4. content' \in Contents
      BY <1>1, <2>2, <3>1 DEF Contents
    <3>5. \A i \in 1 .. Top : Len(scopes[i].slots) \in Nat
      BY <1>1, ScopeFacts
    <3>6. Grows(scopes', scopes)
      BY <1>1, <3>2, <3>5 DEF Grows
    <3>7. scopes' # <<>>
      BY <1>1, <3>2
    <3>8. \A i \in 1 .. Len(scopes') : Len(scopes'[i].slots) <= SlotMax
      BY <1>1, <3>2
    <3> QED BY <3>2, <3>3, <3>4, <3>6, <3>7, <3>8 DEF StoreOk
  <2> QED BY <2>3, <2>4
<1> QED BY <1>2, <1>3

LEMMA HeldLess ==
  ASSUME NEW sc, NEW ct, NEW held, NEW less \in SUBSET held, StoreOk(sc, ct, held)
  PROVE  StoreOk(sc, ct, less)
BY DEF StoreOk, Live, HeldSafe

LEMMA PopStep ==
  ASSUME ScopesInv, NEW d \in 1 .. Top, PopTo(d)
  PROVE  /\ scopes' \in Seq(ScopeRec) /\ Len(scopes') = d
         /\ \A i \in 1 .. d : scopes'[i] = scopes[i]
         /\ StoreOk(scopes', content', Held)
<1>1. /\ scopes \in Seq(ScopeRec) /\ content \in Contents /\ Held \in SUBSET Loc
      /\ DistinctLocs(scopes) /\ Live(scopes, content, Held)
      /\ Top \in Nat \ {0} /\ Top = Len(scopes)
      /\ \A i \in 1 .. Len(scopes) : Len(scopes[i].slots) <= SlotMax
  BY InvFacts DEF StoreOk, Top
<1>2. scopes' = SubSeq(scopes, 1, d) /\ content' = Dropped(scopes, content, d)
  BY DEF PopTo, Dropped, Gone, Top
<1>3. /\ scopes' \in Seq(ScopeRec) /\ Len(scopes') = d /\ \A i \in 1 .. d : scopes'[i] = scopes[i]
      /\ content' \in Contents /\ DistinctLocs(scopes') /\ Live(scopes', content', Held)
  BY <1>1, <1>2, DropKeeps
<1>4. scopes' # <<>> /\ \A i \in 1 .. Len(scopes') : Len(scopes'[i].slots) <= SlotMax
  BY <1>1, <1>3
<1> QED BY <1>3, <1>4 DEF StoreOk

(* Calls whose floor is still there, and the cache.                         *)
LEMMA PopKeeps ==
  ASSUME ScopesInv, NEW d \in 1 .. Top, NEW new, Len(new) = d,
         \A i \in 1 .. d : new[i] = scopes[i],
         NEW k \in 0 .. Len(frames), NEW fr, fr = SubSeq(frames, 1, k),
         k > 0 => frames[k].floor <= d
  PROVE  /\ FramesOk(fr, new) /\ CacheOk(addr_cache, new)
         /\ HeldBy(fr, closures) \in SUBSET Held
<1>1. /\ frames \in Seq(FrameRec) /\ Len(frames) \in Nat /\ Top \in Nat /\ Top = Len(scopes)
      /\ FramesOk(frames, scopes) /\ CacheOk(addr_cache, scopes)
  BY InvFacts DEF Top
<1>2. /\ fr \in Seq(FrameRec) /\ Len(fr) = k /\ DOMAIN fr = 1 .. k
      /\ \A i \in 1 .. k : fr[i] = frames[i]
  BY <1>1, PrefixFacts
<1>3. ASSUME NEW i \in 1 .. k
      PROVE  frames[i].floor <= d /\ frames[i].floor \in 2 .. Len(scopes)
  <2>1. frames[i].floor \in 2 .. Len(scopes) /\ frames[k].floor \in 2 .. Len(scopes)
    BY <1>1 DEF FramesOk
  <2>2. i < k => frames[i].floor < frames[k].floor
    BY <1>1 DEF FramesOk
  <2> QED BY <1>1, <2>1, <2>2
<1>4. ASSUME NEW i \in 1 .. k
      PROVE  /\ fr[i].floor \in 2 .. Len(new)
             /\ fr[i].fn \in Fn => Len(new[fr[i].floor].slots) >= 1
  <2>1. fr[i].floor \in 2 .. d /\ fr[i].floor \in 1 .. d
    BY <1>1, <1>2, <1>3
  <2>2. fr[i].fn \in Fn => Len(scopes[fr[i].floor].slots) >= 1
    BY <1>1, <1>2 DEF FramesOk
  <2> QED BY <2>1, <2>2
<1>5. \A i, j \in 1 .. k : i < j => fr[i].floor < fr[j].floor
  BY <1>1, <1>2 DEF FramesOk
<1>6. FramesOk(fr, new)
  BY <1>2, <1>4, <1>5 DEF FramesOk
<1>7. CacheOk(addr_cache, new)
  BY <1>1 DEF CacheOk
<1>8. HeldBy(fr, closures) \subseteq Held
  <2>1. \A i \in DOMAIN fr : i \in DOMAIN frames /\ fr[i].ups = frames[i].ups
    BY <1>1, <1>2, SeqFacts
  <2> QED BY <2>1 DEF HeldBy, Held
<1> QED BY <1>6, <1>7, <1>8

(* A call pushes its scope and its frame.                                   *)
LEMMA CallKeeps ==
  ASSUME ScopesInv, NEW new \in Seq(ScopeRec), Len(new) = Top + 1,
         \A i \in 1 .. Top : new[i] = scopes[i],
         NEW f \in FrameRec, f.floor = Top + 1, f.fn \in Fn => Len(new[Top + 1].slots) >= 1
  PROVE  FramesOk(Append(frames, f), new) /\ CacheOk(addr_cache, new)
<1> DEFINE fr == Append(frames, f)
           k == Len(frames)
<1>1. /\ frames \in Seq(FrameRec) /\ k \in Nat /\ Top \in Nat \ {0} /\ Top = Len(scopes)
      /\ FramesOk(frames, scopes) /\ CacheOk(addr_cache, scopes)
  BY InvFacts DEF Top
<1>2. /\ fr \in Seq(FrameRec) /\ Len(fr) = k + 1 /\ fr[k + 1] = f
      /\ \A i \in 1 .. k : fr[i] = frames[i]
  BY <1>1, AppendFacts
<1> HIDE DEF fr, k
<1>3. \A i \in 1 .. k : /\ frames[i].floor \in 2 .. Top
                        /\ frames[i].fn \in Fn => Len(scopes[frames[i].floor].slots) >= 1
  BY <1>1 DEF FramesOk, k
<1>4. ASSUME NEW i \in 1 .. k + 1
      PROVE  /\ fr[i].floor \in 2 .. Len(new)
             /\ fr[i].fn \in Fn => Len(new[fr[i].floor].slots) >= 1
  <2>1. CASE i = k + 1
    BY <1>1, <1>2, <2>1
  <2>2. CASE i \in 1 .. k
    <3>1. /\ fr[i].floor \in 2 .. Top
          /\ fr[i].fn \in Fn => Len(scopes[fr[i].floor].slots) >= 1
      BY <1>2, <1>3, <2>2
    <3>2. fr[i].floor \in 1 .. Top /\ fr[i].floor \in 2 .. Len(new)
      BY <1>1, <3>1
    <3> QED BY <3>1, <3>2
  <2> QED BY <1>1, <2>1, <2>2
<1>5. ASSUME NEW i \in 1 .. k + 1, NEW j \in 1 .. k + 1, i < j
      PROVE  fr[i].floor < fr[j].floor
  <2>1. i \in 1 .. k
    BY <1>1, <1>5
  <2>2. CASE j = k + 1
    BY <1>1, <1>2, <1>3, <2>1, <2>2
  <2>3. CASE j \in 1 .. k
    BY <1>1, <1>2, <1>5, <2>1, <2>3 DEF FramesOk, k
  <2> QED BY <1>1, <2>2, <2>3
<1>6. FramesOk(fr, new)
  BY <1>2, <1>4, <1>5 DEF FramesOk
<1>7. CacheOk(addr_cache, new)
  BY <1>1 DEF CacheOk
<1> QED BY <1>6, <1>7 DEF fr

(* What a call of a closure holds, a closure holds already.                 *)
LEMMA CallHolds ==
  ASSUME ScopesInv, NEW f \in FrameRec,
         \A n \in Name : f.ups[n] # NoLoc => f.ups[n] \in Held
  PROVE  HeldBy(Append(frames, f), closures) \in SUBSET Held
<1> DEFINE fr == Append(frames, f)
           k == Len(frames)
<1>1. /\ frames \in Seq(FrameRec) /\ k \in Nat /\ DOMAIN frames = 1 .. k
  BY InvFacts, SeqFacts
<1>2. /\ DOMAIN fr = 1 .. k + 1 /\ fr[k + 1] = f /\ \A i \in 1 .. k : fr[i] = frames[i]
  BY <1>1, AppendFacts
<1> HIDE DEF fr, k
<1>3. \A i \in DOMAIN fr : fr[i] = f \/ (i \in DOMAIN frames /\ fr[i] = frames[i])
  BY <1>1, <1>2
<1> QED BY <1>3 DEF HeldBy, Held, fr

(* Names become boxes: what the closure will hold is safe from then on.     *)
LEMMA BoxStep ==
  ASSUME ScopesInv, NEW ns \in SUBSET Name, \A n \in ns : vm_scope_get(n) # NullAddr,
         vm_box_slot(ns)
  PROVE  /\ scopes' \in Seq(ScopeRec) /\ Grows(scopes', scopes)
         /\ {BoxLoc(n) : n \in ns} \in SUBSET Loc
         /\ StoreOk(scopes', content', Held \cup {BoxLoc(n) : n \in ns})
<1> DEFINE fresh == {p \in BoxedSlots(ns) : ~scopes[p[1]].slots[p[2]].boxed}
           spilled == {HolderOf(n) : n \in {m \in ns : SlotsNamed(HolderOf(m), m) = {}}}
           boxes == {BoxLoc(n) : n \in ns}
<1>1. /\ scopes \in Seq(ScopeRec) /\ scopes # <<>> /\ content \in Contents
      /\ Held \in SUBSET Loc
      /\ DistinctLocs(scopes) /\ Live(scopes, content, Held)
      /\ Top \in Nat \ {0} /\ Top = Len(scopes)
      /\ \A i \in 1 .. Len(scopes) : Len(scopes[i].slots) <= SlotMax
  BY InvFacts DEF StoreOk, Top
<1>2. scopes' = Boxed(scopes, fresh, spilled) /\ content' = BoxFilled(scopes, content, fresh)
  BY DEF vm_box_slot, Boxed, BoxFilled, Top
<1>3. \A n \in ns : HolderOf(n) \in 1 .. Top /\ Holds(HolderOf(n), n)
  BY LookupValid, HolderFacts
<1>4. ASSUME NEW n \in ns, SlotsNamed(HolderOf(n), n) # {}
      PROVE  /\ Slot(HolderOf(n), n) \in 1 .. Len(scopes[HolderOf(n)].slots)
             /\ scopes[HolderOf(n)].slots[Slot(HolderOf(n), n)].loc \in Loc
             /\ BoxLoc(n) = scopes[HolderOf(n)].slots[Slot(HolderOf(n), n)].loc
             /\ <<HolderOf(n), Slot(HolderOf(n), n)>> \in BoxedSlots(ns)
  <2>1. HolderOf(n) \in 1 .. Top
    BY <1>3
  <2>2. /\ Slot(HolderOf(n), n) \in 1 .. Len(scopes[HolderOf(n)].slots)
        /\ scopes[HolderOf(n)].slots[Slot(HolderOf(n), n)].loc \in Loc
    BY <1>4, <2>1, SlotsNamedFacts
  <2>3. BoxLoc(n) = scopes[HolderOf(n)].slots[Slot(HolderOf(n), n)].loc
    BY <1>4 DEF BoxLoc
  <2>4. <<HolderOf(n), Slot(HolderOf(n), n)>> \in BoxedSlots(ns)
    BY <1>4 DEF BoxedSlots
  <2> QED BY <2>2, <2>3, <2>4
<1>5. fresh \in SUBSET Slots(scopes)
  <2> SUFFICES ASSUME NEW p \in BoxedSlots(ns) PROVE p \in Slots(scopes)
    OBVIOUS
  <2>1. PICK n \in ns : SlotsNamed(HolderOf(n), n) # {} /\ p = <<HolderOf(n), Slot(HolderOf(n), n)>>
    BY DEF BoxedSlots
  <2>2. HolderOf(n) \in 1 .. Len(scopes) /\ Slot(HolderOf(n), n) \in 1 .. Len(scopes[HolderOf(n)].slots)
    BY <1>1, <1>3, <1>4, <2>1
  <2>3. Slot(HolderOf(n), n) \in Nat
    BY <1>1, <2>2, ScopeFacts
  <2> QED BY <2>1, <2>2, <2>3 DEF Slots
<1>6. ASSUME NEW l \in boxes
      PROVE  /\ l \in Loc
             /\ \/ \E i \in 1 .. Len(scopes) : \E j \in 1 .. Len(scopes[i].slots) :
                     l = scopes[i].slots[j].loc /\ (scopes[i].slots[j].boxed \/ <<i, j>> \in fresh)
                \/ \E i \in 1 .. Len(scopes), n \in Name : i \in spilled /\ l = scopes[i].map[n]
  <2>1. PICK n \in ns : l = BoxLoc(n)
    OBVIOUS
  <2>2. HolderOf(n) \in 1 .. Len(scopes) /\ Holds(HolderOf(n), n)
    BY <1>1, <1>3
  <2>3. CASE SlotsNamed(HolderOf(n), n) = {}
    <3>1. l = scopes[HolderOf(n)].map[n] /\ HolderOf(n) \in spilled
      BY <2>1, <2>3 DEF BoxLoc
    <3>2. scopes[HolderOf(n)].map[n] \in Loc
      BY <1>1, <2>2, <2>3, ScopeFacts DEF Holds
    <3> QED BY <2>2, <3>1, <3>2
  <2>4. CASE SlotsNamed(HolderOf(n), n) # {}
    <3> DEFINE i == HolderOf(n)
               j == Slot(HolderOf(n), n)
    <3>1. /\ j \in 1 .. Len(scopes[i].slots) /\ l = scopes[i].slots[j].loc /\ l \in Loc
          /\ <<i, j>> \in BoxedSlots(ns)
      BY <1>4, <2>1, <2>4
    <3>2. scopes[i].slots[j].boxed \/ <<i, j>> \in fresh
      BY <3>1
    <3> HIDE DEF i, j, fresh, spilled
    <3>3. \E y \in 1 .. Len(scopes[i].slots) :
            l = scopes[i].slots[y].loc /\ (scopes[i].slots[y].boxed \/ <<i, y>> \in fresh)
      BY <3>1, <3>2
    <3> QED BY <2>2, <3>1, <3>3 DEF i
  <2> QED BY <2>3, <2>4
<1>7. boxes \in SUBSET Loc
  BY <1>6
<1>8. HaveHomes(boxes, scopes, fresh, spilled)
  BY <1>5, <1>6, <1>7 DEF HaveHomes
<1> HIDE DEF fresh, spilled, boxes
<1>9. /\ scopes' \in Seq(ScopeRec) /\ Len(scopes') = Len(scopes) /\ content' \in Contents
      /\ DistinctLocs(scopes') /\ Live(scopes', content', Held \cup boxes)
  <2> DEFINE new == Boxed(scopes, fresh, spilled)
             nc == BoxFilled(scopes, content, fresh)
  <2>1. /\ new \in Seq(ScopeRec) /\ Len(new) = Len(scopes) /\ nc \in Contents
        /\ DistinctLocs(new) /\ Live(new, nc, Held \cup boxes)
    BY <1>1, <1>8, BoxKeeps
  <2> QED BY <1>2, <2>1
<1>10. \A i \in 1 .. Len(scopes) : Len(scopes'[i].slots) = Len(scopes[i].slots)
  BY <1>1, <1>2, BoxedShape
<1>11. Grows(scopes', scopes)
  BY <1>1, <1>9, <1>10, ScopeFacts DEF Grows
<1>12. scopes' # <<>> /\ \A i \in 1 .. Len(scopes') : Len(scopes'[i].slots) <= SlotMax
  BY <1>1, <1>9, <1>10
<1> QED BY <1>7, <1>9, <1>11, <1>12 DEF StoreOk, boxes

-----------------------------------------------------------------------------
(* Every step keeps the invariant.                                          *)

LEMMA InitInv ==
  ASSUME Init PROVE ScopesInv
<1>1. /\ EmptyScope \in ScopeRec /\ EmptyScope.slots = <<>> /\ Len(EmptyScope.slots) = 0
      /\ EmptyScope.captured = FALSE /\ \A n \in Name : EmptyScope.map[n] = NoLoc
  BY EmptyScopeFacts
<1> HIDE DEF EmptyScope
<1>2. /\ scopes = <<EmptyScope>> /\ scopes \in Seq(ScopeRec) /\ Len(scopes) = 1
      /\ scopes[1] = EmptyScope
  BY <1>1 DEF Init
<1>3. DistinctLocs(scopes)
  BY <1>1, <1>2 DEF DistinctLocs, DistinctSlots, SlotsOffMaps, DistinctPayloads
<1>4. content \in Contents
  BY ScopesAssumption DEF Init, Contents
<1>5. HeldBy(frames, closures) = {}
  <2>1. \A k \in Closure, n \in Name : closures[k][n] = NoLoc
    BY DEF Init, Unbound
  <2>2. DOMAIN frames = {}
    BY DEF Init
  <2> QED BY <2>1, <2>2 DEF HeldBy
<1>6. Live(scopes, content, {})
  <2>1. HeldSafe(scopes, content, {})
    BY DEF HeldSafe
  <2>2. PayloadsLive(scopes, content)
    BY <1>1, <1>2 DEF PayloadsLive
  <2>3. BoxesLive(scopes, content)
    BY <1>1, <1>2 DEF BoxesLive
  <2> QED BY <2>1, <2>2, <2>3 DEF Live
<1>7. \A i \in 1 .. Len(scopes) : Len(scopes[i].slots) <= SlotMax
  BY <1>1, <1>2, ScopesAssumption
<1>8. StoreOk(scopes, content, HeldBy(frames, closures))
  BY <1>2, <1>3, <1>4, <1>5, <1>6, <1>7 DEF StoreOk
<1>9. FramesOk(frames, scopes)
  BY DEF FramesOk, Init
<1>10. CacheOk(addr_cache, scopes)
  BY DEF CacheOk, Init
<1>11. closures \in ClosureSet
  BY DEF Init, ClosureSet, Unbound
<1>12. acc \in Value \cup {Freed} /\ status \in {"running", "error"}
  BY ScopesAssumption DEF Init
<1> QED BY <1>8, <1>9, <1>10, <1>11, <1>12 DEF ScopesInv, StateOk

(* The steps that leave the calls and the closures alone.                   *)
LEMMA QuietKeeps ==
  ASSUME ScopesInv, UNCHANGED <<frames, closures>>,
         scopes' \in Seq(ScopeRec), Grows(scopes', scopes),
         StoreOk(scopes', content', Held), CacheOk(addr_cache', scopes)
  PROVE  StateOk(scopes', content', frames', closures', addr_cache')
<1>1. FramesOk(frames', scopes') /\ CacheOk(addr_cache', scopes')
  <2>1. FramesOk(frames, scopes) /\ scopes \in Seq(ScopeRec) /\ scopes # <<>>
    BY InvFacts
  <2>2. FramesOk(frames, scopes') /\ CacheOk(addr_cache', scopes')
    BY <2>1, GrowsKeeps
  <2> QED BY <2>2
<1>2. Held = HeldBy(frames', closures')
  BY DEF Held
<1>3. closures' \in ClosureSet
  BY InvFacts
<1> QED BY <1>1, <1>2, <1>3 DEF StateOk

LEMMA SameScopes ==
  ASSUME ScopesInv, UNCHANGED <<scopes, content>>
  PROVE  /\ scopes' \in Seq(ScopeRec) /\ Grows(scopes', scopes)
         /\ StoreOk(scopes', content', Held)
<1>1. scopes \in Seq(ScopeRec) /\ StoreOk(scopes, content, Held)
  BY InvFacts
<1>2. Grows(scopes, scopes)
  BY <1>1, ScopeFacts DEF Grows
<1> QED BY <1>1, <1>2

LEMMA WriteGrows ==
  ASSUME ScopesInv, NEW a, NEW v \in Value, ValidAddr(a, scopes), Write(a, v)
  PROVE  /\ scopes' \in Seq(ScopeRec) /\ Grows(scopes', scopes)
         /\ StoreOk(scopes', content', Held)
<1>1. SameBindings(scopes', scopes) /\ StoreOk(scopes', content', Held)
  BY WriteStep
<1>2. scopes \in Seq(ScopeRec)
  BY InvFacts
<1> QED BY <1>1, <1>2, SameGrows DEF SameBindings

(* A running function has a call, and its floor a slot.                     *)
LEMMA ParamValid ==
  ASSUME ScopesInv, Running \in Fn
  PROVE  ValidAddr(ParamAddr, scopes)
<1>1. frames # <<>> /\ frames[Len(frames)].fn \in Fn
  BY ScopesAssumption DEF Running
<1>2. Len(frames) \in 1 .. Len(frames)
  BY <1>1, InvFacts, SeqFacts
<1>3. vm_scope_floor \in 1 .. Len(scopes) /\ Len(scopes[vm_scope_floor].slots) >= 1
  BY <1>1, <1>2, InvFacts DEF vm_scope_floor, FramesOk, Top
<1>4. scopes \in Seq(ScopeRec)
  BY InvFacts
<1>5. 1 \in 1 .. Len(scopes[vm_scope_floor].slots) /\ scopes[vm_scope_floor].slots[1].loc \in Loc
  BY <1>3, <1>4, ScopeFacts
<1> QED BY <1>3, <1>5 DEF ParamAddr, ValidAddr

(* The sites of names.                                                      *)
LEMMA NameStepsKeep ==
  ASSUME ScopesInv, NameSteps
  PROVE  ScopesInv'
<1> USE DEF ScopesInv
<1>1. ASSUME NEW s \in Site, Load(s) PROVE ScopesInv'
  <2>1. StateOk(scopes, content, frames, closures, addr_cache)'
    BY <1>1, SameScopes, RememberOk, QuietKeeps DEF Load
  <2>2. acc' \in Value \cup {Freed} /\ status' \in {"running", "error"}
    <3>1. CASE Resolve(s) = NullAddr
      BY <1>1, <3>1, ScopesAssumption DEF Load
    <3>2. CASE Resolve(s) # NullAddr
      BY <1>1, <3>2, ResolveValid, DerefFacts DEF Load
    <3> QED BY <3>1, <3>2
  <2> QED BY <2>1, <2>2
<1>2. ASSUME NEW s \in Site, NEW v \in Value, Store(s, v) PROVE ScopesInv'
  <2>1. CASE Resolve(s) # NullAddr
    <3>1. Write(Resolve(s), v) /\ Remember(s)
      BY <1>2, <2>1 DEF Store
    <3>2. ValidAddr(Resolve(s), scopes)
      BY <2>1, ResolveValid
    <3> QED BY <1>2, <3>1, <3>2, WriteGrows, RememberOk, QuietKeeps DEF Store
  <2>2. CASE Resolve(s) = NullAddr
    <3>1. vm_scope_define(SiteName[s], v) /\ addr_cache' = addr_cache
      BY <1>2, <2>2 DEF Store
    <3>2. SiteName[s] \in Name
      BY ScopesAssumption
    <3>3. CacheOk(addr_cache', scopes)
      BY <3>1, InvFacts
    <3> QED BY <1>2, <3>1, <3>2, <3>3, DefineStep, QuietKeeps DEF Store
  <2> QED BY <2>1, <2>2
<1>3. ASSUME NEW s \in Site, NEW v \in Value, Compound(s, v) PROVE ScopesInv'
  <2>1. CASE Resolve(s) # NullAddr
    <3>1. Write(Resolve(s), v) /\ Remember(s)
      BY <1>3, <2>1 DEF Compound
    <3>2. ValidAddr(Resolve(s), scopes)
      BY <2>1, ResolveValid
    <3> QED BY <1>3, <2>1, <3>1, <3>2, WriteGrows, RememberOk, QuietKeeps DEF Compound
  <2>2. CASE Resolve(s) = NullAddr
    BY <1>3, <2>2, SameScopes, RememberOk, QuietKeeps DEF Compound
  <2> QED BY <2>1, <2>2
<1>4. ASSUME NEW n \in Name, NEW v \in Value, DefineLoopVar(n, v) PROVE ScopesInv'
  <2>1. CacheOk(addr_cache', scopes)
    BY <1>4, InvFacts DEF DefineLoopVar
  <2> QED BY <1>4, <2>1, DefineStep, QuietKeeps DEF DefineLoopVar
<1>5. CASE LoadLocal
  <2>1. CacheOk(addr_cache', scopes)
    BY <1>5, InvFacts DEF LoadLocal
  <2>2. acc' \in Value \cup {Freed}
    BY <1>5, ParamValid, DerefFacts DEF LoadLocal
  <2> QED BY <1>5, <2>1, <2>2, SameScopes, QuietKeeps DEF LoadLocal
<1>6. ASSUME NEW v \in Value, StoreLocal(v) PROVE ScopesInv'
  <2>1. CacheOk(addr_cache', scopes)
    BY <1>6, InvFacts DEF StoreLocal
  <2> QED BY <1>6, <2>1, ParamValid, WriteGrows, QuietKeeps DEF StoreLocal
<1> QED BY <1>1, <1>2, <1>3, <1>4, <1>5, <1>6 DEF NameSteps

(* Scopes come and go, with calls or without.                               *)
LEMMA PopReturns ==
  ASSUME ScopesInv, NEW d \in 1 .. Top, PopTo(d), UNCHANGED <<closures, addr_cache>>,
         NEW k \in 0 .. Len(frames), frames' = SubSeq(frames, 1, k),
         k > 0 => frames[k].floor <= d
  PROVE  StateOk(scopes', content', frames', closures', addr_cache')
<1>1. /\ Len(scopes') = d /\ \A i \in 1 .. d : scopes'[i] = scopes[i]
      /\ StoreOk(scopes', content', Held)
  BY PopStep
<1>2. /\ FramesOk(frames', scopes') /\ CacheOk(addr_cache, scopes')
      /\ HeldBy(frames', closures) \in SUBSET Held
  BY <1>1, PopKeeps
<1>3. StoreOk(scopes', content', HeldBy(frames', closures))
  BY <1>1, <1>2, HeldLess
<1>4. closures \in ClosureSet
  BY InvFacts
<1> QED BY <1>2, <1>3, <1>4 DEF StateOk

LEMMA FloorFacts ==
  ASSUME ScopesInv
  PROVE  /\ Len(frames) > 0 => /\ vm_scope_floor = frames[Len(frames)].floor
                               /\ vm_scope_floor \in 2 .. Top
         /\ Len(frames) = 0 => frames = <<>> /\ vm_scope_floor = 1
         /\ frames = SubSeq(frames, 1, Len(frames))
         /\ \A i \in 1 .. Len(frames) : frames[i].floor <= vm_scope_floor
                                        /\ (i < Len(frames) => frames[i].floor < vm_scope_floor)
<1>1. frames \in Seq(FrameRec) /\ Len(frames) \in Nat /\ FramesOk(frames, scopes)
  BY InvFacts
<1>2. ASSUME Len(frames) > 0
      PROVE  vm_scope_floor = frames[Len(frames)].floor /\ vm_scope_floor \in 2 .. Top
  <2>1. Len(frames) \in 1 .. Len(frames) /\ frames # <<>>
    BY <1>1, <1>2
  <2>2. vm_scope_floor = frames[Len(frames)].floor
    BY <2>1 DEF vm_scope_floor
  <2>3. frames[Len(frames)].floor \in 2 .. Top
    BY <1>1, <2>1 DEF FramesOk, Top
  <2> QED BY <2>2, <2>3
<1>3. Len(frames) = 0 => frames = <<>> /\ vm_scope_floor = 1
  BY <1>1 DEF vm_scope_floor
<1>4. frames = SubSeq(frames, 1, Len(frames))
  BY <1>1, PrefixWhole DEF Prefix
<1>5. ASSUME NEW i \in 1 .. Len(frames)
      PROVE  frames[i].floor <= vm_scope_floor
             /\ (i < Len(frames) => frames[i].floor < vm_scope_floor)
  <2>1. Len(frames) > 0 /\ Len(frames) \in 1 .. Len(frames)
    BY <1>1
  <2>2. vm_scope_floor = frames[Len(frames)].floor /\ vm_scope_floor \in 2 .. Top
    BY <1>2, <2>1
  <2>3. frames[i].floor \in 2 .. Top
    BY <1>1 DEF FramesOk, Top
  <2>4. i < Len(frames) => frames[i].floor < frames[Len(frames)].floor
    BY <1>1, <2>1 DEF FramesOk
  <2>5. i = Len(frames) \/ i < Len(frames)
    BY <1>1
  <2>6. Top \in Nat
    BY InvFacts
  <2> QED BY <2>2, <2>3, <2>4, <2>5, <2>6
<1> QED BY <1>2, <1>3, <1>4, <1>5

(* An empty scope is pushed.                                                *)
LEMMA EmptyStep ==
  ASSUME ScopesInv, scopes' = Append(scopes, EmptyScope), content' = content
  PROVE  /\ scopes' \in Seq(ScopeRec) /\ Len(scopes') = Top + 1
         /\ \A i \in 1 .. Top : scopes'[i] = scopes[i]
         /\ Grows(scopes', scopes) /\ StoreOk(scopes', content', Held)
<1>1. /\ scopes \in Seq(ScopeRec) /\ scopes # <<>> /\ content \in Contents
      /\ Held \in SUBSET Loc /\ DistinctLocs(scopes) /\ Live(scopes, content, Held)
      /\ Top \in Nat \ {0} /\ Top = Len(scopes)
      /\ \A i \in 1 .. Len(scopes) : Len(scopes[i].slots) <= SlotMax
  BY InvFacts DEF StoreOk, Top
<1>2. /\ scopes' \in Seq(ScopeRec) /\ Len(scopes') = Top + 1
      /\ DistinctLocs(scopes') /\ Live(scopes', content', Held)
  BY <1>1, EmptyPushed
<1>3. /\ \A i \in 1 .. Top : scopes'[i] = scopes[i]
      /\ Len(scopes'[Top + 1].slots) = 0
  BY <1>1, EmptyScopeFacts, AppendFacts
<1>4. Grows(scopes', scopes)
  BY <1>1, <1>2, <1>3, ScopeFacts DEF Grows
<1>5. scopes' # <<>> /\ \A i \in 1 .. Len(scopes') : Len(scopes'[i].slots) <= SlotMax
  <2>1. \A i \in 1 .. Top + 1 : i \in 1 .. Top \/ i = Top + 1
    BY <1>1
  <2>2. SlotMax >= 0 /\ scopes' # <<>>
    BY <1>1, <1>2, ScopesAssumption
  <2>3. \A i \in 1 .. Top : Len(scopes'[i].slots) <= SlotMax
    BY <1>1, <1>3
  <2> QED BY <1>2, <1>3, <2>1, <2>2, <2>3
<1> QED BY <1>1, <1>2, <1>3, <1>4, <1>5 DEF StoreOk

LEMMA ScopeStepsKeep ==
  ASSUME ScopesInv, ScopeSteps
  PROVE  ScopesInv'
<1> USE DEF ScopesInv
<1>1. /\ scopes \in Seq(ScopeRec) /\ scopes # <<>> /\ content \in Contents
      /\ Held \in SUBSET Loc /\ DistinctLocs(scopes) /\ Live(scopes, content, Held)
      /\ Top \in Nat \ {0} /\ Top = Len(scopes)
      /\ frames \in Seq(FrameRec) /\ Len(frames) \in Nat /\ closures \in ClosureSet
      /\ FramesOk(frames, scopes) /\ CacheOk(addr_cache, scopes)
      /\ vm_scope_floor \in 1 .. Top
      /\ \A i \in 1 .. Len(scopes) : Len(scopes[i].slots) <= SlotMax
  BY InvFacts DEF StoreOk, Top
<1>2. \A i \in 1 .. Top + 1 : i \in 1 .. Top \/ i = Top + 1
  <2>1. Top \in Nat
    BY <1>1
  <2> HIDE DEF Top
  <2> QED BY <2>1
<1>3. CASE PushScope
  <2>1. /\ scopes' \in Seq(ScopeRec) /\ Grows(scopes', scopes)
        /\ StoreOk(scopes', content', Held)
    BY <1>3, EmptyStep DEF PushScope
  <2>2. CacheOk(addr_cache', scopes)
    BY <1>1, <1>3 DEF PushScope
  <2> QED BY <1>3, <2>1, <2>2, QuietKeeps DEF PushScope
<1>4. CASE PopScope
  <2>1. Top - 1 \in 1 .. Top /\ vm_scope_floor <= Top - 1
    BY <1>1, <1>4 DEF PopScope
  <2>2. Len(frames) > 0 => frames[Len(frames)].floor <= Top - 1
    BY <2>1, FloorFacts
  <2>3. frames' = SubSeq(frames, 1, Len(frames)) /\ Len(frames) \in 0 .. Len(frames)
    BY <1>1, <1>4, FloorFacts DEF PopScope
  <2> QED BY <1>4, <2>1, <2>2, <2>3, PopReturns DEF PopScope
<1>5. CASE Return
  <2>1. Len(frames) > 0
    BY <1>1, <1>5 DEF Return
  <2>2. vm_scope_floor \in 2 .. Top /\ vm_scope_floor - 1 \in 1 .. Top
    BY <1>1, <2>1, FloorFacts
  <2> DEFINE k == Len(frames) - 1
  <2>3. k \in 0 .. Len(frames)
    BY <1>1, <2>1
  <2>4. k > 0 => frames[k].floor <= vm_scope_floor - 1
    <3> SUFFICES ASSUME k > 0 PROVE frames[k].floor <= vm_scope_floor - 1
      OBVIOUS
    <3>1. k \in 1 .. Len(frames) /\ k < Len(frames)
      BY <1>1, <2>3
    <3>2. frames[k].floor < vm_scope_floor
      BY <3>1, FloorFacts
    <3>3. frames[k].floor \in 2 .. Top
      BY <1>1, <3>1 DEF FramesOk
    <3> QED BY <1>1, <2>2, <3>2, <3>3
  <2>5. frames' = SubSeq(frames, 1, k)
    BY <1>5 DEF Return
  <2> HIDE DEF k
  <2> QED BY <1>5, <2>2, <2>3, <2>4, <2>5, PopReturns DEF Return
<1>6. CASE Restart
  <2>1. frames' = SubSeq(frames, 1, 0)
    <3>1. SubSeq(frames, 1, 0) \in Seq(FrameRec) /\ Len(SubSeq(frames, 1, 0)) = 0
      BY <1>1, PrefixFacts
    <3> QED BY <1>6, <3>1 DEF Restart
  <2>2. 1 \in 1 .. Top /\ 0 \in 0 .. Len(frames) /\ ~(0 > 0)
    BY <1>1
  <2> QED BY <1>6, <2>1, <2>2, PopReturns DEF Restart
<1>7. ASSUME NEW f \in Fn, NEW v \in Value, Call(f, v) PROVE ScopesInv'
  <2> DEFINE r == [fn |-> f, floor |-> Top + 1, ups |-> Unbound]
  <2>1. PICK l \in Loc \ InUse : scopes' = Append(scopes, ParamScope(Param[f], l, v))
    BY <1>7 DEF Call, ParamScope
  <2>2. Param[f] \in Name /\ l \in Loc /\ Fresh(l, scopes, Held)
    BY FreshLoc, ScopesAssumption
  <2>3. /\ scopes' \in Seq(ScopeRec) /\ Len(scopes') = Top + 1
        /\ DistinctLocs(scopes') /\ Live(scopes', content, Held)
    BY <1>1, <2>1, <2>2, ParamPushed
  <2>4. ParamScope(Param[f], l, v) \in ScopeRec /\ Len(ParamScope(Param[f], l, v).slots) = 1
    BY <2>2, ParamScopeFacts
  <2>5. /\ \A i \in 1 .. Top : scopes'[i] = scopes[i]
        /\ Len(scopes'[Top + 1].slots) = 1
    BY <1>1, <2>1, <2>4, AppendFacts
  <2>6. scopes' # <<>> /\ \A i \in 1 .. Len(scopes') : Len(scopes'[i].slots) <= SlotMax
    <3>1. SlotMax >= 1 /\ scopes' # <<>>
      BY <1>1, <2>3, ScopesAssumption
    <3>2. \A i \in 1 .. Top : Len(scopes'[i].slots) <= SlotMax
      BY <1>1, <2>5
    <3> QED BY <1>2, <2>3, <2>5, <3>1, <3>2
  <2>7. r \in FrameRec /\ r.floor = Top + 1 /\ \A n \in Name : r.ups[n] = NoLoc
    BY <1>1 DEF FrameRec, Unbound
  <2>8. frames' = Append(frames, r)
    BY <1>7 DEF Call
  <2> HIDE DEF r
  <2>9. FramesOk(frames', scopes') /\ CacheOk(addr_cache, scopes')
    <3>1. Len(scopes'[Top + 1].slots) >= 1
      BY <2>5
    <3>2. FramesOk(Append(frames, r), scopes') /\ CacheOk(addr_cache, scopes')
      BY <2>3, <2>5, <2>7, <3>1, CallKeeps
    <3> QED BY <2>8, <3>2
  <2>10. HeldBy(frames', closures) \in SUBSET Held
    BY <2>7, <2>8, CallHolds
  <2>11. StoreOk(scopes', content, Held)
    BY <1>1, <2>3, <2>6 DEF StoreOk
  <2>12. StoreOk(scopes', content, HeldBy(frames', closures))
    BY <2>10, <2>11, HeldLess
  <2> QED BY <1>1, <1>7, <2>9, <2>12 DEF Call, StateOk
<1> QED BY <1>3, <1>4, <1>5, <1>6, <1>7 DEF ScopeSteps

(* Closures are made and called.                                            *)
LEMMA ClosureStepsKeep ==
  ASSUME ScopesInv, ClosureSteps
  PROVE  ScopesInv'
<1> USE DEF ScopesInv
<1>1. /\ scopes \in Seq(ScopeRec) /\ scopes # <<>> /\ content \in Contents
      /\ Held \in SUBSET Loc /\ DistinctLocs(scopes) /\ Live(scopes, content, Held)
      /\ Top \in Nat \ {0} /\ Top = Len(scopes)
      /\ frames \in Seq(FrameRec) /\ Len(frames) \in Nat /\ closures \in ClosureSet
      /\ FramesOk(frames, scopes) /\ CacheOk(addr_cache, scopes)
      /\ StoreOk(scopes, content, Held)
      /\ \A i \in 1 .. Len(scopes) : Len(scopes[i].slots) <= SlotMax
  BY InvFacts DEF StoreOk, Top
<1>2. ASSUME NEW k \in Closure, MakeClosure(k) PROVE ScopesInv'
  <2> DEFINE ns == Captures[Running]
             bound == {n \in ns : vm_scope_get(n) # NullAddr}
  <2>1. ns \in SUBSET Name
    BY <1>2, ScopesAssumption DEF MakeClosure
  <2>2. CASE bound = ns
    <3> DEFINE boxes == {BoxLoc(n) : n \in ns}
    <3>1. /\ vm_box_slot(ns) /\ frames' = frames /\ addr_cache' = addr_cache
          /\ closures' = [closures EXCEPT ![k] =
                            [n \in Name |-> IF n \in ns THEN BoxLoc(n) ELSE NoLoc]]
          /\ acc' = acc /\ status' = status
      BY <1>2, <2>2 DEF MakeClosure
    <3>2. \A n \in ns : vm_scope_get(n) # NullAddr
      BY <2>2
    <3> HIDE DEF ns, bound
    <3>3. /\ scopes' \in Seq(ScopeRec) /\ Grows(scopes', scopes) /\ boxes \in SUBSET Loc
          /\ StoreOk(scopes', content', Held \cup boxes)
      BY <2>1, <3>1, <3>2, BoxStep
    <3>4. \A n \in ns : BoxLoc(n) \in boxes
      OBVIOUS
    <3> HIDE DEF boxes
    <3>5. closures' \in ClosureSet
      <4>1. [n \in Name |-> IF n \in ns THEN BoxLoc(n) ELSE NoLoc] \in [Name -> Loc \cup {NoLoc}]
        BY <3>3, <3>4
      <4> QED BY <1>1, <3>1, <4>1 DEF ClosureSet
    <3>6. HeldBy(frames', closures') \in SUBSET (Held \cup boxes)
      <4>1. \A c \in Closure, n \in Name :
              closures'[c][n] \in boxes \cup {NoLoc} \/ closures'[c][n] = closures[c][n]
        BY <1>1, <3>1, <3>4 DEF ClosureSet
      <4> QED BY <3>1, <4>1 DEF HeldBy, Held
    <3>7. StoreOk(scopes', content', HeldBy(frames', closures'))
      BY <3>3, <3>6, HeldLess
    <3>8. FramesOk(frames', scopes') /\ CacheOk(addr_cache', scopes')
      BY <1>1, <3>1, <3>3, GrowsKeeps
    <3> QED BY <3>1, <3>5, <3>7, <3>8 DEF StateOk
  <2>3. CASE bound # ns
    <3>1. PICK done \in SUBSET bound : vm_box_slot(done)
      BY <1>2, <2>3 DEF MakeClosure
    <3>2. /\ status' = "error" /\ closures' = closures /\ frames' = frames
          /\ addr_cache' = addr_cache /\ acc' = acc
      BY <1>2, <2>3 DEF MakeClosure
    <3>3. done \in SUBSET Name /\ \A n \in done : vm_scope_get(n) # NullAddr
      BY <2>1
    <3> DEFINE boxes == {BoxLoc(n) : n \in done}
    <3>4. /\ scopes' \in Seq(ScopeRec) /\ Grows(scopes', scopes)
          /\ StoreOk(scopes', content', Held \cup boxes)
      BY <3>1, <3>3, BoxStep
    <3> HIDE DEF boxes
    <3>5. StoreOk(scopes', content', Held)
      BY <3>4, HeldLess
    <3> QED BY <1>1, <3>2, <3>4, <3>5, QuietKeeps
  <2> QED BY <2>2, <2>3
<1>3. ASSUME NEW k \in Closure, CallClosure(k) PROVE ScopesInv'
  <2> DEFINE r == [fn |-> "closure", floor |-> Top + 1, ups |-> closures[k]]
  <2>1. scopes' = Append(scopes, EmptyScope) /\ frames' = Append(frames, r)
    BY <1>3 DEF CallClosure
  <2>2. /\ r \in FrameRec /\ r.floor = Top + 1 /\ r.fn \notin Fn
        /\ \A n \in Name : r.ups[n] = closures[k][n]
    BY <1>1, ScopesAssumption DEF FrameRec, ClosureSet
  <2> HIDE DEF r
  <2>3. /\ scopes' \in Seq(ScopeRec) /\ Len(scopes') = Top + 1
        /\ \A i \in 1 .. Top : scopes'[i] = scopes[i]
        /\ StoreOk(scopes', content', Held)
    BY <1>3, <2>1, EmptyStep DEF CallClosure
  <2>4. FramesOk(frames', scopes') /\ CacheOk(addr_cache, scopes')
    <3>1. FramesOk(Append(frames, r), scopes') /\ CacheOk(addr_cache, scopes')
      BY <2>2, <2>3, CallKeeps
    <3> QED BY <2>1, <3>1
  <2>5. HeldBy(frames', closures) \in SUBSET Held
    <3>1. \A n \in Name : r.ups[n] # NoLoc => r.ups[n] \in Held
      BY <2>2 DEF Held, HeldBy
    <3> QED BY <2>1, <2>2, <3>1, CallHolds
  <2>6. StoreOk(scopes', content', HeldBy(frames', closures))
    BY <2>3, <2>5, HeldLess
  <2> QED BY <1>1, <1>3, <2>4, <2>6 DEF CallClosure, StateOk
(* What a running closure holds.                                            *)
<1>4. ASSUME NEW n \in Name, Upvalue(n)
      PROVE  frames[Len(frames)].ups[n] \in Loc
  <2>1. Len(frames) \in 1 .. Len(frames)
    BY <1>1, <1>4 DEF Upvalue
  <2>2. frames[Len(frames)].ups \in [Name -> Loc \cup {NoLoc}]
    BY <1>1, <2>1, HeldLocs
  <2> QED BY <1>4, <2>2 DEF Upvalue
<1>5. ASSUME NEW n \in Name, LoadUpvalue(n) PROVE ScopesInv'
  <2>1. acc' \in Value \cup {Freed}
    BY <1>1, <1>4, <1>5 DEF LoadUpvalue, Contents
  <2>2. CacheOk(addr_cache', scopes)
    BY <1>1, <1>5 DEF LoadUpvalue
  <2> QED BY <1>5, <2>1, <2>2, SameScopes, QuietKeeps DEF LoadUpvalue
<1>6. ASSUME NEW n \in Name, NEW v \in Value, StoreUpvalue(n, v) PROVE ScopesInv'
  <2> DEFINE a == BoxAddr(frames[Len(frames)].ups[n])
  <2>1. ValidAddr(a, scopes)
    BY <1>4, <1>6 DEF ValidAddr, StoreUpvalue
  <2>2. Write(a, v)
    BY <1>6 DEF StoreUpvalue, Write, BoxAddr
  <2>3. CacheOk(addr_cache', scopes)
    BY <1>1, <1>6 DEF StoreUpvalue
  <2> HIDE DEF a
  <2> QED BY <1>6, <2>1, <2>2, <2>3, WriteGrows, QuietKeeps DEF StoreUpvalue
<1> QED BY <1>2, <1>3, <1>5, <1>6 DEF ClosureSteps

LEMMA ScopesStep ==
  ASSUME ScopesInv, [Next]_vars
  PROVE  ScopesInv'
<1>1. CASE Next
  BY <1>1, NameStepsKeep, ScopeStepsKeep, ClosureStepsKeep DEF Next
<1>2. CASE UNCHANGED vars
  BY <1>2 DEF vars, ScopesInv, StateOk
<1> QED BY <1>1, <1>2

(* The bindings, the calls that are running, what the closures hold and the *)
(* cached addresses fit together in every state.                            *)
THEOREM ScopesInvariant == Spec => []ScopesInv
BY InitInv, ScopesStep, PTL DEF Spec

(* The types of the model.                                                  *)
THEOREM ScopesTypes == Spec => []TypeOK
<1>1. ScopesInv => TypeOK
  <2> SUFFICES ASSUME ScopesInv PROVE TypeOK
    OBVIOUS
  <2>1. /\ scopes \in Seq(ScopeRec) /\ scopes # <<>> /\ content \in Contents
        /\ Top = Len(scopes) /\ closures \in ClosureSet /\ frames \in Seq(FrameRec)
        /\ FramesOk(frames, scopes)
        /\ \A i \in 1 .. Top : Len(scopes[i].slots) <= SlotMax
    BY InvFacts DEF StoreOk, Top
  <2>2. \A i \in 1 .. Top :
          /\ \A j \in DOMAIN scopes[i].slots : scopes[i].slots[j] \in SlotRec
          /\ scopes[i].map \in [Name -> Loc \cup {NoLoc}]
          /\ scopes[i].captured \in BOOLEAN
    BY <2>1, ScopeFacts
  <2>3. \A i \in DOMAIN frames : frames[i].floor \in 2 .. Top
    BY <2>1, SeqFacts DEF FramesOk
  <2>4. acc \in Value \cup {Freed} /\ status \in {"running", "error"}
    BY DEF ScopesInv
  <2> QED BY <2>1, <2>2, <2>3, <2>4 DEF TypeOK, Contents, ClosureSet
<1> QED BY <1>1, ScopesInvariant, PTL

(* overflow_has_captures (vm.c): what a closure holds is never freed with   *)
(* the scope it came from.                                                  *)
THEOREM CapturedPayloads == Spec => []CapturedPayloadNotFreed
<1>1. ScopesInv => CapturedPayloadNotFreed
  <2> SUFFICES ASSUME ScopesInv, NEW k \in Closure, NEW n \in Name, closures[k][n] # NoLoc
               PROVE  content[closures[k][n]] # Freed
    BY DEF CapturedPayloadNotFreed
  <2>1. closures[k][n] \in Held
    BY DEF Held, HeldBy
  <2>2. Live(scopes, content, Held)
    BY InvFacts
  <2> QED BY <2>1, <2>2 DEF Live, HeldSafe
<1> QED BY <1>1, ScopesInvariant, PTL

-----------------------------------------------------------------------------
(* What a cached address is.                                                *)

(* The names of a scope.                                                    *)
Named(sc, i) ==
  {sc[i].slots[j].name : j \in 1 .. Len(sc[i].slots)} \cup {n \in Name : sc[i].map[n] # NoLoc}

(* The global scope has each name in one slot at most.                      *)
GlobalsOk(sc) ==
  \A j, k \in 1 .. Len(sc[1].slots) : sc[1].slots[j].name = sc[1].slots[k].name => j = k

(* A cached address is that of the global slot with the site's name.        *)
KeptOk(cache, sc) ==
  \A s \in Site : cache[s] # NullAddr =>
    \E j \in 1 .. Len(sc[1].slots) : cache[s] = SlotAddr(1, j)
                                     /\ sc[1].slots[j].name = SiteName[s]

CacheInv == ScopesInv /\ GlobalsOk(scopes) /\ KeptOk(addr_cache, scopes)

LEMMA NamedHolds ==
  ASSUME ScopesInv, NEW i \in 1 .. Top, NEW n \in Name
  PROVE  /\ Holds(i, n) <=> n \in Named(scopes, i)
         /\ SlotsNamed(i, n) = {j \in 1 .. Len(scopes[i].slots) : scopes[i].slots[j].name = n}
<1>1. scopes \in Seq(ScopeRec) /\ i \in 1 .. Len(scopes)
  BY InvFacts DEF Top
<1>2. DOMAIN scopes[i].slots = 1 .. Len(scopes[i].slots)
  BY <1>1, ScopeFacts
<1>3. SlotsNamed(i, n) = {j \in 1 .. Len(scopes[i].slots) : scopes[i].slots[j].name = n}
  BY <1>2 DEF SlotsNamed
<1> QED BY <1>3 DEF Holds, Named

(* The slots of the global scope keep their names, boxed or not.            *)
SameGlobals(new, sc) ==
  /\ Len(new[1].slots) = Len(sc[1].slots)
  /\ \A j \in 1 .. Len(sc[1].slots) : new[1].slots[j].name = sc[1].slots[j].name

LEMMA SameGlobalsKeep ==
  ASSUME NEW sc, NEW new, SameGlobals(new, sc), NEW cache, GlobalsOk(sc), KeptOk(cache, sc)
  PROVE  GlobalsOk(new) /\ KeptOk(cache, new)
BY DEF SameGlobals, GlobalsOk, KeptOk

LEMMA WriteNames ==
  ASSUME ScopesInv, NEW a, NEW v \in Value, ValidAddr(a, scopes), Write(a, v)
  PROVE  SameGlobals(scopes', scopes)
<1>1. SameBindings(scopes', scopes)
  BY WriteStep
<1>2. 1 \in 1 .. Len(scopes)
  BY InvFacts DEF Top
<1> QED BY <1>1, <1>2 DEF SameGlobals, SameBindings

LEMMA RememberKept ==
  ASSUME CacheInv, NEW s \in Site, Remember(s)
  PROVE  KeptOk(addr_cache', scopes)
<1>1. KeptOk(addr_cache, scopes) /\ ScopesInv /\ DOMAIN addr_cache = Site
  BY InvFacts DEF CacheInv, CacheOk
<1>2. CASE Resolve(s) # NullAddr /\ Resolve(s) = vm_global_slot_address(SiteName[s])
  <2>1. addr_cache' = [addr_cache EXCEPT ![s] = Resolve(s)]
    BY <1>2 DEF Remember
  <2>2. /\ SlotsNamed(1, SiteName[s]) # {}
        /\ Resolve(s) = SlotAddr(1, Slot(1, SiteName[s]))
    BY <1>2 DEF vm_global_slot_address
  <2>3. 1 \in 1 .. Top
    BY <1>1, InvFacts
  <2>4. /\ Slot(1, SiteName[s]) \in 1 .. Len(scopes[1].slots)
        /\ scopes[1].slots[Slot(1, SiteName[s])].name = SiteName[s]
    BY <1>1, <2>2, <2>3, SlotsNamedFacts
  <2> QED BY <1>1, <2>1, <2>2, <2>4 DEF KeptOk
<1>3. CASE ~(Resolve(s) # NullAddr /\ Resolve(s) = vm_global_slot_address(SiteName[s]))
  <2>1. addr_cache' = addr_cache
    BY <1>3 DEF Remember
  <2> QED BY <1>1, <2>1
<1> QED BY <1>2, <1>3

(* A name is bound in the innermost scope.                                  *)
LEMMA DefineNames ==
  ASSUME CacheInv, NEW n \in Name, NEW v \in Value, vm_scope_define(n, v)
  PROVE  GlobalsOk(scopes') /\ KeptOk(addr_cache, scopes')
<1> DEFINE t == Len(scopes)
<1>1. /\ ScopesInv /\ GlobalsOk(scopes) /\ KeptOk(addr_cache, scopes)
      /\ scopes \in Seq(ScopeRec) /\ scopes # <<>> /\ t \in Nat \ {0} /\ Top = t
      /\ \A i \in 1 .. t : Len(scopes[i].slots) \in Nat
  BY InvFacts, ScopeFacts DEF CacheInv, Top
<1>2. CASE Holds(Top, n)
  <2>1. Write(AddrIn(Top, n), v) /\ ValidAddr(AddrIn(Top, n), scopes)
    BY <1>1, <1>2, AddrInValid DEF vm_scope_define
  <2> QED BY <1>1, <2>1, WriteNames, SameGlobalsKeep
<1>3. CASE ~Holds(Top, n)
  <2>1. PICK l \in Loc \ InUse :
          IF Len(scopes[t].slots) < SlotMax
          THEN scopes' = SlotAdded(scopes, n, l, v)
          ELSE scopes' = PayloadAdded(scopes, n, l)
    BY <1>3 DEF vm_scope_define, SlotAdded, PayloadAdded, Top
  <2>2. l \in Loc /\ l # NoLoc
    BY ScopesAssumption
  <2>3. \A j \in 1 .. Len(scopes[t].slots) : scopes[t].slots[j].name # n
    BY <1>1, <1>3, NamedHolds DEF Holds
  <2> HIDE DEF t
  <2>4. CASE Len(scopes[t].slots) < SlotMax /\ t = 1
    <3> DEFINE m == Len(scopes[1].slots)
    <3>1. /\ Len(scopes'[1].slots) = m + 1
          /\ \A j \in 1 .. (m + 1) - 1 : scopes'[1].slots[j] = scopes[1].slots[j]
          /\ scopes'[1].slots[m + 1] = NewSlot(n, l, v)
      BY <1>1, <2>1, <2>2, <2>4, SlotAddedShape DEF t
    <3>2. m \in Nat /\ (m + 1) - 1 = m /\ NewSlot(n, l, v).name = n
      BY <1>1, <2>4 DEF NewSlot
    <3>3. \A j \in 1 .. m : scopes[1].slots[j].name # n
      BY <2>3, <2>4
    <3>4. /\ \A j \in 1 .. m : scopes'[1].slots[j].name = scopes[1].slots[j].name
          /\ scopes'[1].slots[m + 1].name = n
      BY <3>1, <3>2
    <3>5. \A j, k \in 1 .. m : scopes[1].slots[j].name = scopes[1].slots[k].name => j = k
      BY <1>1 DEF GlobalsOk
    <3> HIDE DEF m
    <3>6. \A j \in 1 .. m + 1 : j \in 1 .. m \/ j = m + 1
      BY <3>2
    <3>7. GlobalsOk(scopes')
      BY <3>1, <3>3, <3>4, <3>5, <3>6 DEF GlobalsOk
    <3>8. KeptOk(addr_cache, scopes')
      <4>1. \A j \in 1 .. m : j \in 1 .. m + 1
        BY <3>2
      <4> QED BY <1>1, <3>1, <3>4, <4>1 DEF KeptOk, m
    <3> QED BY <3>7, <3>8
  <2>5. CASE ~(Len(scopes[t].slots) < SlotMax /\ t = 1)
    <3>1. SameGlobals(scopes', scopes)
      <4>1. CASE Len(scopes[t].slots) < SlotMax
        <5>1. \A i \in 1 .. t : i # t => scopes'[i] = scopes[i]
          BY <1>1, <2>1, <2>2, <4>1, SlotAddedShape DEF t
        <5> QED BY <1>1, <2>5, <4>1, <5>1 DEF SameGlobals
      <4>2. CASE ~(Len(scopes[t].slots) < SlotMax)
        <5>1. \A i \in 1 .. t : scopes'[i].slots = scopes[i].slots
          BY <1>1, <2>1, <2>2, <4>2, PayloadAddedShape DEF t
        <5> QED BY <1>1, <5>1 DEF SameGlobals
      <4> QED BY <4>1, <4>2
    <3> QED BY <1>1, <3>1, SameGlobalsKeep
  <2> QED BY <2>4, <2>5
<1> QED BY <1>2, <1>3

(* A scope is pushed, with a call or without.                               *)
LEMMA PushNames ==
  ASSUME CacheInv, NEW r \in ScopeRec, scopes' = Append(scopes, r)
  PROVE  GlobalsOk(scopes') /\ KeptOk(addr_cache, scopes')
<1>1. /\ GlobalsOk(scopes) /\ KeptOk(addr_cache, scopes)
      /\ scopes \in Seq(ScopeRec) /\ 1 \in 1 .. Len(scopes)
  BY InvFacts DEF CacheInv, Top
<1>2. scopes'[1] = scopes[1]
  BY <1>1, AppendFacts
<1> QED BY <1>1, <1>2, SameGlobalsKeep DEF SameGlobals

(* Scopes are popped, with calls or without.                                *)
LEMMA PopNames ==
  ASSUME CacheInv, NEW d \in 1 .. Top, PopTo(d)
  PROVE  GlobalsOk(scopes') /\ KeptOk(addr_cache, scopes')
<1>1. ScopesInv /\ GlobalsOk(scopes) /\ KeptOk(addr_cache, scopes) /\ Top \in Nat \ {0}
  BY InvFacts DEF CacheInv
<1>2. scopes'[1] = scopes[1]
  BY <1>1, PopStep
<1> QED BY <1>1, <1>2, SameGlobalsKeep DEF SameGlobals

(* A closure that captures globals leaves their slots where they are.       *)
LEMMA BoxNames ==
  ASSUME CacheInv, NEW ns \in SUBSET Name, vm_box_slot(ns)
  PROVE  SameGlobals(scopes', scopes)
<1> DEFINE fresh == {p \in BoxedSlots(ns) : ~scopes[p[1]].slots[p[2]].boxed}
           spilled == {HolderOf(n) : n \in {m \in ns : SlotsNamed(HolderOf(m), m) = {}}}
<1>1. scopes \in Seq(ScopeRec) /\ 1 \in 1 .. Len(scopes)
  BY InvFacts DEF CacheInv, Top
<1>2. scopes' = Boxed(scopes, fresh, spilled)
  BY Zenon DEF vm_box_slot, Boxed, Top
<1> HIDE DEF fresh, spilled
<1>3. /\ Len(scopes') = Len(scopes)
      /\ \A i \in 1 .. Len(scopes) :
           /\ scopes'[i].map = scopes[i].map
           /\ Len(scopes'[i].slots) = Len(scopes[i].slots)
           /\ \A j \in 1 .. Len(scopes[i].slots) :
                /\ scopes'[i].slots[j].name = scopes[i].slots[j].name
                /\ scopes'[i].slots[j].boxed <=> (scopes[i].slots[j].boxed \/ <<i, j>> \in fresh)
  BY <1>1, <1>2, BoxedShape, SMTT(30)
<1> QED BY <1>1, <1>3 DEF SameGlobals

LEMMA QuietCache ==
  ASSUME CacheInv, SameGlobals(scopes', scopes), KeptOk(addr_cache', scopes)
  PROVE  GlobalsOk(scopes') /\ KeptOk(addr_cache', scopes')
BY SameGlobalsKeep DEF CacheInv

LEMMA CacheNameSteps ==
  ASSUME CacheInv, NameSteps
  PROVE  GlobalsOk(scopes') /\ KeptOk(addr_cache', scopes')
<1> DEFINE Goal == GlobalsOk(scopes') /\ KeptOk(addr_cache', scopes')
<1>1. ScopesInv /\ KeptOk(addr_cache, scopes)
  BY DEF CacheInv
<1>2. scopes' = scopes => SameGlobals(scopes', scopes)
  BY DEF SameGlobals
<1>3. ASSUME NEW s \in Site, Load(s) PROVE Goal
  BY <1>2, <1>3, RememberKept, QuietCache DEF Load
<1>4. ASSUME NEW s \in Site, NEW v \in Value, Store(s, v) PROVE Goal
  <2>1. CASE Resolve(s) # NullAddr
    <3>1. Write(Resolve(s), v) /\ Remember(s)
      BY <1>4, <2>1 DEF Store
    <3>2. SameGlobals(scopes', scopes)
      BY <1>1, <2>1, <3>1, ResolveValid, WriteNames
    <3> QED BY <3>1, <3>2, RememberKept, QuietCache
  <2>2. CASE Resolve(s) = NullAddr
    <3>1. vm_scope_define(SiteName[s], v) /\ addr_cache' = addr_cache
      BY <1>4, <2>2 DEF Store
    <3>2. SiteName[s] \in Name
      BY ScopesAssumption
    <3> QED BY <3>1, <3>2, DefineNames
  <2> QED BY <2>1, <2>2
<1>5. ASSUME NEW s \in Site, NEW v \in Value, Compound(s, v) PROVE Goal
  <2>1. KeptOk(addr_cache', scopes)
    BY <1>5, RememberKept DEF Compound
  <2>2. SameGlobals(scopes', scopes)
    <3>1. CASE Resolve(s) # NullAddr
      <4>1. Write(Resolve(s), v)
        BY <1>5, <3>1 DEF Compound
      <4> QED BY <1>1, <3>1, <4>1, ResolveValid, WriteNames
    <3>2. CASE Resolve(s) = NullAddr
      BY <1>2, <1>5, <3>2 DEF Compound
    <3> QED BY <3>1, <3>2
  <2> QED BY <2>1, <2>2, QuietCache
<1>6. ASSUME NEW n \in Name, NEW v \in Value, DefineLoopVar(n, v) PROVE Goal
  BY <1>6, DefineNames DEF DefineLoopVar
<1>7. CASE LoadLocal
  BY <1>1, <1>2, <1>7, QuietCache DEF LoadLocal
<1>8. ASSUME NEW v \in Value, StoreLocal(v) PROVE Goal
  <2>1. ValidAddr(ParamAddr, scopes)
    BY <1>1, <1>8, ParamValid DEF StoreLocal
  <2>2. SameGlobals(scopes', scopes)
    BY <1>1, <1>8, <2>1, WriteNames DEF StoreLocal
  <2> QED BY <1>1, <1>8, <2>2, QuietCache DEF StoreLocal
<1> QED BY <1>3, <1>4, <1>5, <1>6, <1>7, <1>8 DEF NameSteps

LEMMA CacheScopeSteps ==
  ASSUME CacheInv, ScopeSteps
  PROVE  GlobalsOk(scopes') /\ KeptOk(addr_cache', scopes')
<1> DEFINE Goal == GlobalsOk(scopes') /\ KeptOk(addr_cache', scopes')
<1>1. /\ ScopesInv /\ Top \in Nat \ {0} /\ Len(frames) \in Nat
      /\ vm_scope_floor \in 1 .. Top
  BY InvFacts DEF CacheInv
<1>2. CASE PushScope
  BY <1>2, EmptyScopeFacts, PushNames DEF PushScope
<1>3. CASE PopScope
  <2>1. Top - 1 \in 1 .. Top
    BY <1>1, <1>3 DEF PopScope
  <2> QED BY <1>3, <2>1, PopNames DEF PopScope
<1>4. CASE Return
  <2>1. vm_scope_floor - 1 \in 1 .. Top
    BY <1>1, <1>4, FloorFacts DEF Return
  <2> QED BY <1>4, <2>1, PopNames DEF Return
<1>5. CASE Restart
  BY <1>1, <1>5, PopNames DEF Restart
<1>6. ASSUME NEW f \in Fn, NEW v \in Value, Call(f, v) PROVE Goal
  <2>1. PICK l \in Loc \ InUse : scopes' = Append(scopes, ParamScope(Param[f], l, v))
    BY <1>6 DEF Call, ParamScope
  <2>2. Param[f] \in Name
    BY ScopesAssumption
  <2>3. ParamScope(Param[f], l, v) \in ScopeRec
    BY <2>2, ParamScopeFacts
  <2> QED BY <1>6, <2>1, <2>3, PushNames DEF Call
<1> QED BY <1>2, <1>3, <1>4, <1>5, <1>6 DEF ScopeSteps

LEMMA CacheClosureSteps ==
  ASSUME CacheInv, ClosureSteps
  PROVE  GlobalsOk(scopes') /\ KeptOk(addr_cache', scopes')
<1> DEFINE Goal == GlobalsOk(scopes') /\ KeptOk(addr_cache', scopes')
<1>1. KeptOk(addr_cache, scopes)
  BY DEF CacheInv
<1>2. scopes' = scopes => SameGlobals(scopes', scopes)
  BY DEF SameGlobals
<1>3. ASSUME NEW k \in Closure, MakeClosure(k) PROVE Goal
  <2> DEFINE ns == Captures[Running]
             bound == {n \in ns : vm_scope_get(n) # NullAddr}
  <2>1. ns \in SUBSET Name /\ UNCHANGED addr_cache
    BY <1>3, ScopesAssumption DEF MakeClosure
  <2>2. \E done \in SUBSET ns : vm_box_slot(done)
    BY <1>3 DEF MakeClosure
  <2> HIDE DEF ns
  <2>3. SameGlobals(scopes', scopes)
    BY <2>1, <2>2, BoxNames
  <2> QED BY <1>1, <2>1, <2>3, QuietCache
<1>4. ASSUME NEW k \in Closure, CallClosure(k) PROVE Goal
  BY <1>4, EmptyScopeFacts, PushNames DEF CallClosure
<1>5. ASSUME NEW n \in Name, LoadUpvalue(n) PROVE Goal
  BY <1>1, <1>2, <1>5, QuietCache DEF LoadUpvalue
<1>6. ASSUME NEW n \in Name, NEW v \in Value, StoreUpvalue(n, v) PROVE Goal
  BY <1>1, <1>2, <1>6, QuietCache DEF StoreUpvalue
<1> QED BY <1>3, <1>4, <1>5, <1>6 DEF ClosureSteps

LEMMA CacheStep ==
  ASSUME CacheInv, [Next]_vars
  PROVE  CacheInv'
<1>1. ScopesInv'
  BY ScopesStep DEF CacheInv
<1>2. CASE Next
  BY <1>1, <1>2, CacheNameSteps, CacheScopeSteps, CacheClosureSteps DEF Next, CacheInv
<1>3. CASE UNCHANGED vars
  BY <1>1, <1>3 DEF CacheInv, vars
<1> QED BY <1>2, <1>3

LEMMA CacheInit ==
  ASSUME Init PROVE CacheInv
<1>1. Len(EmptyScope.slots) = 0
  BY EmptyScopeFacts
<1> HIDE DEF EmptyScope
<1>2. scopes[1] = EmptyScope
  BY DEF Init
<1>3. GlobalsOk(scopes) /\ KeptOk(addr_cache, scopes)
  BY <1>1, <1>2 DEF GlobalsOk, KeptOk, Init
<1> QED BY <1>3, InitInv DEF CacheInv

(* The slot whose address a site has kept.                                  *)
LEMMA KeptSlot ==
  ASSUME CacheInv, NEW s \in Site, addr_cache[s] # NullAddr
  PROVE  /\ SiteName[s] \in Name /\ SlotsNamed(1, SiteName[s]) # {} /\ 1 \in 1 .. Top
         /\ Slot(1, SiteName[s]) \in 1 .. Len(scopes[1].slots)
         /\ scopes[1].slots[Slot(1, SiteName[s])].name = SiteName[s]
         /\ addr_cache[s] = SlotAddr(1, Slot(1, SiteName[s]))
         /\ Holds(1, SiteName[s])
<1> DEFINE n == SiteName[s]
<1>1. /\ ScopesInv /\ GlobalsOk(scopes) /\ KeptOk(addr_cache, scopes)
      /\ n \in Name /\ 1 \in 1 .. Top
  BY InvFacts, ScopesAssumption DEF CacheInv
<1>2. PICK j \in 1 .. Len(scopes[1].slots) :
        addr_cache[s] = SlotAddr(1, j) /\ scopes[1].slots[j].name = n
  BY <1>1 DEF KeptOk
<1>3. SlotsNamed(1, n) # {}
  BY <1>1, <1>2, NamedHolds
<1>4. Slot(1, n) \in 1 .. Len(scopes[1].slots) /\ scopes[1].slots[Slot(1, n)].name = n
  BY <1>1, <1>3, SlotsNamedFacts
<1>5. Slot(1, n) = j
  BY <1>1, <1>2, <1>4 DEF GlobalsOk
<1> QED BY <1>1, <1>2, <1>3, <1>4, <1>5 DEF Holds

(* A kept address that nothing has overtaken is the lookup's answer.        *)
LEMMA KeptWins ==
  ASSUME CacheInv, NEW s \in Site, At(s), addr_cache[s] # NullAddr, ~Stale(s)
  PROVE  addr_cache[s] = vm_scope_get(SiteName[s])
<1> DEFINE n == SiteName[s]
<1>1. ~Captured(n) /\ ~Shadowed(n)
  BY DEF Stale
<1>2. /\ SlotsNamed(1, n) # {} /\ Holds(1, n) /\ addr_cache[s] = SlotAddr(1, Slot(1, n))
      /\ ScopesInv
  BY KeptSlot DEF CacheInv
<1>3. AddrIn(1, n) = SlotAddr(1, Slot(1, n))
  BY <1>1, <1>2 DEF Captured, AddrIn
<1>4. /\ {i \in Visible : Holds(i, n)} # {}
      /\ \A i \in Visible : Holds(i, n) => i = 1
  BY <1>1, <1>2 DEF Shadowed, Visible
<1>5. vm_scope_get(n) = AddrIn(HolderOf(n), n)
  BY <1>4 DEF vm_scope_get, HolderOf
<1>6. HolderOf(n) = 1
  BY <1>2, <1>4, HolderFacts
<1> QED BY <1>2, <1>3, <1>5, <1>6

(* vm.h, addr_cache: a site's cached address is for ever the global slot of *)
(* its own name, in every program, and is what the lookup finds whenever no *)
(* closer binding and no capture has overtaken it (vm.c:637, 648).          *)
THEOREM CachedAddresses == Spec => []CachedIsGlobal
<1>1. CacheInv => CachedIsGlobal
  BY KeptSlot, KeptWins DEF CachedIsGlobal
<1>2. CacheInv /\ [Next]_vars => CacheInv'
  BY CacheStep
<1> QED BY <1>1, <1>2, CacheInit, PTL DEF Spec

-----------------------------------------------------------------------------
(* Names and the locations they stand for.                                  *)

(* A scope binds a name once, in a slot or in its map.                      *)
OneHome(sc) ==
  \A i \in 1 .. Len(sc) :
    /\ \A j, k \in 1 .. Len(sc[i].slots) : sc[i].slots[j].name = sc[i].slots[k].name => j = k
    /\ \A j \in 1 .. Len(sc[i].slots) : sc[i].map[sc[i].slots[j].name] = NoLoc

(* What a closure holds is not stored inline.                               *)
HeldBoxed(sc, held) ==
  \A i \in 1 .. Len(sc) : \A j \in 1 .. Len(sc[i].slots) :
    sc[i].slots[j].loc \in held => sc[i].slots[j].boxed

(* No loop variable has the name of its function's parameter.               *)
ParamsApart == \A f \in Fn : Param[f] \notin LoopVar[f]

(* Scope i belongs to the call m, and to the main program if m is 0.        *)
Owns(fr, m, i) ==
  /\ m > 0 => fr[m].floor <= i
  /\ m < Len(fr) => i < fr[m + 1].floor

(* The parameter is in the first slot of its call, and no other scope of    *)
(* that call binds its name.                                                *)
ParamsOk(sc, fr) ==
  \A m \in 1 .. Len(fr) : fr[m].fn \in Fn =>
    /\ sc[fr[m].floor].slots[1].name = Param[fr[m].fn]
    /\ \A i \in fr[m].floor + 1 .. Len(sc) : Owns(fr, m, i) => Param[fr[m].fn] \notin Named(sc, i)

LinkOk(sc, fr, held) == OneHome(sc) /\ HeldBoxed(sc, held) /\ ParamsOk(sc, fr)
LinkInv == ScopesInv /\ LinkOk(scopes, frames, Held)

(* Bindings as they are found, boxed or not.                                *)
SamePlaces(new, sc) ==
  /\ Len(new) = Len(sc)
  /\ \A i \in 1 .. Len(sc) :
       /\ new[i].map = sc[i].map /\ Len(new[i].slots) = Len(sc[i].slots)
       /\ \A j \in 1 .. Len(sc[i].slots) : /\ new[i].slots[j].name = sc[i].slots[j].name
                                           /\ new[i].slots[j].loc = sc[i].slots[j].loc

(* OneHome and ParamsOk speak of places only.                               *)
LEMMA PlacesKeep ==
  ASSUME NEW sc \in Seq(ScopeRec), NEW new, SamePlaces(new, sc), NEW fr,
         OneHome(sc), FramesOk(fr, sc), ParamsOk(sc, fr)
  PROVE  OneHome(new) /\ ParamsOk(new, fr)
<1>1. ASSUME NEW i \in 1 .. Len(sc) PROVE Named(new, i) = Named(sc, i)
  <2>1. /\ new[i].map = sc[i].map /\ Len(new[i].slots) = Len(sc[i].slots)
        /\ \A j \in 1 .. Len(sc[i].slots) : new[i].slots[j].name = sc[i].slots[j].name
    BY DEF SamePlaces
  <2> QED BY <2>1 DEF Named
<1>2. OneHome(new)
  <2> SUFFICES ASSUME NEW i \in 1 .. Len(sc)
               PROVE  /\ \A j, k \in 1 .. Len(new[i].slots) :
                           new[i].slots[j].name = new[i].slots[k].name => j = k
                      /\ \A j \in 1 .. Len(new[i].slots) : new[i].map[new[i].slots[j].name] = NoLoc
    BY DEF OneHome, SamePlaces
  <2>1. /\ new[i].map = sc[i].map /\ Len(new[i].slots) = Len(sc[i].slots)
        /\ \A j \in 1 .. Len(sc[i].slots) : new[i].slots[j].name = sc[i].slots[j].name
    BY DEF SamePlaces
  <2> QED BY <2>1 DEF OneHome
<1>3. ParamsOk(new, fr)
  <2> SUFFICES ASSUME NEW m \in 1 .. Len(fr), fr[m].fn \in Fn
               PROVE  /\ new[fr[m].floor].slots[1].name = Param[fr[m].fn]
                      /\ \A i \in fr[m].floor + 1 .. Len(new) :
                           Owns(fr, m, i) => Param[fr[m].fn] \notin Named(new, i)
    BY DEF ParamsOk
  <2>1. /\ Len(sc) \in Nat /\ Len(new) = Len(sc)
        /\ fr[m].floor \in 2 .. Len(sc) /\ Len(sc[fr[m].floor].slots) >= 1
    BY ScopeFacts DEF FramesOk, SamePlaces
  <2>2. fr[m].floor \in 1 .. Len(sc) /\ 1 \in 1 .. Len(sc[fr[m].floor].slots)
    BY <2>1, ScopeFacts
  <2>3. new[fr[m].floor].slots[1].name = Param[fr[m].fn]
    BY <2>2 DEF SamePlaces, ParamsOk
  <2>4. \A i \in fr[m].floor + 1 .. Len(new) : i \in 1 .. Len(sc)
    BY <2>1
  <2> QED BY <1>1, <2>1, <2>3, <2>4 DEF ParamsOk
<1> QED BY <1>2, <1>3

(* Bindings as they are found are in the same places.                       *)
LEMMA SameBindingsPlaces ==
  ASSUME NEW sc, NEW new, SameBindings(new, sc), NEW held, HeldBoxed(sc, held)
  PROVE  SamePlaces(new, sc) /\ HeldBoxed(new, held)
<1>1. SamePlaces(new, sc)
  BY DEF SameBindings, SamePlaces
<1>2. HeldBoxed(new, held)
  <2> SUFFICES ASSUME NEW i \in 1 .. Len(new), NEW j \in 1 .. Len(new[i].slots),
                      new[i].slots[j].loc \in held
               PROVE  new[i].slots[j].boxed
    BY DEF HeldBoxed
  <2>1. i \in 1 .. Len(sc) /\ j \in 1 .. Len(sc[i].slots)
    BY DEF SameBindings
  <2>2. /\ new[i].slots[j].loc = sc[i].slots[j].loc
        /\ new[i].slots[j].boxed = sc[i].slots[j].boxed
    BY <2>1 DEF SameBindings
  <2> QED BY <2>1, <2>2 DEF HeldBoxed
<1> QED BY <1>1, <1>2

(* A write changes no binding.                                              *)
LEMMA WriteLinks ==
  ASSUME LinkInv, NEW a, NEW v \in Value, ValidAddr(a, scopes), Write(a, v)
  PROVE  LinkOk(scopes', frames, Held)
<1>1. ScopesInv /\ OneHome(scopes) /\ HeldBoxed(scopes, Held) /\ ParamsOk(scopes, frames)
  BY DEF LinkInv, LinkOk
<1>2. SameBindings(scopes', scopes)
  BY <1>1, WriteStep
<1>3. SamePlaces(scopes', scopes) /\ HeldBoxed(scopes', Held)
  BY <1>1, <1>2, SameBindingsPlaces
<1>4. OneHome(scopes') /\ ParamsOk(scopes', frames)
  BY <1>1, <1>3, InvFacts, PlacesKeep
<1> QED BY <1>3, <1>4 DEF LinkOk

(* A scope of the innermost call belongs to no other.                       *)
LEMMA OwnerIsLast ==
  ASSUME ScopesInv, NEW m \in 1 .. Len(frames), Owns(frames, m, Top)
  PROVE  m = Len(frames)
<1>1. Len(frames) \in Nat /\ frames \in Seq(FrameRec) /\ Top \in Nat /\ FramesOk(frames, scopes)
  BY InvFacts
<1> SUFFICES ASSUME m < Len(frames) PROVE FALSE
  BY <1>1
<1>2. m + 1 \in 1 .. Len(frames) /\ Top < frames[m + 1].floor
  BY <1>1 DEF Owns
<1>3. frames[m + 1].floor \in 2 .. Top
  BY <1>1, <1>2 DEF FramesOk, Top
<1> QED BY <1>1, <1>2, <1>3

(* A name is bound in the innermost scope; the running call's parameter     *)
(* never is.                                                                *)
LEMMA DefineLinks ==
  ASSUME LinkInv, NEW n \in Name, NEW v \in Value, vm_scope_define(n, v),
         Running \in Fn => n # Param[Running]
  PROVE  LinkOk(scopes', frames, Held)
<1>1. ScopesInv /\ OneHome(scopes) /\ HeldBoxed(scopes, Held) /\ ParamsOk(scopes, frames)
  BY DEF LinkInv, LinkOk
<1>2. /\ scopes \in Seq(ScopeRec) /\ scopes # <<>> /\ Top \in Nat \ {0} /\ Top = Len(scopes)
      /\ Top \in 1 .. Top /\ Len(frames) \in Nat /\ frames \in Seq(FrameRec)
      /\ FramesOk(frames, scopes)
  BY <1>1, InvFacts DEF Top
<1>3. CASE Holds(Top, n)
  <2>1. Write(AddrIn(Top, n), v) /\ ValidAddr(AddrIn(Top, n), scopes)
    BY <1>1, <1>2, <1>3, AddrInValid DEF vm_scope_define
  <2> QED BY <2>1, WriteLinks
<1>4. CASE ~Holds(Top, n)
  <2> DEFINE t == Len(scopes)
  <2>1. PICK l \in Loc \ InUse :
          IF Len(scopes[t].slots) < SlotMax
          THEN scopes' = SlotAdded(scopes, n, l, v)
          ELSE scopes' = PayloadAdded(scopes, n, l)
    BY <1>4 DEF vm_scope_define, SlotAdded, PayloadAdded, Top
  <2>2. Fresh(l, scopes, Held) /\ l \in Loc /\ l # NoLoc /\ l \notin Held
    BY <1>1, FreshLoc, ScopesAssumption DEF Fresh
  <2>3. /\ n \notin Named(scopes, t) /\ t \in 1 .. t /\ t \in Nat \ {0}
        /\ \A j \in 1 .. Len(scopes[t].slots) : scopes[t].slots[j].name # n
        /\ scopes[t].map[n] = NoLoc
    BY <1>1, <1>2, <1>4, NamedHolds DEF Named
  <2> HIDE DEF t
  <2>4. \A i \in 1 .. t : Len(scopes[i].slots) \in Nat /\ i \in 1 .. Len(scopes)
    BY <1>2, ScopeFacts DEF t
(* Scopes other than the innermost stay; it gets n, in a slot or a payload. *)
  <2>5. /\ Len(scopes') = t
        /\ \A i \in 1 .. t : i # t => scopes'[i].slots = scopes[i].slots
                                    /\ scopes'[i].map = scopes[i].map
        /\ \A x \in Name : x # n => scopes'[t].map[x] = scopes[t].map[x]
        /\ \A j \in 1 .. Len(scopes[t].slots) :
             j \in 1 .. Len(scopes'[t].slots) /\ scopes'[t].slots[j] = scopes[t].slots[j]
        /\ \A j \in 1 .. Len(scopes'[t].slots) :
             \/ j \in 1 .. Len(scopes[t].slots)
             \/ /\ j = Len(scopes[t].slots) + 1 /\ scopes'[t].slots[j].name = n
                /\ scopes'[t].slots[j].loc = l /\ scopes'[t].map[n] = NoLoc
    <3>1. CASE Len(scopes[t].slots) < SlotMax
      <4> DEFINE m == Len(scopes[t].slots) + 1
      <4>1. /\ Len(scopes') = t
            /\ \A i \in 1 .. t : i # t => scopes'[i] = scopes[i]
            /\ scopes'[t].map = scopes[t].map /\ Len(scopes'[t].slots) = m
            /\ \A j \in 1 .. m - 1 : scopes'[t].slots[j] = scopes[t].slots[j]
            /\ scopes'[t].slots[m] = NewSlot(n, l, v)
        BY <1>2, <2>1, <2>2, <3>1, SlotAddedShape DEF t
      <4>2. m - 1 = Len(scopes[t].slots) /\ m \in Nat
        BY <2>3, <2>4
      <4>3. NewSlot(n, l, v).name = n /\ NewSlot(n, l, v).loc = l
        BY DEF NewSlot
      <4> HIDE DEF m
      <4>4. \A j \in 1 .. m : j \in 1 .. m - 1 \/ j = m
        BY <4>2
      <4>5. \A j \in 1 .. m - 1 : j \in 1 .. m
        BY <4>2
      <4> QED BY <2>3, <4>1, <4>2, <4>3, <4>4, <4>5 DEF m
    <3>2. CASE ~(Len(scopes[t].slots) < SlotMax)
      <4>1. /\ Len(scopes') = t
            /\ \A i \in 1 .. t : /\ scopes'[i].slots = scopes[i].slots
                                 /\ \A x \in Name : scopes'[i].map[x] =
                                      IF i = t /\ x = n THEN l ELSE scopes[i].map[x]
            /\ scopes' \in Seq(ScopeRec)
        BY <1>2, <2>1, <2>2, <3>2, PayloadAddedShape DEF t
      <4>2. \A i \in 1 .. t : /\ scopes'[i].map \in [Name -> Loc \cup {NoLoc}]
                             /\ scopes[i].map \in [Name -> Loc \cup {NoLoc}]
        BY <1>2, <4>1, ScopeFacts DEF t
      <4>3. \A i \in 1 .. t : i # t => scopes'[i].map = scopes[i].map
        BY <4>1, <4>2
      <4> QED BY <2>3, <4>1, <4>3
    <3> QED BY <3>1, <3>2
  <2>6. OneHome(scopes')
    <3> SUFFICES ASSUME NEW i \in 1 .. t
                 PROVE  /\ \A j, k \in 1 .. Len(scopes'[i].slots) :
                             scopes'[i].slots[j].name = scopes'[i].slots[k].name => j = k
                        /\ \A j \in 1 .. Len(scopes'[i].slots) :
                             scopes'[i].map[scopes'[i].slots[j].name] = NoLoc
      BY <2>5 DEF OneHome
    <3>1. CASE i # t
      BY <1>1, <2>4, <2>5, <3>1, SMTT(20) DEF OneHome
    <3>2. CASE i = t
      <4>0. t \in 1 .. Len(scopes)
        BY <2>3, <2>4
      <4>1. \A j, k \in 1 .. Len(scopes[t].slots) :
              scopes[t].slots[j].name = scopes[t].slots[k].name => j = k
        BY <1>1, <4>0 DEF OneHome
      <4>2. \A j, k \in 1 .. Len(scopes'[t].slots) :
              scopes'[t].slots[j].name = scopes'[t].slots[k].name => j = k
        BY <2>3, <2>5, <4>1, SMTT(20)
      <4>3. ASSUME NEW j \in 1 .. Len(scopes'[t].slots)
            PROVE  scopes'[t].map[scopes'[t].slots[j].name] = NoLoc
        <5>1. CASE j \in 1 .. Len(scopes[t].slots)
          <6>1. scopes'[t].slots[j] = scopes[t].slots[j]
            BY <2>5, <5>1
          <6>2. scopes[t].slots[j].name \in Name /\ scopes[t].slots[j].name # n
            BY <1>2, <2>3, <4>0, <5>1, ScopeFacts
          <6>3. scopes[t].map[scopes[t].slots[j].name] = NoLoc
            BY <1>1, <4>0, <5>1 DEF OneHome
          <6> QED BY <2>5, <6>1, <6>2, <6>3
        <5>2. CASE j \notin 1 .. Len(scopes[t].slots)
          BY <2>5, <5>2
        <5> QED BY <5>1, <5>2
      <4> QED BY <3>2, <4>2, <4>3
    <3> QED BY <3>1, <3>2
  <2>7. HeldBoxed(scopes', Held)
    <3> SUFFICES ASSUME NEW i \in 1 .. t, NEW j \in 1 .. Len(scopes'[i].slots),
                        scopes'[i].slots[j].loc \in Held
                 PROVE  scopes'[i].slots[j].boxed
      BY <2>5 DEF HeldBoxed
    <3>1. j \in 1 .. Len(scopes[i].slots) /\ scopes'[i].slots[j] = scopes[i].slots[j]
      BY <2>2, <2>5
    <3> QED BY <1>1, <2>4, <3>1 DEF HeldBoxed
  <2>8. \A i \in 1 .. t : i # t => Named(scopes', i) = Named(scopes, i)
    BY <2>5 DEF Named
  <2>9. ASSUME NEW x \in Name, x # n, x \in Named(scopes', t) PROVE x \in Named(scopes, t)
    <3>1. CASE \E j \in 1 .. Len(scopes'[t].slots) : x = scopes'[t].slots[j].name
      <4>1. PICK j \in 1 .. Len(scopes'[t].slots) : x = scopes'[t].slots[j].name
        BY <3>1
      <4>2. j \in 1 .. Len(scopes[t].slots) /\ x = scopes[t].slots[j].name
        BY <2>5, <2>9, <4>1
      <4> QED BY <4>2 DEF Named
    <3>2. CASE scopes'[t].map[x] # NoLoc
      BY <2>5, <2>9, <3>2 DEF Named
    <3> QED BY <2>9, <3>1, <3>2 DEF Named
  <2>10. ParamsOk(scopes', frames)
    <3> SUFFICES ASSUME NEW m \in 1 .. Len(frames), frames[m].fn \in Fn
                 PROVE  /\ scopes'[frames[m].floor].slots[1].name = Param[frames[m].fn]
                        /\ \A i \in frames[m].floor + 1 .. t :
                             Owns(frames, m, i) => Param[frames[m].fn] \notin Named(scopes', i)
      BY <2>5 DEF ParamsOk
    <3>1. /\ frames[m].floor \in 2 .. t /\ Len(scopes[frames[m].floor].slots) >= 1
          /\ scopes[frames[m].floor].slots[1].name = Param[frames[m].fn]
          /\ Param[frames[m].fn] \in Name
      BY <1>1, <1>2, ScopesAssumption DEF FramesOk, ParamsOk, t
    <3>2. frames[m].floor \in 1 .. t /\ 1 \in 1 .. Len(scopes[frames[m].floor].slots)
      BY <2>3, <2>4, <3>1
    <3>3. scopes'[frames[m].floor].slots[1] = scopes[frames[m].floor].slots[1]
      BY <2>5, <3>2
    <3>4. ASSUME NEW i \in frames[m].floor + 1 .. t, Owns(frames, m, i)
          PROVE  Param[frames[m].fn] \notin Named(scopes', i)
      <4>1. Param[frames[m].fn] \notin Named(scopes, i) /\ i \in 1 .. t
        BY <1>1, <1>2, <3>1, <3>4, SMTT(20) DEF ParamsOk, t
      <4>2. CASE i = t
        <5>1. m = Len(frames) /\ frames # <<>>
          BY <1>1, <1>2, <3>4, <4>2, OwnerIsLast DEF t
        <5>2. Running = frames[m].fn
          BY <5>1 DEF Running
        <5>3. Param[frames[m].fn] # n
          BY <5>2
        <5> QED BY <2>9, <3>1, <4>1, <4>2, <5>3
      <4>3. CASE i # t
        BY <2>8, <4>1, <4>3
      <4> QED BY <4>2, <4>3
    <3> QED BY <3>1, <3>3, <3>4
  <2> QED BY <2>6, <2>7, <2>10 DEF LinkOk
<1> QED BY <1>3, <1>4

(* A scope is pushed, by a block or by a call.                              *)
LEMMA PushLinks ==
  ASSUME LinkInv, NEW r \in ScopeRec, scopes' = Append(scopes, r), NEW fr \in Seq(FrameRec),
         OneHome(<<r>>), HeldBoxed(<<r>>, Held),
         \/ fr = frames /\ Named(<<r>>, 1) = {}
         \/ \E f \in FrameRec : /\ fr = Append(frames, f) /\ f.floor = Top + 1
                                /\ f.fn \in Fn => r.slots[1].name = Param[f.fn]
  PROVE  LinkOk(scopes', fr, Held)
<1>1. ScopesInv /\ OneHome(scopes) /\ HeldBoxed(scopes, Held) /\ ParamsOk(scopes, frames)
  BY DEF LinkInv, LinkOk
<1> DEFINE t == Len(scopes)
           k == Len(frames)
<1>2. /\ scopes \in Seq(ScopeRec) /\ t \in Nat \ {0} /\ Top = t
      /\ frames \in Seq(FrameRec) /\ k \in Nat /\ FramesOk(frames, scopes)
  BY <1>1, InvFacts DEF Top
<1>3. /\ Len(scopes') = t + 1 /\ scopes'[t + 1] = r
      /\ \A i \in 1 .. t : scopes'[i] = scopes[i]
  BY <1>2, AppendFacts
<1>4. Len(<<r>>) = 1 /\ <<r>>[1] = r /\ 1 \in 1 .. 1
  OBVIOUS
<1> HIDE DEF t, k
<1>5. \A i \in 1 .. t + 1 : i \in 1 .. t \/ i = t + 1
  BY <1>2
<1>6. OneHome(scopes')
  <2>1. /\ \A j, m \in 1 .. Len(r.slots) : r.slots[j].name = r.slots[m].name => j = m
        /\ \A j \in 1 .. Len(r.slots) : r.map[r.slots[j].name] = NoLoc
    BY <1>4 DEF OneHome
  <2> QED BY <1>1, <1>3, <1>5, <2>1 DEF OneHome, t
<1>7. HeldBoxed(scopes', Held)
  <2>1. \A j \in 1 .. Len(r.slots) : r.slots[j].loc \in Held => r.slots[j].boxed
    BY <1>4 DEF HeldBoxed
  <2> QED BY <1>1, <1>3, <1>5, <2>1 DEF HeldBoxed, t
<1>8. ASSUME NEW i \in 1 .. t PROVE Named(scopes', i) = Named(scopes, i)
  <2>1. scopes'[i] = scopes[i]
    BY <1>3
  <2> QED BY <2>1 DEF Named
<1>9. ASSUME NEW m \in 1 .. k, frames[m].fn \in Fn
      PROVE  /\ frames[m].floor \in 2 .. t
             /\ scopes'[frames[m].floor].slots[1].name = Param[frames[m].fn]
             /\ \A i \in frames[m].floor + 1 .. t :
                  Owns(frames, m, i) => Param[frames[m].fn] \notin Named(scopes', i)
  <2>1. /\ frames[m].floor \in 2 .. t
        /\ scopes[frames[m].floor].slots[1].name = Param[frames[m].fn]
        /\ \A i \in frames[m].floor + 1 .. t :
             Owns(frames, m, i) => Param[frames[m].fn] \notin Named(scopes, i)
    BY <1>1, <1>2, <1>9 DEF ParamsOk, FramesOk, t, k
  <2>2. \A i \in frames[m].floor + 1 .. t : i \in 1 .. t
    BY <1>2, <2>1
  <2>3. frames[m].floor \in 1 .. t
    BY <1>2, <2>1
  <2> QED BY <1>3, <1>8, <2>1, <2>2, <2>3
<1>10. CASE fr = frames /\ Named(<<r>>, 1) = {}
  <2>1. Named(scopes', t + 1) = {}
    <3>1. \A e : e[t + 1] = r => Named(e, t + 1) = Named(<<r>>, 1)
      BY <1>4 DEF Named
    <3> QED BY <1>3, <1>10, <3>1
  <2>2. ParamsOk(scopes', frames)
    <3> SUFFICES ASSUME NEW m \in 1 .. k, frames[m].fn \in Fn
                 PROVE  /\ scopes'[frames[m].floor].slots[1].name = Param[frames[m].fn]
                        /\ \A i \in frames[m].floor + 1 .. t + 1 :
                             Owns(frames, m, i) => Param[frames[m].fn] \notin Named(scopes', i)
      BY <1>3 DEF ParamsOk, k
    <3>1. \A i \in frames[m].floor + 1 .. t + 1 : i \in frames[m].floor + 1 .. t \/ i = t + 1
      BY <1>2, <1>9
    <3> QED BY <1>9, <2>1, <3>1
  <2> QED BY <1>6, <1>7, <1>10, <2>2 DEF LinkOk
<1>11. CASE \E f \in FrameRec : /\ fr = Append(frames, f) /\ f.floor = Top + 1
                                /\ f.fn \in Fn => r.slots[1].name = Param[f.fn]
  <2>1. PICK f \in FrameRec : /\ fr = Append(frames, f) /\ f.floor = t + 1
                              /\ f.fn \in Fn => r.slots[1].name = Param[f.fn]
    BY <1>2, <1>11
  <2>2. /\ Len(fr) = k + 1 /\ fr[k + 1] = f /\ \A i \in 1 .. k : fr[i] = frames[i]
    BY <1>2, <2>1, AppendFacts DEF k
  <2>3. ParamsOk(scopes', fr)
    <3> SUFFICES ASSUME NEW m \in 1 .. k + 1, fr[m].fn \in Fn
                 PROVE  /\ scopes'[fr[m].floor].slots[1].name = Param[fr[m].fn]
                        /\ \A i \in fr[m].floor + 1 .. t + 1 :
                             Owns(fr, m, i) => Param[fr[m].fn] \notin Named(scopes', i)
      BY <1>3, <2>2 DEF ParamsOk
    <3>1. CASE m = k + 1
      <4>1. fr[m].floor = t + 1 /\ \A i : ~(i \in t + 1 + 1 .. t + 1)
        BY <1>2, <2>1, <2>2, <3>1
      <4> QED BY <1>3, <2>1, <2>2, <3>1, <4>1
    <3>2. CASE m # k + 1
      <4>1. m \in 1 .. k /\ fr[m] = frames[m] /\ m > 0
        BY <1>2, <2>2, <3>2
      <4>2. ASSUME NEW i \in fr[m].floor + 1 .. t + 1, Owns(fr, m, i)
            PROVE  i \in fr[m].floor + 1 .. t /\ Owns(frames, m, i)
        <5>1. fr[m].floor \in 2 .. t /\ fr[m].floor <= i
          BY <1>9, <3>2, <4>1
        <5>2. m < Len(fr) /\ i < fr[m + 1].floor
          BY <1>2, <2>2, <4>1, <4>2 DEF Owns
        <5>3. CASE m = k
          BY <1>2, <2>1, <2>2, <4>1, <5>1, <5>2, <5>3 DEF Owns, k
        <5>4. CASE m # k
          <6>1. m + 1 \in 1 .. k /\ fr[m + 1] = frames[m + 1]
            BY <1>2, <2>2, <4>1, <5>4, SMTT(20)
          <6>2. frames[m + 1].floor \in 2 .. t
            BY <1>2, <6>1 DEF FramesOk, t, k
          <6> QED BY <1>2, <4>1, <5>1, <5>2, <6>1, <6>2, SMTT(20) DEF Owns
        <5> QED BY <5>3, <5>4
      <4> QED BY <1>9, <4>1, <4>2
    <3> QED BY <3>1, <3>2
  <2> QED BY <1>6, <1>7, <2>3 DEF LinkOk
<1> QED BY <1>10, <1>11

(* Scopes are popped, with the calls they belong to.                        *)
LEMMA PopLinks ==
  ASSUME LinkInv, NEW d \in 1 .. Top, PopTo(d),
         NEW k \in 0 .. Len(frames), NEW fr, fr = SubSeq(frames, 1, k),
         k > 0 => frames[k].floor <= d,
         k < Len(frames) => d < frames[k + 1].floor
  PROVE  LinkOk(scopes', fr, Held)
<1>1. ScopesInv /\ OneHome(scopes) /\ HeldBoxed(scopes, Held) /\ ParamsOk(scopes, frames)
  BY DEF LinkInv, LinkOk
<1>2. Len(scopes') = d /\ \A i \in 1 .. d : scopes'[i] = scopes[i]
  BY <1>1, PopStep
<1>3. /\ Top \in Nat \ {0} /\ Top = Len(scopes) /\ frames \in Seq(FrameRec)
      /\ Len(frames) \in Nat /\ FramesOk(frames, scopes) /\ d \in Nat /\ d <= Top
      /\ \A i \in 1 .. d : i \in 1 .. Len(scopes)
  BY <1>1, InvFacts DEF Top
<1>4. Len(fr) = k /\ \A i \in 1 .. k : fr[i] = frames[i]
  BY <1>3, PrefixFacts
<1>5. OneHome(scopes') /\ HeldBoxed(scopes', Held)
  <2>1. OneHome(scopes')
    BY <1>1, <1>2, <1>3 DEF OneHome
  <2>2. HeldBoxed(scopes', Held)
    BY <1>1, <1>2, <1>3 DEF HeldBoxed
  <2> QED BY <2>1, <2>2
<1>6. \A i \in 1 .. d : Named(scopes', i) = Named(scopes, i)
  BY <1>2 DEF Named
<1>7. ParamsOk(scopes', fr)
  <2> SUFFICES ASSUME NEW m \in 1 .. k, fr[m].fn \in Fn
               PROVE  /\ scopes'[fr[m].floor].slots[1].name = Param[fr[m].fn]
                      /\ \A i \in fr[m].floor + 1 .. d :
                           Owns(fr, m, i) => Param[fr[m].fn] \notin Named(scopes', i)
    BY <1>2, <1>4 DEF ParamsOk
  <2>1. /\ m \in 1 .. Len(frames) /\ fr[m] = frames[m] /\ k \in 1 .. Len(frames)
        /\ frames[m].floor \in 2 .. Len(scopes) /\ frames[k].floor \in 2 .. Len(scopes)
    BY <1>3, <1>4 DEF FramesOk
  <2>2. frames[m].floor <= frames[k].floor
    <3>1. m < k => frames[m].floor < frames[k].floor
      BY <1>3, <2>1 DEF FramesOk
    <3> QED BY <1>3, <2>1, <3>1
  <2>3. frames[m].floor \in 1 .. d /\ frames[m].floor \in Nat
    BY <1>3, <2>1, <2>2
  <2>4. scopes'[fr[m].floor].slots[1].name = Param[fr[m].fn]
    BY <1>1, <1>2, <2>1, <2>3 DEF ParamsOk
  <2>5. ASSUME NEW i \in fr[m].floor + 1 .. d, Owns(fr, m, i)
        PROVE  Param[fr[m].fn] \notin Named(scopes', i)
    <3>1. i \in 1 .. d /\ i \in frames[m].floor + 1 .. Len(scopes) /\ i <= d
      BY <1>3, <2>1, <2>3
    <3>2. Owns(frames, m, i)
      <4>1. frames[m].floor <= i
        BY <2>3, <3>1
      <4>2. ASSUME m < Len(frames) PROVE i < frames[m + 1].floor
        <5>1. CASE m < k
          <6>1. i < fr[m + 1].floor /\ m + 1 \in 1 .. k
            BY <1>3, <1>4, <2>5, <5>1 DEF Owns
          <6> QED BY <1>4, <6>1
        <5>2. CASE m = k
          <6>1. frames[m + 1].floor \in 2 .. Len(scopes)
            BY <1>3, <4>2 DEF FramesOk
          <6> QED BY <1>3, <3>1, <4>2, <5>2, <6>1
        <5> QED BY <1>3, <5>1, <5>2
      <4> QED BY <4>1, <4>2 DEF Owns
    <3> QED BY <1>1, <1>6, <2>1, <3>1, <3>2 DEF ParamsOk
  <2> QED BY <2>4, <2>5
<1> QED BY <1>5, <1>7 DEF LinkOk

(* Bindings move into boxes: slots that a closure is about to hold are      *)
(* boxed when it does.                                                      *)
LEMMA BoxLinks ==
  ASSUME LinkInv, NEW ns \in SUBSET Name, \A n \in ns : vm_scope_get(n) # NullAddr,
         vm_box_slot(ns)
  PROVE  SamePlaces(scopes', scopes)
         /\ LinkOk(scopes', frames, Held \cup {BoxLoc(n) : n \in ns})
<1> DEFINE fresh == {p \in BoxedSlots(ns) : ~scopes[p[1]].slots[p[2]].boxed}
           spilled == {HolderOf(n) : n \in {m \in ns : SlotsNamed(HolderOf(m), m) = {}}}
           boxes == {BoxLoc(n) : n \in ns}
<1>1. ScopesInv /\ OneHome(scopes) /\ HeldBoxed(scopes, Held) /\ ParamsOk(scopes, frames)
  BY DEF LinkInv, LinkOk
<1>2. /\ scopes \in Seq(ScopeRec) /\ Top = Len(scopes) /\ DistinctLocs(scopes)
      /\ FramesOk(frames, scopes)
  BY <1>1, InvFacts DEF Top
<1>3. scopes' = Boxed(scopes, fresh, spilled)
  BY DEF vm_box_slot, Boxed, Top
(* A slot whose location the closure holds is the one that was looked up.   *)
<1>4. ASSUME NEW i \in 1 .. Len(scopes), NEW j \in 1 .. Len(scopes[i].slots),
             scopes[i].slots[j].loc \in boxes
      PROVE  scopes[i].slots[j].boxed \/ <<i, j>> \in fresh
  <2>1. PICK n \in ns : scopes[i].slots[j].loc = BoxLoc(n)
    BY <1>4
  <2> DEFINE h == HolderOf(n)
             x == Slot(h, n)
  <2>2. h \in 1 .. Top /\ Holds(h, n) /\ n \in Name
    BY <1>1, LookupValid, HolderFacts
  <2>3. SlotsNamed(h, n) # {}
    <3> SUFFICES ASSUME SlotsNamed(h, n) = {} PROVE FALSE
      OBVIOUS
    <3>1. scopes[i].slots[j].loc = scopes[h].map[n]
      BY <2>1 DEF BoxLoc
    <3> QED BY <1>2, <2>2, <3>1 DEF DistinctLocs, SlotsOffMaps
  <2>4. /\ BoxLoc(n) = scopes[h].slots[x].loc /\ <<h, x>> \in BoxedSlots(ns)
    BY <2>3 DEF BoxLoc, BoxedSlots
  <2>5. x \in 1 .. Len(scopes[h].slots)
    BY <1>1, <2>2, <2>3, SlotsNamedFacts
  <2> HIDE DEF h, x
  <2>6. i = h /\ j = x
    BY <1>2, <2>1, <2>2, <2>4, <2>5, SMTT(20) DEF DistinctLocs, DistinctSlots
  <2> QED BY <2>4, <2>6
<1> HIDE DEF fresh, spilled, boxes
<1>5. /\ Len(scopes') = Len(scopes)
      /\ \A i \in 1 .. Len(scopes) :
           /\ scopes'[i].map = scopes[i].map
           /\ Len(scopes'[i].slots) = Len(scopes[i].slots)
           /\ \A j \in 1 .. Len(scopes[i].slots) :
                /\ scopes'[i].slots[j].name = scopes[i].slots[j].name
                /\ scopes'[i].slots[j].loc = scopes[i].slots[j].loc
                /\ scopes'[i].slots[j].boxed <=> (scopes[i].slots[j].boxed \/ <<i, j>> \in fresh)
  BY <1>2, <1>3, BoxedShape, SMTT(30)
<1>6. SamePlaces(scopes', scopes)
  BY <1>5 DEF SamePlaces
<1>7. OneHome(scopes') /\ ParamsOk(scopes', frames)
  BY <1>1, <1>2, <1>6, PlacesKeep
<1>8. HeldBoxed(scopes', Held \cup boxes)
  <2> SUFFICES ASSUME NEW i \in 1 .. Len(scopes'), NEW j \in 1 .. Len(scopes'[i].slots),
                      scopes'[i].slots[j].loc \in Held \cup boxes
               PROVE  scopes'[i].slots[j].boxed
    BY DEF HeldBoxed
  <2>1. i \in 1 .. Len(scopes) /\ j \in 1 .. Len(scopes[i].slots)
    BY <1>5
  <2>2. /\ scopes'[i].slots[j].loc = scopes[i].slots[j].loc
        /\ scopes'[i].slots[j].boxed <=> (scopes[i].slots[j].boxed \/ <<i, j>> \in fresh)
    BY <1>5, <2>1
  <2>3. CASE scopes[i].slots[j].loc \in Held
    BY <1>1, <2>1, <2>2, <2>3 DEF HeldBoxed
  <2>4. CASE scopes[i].slots[j].loc \in boxes
    BY <1>4, <2>1, <2>2, <2>4
  <2> QED BY <2>2, <2>3, <2>4
<1> QED BY <1>6, <1>7, <1>8 DEF LinkOk, boxes

(* A closure or a call that is gone holds nothing any more.                 *)
LEMMA LinksLess ==
  ASSUME NEW sc, NEW fr, NEW held, NEW less \in SUBSET held, LinkOk(sc, fr, held)
  PROVE  LinkOk(sc, fr, less)
BY DEF LinkOk, HeldBoxed

(* The steps that use a name keep LinkOk.                                   *)
LEMMA LinkNameSteps ==
  ASSUME ParamsApart, LinkInv, NameSteps
  PROVE  LinkOk(scopes', frames', HeldBy(frames', closures'))
<1> DEFINE Goal == LinkOk(scopes', frames', HeldBy(frames', closures'))
<1>1. ScopesInv /\ LinkOk(scopes, frames, Held)
  BY DEF LinkInv
<1>2. ASSUME UNCHANGED <<scopes, frames, closures>> PROVE Goal
  BY <1>1, <1>2 DEF Held
<1>3. ASSUME NEW a, NEW v \in Value, ValidAddr(a, scopes), Write(a, v),
             UNCHANGED <<frames, closures>>
      PROVE  Goal
  BY <1>3, WriteLinks DEF Held
<1>4. ASSUME NEW n \in Name, NEW v \in Value, vm_scope_define(n, v),
             Running \in Fn => n # Param[Running], UNCHANGED <<frames, closures>>
      PROVE  Goal
  BY <1>4, DefineLinks DEF Held
<1>5. ASSUME NEW s \in Site, Load(s) PROVE Goal
  BY <1>2, <1>5 DEF Load
<1>6. ASSUME NEW s \in Site, NEW v \in Value, Store(s, v) PROVE Goal
  <2>1. CASE Resolve(s) # NullAddr
    BY <1>1, <1>3, <1>6, <2>1, ResolveValid DEF Store
  <2>2. CASE Resolve(s) = NullAddr
    <3>1. vm_scope_define(SiteName[s], v) /\ UNCHANGED <<frames, closures>> /\ SiteFn[s] = Running
      BY <1>6, <2>2 DEF Store, At
    <3>2. SiteName[s] \in Name /\ (Running \in Fn => SiteName[s] # Param[Running])
      BY <3>1, ScopesAssumption
    <3> QED BY <1>4, <3>1, <3>2
  <2> QED BY <2>1, <2>2
<1>7. ASSUME NEW s \in Site, NEW v \in Value, Compound(s, v) PROVE Goal
  <2>1. CASE Resolve(s) # NullAddr
    BY <1>1, <1>3, <1>7, <2>1, ResolveValid DEF Compound
  <2>2. CASE Resolve(s) = NullAddr
    BY <1>2, <1>7, <2>2 DEF Compound
  <2> QED BY <2>1, <2>2
<1>8. ASSUME NEW n \in Name, NEW v \in Value, DefineLoopVar(n, v) PROVE Goal
  <2>1. vm_scope_define(n, v) /\ n \in LoopVar[Running] /\ UNCHANGED <<frames, closures>>
    BY <1>8 DEF DefineLoopVar
  <2>2. Running \in Fn => n # Param[Running]
    BY <2>1 DEF ParamsApart
  <2> QED BY <1>4, <2>1, <2>2
<1>9. CASE LoadLocal
  BY <1>2, <1>9 DEF LoadLocal
<1>10. ASSUME NEW v \in Value, StoreLocal(v) PROVE Goal
  BY <1>1, <1>3, <1>10, ParamValid DEF StoreLocal
<1> QED BY <1>5, <1>6, <1>7, <1>8, <1>9, <1>10 DEF NameSteps

(* The scope of a call has its parameter, in a location that nothing holds. *)
LEMMA ParamScopeLinks ==
  ASSUME NEW n \in Name, NEW l \in Loc, NEW v \in Value, NEW held, l \notin held
  PROVE  LET r == ParamScope(n, l, v) IN
         /\ r \in ScopeRec /\ OneHome(<<r>>) /\ HeldBoxed(<<r>>, held)
         /\ r.slots[1].name = n
<1> DEFINE r == ParamScope(n, l, v)
<1>1. /\ r \in ScopeRec /\ Len(r.slots) = 1 /\ r.slots[1] = NewSlot(n, l, v)
      /\ \A x \in Name : r.map[x] = NoLoc
  BY ParamScopeFacts
<1>2. NewSlot(n, l, v).name = n /\ NewSlot(n, l, v).loc = l
  BY DEF NewSlot
<1> HIDE DEF r
<1>3. Len(<<r>>) = 1 /\ <<r>>[1] = r /\ \A i \in 1 .. 1 : i = 1
  OBVIOUS
<1>4. OneHome(<<r>>)
  BY <1>1, <1>2, <1>3 DEF OneHome
<1>5. HeldBoxed(<<r>>, held)
  BY <1>1, <1>2, <1>3 DEF HeldBoxed
<1> QED BY <1>1, <1>2, <1>4, <1>5 DEF r

(* An empty scope binds nothing.                                            *)
LEMMA EmptyScopeLinks ==
  ASSUME NEW held
  PROVE  /\ EmptyScope \in ScopeRec /\ Named(<<EmptyScope>>, 1) = {}
         /\ OneHome(<<EmptyScope>>) /\ HeldBoxed(<<EmptyScope>>, held)
<1>1. /\ EmptyScope \in ScopeRec /\ Len(EmptyScope.slots) = 0
      /\ \A n \in Name : EmptyScope.map[n] = NoLoc
  BY EmptyScopeFacts
<1> DEFINE r == EmptyScope
<1> HIDE DEF r
<1>2. Len(<<r>>) = 1 /\ <<r>>[1] = r /\ \A i \in 1 .. 1 : i = 1
  OBVIOUS
<1>3. r \in ScopeRec /\ Len(r.slots) = 0 /\ \A n \in Name : r.map[n] = NoLoc
  BY <1>1 DEF r
<1>4. Named(<<r>>, 1) = {}
  BY <1>2, <1>3 DEF Named
<1>5. OneHome(<<r>>) /\ HeldBoxed(<<r>>, held)
  <2>1. \A j : j \notin 1 .. Len(r.slots)
    BY <1>3
  <2> QED BY <1>2, <2>1 DEF OneHome, HeldBoxed
<1> QED BY <1>3, <1>4, <1>5 DEF r

(* The steps that push and pop scopes keep LinkOk.                          *)
LEMMA LinkScopeSteps ==
  ASSUME LinkInv, ScopeSteps
  PROVE  LinkOk(scopes', frames', HeldBy(frames', closures'))
<1> DEFINE Goal == LinkOk(scopes', frames', HeldBy(frames', closures'))
<1>1. /\ ScopesInv /\ LinkOk(scopes, frames, Held) /\ Top \in Nat \ {0}
      /\ frames \in Seq(FrameRec) /\ Len(frames) \in Nat /\ vm_scope_floor \in 1 .. Top
      /\ FramesOk(frames, scopes)
  BY InvFacts DEF LinkInv
<1>2. CASE PushScope
  <2>1. LinkOk(scopes', frames, Held)
    BY <1>1, <1>2, EmptyScopeLinks, PushLinks DEF PushScope
  <2> QED BY <1>2, <2>1 DEF PushScope, Held
(* What is left of the calls holds no more than before.                     *)
<1>3. ASSUME NEW d \in 1 .. Top, PopTo(d), UNCHANGED closures,
             NEW k \in 0 .. Len(frames), frames' = SubSeq(frames, 1, k),
             k > 0 => frames[k].floor <= d,
             k < Len(frames) => d < frames[k + 1].floor
      PROVE  Goal
  <2>1. LinkOk(scopes', frames', Held)
    BY <1>3, PopLinks
  <2>2. Len(scopes') = d /\ \A i \in 1 .. d : scopes'[i] = scopes[i]
    BY <1>1, <1>3, PopStep
  <2>3. HeldBy(frames', closures) \in SUBSET Held
    BY <1>1, <1>3, <2>2, PopKeeps
  <2>4. HeldBy(frames', closures') \in SUBSET Held
    BY <1>3, <2>3
  <2> QED BY <2>1, <2>4, LinksLess
<1>4. CASE PopScope
  <2>1. Top - 1 \in 1 .. Top /\ vm_scope_floor <= Top - 1
    BY <1>1, <1>4 DEF PopScope
  <2>2. Len(frames) > 0 => frames[Len(frames)].floor <= Top - 1
    BY <1>1, <2>1, FloorFacts
  <2>3. frames' = SubSeq(frames, 1, Len(frames)) /\ Len(frames) \in 0 .. Len(frames)
        /\ ~(Len(frames) < Len(frames))
    BY <1>1, <1>4, FloorFacts DEF PopScope
  <2> QED BY <1>3, <1>4, <2>1, <2>2, <2>3 DEF PopScope
<1>5. CASE Return
  <2>1. Len(frames) > 0
    BY <1>1, <1>5 DEF Return
  <2>2. vm_scope_floor \in 2 .. Top /\ vm_scope_floor - 1 \in 1 .. Top
    BY <1>1, <2>1, FloorFacts
  <2> DEFINE k == Len(frames) - 1
  <2>3. k \in 0 .. Len(frames) /\ vm_scope_floor - 1 < frames[k + 1].floor
    BY <1>1, <2>1, FloorFacts
  <2>4. k > 0 => frames[k].floor <= vm_scope_floor - 1
    <3> SUFFICES ASSUME k > 0 PROVE frames[k].floor <= vm_scope_floor - 1
      OBVIOUS
    <3>1. k \in 1 .. Len(frames) /\ k < Len(frames)
      BY <1>1, <2>3
    <3>2. frames[k].floor < vm_scope_floor
      BY <1>1, <3>1, FloorFacts
    <3>3. frames[k].floor \in 2 .. Len(scopes)
      BY <1>1, <3>1 DEF FramesOk
    <3> QED BY <1>1, <2>2, <3>2, <3>3
  <2>5. frames' = SubSeq(frames, 1, k)
    BY <1>5 DEF Return
  <2> HIDE DEF k
  <2> QED BY <1>3, <1>5, <2>2, <2>3, <2>4, <2>5 DEF Return
<1>6. CASE Restart
  <2>1. frames' = SubSeq(frames, 1, 0)
    <3>1. SubSeq(frames, 1, 0) \in Seq(FrameRec) /\ Len(SubSeq(frames, 1, 0)) = 0
      BY <1>1, PrefixFacts
    <3> QED BY <1>6, <3>1 DEF Restart
  <2>2. 1 \in 1 .. Top /\ 0 \in 0 .. Len(frames) /\ ~(0 > 0)
    BY <1>1
  <2>3. 0 < Len(frames) => 1 < frames[0 + 1].floor
    BY <1>1 DEF FramesOk
  <2> QED BY <1>3, <1>6, <2>1, <2>2, <2>3 DEF Restart
<1>7. ASSUME NEW f \in Fn, NEW v \in Value, Call(f, v) PROVE Goal
  <2> DEFINE g == [fn |-> f, floor |-> Top + 1, ups |-> Unbound]
  <2>1. PICK l \in Loc \ InUse : scopes' = Append(scopes, ParamScope(Param[f], l, v))
    BY <1>7 DEF Call, ParamScope
  <2>2. Param[f] \in Name /\ l \in Loc /\ l \notin Held
    BY <1>1, FreshLoc, ScopesAssumption DEF Fresh
  <2> DEFINE r == ParamScope(Param[f], l, v)
  <2>3. /\ r \in ScopeRec /\ OneHome(<<r>>) /\ HeldBoxed(<<r>>, Held)
        /\ r.slots[1].name = Param[f] /\ scopes' = Append(scopes, r)
    BY <2>1, <2>2, ParamScopeLinks
  <2> HIDE DEF r
  <2>4. /\ g \in FrameRec /\ g.fn = f /\ g.floor = Top + 1 /\ frames' = Append(frames, g)
        /\ closures' = closures /\ \A n \in Name : g.ups[n] = NoLoc
    BY <1>1, <1>7 DEF FrameRec, Unbound, Call
  <2> HIDE DEF g
  <2>5. \E h \in FrameRec : /\ frames' = Append(frames, h) /\ h.floor = Top + 1
                            /\ h.fn \in Fn => r.slots[1].name = Param[h.fn]
    BY <2>3, <2>4
  <2>6. frames' \in Seq(FrameRec)
    BY <1>1, <2>4, AppendFacts
  <2>7. LinkOk(scopes', frames', Held)
    BY <2>3, <2>5, <2>6, PushLinks
  <2>8. HeldBy(frames', closures') \in SUBSET Held
    BY <1>1, <2>4, CallHolds
  <2> QED BY <2>7, <2>8, LinksLess
<1> QED BY <1>2, <1>4, <1>5, <1>6, <1>7 DEF ScopeSteps

(* The steps of closures keep LinkOk.                                       *)
LEMMA LinkClosureSteps ==
  ASSUME LinkInv, ClosureSteps
  PROVE  LinkOk(scopes', frames', HeldBy(frames', closures'))
<1> DEFINE Goal == LinkOk(scopes', frames', HeldBy(frames', closures'))
<1>1. /\ ScopesInv /\ LinkOk(scopes, frames, Held) /\ Top \in Nat \ {0}
      /\ frames \in Seq(FrameRec) /\ closures \in ClosureSet
  BY InvFacts DEF LinkInv
<1>2. ASSUME UNCHANGED <<scopes, frames, closures>> PROVE Goal
  BY <1>1, <1>2 DEF Held
<1>3. ASSUME NEW k \in Closure, MakeClosure(k) PROVE Goal
  <2> DEFINE ns == Captures[Running]
             bound == {n \in ns : vm_scope_get(n) # NullAddr}
  <2>1. ns \in SUBSET Name /\ frames' = frames
    BY <1>3, ScopesAssumption DEF MakeClosure
  <2>2. CASE bound = ns
    <3> DEFINE boxes == {BoxLoc(n) : n \in ns}
    <3>1. /\ vm_box_slot(ns)
          /\ closures' = [closures EXCEPT ![k] =
                            [n \in Name |-> IF n \in ns THEN BoxLoc(n) ELSE NoLoc]]
      BY <1>3, <2>2 DEF MakeClosure
    <3>2. \A n \in ns : vm_scope_get(n) # NullAddr
      BY <2>2
    <3> HIDE DEF ns, bound
    <3>3. LinkOk(scopes', frames, Held \cup boxes)
      BY <2>1, <3>1, <3>2, BoxLinks
    <3>4. \A n \in ns : BoxLoc(n) \in boxes
      OBVIOUS
    <3> HIDE DEF boxes
    <3>5. HeldBy(frames', closures') \in SUBSET (Held \cup boxes)
      <4>1. \A c \in Closure, n \in Name :
              closures'[c][n] \in boxes \cup {NoLoc} \/ closures'[c][n] = closures[c][n]
        BY <1>1, <3>1, <3>4 DEF ClosureSet
      <4> QED BY <2>1, <4>1 DEF HeldBy, Held
    <3>6. LinkOk(scopes', frames', Held \cup boxes)
      BY <2>1, <3>3
    <3> QED BY <3>5, <3>6, LinksLess
  <2>3. CASE bound # ns
    <3>1. PICK done \in SUBSET bound : vm_box_slot(done)
      BY <1>3, <2>3 DEF MakeClosure
    <3>2. closures' = closures /\ HeldBy(frames', closures') = Held
      BY <1>3, <2>1, <2>3 DEF MakeClosure, Held
    <3>3. done \in SUBSET Name /\ \A n \in done : vm_scope_get(n) # NullAddr
      BY <2>1
    <3> DEFINE boxes == {BoxLoc(n) : n \in done}
    <3>4. LinkOk(scopes', frames, Held \cup boxes)
      BY <3>1, <3>3, BoxLinks
    <3> HIDE DEF boxes
    <3>5. LinkOk(scopes', frames', Held \cup boxes)
      BY <2>1, <3>4
    <3> QED BY <3>2, <3>5, LinksLess
  <2> QED BY <2>2, <2>3
<1>4. ASSUME NEW k \in Closure, CallClosure(k) PROVE Goal
  <2> DEFINE g == [fn |-> "closure", floor |-> Top + 1, ups |-> closures[k]]
  <2>1. /\ g \in FrameRec /\ g.floor = Top + 1 /\ g.fn \notin Fn
        /\ frames' = Append(frames, g) /\ closures' = closures
        /\ \A n \in Name : g.ups[n] = closures[k][n]
    BY <1>1, <1>4, ScopesAssumption DEF FrameRec, ClosureSet, CallClosure
  <2> HIDE DEF g
  <2>2. \E h \in FrameRec : /\ frames' = Append(frames, h) /\ h.floor = Top + 1
                            /\ h.fn \in Fn => EmptyScope.slots[1].name = Param[h.fn]
    BY <2>1
  <2>3. frames' \in Seq(FrameRec) /\ scopes' = Append(scopes, EmptyScope)
    BY <1>1, <1>4, <2>1, AppendFacts DEF CallClosure
  <2>4. LinkOk(scopes', frames', Held)
    BY <2>2, <2>3, EmptyScopeLinks, PushLinks
  <2>5. HeldBy(frames', closures') \in SUBSET Held
    <3>1. \A n \in Name : g.ups[n] # NoLoc => g.ups[n] \in Held
      BY <2>1 DEF Held, HeldBy
    <3> QED BY <1>1, <2>1, <3>1, CallHolds
  <2> QED BY <2>4, <2>5, LinksLess
<1>5. ASSUME NEW n \in Name, LoadUpvalue(n) PROVE Goal
  BY <1>2, <1>5 DEF LoadUpvalue
<1>6. ASSUME NEW n \in Name, NEW v \in Value, StoreUpvalue(n, v) PROVE Goal
  BY <1>2, <1>6 DEF StoreUpvalue
<1> QED BY <1>3, <1>4, <1>5, <1>6 DEF ClosureSteps

(* LinkInv is inductive.                                                    *)
LEMMA LinkStep ==
  ASSUME ParamsApart, LinkInv, [Next]_vars
  PROVE  LinkInv'
<1>1. ScopesInv'
  BY ScopesStep DEF LinkInv
<1>2. LinkOk(scopes', frames', HeldBy(frames', closures'))
  <2>1. CASE Next
    BY <2>1, LinkNameSteps, LinkScopeSteps, LinkClosureSteps DEF Next
  <2>2. CASE UNCHANGED vars
    BY <2>2 DEF LinkInv, vars, Held
  <2> QED BY <2>1, <2>2
<1> QED BY <1>1, <1>2 DEF LinkInv, Held

(* LinkInv holds at the start.                                              *)
LEMMA LinkInit ==
  ASSUME Init PROVE LinkInv
<1>1. scopes = <<EmptyScope>> /\ frames = <<>>
  BY DEF Init
<1>2. OneHome(scopes) /\ HeldBoxed(scopes, Held)
  BY <1>1, EmptyScopeLinks
<1>3. ParamsOk(scopes, frames)
  BY <1>1 DEF ParamsOk
<1> QED BY <1>2, <1>3, InitInv DEF LinkInv, LinkOk

(* The parameter's slot is what a lookup of its name finds.                 *)
LEMMA ParamFound ==
  ASSUME LinkInv, Running \in Fn
  PROVE  /\ ParamAddr = vm_scope_get(Param[Running])
         /\ HolderOf(Param[Running]) = vm_scope_floor
<1> DEFINE n == Param[Running]
           h == vm_scope_floor
           m == Len(frames)
<1>1. /\ ScopesInv /\ OneHome(scopes) /\ ParamsOk(scopes, frames)
      /\ scopes \in Seq(ScopeRec) /\ Top = Len(scopes) /\ Top \in Nat \ {0}
      /\ FramesOk(frames, scopes) /\ m \in Nat /\ Visible \subseteq 1 .. Top
      /\ frames \in Seq(FrameRec)
  BY InvFacts DEF LinkInv, LinkOk, Top
<1>2. n \in Name /\ m > 0 /\ Running = frames[m].fn /\ m \in 1 .. m
  <2>1. frames # <<>> /\ Running = frames[m].fn
    BY ScopesAssumption DEF Running
  <2> QED BY <1>1, <2>1, ScopesAssumption, SeqFacts
<1>3. h = frames[m].floor /\ h \in 2 .. Top /\ Len(scopes[h].slots) >= 1
  BY <1>1, <1>2, FloorFacts DEF FramesOk
<1>4. /\ h \in 1 .. Top /\ h \in Visible /\ 1 \in 1 .. Len(scopes[h].slots)
  BY <1>1, <1>3, ScopeFacts DEF Visible
<1>5. scopes[h].slots[1].name = n
  BY <1>1, <1>2, <1>3 DEF ParamsOk
<1>6. /\ SlotsNamed(h, n) = {j \in 1 .. Len(scopes[h].slots) : scopes[h].slots[j].name = n}
      /\ Holds(h, n)
  BY <1>1, <1>2, <1>4, <1>5, NamedHolds DEF Holds
<1> HIDE DEF n, h, m
<1>7. Slot(h, n) = 1
  <2>1. SlotsNamed(h, n) # {}
    BY <1>4, <1>5, <1>6
  <2>2. /\ Slot(h, n) \in 1 .. Len(scopes[h].slots)
        /\ scopes[h].slots[Slot(h, n)].name = n
    BY <1>1, <1>4, <2>1, SlotsNamedFacts
  <2> QED BY <1>1, <1>4, <1>5, <2>2 DEF OneHome
<1>8. AddrIn(h, n) = ParamAddr
  <2>1. SlotsNamed(h, n) # {}
    BY <1>4, <1>5, <1>6
  <2> QED BY <1>7, <2>1 DEF AddrIn, ParamAddr, h
<1>9. HolderOf(n) = h
  <2>1. {i \in Visible : Holds(i, n)} # {}
    BY <1>4, <1>6
  <2>2. /\ HolderOf(n) \in Visible /\ HolderOf(n) \in 1 .. Top /\ Holds(HolderOf(n), n)
        /\ h <= HolderOf(n)
    BY <1>1, <1>4, <1>6, <2>1, HolderFacts
  <2> DEFINE i == HolderOf(n)
  <2> SUFFICES ASSUME i # h PROVE FALSE
    OBVIOUS
  <2>3. i \in h + 1 .. Top /\ i \in 1 .. Top
    BY <1>1, <1>3, <2>2
  <2> HIDE DEF i
  <2>4. Owns(frames, m, i)
    <3>1. h <= i /\ ~(m < Len(frames))
      BY <1>1, <1>3, <2>3 DEF m
    <3> QED BY <1>3, <3>1 DEF Owns
  <2>5. n \notin Named(scopes, i)
    <3>1. frames[m].fn \in Fn /\ n = Param[frames[m].fn] /\ m \in 1 .. Len(frames)
      BY <1>2 DEF n, m
    <3>2. i \in frames[m].floor + 1 .. Len(scopes)
      BY <1>1, <1>3, <2>3
    <3> QED BY <1>1, <2>4, <3>1, <3>2 DEF ParamsOk
  <2>6. n \in Named(scopes, i)
    BY <1>1, <1>2, <2>2, <2>3, NamedHolds DEF i
  <2> QED BY <2>5, <2>6
<1>10. vm_scope_get(n) = AddrIn(HolderOf(n), n)
  BY <1>4, <1>6 DEF vm_scope_get, HolderOf
<1> QED BY <1>8, <1>9, <1>10 DEF n, h

(* parser.c, emit_load and emit_store (parser.c:183): in a program none of   *)
(* whose loops takes the name of its function's parameter, the opcodes that  *)
(* go by the parameter's slot reach what its name stands for.                *)
THEOREM ParamsAreLookups ==
  ASSUME ParamsApart PROVE Spec => []ParamIsLookup
<1>1. LinkInv => ParamIsLookup
  BY ParamFound DEF ParamIsLookup
<1>2. LinkInv /\ [Next]_vars => LinkInv'
  BY LinkStep
<1> QED BY <1>1, <1>2, LinkInit, PTL DEF Spec

-----------------------------------------------------------------------------
(* Environment's state, seen in the one of Scopes.                          *)

SlotsAt(sc, i, n) == {j \in DOMAIN sc[i].slots : sc[i].slots[j].name = n}
LocAt(sc, i, n) ==
  IF SlotsAt(sc, i, n) = {} THEN sc[i].map[n]
  ELSE sc[i].slots[CHOOSE j \in SlotsAt(sc, i, n) : TRUE].loc

InlineAt(sc, l) ==
  {p \in UNION {{<<i, j>> : j \in DOMAIN sc[i].slots} : i \in 1 .. Len(sc)} :
     LET s == sc[p[1]].slots[p[2]] IN s.loc = l /\ ~s.boxed}
ValAt(sc, ct, l) ==
  IF InlineAt(sc, l) = {} THEN ct[l]
  ELSE LET p == CHOOSE q \in InlineAt(sc, l) : TRUE IN sc[p[1]].slots[p[2]].val

EnvOf(sc) == [i \in 1 .. Len(sc) |-> [n \in Name |-> LocAt(sc, i, n)]]
Outline(fr) == [i \in DOMAIN fr |-> [floor |-> fr[i].floor, ups |-> fr[i].ups]]
Used(sc, held) == ({LocAt(sc, i, n) : i \in 1 .. Len(sc), n \in Name} \ {NoLoc}) \cup held
StoreFor(sc, ct, held) == [l \in Used(sc, held) |-> ValAt(sc, ct, l)]

Frame2 == [floor : Nat, ups : [Name -> Loc \cup {NoLoc}]]
Scope2 == [Name -> Loc \cup {NoLoc}]

(* The location of a binding is the one of its slot or of its payload.      *)
LEMMA LocAtFacts ==
  ASSUME NEW sc \in Seq(ScopeRec), OneHome(sc), NEW i \in 1 .. Len(sc), NEW n \in Name
  PROVE  /\ \A j \in 1 .. Len(sc[i].slots) : sc[i].slots[j].name = n => LocAt(sc, i, n) = sc[i].slots[j].loc
         /\ (\A j \in 1 .. Len(sc[i].slots) : sc[i].slots[j].name # n) => LocAt(sc, i, n) = sc[i].map[n]
         /\ sc[i].map[n] # NoLoc => LocAt(sc, i, n) = sc[i].map[n]
         /\ LocAt(sc, i, n) \in Loc \cup {NoLoc}
         /\ LocAt(sc, i, n) # NoLoc <=> n \in Named(sc, i)
<1>1. /\ DOMAIN sc[i].slots = 1 .. Len(sc[i].slots) /\ sc[i].map[n] \in Loc \cup {NoLoc}
      /\ \A j \in 1 .. Len(sc[i].slots) : sc[i].slots[j].loc \in Loc /\ sc[i].slots[j].loc # NoLoc
  BY ScopeFacts
<1>2. ASSUME NEW j \in 1 .. Len(sc[i].slots), sc[i].slots[j].name = n
      PROVE  LocAt(sc, i, n) = sc[i].slots[j].loc
  <2> DEFINE c == CHOOSE k \in SlotsAt(sc, i, n) : TRUE
  <2>1. j \in SlotsAt(sc, i, n)
    BY <1>1, <1>2 DEF SlotsAt
  <2>2. c \in SlotsAt(sc, i, n)
    BY <2>1
  <2>3. c \in 1 .. Len(sc[i].slots) /\ sc[i].slots[c].name = n
    BY <1>1, <2>2 DEF SlotsAt
  <2>4. LocAt(sc, i, n) = sc[i].slots[c].loc
    BY <2>1 DEF LocAt
  <2> HIDE DEF c
  <2>5. c = j
    BY <1>2, <2>3 DEF OneHome
  <2> QED BY <2>4, <2>5
<1>3. (\A j \in 1 .. Len(sc[i].slots) : sc[i].slots[j].name # n) => LocAt(sc, i, n) = sc[i].map[n]
  BY <1>1 DEF LocAt, SlotsAt
<1>4. sc[i].map[n] # NoLoc => LocAt(sc, i, n) = sc[i].map[n]
  BY <1>3 DEF OneHome
<1>5. LocAt(sc, i, n) \in Loc \cup {NoLoc}
  BY <1>1, <1>2, <1>3
<1>6. LocAt(sc, i, n) # NoLoc <=> n \in Named(sc, i)
  BY <1>1, <1>2, <1>3, <1>4 DEF Named
<1> QED BY <1>2, <1>3, <1>4, <1>5, <1>6

(* A value is in the slot of its location, or else in the box.              *)
LEMMA ValAtFacts ==
  ASSUME NEW sc \in Seq(ScopeRec), DistinctSlots(sc), NEW ct, NEW l
  PROVE  /\ \A i \in 1 .. Len(sc) : \A j \in 1 .. Len(sc[i].slots) :
              sc[i].slots[j].loc = l /\ ~sc[i].slots[j].boxed
                => ValAt(sc, ct, l) = sc[i].slots[j].val
         /\ (\A i \in 1 .. Len(sc) : \A j \in 1 .. Len(sc[i].slots) :
               sc[i].slots[j].loc = l => sc[i].slots[j].boxed)
              => ValAt(sc, ct, l) = ct[l]
<1>1. \A i \in 1 .. Len(sc) : DOMAIN sc[i].slots = 1 .. Len(sc[i].slots)
  BY ScopeFacts
<1>2. \A p : p \in InlineAt(sc, l) <=>
        \E i \in 1 .. Len(sc) : \E j \in 1 .. Len(sc[i].slots) :
          p = <<i, j>> /\ sc[i].slots[j].loc = l /\ ~sc[i].slots[j].boxed
  <2> TAKE p
  <2>1. p \in UNION {{<<i, j>> : j \in DOMAIN sc[i].slots} : i \in 1 .. Len(sc)}
          <=> \E i \in 1 .. Len(sc) : \E j \in 1 .. Len(sc[i].slots) : p = <<i, j>>
    BY <1>1
  <2> QED BY <2>1 DEF InlineAt
<1>3. ASSUME NEW i \in 1 .. Len(sc), NEW j \in 1 .. Len(sc[i].slots),
             sc[i].slots[j].loc = l, ~sc[i].slots[j].boxed
      PROVE  ValAt(sc, ct, l) = sc[i].slots[j].val
  <2>1. <<i, j>> \in InlineAt(sc, l)
    BY <1>2, <1>3
  <2> DEFINE p == CHOOSE q \in InlineAt(sc, l) : TRUE
  <2>2. p \in InlineAt(sc, l) /\ ValAt(sc, ct, l) = sc[p[1]].slots[p[2]].val
    BY <2>1 DEF ValAt
  <2> HIDE DEF p
  <2>3. p = <<i, j>>
    BY <1>2, <1>3, <2>2 DEF DistinctSlots
  <2> QED BY <2>2, <2>3
<1>4. (\A i \in 1 .. Len(sc) : \A j \in 1 .. Len(sc[i].slots) :
         sc[i].slots[j].loc = l => sc[i].slots[j].boxed)
        => ValAt(sc, ct, l) = ct[l]
  BY <1>2 DEF ValAt
<1> QED BY <1>3, <1>4

(* Every location that is in use is the one of a binding, or held.          *)
LEMMA UsedFacts ==
  ASSUME NEW sc \in Seq(ScopeRec), OneHome(sc), NEW held
  PROVE  /\ \A i \in 1 .. Len(sc) : \A j \in 1 .. Len(sc[i].slots) : sc[i].slots[j].loc \in Used(sc, held)
         /\ \A i \in 1 .. Len(sc), n \in Name : sc[i].map[n] # NoLoc => sc[i].map[n] \in Used(sc, held)
         /\ \A l \in Used(sc, held) :
              \/ l \in held
              \/ \E i \in 1 .. Len(sc) : \E j \in 1 .. Len(sc[i].slots) : l = sc[i].slots[j].loc
              \/ \E i \in 1 .. Len(sc), n \in Name : l = sc[i].map[n] /\ l # NoLoc
<1>1. ASSUME NEW i \in 1 .. Len(sc), NEW j \in 1 .. Len(sc[i].slots)
      PROVE  sc[i].slots[j].loc \in Used(sc, held)
  <2>1. sc[i].slots[j].name \in Name /\ sc[i].slots[j].loc # NoLoc
    BY ScopeFacts
  <2>2. LocAt(sc, i, sc[i].slots[j].name) = sc[i].slots[j].loc
    BY <2>1, LocAtFacts
  <2> QED BY <2>1, <2>2 DEF Used
<1>2. ASSUME NEW i \in 1 .. Len(sc), NEW n \in Name, sc[i].map[n] # NoLoc
      PROVE  sc[i].map[n] \in Used(sc, held)
  <2>1. LocAt(sc, i, n) = sc[i].map[n]
    BY <1>2, LocAtFacts
  <2> QED BY <1>2, <2>1 DEF Used
<1>3. ASSUME NEW l \in Used(sc, held), l \notin held
      PROVE  \/ \E i \in 1 .. Len(sc) : \E j \in 1 .. Len(sc[i].slots) : l = sc[i].slots[j].loc
             \/ \E i \in 1 .. Len(sc), n \in Name : l = sc[i].map[n] /\ l # NoLoc
  <2>1. PICK i \in 1 .. Len(sc), n \in Name : l = LocAt(sc, i, n) /\ l # NoLoc
    BY <1>3 DEF Used
  <2>2. CASE \E j \in 1 .. Len(sc[i].slots) : sc[i].slots[j].name = n
    BY <2>1, <2>2, LocAtFacts
  <2>3. CASE \A j \in 1 .. Len(sc[i].slots) : sc[i].slots[j].name # n
    <3>1. l = sc[i].map[n]
      BY <2>1, <2>3, LocAtFacts
    <3> QED BY <2>1, <3>1
  <2> QED BY <2>2, <2>3
<1> QED BY <1>1, <1>2, <1>3

(* What is used is what Environment and Scopes say is used.                 *)
AllLocs(sc, fr, cl) ==
  ((UNION {{sc[i].slots[j].loc : j \in DOMAIN sc[i].slots} \cup {sc[i].map[n] : n \in Name} :
             i \in 1 .. Len(sc)})
     \cup {fr[i].ups[n] : i \in DOMAIN fr, n \in Name}
     \cup {cl[k][n] : k \in Closure, n \in Name}) \ {NoLoc}

(* InUse, in Scopes and in Environment, is Used.                            *)
LEMMA UsedIs ==
  ASSUME NEW sc \in Seq(ScopeRec), OneHome(sc), NEW fr, NEW cl
  PROVE  /\ AllLocs(sc, fr, cl) = Used(sc, HeldBy(fr, cl))
         /\ Env!InUse(EnvOf(sc), Outline(fr), cl) = Used(sc, HeldBy(fr, cl))
<1> DEFINE held == HeldBy(fr, cl)
           ups == {fr[i].ups[n] : i \in DOMAIN fr, n \in Name}
           caps == {cl[k][n] : k \in Closure, n \in Name}
           binds == {LocAt(sc, i, n) : i \in 1 .. Len(sc), n \in Name}
<1>1. held = (ups \cup caps) \ {NoLoc}
  BY DEF HeldBy
<1>2. Env!InUse(EnvOf(sc), Outline(fr), cl) = Used(sc, held)
  <2>1. /\ DOMAIN EnvOf(sc) = 1 .. Len(sc)
        /\ \A i \in 1 .. Len(sc), n \in Name : EnvOf(sc)[i][n] = LocAt(sc, i, n)
    BY DEF EnvOf
  <2>2. /\ DOMAIN Outline(fr) = DOMAIN fr
        /\ \A i \in DOMAIN fr : Outline(fr)[i].ups = fr[i].ups
    BY DEF Outline
  <2>3. Env!InUse(EnvOf(sc), Outline(fr), cl) = (binds \cup ups \cup caps) \ {NoLoc}
    <3> DEFINE e == EnvOf(sc)
               o == Outline(fr)
    <3> HIDE DEF e, o
    <3>1. \A x : x \in Env!InUse(e, o, cl) <=>
            /\ x # NoLoc
            /\ \/ \E i \in DOMAIN e, n \in Name : x = e[i][n]
               \/ \E i \in DOMAIN o, n \in Name : x = o[i].ups[n]
               \/ \E k \in Closure, n \in Name : x = cl[k][n]
      BY DEF Env!InUse
    <3>2. \A x : x \in binds <=> \E i \in DOMAIN e, n \in Name : x = e[i][n]
      BY <2>1 DEF e
    <3>3. \A x : x \in ups <=> \E i \in DOMAIN o, n \in Name : x = o[i].ups[n]
      BY <2>2 DEF o
    <3>4. \A x : x \in caps <=> \E k \in Closure, n \in Name : x = cl[k][n]
      OBVIOUS
    <3> HIDE DEF binds, ups, caps
    <3> QED BY <3>1, <3>2, <3>3, <3>4 DEF e, o
  <2>4. Used(sc, held) = (binds \ {NoLoc}) \cup held
    BY DEF Used
  <2> HIDE DEF binds, ups, caps, held
  <2> QED BY <1>1, <2>3, <2>4
<1>3. AllLocs(sc, fr, cl) = Used(sc, held)
  <2> DEFINE locs == UNION {{sc[i].slots[j].loc : j \in DOMAIN sc[i].slots}
                              \cup {sc[i].map[n] : n \in Name} : i \in 1 .. Len(sc)}
  <2>1. \A l : l \in locs <=>
          \/ \E i \in 1 .. Len(sc) : \E j \in 1 .. Len(sc[i].slots) : l = sc[i].slots[j].loc
          \/ \E i \in 1 .. Len(sc), n \in Name : l = sc[i].map[n]
    <3>1. \A i \in 1 .. Len(sc) : DOMAIN sc[i].slots = 1 .. Len(sc[i].slots)
      BY ScopeFacts
    <3> QED BY <3>1
  <2>2. AllLocs(sc, fr, cl) = (locs \cup ups \cup caps) \ {NoLoc}
    BY DEF AllLocs
  <2> HIDE DEF ups, caps, held, locs
  <2>3. NoLoc \notin Used(sc, held)
    <3>1. NoLoc \notin held
      BY <1>1
    <3> QED BY <3>1 DEF Used
  <2>4. \A l \in Used(sc, held) : l \in held \/ l \in locs
    BY <2>1, UsedFacts
  <2>5. \A l \in locs : l # NoLoc => l \in Used(sc, held)
    BY <2>1, UsedFacts
  <2>6. held \subseteq Used(sc, held)
    BY DEF Used
  <2> QED BY <1>1, <2>2, <2>3, <2>4, <2>5, <2>6
<1> QED BY <1>2, <1>3

(* The mapping of Scopes!Env, in terms of what a state is made of.          *)
LEMMA MappingNow ==
  ASSUME scopes \in Seq(ScopeRec), OneHome(scopes)
  PROVE  /\ EnvScopes = EnvOf(scopes) /\ EnvFrames = Outline(frames)
         /\ EnvStore = StoreFor(scopes, content, Held) /\ InUse = Used(scopes, Held)
<1>1. EnvScopes = EnvOf(scopes)
  BY DEF EnvScopes, EnvOf, LocIn, LocAt, Slot, SlotsNamed, SlotsAt, Top
<1>2. EnvFrames = Outline(frames)
  BY DEF EnvFrames, Outline
<1>3. InUse = AllLocs(scopes, frames, closures)
  BY DEF InUse, LocsOf, AllLocs, Top
<1>4. InUse = Used(scopes, Held)
  BY <1>3, UsedIs DEF Held
<1>5. \A l : ValueOf(l) = ValAt(scopes, content, l)
  BY DEF ValueOf, ValAt, Inline, InlineAt, InlineSlots, Top
<1>6. EnvStore = StoreFor(scopes, content, Held)
  BY <1>4, <1>5 DEF EnvStore, StoreFor
<1> QED BY <1>1, <1>2, <1>4, <1>6

(* The same mapping, after a step.                                          *)
LEMMA MappingNext ==
  ASSUME scopes' \in Seq(ScopeRec), OneHome(scopes')
  PROVE  /\ EnvScopes' = EnvOf(scopes') /\ EnvFrames' = Outline(frames')
         /\ EnvStore' = StoreFor(scopes', content', HeldBy(frames', closures'))
         /\ Env!InUse(EnvScopes', EnvFrames', closures') = Used(scopes', HeldBy(frames', closures'))
<1>1. EnvScopes' = EnvOf(scopes')
  BY DEF EnvScopes, EnvOf, LocIn, LocAt, Slot, SlotsNamed, SlotsAt, Top
<1>2. EnvFrames' = Outline(frames')
  BY DEF EnvFrames, Outline
<1>3. InUse' = AllLocs(scopes', frames', closures')
  BY DEF InUse, LocsOf, AllLocs, Top
<1>4. InUse' = Used(scopes', HeldBy(frames', closures'))
  BY <1>3, UsedIs
<1>5. \A l : ValueOf(l)' = ValAt(scopes', content', l)
  BY DEF ValueOf, ValAt, Inline, InlineAt, InlineSlots, Top
<1>6. EnvStore' = StoreFor(scopes', content', HeldBy(frames', closures'))
  BY <1>4, <1>5 DEF EnvStore, StoreFor
<1>7. Env!InUse(EnvScopes', EnvFrames', closures') = Used(scopes', HeldBy(frames', closures'))
  BY <1>1, <1>2, UsedIs
<1> QED BY <1>1, <1>2, <1>6, <1>7

(* What LinkInv says of the parts of a state.                               *)
LEMMA LinkFacts ==
  ASSUME LinkInv
  PROVE  /\ ScopesInv /\ scopes \in Seq(ScopeRec) /\ scopes # <<>> /\ content \in Contents
         /\ Top = Len(scopes) /\ Top \in Nat \ {0} /\ Held \in SUBSET Loc
         /\ DistinctLocs(scopes) /\ DistinctSlots(scopes) /\ Live(scopes, content, Held)
         /\ OneHome(scopes) /\ HeldBoxed(scopes, Held)
         /\ frames \in Seq(FrameRec) /\ Len(frames) \in Nat /\ closures \in ClosureSet
         /\ Used(scopes, Held) \in SUBSET Loc
<1>1. /\ ScopesInv /\ OneHome(scopes) /\ HeldBoxed(scopes, Held)
  BY DEF LinkInv, LinkOk
<1>2. scopes \in Seq(ScopeRec) /\ Held \in SUBSET Loc /\ Top = Len(scopes)
  BY <1>1, InvFacts DEF Top
<1>3. \A i \in 1 .. Len(scopes), n \in Name : LocAt(scopes, i, n) \in Loc \cup {NoLoc}
  BY <1>1, <1>2, LocAtFacts
<1>4. Used(scopes, Held) \in SUBSET Loc
  BY <1>2, <1>3 DEF Used
<1> QED BY <1>1, <1>2, <1>4, InvFacts DEF DistinctLocs

(* Bindings in the same places are the same environment.                    *)
LEMMA EnvSame ==
  ASSUME NEW sc \in Seq(ScopeRec), NEW new \in Seq(ScopeRec), SamePlaces(new, sc),
         OneHome(sc), OneHome(new)
  PROVE  EnvOf(new) = EnvOf(sc) /\ \A held : Used(new, held) = Used(sc, held)
<1>1. Len(new) = Len(sc)
  BY DEF SamePlaces
<1>2. ASSUME NEW i \in 1 .. Len(sc), NEW n \in Name
      PROVE  LocAt(new, i, n) = LocAt(sc, i, n)
  <2>1. /\ new[i].map = sc[i].map /\ Len(new[i].slots) = Len(sc[i].slots)
        /\ \A j \in 1 .. Len(sc[i].slots) : /\ new[i].slots[j].name = sc[i].slots[j].name
                                            /\ new[i].slots[j].loc = sc[i].slots[j].loc
    BY DEF SamePlaces
  <2>2. CASE \E j \in 1 .. Len(sc[i].slots) : sc[i].slots[j].name = n
    <3>1. PICK j \in 1 .. Len(sc[i].slots) : sc[i].slots[j].name = n
      BY <2>2
    <3>2. LocAt(sc, i, n) = sc[i].slots[j].loc
      BY <3>1, LocAtFacts
    <3>3. j \in 1 .. Len(new[i].slots) /\ new[i].slots[j].name = n
          /\ new[i].slots[j].loc = sc[i].slots[j].loc
      BY <2>1, <3>1
    <3>4. LocAt(new, i, n) = new[i].slots[j].loc
      BY <1>1, <3>3, LocAtFacts
    <3> QED BY <3>2, <3>3, <3>4
  <2>3. CASE \A j \in 1 .. Len(sc[i].slots) : sc[i].slots[j].name # n
    <3>1. LocAt(sc, i, n) = sc[i].map[n]
      BY <2>3, LocAtFacts
    <3>2. \A j \in 1 .. Len(new[i].slots) : new[i].slots[j].name # n
      BY <2>1, <2>3
    <3>3. LocAt(new, i, n) = new[i].map[n]
      BY <1>1, <3>2, LocAtFacts
    <3> QED BY <2>1, <3>1, <3>3
  <2> QED BY <2>2, <2>3
<1>3. EnvOf(new) = EnvOf(sc)
  BY <1>1, <1>2 DEF EnvOf
<1>4. ASSUME NEW held PROVE Used(new, held) = Used(sc, held)
  BY <1>1, <1>2 DEF Used
<1> QED BY <1>3, <1>4

(* An address leads to a location: to its inline slot, or to its box if it  *)
(* has none.                                                                *)
Leads(a, l, sc) ==
  \/ \E i \in 1 .. Len(sc) : \E j \in 1 .. Len(sc[i].slots) :
       a = SlotAddr(i, j) /\ sc[i].slots[j].loc = l /\ ~sc[i].slots[j].boxed
  \/ /\ a = BoxAddr(l) /\ l \in Loc
     /\ \A i \in 1 .. Len(sc) : \A j \in 1 .. Len(sc[i].slots) :
          sc[i].slots[j].loc = l => sc[i].slots[j].boxed

(* Reading at an address gives the value of the location it leads to.       *)
LEMMA LeadsReads ==
  ASSUME LinkInv, NEW l, NEW a, Leads(a, l, scopes)
  PROVE  Deref(a) = ValAt(scopes, content, l) /\ ValidAddr(a, scopes)
<1>1. scopes \in Seq(ScopeRec) /\ DistinctSlots(scopes)
  BY LinkFacts
<1>2. CASE \E i \in 1 .. Len(scopes) : \E j \in 1 .. Len(scopes[i].slots) :
             a = SlotAddr(i, j) /\ scopes[i].slots[j].loc = l /\ ~scopes[i].slots[j].boxed
  <2>1. PICK i \in 1 .. Len(scopes) : \E j \in 1 .. Len(scopes[i].slots) :
               a = SlotAddr(i, j) /\ scopes[i].slots[j].loc = l /\ ~scopes[i].slots[j].boxed
    BY <1>2
  <2>2. PICK j \in 1 .. Len(scopes[i].slots) :
               a = SlotAddr(i, j) /\ scopes[i].slots[j].loc = l /\ ~scopes[i].slots[j].boxed
    BY <2>1
  <2>3. Deref(a) = scopes[i].slots[j].val
    BY <2>2 DEF Deref, SlotAddr
  <2>4. ValAt(scopes, content, l) = scopes[i].slots[j].val
    BY <1>1, <2>2, ValAtFacts
  <2> QED BY <2>2, <2>3, <2>4 DEF ValidAddr
<1>3. CASE /\ a = BoxAddr(l) /\ l \in Loc
           /\ \A i \in 1 .. Len(scopes) : \A j \in 1 .. Len(scopes[i].slots) :
                scopes[i].slots[j].loc = l => scopes[i].slots[j].boxed
  <2>1. Deref(a) = content[l]
    BY <1>3 DEF Deref, BoxAddr
  <2>2. ValAt(scopes, content, l) = content[l]
    BY <1>1, <1>3, ValAtFacts
  <2> QED BY <1>3, <2>1, <2>2 DEF ValidAddr
<1> QED BY <1>2, <1>3 DEF Leads

(* A write to a slot changes that slot's value and no other.                *)
LEMMA WrittenVals ==
  ASSUME NEW sc \in Seq(ScopeRec), NEW i \in 1 .. Len(sc), NEW j \in 1 .. Len(sc[i].slots),
         NEW v \in Value
  PROVE  \A k \in 1 .. Len(sc) : \A m \in 1 .. Len(sc[k].slots) :
           WrittenSlot(sc, i, j, v)[k].slots[m].val
             = IF k = i /\ m = j THEN v ELSE sc[k].slots[m].val
<1> TAKE k \in 1 .. Len(sc)
<1> TAKE m \in 1 .. Len(sc[k].slots)
<1> DEFINE ss == [sc[i].slots EXCEPT ![j].val = v]
           r == [sc[i] EXCEPT !.slots = ss]
<1>1. /\ sc[i] \in ScopeRec /\ DOMAIN sc = 1 .. Len(sc)
      /\ DOMAIN sc[i].slots = 1 .. Len(sc[i].slots)
      /\ \A x \in 1 .. Len(sc[i].slots) : sc[i].slots[x] \in SlotRec
  BY ScopeFacts
<1>2. WrittenSlot(sc, i, j, v) = [sc EXCEPT ![i] = r]
  BY DEF WrittenSlot
<1>3. \A x \in 1 .. Len(sc[i].slots) :
        ss[x].val = IF x = j THEN v ELSE sc[i].slots[x].val
  BY <1>1 DEF SlotRec
<1> HIDE DEF ss
<1>4. r.slots = ss
  BY <1>1 DEF ScopeRec
<1> HIDE DEF r
<1>5. WrittenSlot(sc, i, j, v)[k] = IF k = i THEN r ELSE sc[k]
  BY <1>1, <1>2
<1> QED BY <1>3, <1>4, <1>5

(* Writing to an address writes to its location, and to no other.           *)
LEMMA LeadsWrites ==
  ASSUME LinkInv, NEW l \in Used(scopes, Held), NEW a, NEW v \in Value,
         Leads(a, l, scopes), Write(a, v)
  PROVE  /\ EnvOf(scopes') = EnvOf(scopes) /\ Used(scopes', Held) = Used(scopes, Held)
         /\ StoreFor(scopes', content', Held) = [StoreFor(scopes, content, Held) EXCEPT ![l] = v]
<1>1. /\ ScopesInv /\ scopes \in Seq(ScopeRec) /\ DistinctLocs(scopes) /\ DistinctSlots(scopes)
      /\ OneHome(scopes) /\ HeldBoxed(scopes, Held) /\ content \in Contents
      /\ Used(scopes, Held) \in SUBSET Loc
  BY LinkFacts
<1>2. ValidAddr(a, scopes)
  BY LeadsReads
<1>3. SameBindings(scopes', scopes)
  BY <1>1, <1>2, WriteStep
<1>4. /\ scopes' \in Seq(ScopeRec) /\ OneHome(scopes') /\ SamePlaces(scopes', scopes)
      /\ DistinctSlots(scopes')
  <2>1. OneHome(scopes')
    BY <1>2, WriteLinks DEF LinkOk
  <2>2. SamePlaces(scopes', scopes)
    BY <1>1, <1>3, SameBindingsPlaces
  <2>3. DistinctLocs(scopes')
    BY <1>1, <1>3, SameKeepsDistinct
  <2> QED BY <1>3, <2>1, <2>2, <2>3 DEF SameBindings, DistinctLocs
<1>5. EnvOf(scopes') = EnvOf(scopes) /\ Used(scopes', Held) = Used(scopes, Held)
  BY <1>1, <1>4, EnvSame
<1>6. /\ Len(scopes') = Len(scopes)
      /\ \A i \in 1 .. Len(scopes) :
           /\ Len(scopes'[i].slots) = Len(scopes[i].slots)
           /\ \A j \in 1 .. Len(scopes[i].slots) :
                /\ scopes'[i].slots[j].loc = scopes[i].slots[j].loc
                /\ scopes'[i].slots[j].boxed = scopes[i].slots[j].boxed
  BY <1>3 DEF SameBindings
(* The value of every location afterwards.                                  *)
<1>7. ASSUME NEW k \in Used(scopes, Held)
      PROVE  ValAt(scopes', content', k) = IF k = l THEN v ELSE ValAt(scopes, content, k)
  <2>1. CASE \E i \in 1 .. Len(scopes) : \E j \in 1 .. Len(scopes[i].slots) :
               a = SlotAddr(i, j) /\ scopes[i].slots[j].loc = l /\ ~scopes[i].slots[j].boxed
    <3>1. PICK i \in 1 .. Len(scopes) : \E j \in 1 .. Len(scopes[i].slots) :
                 a = SlotAddr(i, j) /\ scopes[i].slots[j].loc = l /\ ~scopes[i].slots[j].boxed
      BY <2>1
    <3>2. PICK j \in 1 .. Len(scopes[i].slots) :
                 a = SlotAddr(i, j) /\ scopes[i].slots[j].loc = l /\ ~scopes[i].slots[j].boxed
      BY <3>1
    <3>3. a[1] = "val" /\ a[2] = i /\ a[3] = j
      BY <3>2 DEF SlotAddr
    <3>4. scopes' = WrittenSlot(scopes, i, j, v) /\ content' = content
      BY <3>3 DEF Write, WrittenSlot
    <3>5. \A x \in 1 .. Len(scopes) : \A y \in 1 .. Len(scopes[x].slots) :
            scopes'[x].slots[y].val = IF x = i /\ y = j THEN v ELSE scopes[x].slots[y].val
      BY <1>1, <3>4, WrittenVals
    <3>6. CASE \E x \in 1 .. Len(scopes) : \E y \in 1 .. Len(scopes[x].slots) :
                 scopes[x].slots[y].loc = k /\ ~scopes[x].slots[y].boxed
      <4>1. PICK x \in 1 .. Len(scopes) : \E y \in 1 .. Len(scopes[x].slots) :
                   scopes[x].slots[y].loc = k /\ ~scopes[x].slots[y].boxed
        BY <3>6
      <4>2. PICK y \in 1 .. Len(scopes[x].slots) :
                   scopes[x].slots[y].loc = k /\ ~scopes[x].slots[y].boxed
        BY <4>1
      <4>3. ValAt(scopes, content, k) = scopes[x].slots[y].val
        BY <1>1, <4>2, ValAtFacts
      <4>4. /\ x \in 1 .. Len(scopes') /\ y \in 1 .. Len(scopes'[x].slots)
            /\ scopes'[x].slots[y].loc = k /\ ~scopes'[x].slots[y].boxed
        BY <1>6, <4>2
      <4>5. ValAt(scopes', content', k) = scopes'[x].slots[y].val
        BY <1>4, <4>4, ValAtFacts
      <4>6. k = l <=> (x = i /\ y = j)
        BY <1>1, <3>2, <4>2 DEF DistinctSlots
      <4> QED BY <3>5, <4>3, <4>5, <4>6
    <3>7. CASE \A x \in 1 .. Len(scopes) : \A y \in 1 .. Len(scopes[x].slots) :
                 scopes[x].slots[y].loc = k => scopes[x].slots[y].boxed
      <4>1. k # l
        BY <3>2, <3>7
      <4>2. ValAt(scopes, content, k) = content[k]
        BY <1>1, <3>7, ValAtFacts
      <4>3. \A x \in 1 .. Len(scopes') : \A y \in 1 .. Len(scopes'[x].slots) :
              scopes'[x].slots[y].loc = k => scopes'[x].slots[y].boxed
        BY <1>6, <3>7
      <4>4. ValAt(scopes', content', k) = content'[k]
        BY <1>4, <4>3, ValAtFacts
      <4> QED BY <3>4, <4>1, <4>2, <4>4
    <3> QED BY <3>6, <3>7
  <2>2. CASE /\ a = BoxAddr(l) /\ l \in Loc
             /\ \A i \in 1 .. Len(scopes) : \A j \in 1 .. Len(scopes[i].slots) :
                  scopes[i].slots[j].loc = l => scopes[i].slots[j].boxed
    <3>1. a[1] = "box" /\ a[2] = l
      BY <2>2 DEF BoxAddr
    <3>2. content' = [content EXCEPT ![l] = v] /\ scopes' = scopes
      BY <3>1 DEF Write
    <3>3. k \in Loc /\ content'[k] = IF k = l THEN v ELSE content[k]
      BY <1>1, <3>2 DEF Contents
    <3>4. CASE \E x \in 1 .. Len(scopes) : \E y \in 1 .. Len(scopes[x].slots) :
                 scopes[x].slots[y].loc = k /\ ~scopes[x].slots[y].boxed
      <4>1. k # l
        BY <2>2, <3>4
      <4>2. ValAt(scopes, content', k) = ValAt(scopes, content, k)
        BY <1>1, <3>4, ValAtFacts
      <4> QED BY <3>2, <4>1, <4>2
    <3>5. CASE \A x \in 1 .. Len(scopes) : \A y \in 1 .. Len(scopes[x].slots) :
                 scopes[x].slots[y].loc = k => scopes[x].slots[y].boxed
      <4>1. ValAt(scopes, content', k) = content'[k] /\ ValAt(scopes, content, k) = content[k]
        BY <1>1, <3>5, ValAtFacts
      <4> QED BY <3>2, <3>3, <4>1
    <3> QED BY <3>4, <3>5
  <2> QED BY <2>1, <2>2 DEF Leads
<1>8. StoreFor(scopes', content', Held) = [StoreFor(scopes, content, Held) EXCEPT ![l] = v]
  <2> DEFINE st == StoreFor(scopes, content, Held)
  <2>1. DOMAIN st = Used(scopes, Held) /\ \A k \in Used(scopes, Held) : st[k] = ValAt(scopes, content, k)
    BY DEF StoreFor
  <2>2. StoreFor(scopes', content', Held) = [k \in Used(scopes, Held) |-> IF k = l THEN v ELSE st[k]]
    BY <1>5, <1>7, <2>1 DEF StoreFor
  <2> HIDE DEF st
  <2>3. [st EXCEPT ![l] = v] = [k \in DOMAIN st |-> IF k = l THEN v ELSE st[k]]
    OBVIOUS
  <2> QED BY <2>1, <2>2, <2>3 DEF st
<1> QED BY <1>5, <1>8

(* What a closure holds is reached through its box.                         *)
LEMMA HeldLeads ==
  ASSUME LinkInv, NEW l \in Held
  PROVE  Leads(BoxAddr(l), l, scopes) /\ l \in Used(scopes, Held)
<1>1. HeldBoxed(scopes, Held) /\ l \in Loc
  BY LinkFacts
<1> QED BY <1>1 DEF HeldBoxed, Leads, Used

(* A scope's answer leads to the location it has for the name.              *)
LEMMA AddrInLeads ==
  ASSUME LinkInv, NEW i \in 1 .. Top, NEW n \in Name, Holds(i, n)
  PROVE  /\ Leads(AddrIn(i, n), LocAt(scopes, i, n), scopes)
         /\ LocAt(scopes, i, n) \in Used(scopes, Held) /\ LocAt(scopes, i, n) # NoLoc
<1>1. /\ ScopesInv /\ scopes \in Seq(ScopeRec) /\ DistinctLocs(scopes) /\ OneHome(scopes)
      /\ i \in 1 .. Len(scopes)
  BY LinkFacts
<1>2. n \in Named(scopes, i)
  BY <1>1, NamedHolds
<1>3. LocAt(scopes, i, n) # NoLoc /\ LocAt(scopes, i, n) \in Used(scopes, Held)
      /\ LocAt(scopes, i, n) \in Loc
  BY <1>1, <1>2, LocAtFacts DEF Used
<1>4. CASE SlotsNamed(i, n) # {}
  <2> DEFINE j == Slot(i, n)
  <2>1. j \in 1 .. Len(scopes[i].slots) /\ scopes[i].slots[j].name = n
    BY <1>1, <1>4, SlotsNamedFacts
  <2>2. AddrIn(i, n) = IF scopes[i].slots[j].boxed THEN BoxAddr(scopes[i].slots[j].loc)
                       ELSE SlotAddr(i, j)
    BY <1>4 DEF AddrIn
  <2> HIDE DEF j
  <2>3. LocAt(scopes, i, n) = scopes[i].slots[j].loc
    BY <1>1, <2>1, LocAtFacts
  <2>4. CASE scopes[i].slots[j].boxed
    <3>1. \A x \in 1 .. Len(scopes) : \A y \in 1 .. Len(scopes[x].slots) :
            scopes[x].slots[y].loc = LocAt(scopes, i, n) => scopes[x].slots[y].boxed
      <4> SUFFICES ASSUME NEW x \in 1 .. Len(scopes), NEW y \in 1 .. Len(scopes[x].slots),
                          scopes[x].slots[y].loc = LocAt(scopes, i, n)
                   PROVE  scopes[x].slots[y].boxed
        OBVIOUS
      <4>1. x = i /\ y = j
        BY <1>1, <2>1, <2>3 DEF DistinctLocs, DistinctSlots
      <4> QED BY <2>4, <4>1
    <3> QED BY <1>3, <2>2, <2>3, <2>4, <3>1 DEF Leads
  <2>5. CASE ~scopes[i].slots[j].boxed
    <3>1. AddrIn(i, n) = SlotAddr(i, j)
      BY <2>2, <2>5
    <3>2. \E x \in 1 .. Len(scopes) : \E y \in 1 .. Len(scopes[x].slots) :
            /\ AddrIn(i, n) = SlotAddr(x, y) /\ scopes[x].slots[y].loc = LocAt(scopes, i, n)
            /\ ~scopes[x].slots[y].boxed
      BY <1>1, <2>1, <2>3, <2>5, <3>1
    <3> QED BY <1>3, <3>2 DEF Leads
  <2> QED BY <1>3, <2>4, <2>5
<1>5. CASE SlotsNamed(i, n) = {}
  <2>1. scopes[i].map[n] # NoLoc /\ AddrIn(i, n) = BoxAddr(scopes[i].map[n])
    BY <1>5 DEF Holds, AddrIn
  <2>2. LocAt(scopes, i, n) = scopes[i].map[n]
    BY <1>1, <2>1, LocAtFacts
  <2>3. \A x \in 1 .. Len(scopes) : \A y \in 1 .. Len(scopes[x].slots) :
          scopes[x].slots[y].loc # LocAt(scopes, i, n)
    BY <1>1, <2>2 DEF DistinctLocs, SlotsOffMaps
  <2> QED BY <1>3, <2>1, <2>2, <2>3 DEF Leads
<1> QED BY <1>4, <1>5

(* What a lookup finds, and what it leads to.                               *)
LEMMA FoundLeads ==
  ASSUME LinkInv, NEW n \in Name, vm_scope_get(n) # NullAddr
  PROVE  /\ HolderOf(n) \in 1 .. Top /\ Holds(HolderOf(n), n)
         /\ Leads(vm_scope_get(n), LocAt(scopes, HolderOf(n), n), scopes)
         /\ LocAt(scopes, HolderOf(n), n) \in Used(scopes, Held)
         /\ LocAt(scopes, HolderOf(n), n) # NoLoc
<1>1. ScopesInv
  BY LinkFacts
<1>2. HolderOf(n) \in 1 .. Top /\ Holds(HolderOf(n), n)
      /\ vm_scope_get(n) = AddrIn(HolderOf(n), n)
  BY <1>1, LookupValid, HolderFacts
<1> QED BY <1>2, AddrInLeads

(* A lookup that gives NULL has found no scope.                             *)
LEMMA NothingVisible ==
  ASSUME LinkInv, NEW n \in Name, vm_scope_get(n) = NullAddr
  PROVE  {i \in Visible : Holds(i, n)} = {}
<1> SUFFICES ASSUME {i \in Visible : Holds(i, n)} # {} PROVE FALSE
  OBVIOUS
<1>1. NullAddr = AddrIn(HolderOf(n), n)
  BY DEF vm_scope_get, HolderOf
<1>2. \A i, j : NullAddr # BoxAddr(i) /\ NullAddr # SlotAddr(i, j)
  <2>1. NullAddr[1] = "null"
    BY DEF NullAddr
  <2>2. \A i, j : BoxAddr(i)[1] = "box" /\ SlotAddr(i, j)[1] = "val"
    BY DEF BoxAddr, SlotAddr
  <2> QED BY <2>1, <2>2
<1> QED BY <1>1, <1>2 DEF AddrIn

(* The floor, and the binding in force, in both modules.                    *)
LEMMA SameFloor ==
  ASSUME LinkInv
  PROVE  /\ Env!Floor = vm_scope_floor /\ EnvFrames \in Seq(Frame2)
         /\ Len(EnvFrames) = Len(frames) /\ (EnvFrames = <<>> <=> frames = <<>>)
         /\ \A i \in 1 .. Len(frames) : EnvFrames[i].floor = frames[i].floor
                                        /\ EnvFrames[i].ups = frames[i].ups
<1>1. frames \in Seq(FrameRec) /\ Len(frames) \in Nat /\ DOMAIN frames = 1 .. Len(frames)
      /\ \A i \in 1 .. Len(frames) : frames[i].floor \in Nat
                                     /\ frames[i].ups \in [Name -> Loc \cup {NoLoc}]
  BY LinkFacts, HeldLocs, SeqFacts
<1>2. EnvFrames = [i \in 1 .. Len(frames) |-> [floor |-> frames[i].floor, ups |-> frames[i].ups]]
  BY <1>1 DEF EnvFrames
<1>3. EnvFrames \in [1 .. Len(frames) -> Frame2]
  BY <1>1, <1>2 DEF Frame2
<1>4. EnvFrames \in Seq(Frame2) /\ Len(EnvFrames) = Len(frames)
  BY <1>1, <1>3, SeqOfFunction
<1>5. EnvFrames = <<>> <=> frames = <<>>
  BY <1>1, <1>4, SeqFacts
<1>6. Env!Floor = vm_scope_floor
  <2>1. CASE frames = <<>>
    BY <1>5, <2>1 DEF Env!Floor, vm_scope_floor
  <2>2. CASE frames # <<>>
    <3>1. Len(frames) \in 1 .. Len(frames)
      BY <1>1, <2>2, SeqFacts
    <3>2. EnvFrames[Len(EnvFrames)].floor = frames[Len(frames)].floor
      BY <1>2, <1>4, <3>1
    <3> QED BY <1>5, <2>2, <3>2 DEF Env!Floor, vm_scope_floor
  <2> QED BY <2>1, <2>2
<1> QED BY <1>2, <1>4, <1>5, <1>6

(* Environment has a scope for each scope, with the same names bound.       *)
LEMMA SameEnv ==
  ASSUME LinkInv
  PROVE  /\ EnvScopes = EnvOf(scopes) /\ EnvScopes \in Seq(Scope2) /\ Len(EnvScopes) = Top
         /\ \A i \in 1 .. Top, n \in Name :
              /\ EnvScopes[i][n] = LocAt(scopes, i, n)
              /\ EnvScopes[i][n] # NoLoc <=> Holds(i, n)
         /\ EnvStore = StoreFor(scopes, content, Held)
         /\ InUse = Used(scopes, Held)
         /\ Env!InUse(EnvScopes, EnvFrames, closures) = Used(scopes, Held)
<1>1. /\ ScopesInv /\ scopes \in Seq(ScopeRec) /\ OneHome(scopes) /\ Top = Len(scopes)
      /\ Top \in Nat
  BY LinkFacts
<1>2. /\ EnvScopes = EnvOf(scopes) /\ EnvStore = StoreFor(scopes, content, Held)
      /\ InUse = Used(scopes, Held) /\ EnvFrames = Outline(frames)
  BY <1>1, MappingNow
<1>3. ASSUME NEW i \in 1 .. Top, NEW n \in Name
      PROVE  /\ EnvScopes[i][n] = LocAt(scopes, i, n) /\ LocAt(scopes, i, n) \in Loc \cup {NoLoc}
             /\ EnvScopes[i][n] # NoLoc <=> Holds(i, n)
  <2>1. EnvScopes[i][n] = LocAt(scopes, i, n)
    BY <1>1, <1>2 DEF EnvOf
  <2> QED BY <1>1, <2>1, LocAtFacts, NamedHolds
<1>4. EnvScopes \in [1 .. Top -> Scope2]
  BY <1>1, <1>2, <1>3 DEF EnvOf, Scope2
<1>5. EnvScopes \in Seq(Scope2) /\ Len(EnvScopes) = Top
  BY <1>1, <1>4, SeqOfFunction
<1>6. Env!InUse(EnvScopes, EnvFrames, closures) = Used(scopes, Held)
  BY <1>1, <1>2, UsedIs DEF Held
<1> QED BY <1>2, <1>3, <1>5, <1>6

(* The binding in force is the one that the lookup finds.                   *)
LEMMA SameBinding ==
  ASSUME LinkInv, NEW n \in Name
  PROVE  Env!Binding(n) = IF vm_scope_get(n) = NullAddr THEN NoLoc
                          ELSE LocAt(scopes, HolderOf(n), n)
<1> DEFINE S == {i \in Visible : Holds(i, n)}
           F == {i \in {1} \cup (Env!Floor .. Len(EnvScopes)) : EnvScopes[i][n] # NoLoc}
<1>1. ScopesInv /\ Visible \subseteq 1 .. Top /\ Top \in Nat
  BY LinkFacts, InvFacts
<1>2. F = S
  <2>1. {1} \cup (Env!Floor .. Len(EnvScopes)) = Visible
    BY SameFloor, SameEnv DEF Visible
  <2>2. \A i \in Visible : EnvScopes[i][n] # NoLoc <=> Holds(i, n)
    BY <1>1, SameEnv
  <2> QED BY <2>1, <2>2
<1>3. Env!Binding(n) = IF F = {} THEN NoLoc
                       ELSE EnvScopes[CHOOSE i \in F : \A k \in F : k <= i][n]
  BY DEF Env!Binding
<1> HIDE DEF F
<1>4. CASE vm_scope_get(n) = NullAddr
  BY <1>2, <1>3, <1>4, NothingVisible
<1>5. CASE vm_scope_get(n) # NullAddr
  <2>1. S # {}
    BY <1>1, <1>5, LookupValid
  <2>2. HolderOf(n) \in S /\ HolderOf(n) \in 1 .. Top /\ \A k \in S : k <= HolderOf(n)
    BY <1>1, <2>1, HolderFacts
  <2> HIDE DEF S
  <2> DEFINE c == CHOOSE i \in S : \A k \in S : k <= i
  <2>3. c \in S /\ \A k \in S : k <= c
    BY <2>2
  <2>4. S \subseteq Nat
    <3>1. S \subseteq Visible /\ 1 .. Top \subseteq Nat
      BY <1>1 DEF S
    <3> QED BY <1>1, <3>1
  <2>5. c = HolderOf(n)
    <3> HIDE DEF c
    <3> QED BY <2>2, <2>3, <2>4
  <2>6. Env!Binding(n) = EnvScopes[c][n]
    BY <1>2, <1>3, <2>1 DEF S
  <2> QED BY <1>5, <2>2, <2>5, <2>6, SameEnv
<1> QED BY <1>4, <1>5

(* Scopes with the same bindings, wherever they are in the stack.           *)
LEMMA LocAtLike ==
  ASSUME NEW sc, NEW new, NEW i, NEW k, new[i] = sc[k], NEW n
  PROVE  LocAt(new, i, n) = LocAt(sc, k, n)
BY DEF LocAt, SlotsAt

(* A new binding has a location of its own, and the value it is given.      *)
LEMMA DefineMaps ==
  ASSUME LinkInv, NEW n \in Name, NEW v \in Value, vm_scope_define(n, v), ~Holds(Top, n),
         OneHome(scopes')
  PROVE  \E l \in Loc \ Used(scopes, Held) :
           /\ EnvOf(scopes') = [EnvOf(scopes) EXCEPT ![Top][n] = l]
           /\ Used(scopes', Held) = Used(scopes, Held) \cup {l}
           /\ \A k \in Used(scopes, Held) \cup {l} :
                ValAt(scopes', content', k) = IF k = l THEN v ELSE ValAt(scopes, content, k)
<1> DEFINE t == Len(scopes)
<1>1. /\ ScopesInv /\ scopes \in Seq(ScopeRec) /\ scopes # <<>> /\ content \in Contents
      /\ Top = t /\ t \in Nat \ {0} /\ t \in 1 .. t
      /\ DistinctSlots(scopes) /\ OneHome(scopes) /\ Used(scopes, Held) \in SUBSET Loc
  BY LinkFacts
<1>2. InUse = Used(scopes, Held)
  BY SameEnv
<1>3. PICK l \in Loc \ InUse :
        IF Len(scopes[t].slots) < SlotMax
        THEN scopes' = SlotAdded(scopes, n, l, v) /\ content' = content
        ELSE scopes' = PayloadAdded(scopes, n, l) /\ content' = [content EXCEPT ![l] = v]
  BY DEF vm_scope_define, SlotAdded, PayloadAdded, Top
<1>4. l \in Loc \ Used(scopes, Held) /\ l # NoLoc
  BY <1>2, ScopesAssumption
<1>5. /\ \A i \in 1 .. t : \A j \in 1 .. Len(scopes[i].slots) : scopes[i].slots[j].loc # l
      /\ \A j \in 1 .. Len(scopes[t].slots) : scopes[t].slots[j].name # n
      /\ scopes[t].map[n] = NoLoc /\ LocAt(scopes, t, n) = NoLoc
  <2>1. n \notin Named(scopes, t)
    BY <1>1, NamedHolds
  <2>2. LocAt(scopes, t, n) = NoLoc
    BY <1>1, <2>1, LocAtFacts
  <2> QED BY <1>1, <1>4, <2>1, <2>2, UsedFacts DEF Named
<1>6. scopes' \in Seq(ScopeRec) /\ DistinctSlots(scopes')
  BY <1>1, DefineStep DEF StoreOk, DistinctLocs
<1> HIDE DEF t
<1>7. \A i \in 1 .. t : Len(scopes[i].slots) \in Nat /\ i \in 1 .. Len(scopes)
  BY <1>1, ScopeFacts DEF t
(* What the two ways of making room have in common.                         *)
<1>8. /\ Len(scopes') = t
      /\ \A i \in 1 .. t : i # t => scopes'[i].slots = scopes[i].slots
                                  /\ scopes'[i].map = scopes[i].map
      /\ \A x \in Name : x # n => scopes'[t].map[x] = scopes[t].map[x]
      /\ \A j \in 1 .. Len(scopes[t].slots) :
           j \in 1 .. Len(scopes'[t].slots) /\ scopes'[t].slots[j] = scopes[t].slots[j]
      /\ \A j \in 1 .. Len(scopes'[t].slots) :
           \/ j \in 1 .. Len(scopes[t].slots)
           \/ /\ scopes'[t].slots[j] = NewSlot(n, l, v) /\ content' = content
      /\ \/ /\ Len(scopes[t].slots) + 1 \in 1 .. Len(scopes'[t].slots)
            /\ scopes'[t].slots[Len(scopes[t].slots) + 1] = NewSlot(n, l, v)
            /\ content' = content
         \/ /\ \A j \in 1 .. Len(scopes'[t].slots) : j \in 1 .. Len(scopes[t].slots)
            /\ scopes'[t].map[n] = l /\ content' = [content EXCEPT ![l] = v]
  <2>1. CASE Len(scopes[t].slots) < SlotMax
    <3> DEFINE m == Len(scopes[t].slots) + 1
    <3>1. scopes' = SlotAdded(scopes, n, l, v) /\ content' = content
      BY <1>3, <2>1 DEF t
    <3>2. /\ Len(scopes') = t
          /\ \A i \in 1 .. t : i # t => scopes'[i] = scopes[i]
          /\ scopes'[t].map = scopes[t].map /\ Len(scopes'[t].slots) = m
          /\ \A j \in 1 .. m - 1 : scopes'[t].slots[j] = scopes[t].slots[j]
          /\ scopes'[t].slots[m] = NewSlot(n, l, v)
      BY <1>1, <1>4, <3>1, SlotAddedShape DEF t
    <3>3. m - 1 = Len(scopes[t].slots) /\ m \in Nat /\ m \in 1 .. m
      BY <1>1, <1>7
    <3> HIDE DEF m
    <3>4. \A j \in 1 .. m : j \in 1 .. m - 1 \/ j = m
      BY <3>3
    <3>5. \A j \in 1 .. m - 1 : j \in 1 .. m
      BY <3>3
    <3> QED BY <3>1, <3>2, <3>3, <3>4, <3>5 DEF m
  <2>2. CASE ~(Len(scopes[t].slots) < SlotMax)
    <3>1. scopes' = PayloadAdded(scopes, n, l) /\ content' = [content EXCEPT ![l] = v]
      BY <1>3, <2>2 DEF t
    <3>2. /\ Len(scopes') = t
          /\ \A i \in 1 .. t : /\ scopes'[i].slots = scopes[i].slots
                               /\ \A x \in Name : scopes'[i].map[x] =
                                    IF i = t /\ x = n THEN l ELSE scopes[i].map[x]
      BY <1>1, <1>4, <3>1, PayloadAddedShape DEF t
    <3>3. \A i \in 1 .. t : /\ scopes'[i].map \in [Name -> Loc \cup {NoLoc}]
                           /\ scopes[i].map \in [Name -> Loc \cup {NoLoc}]
      BY <1>1, <1>6, <3>2, ScopeFacts DEF t
    <3>4. \A i \in 1 .. t : i # t => scopes'[i].map = scopes[i].map
      BY <3>2, <3>3
    <3> QED BY <1>1, <3>1, <3>2, <3>4
  <2> QED BY <2>1, <2>2
<1>9. NewSlot(n, l, v).name = n /\ NewSlot(n, l, v).loc = l /\ NewSlot(n, l, v).val = v
      /\ NewSlot(n, l, v).boxed = FALSE
  BY DEF NewSlot
<1>10. ASSUME NEW i \in 1 .. t, NEW x \in Name
       PROVE  LocAt(scopes', i, x) = IF i = t /\ x = n THEN l ELSE LocAt(scopes, i, x)
  <2>0. i \in 1 .. Len(scopes') /\ i \in 1 .. Len(scopes)
    BY <1>7, <1>8
  <2>1. CASE i # t
    <3>1. scopes'[i].slots = scopes[i].slots /\ scopes'[i].map = scopes[i].map
      BY <1>8, <2>1
    <3>2. LocAt(scopes', i, x) = LocAt(scopes, i, x)
      BY <3>1 DEF LocAt, SlotsAt
    <3> QED BY <2>1, <3>2
  <2>2. CASE i = t /\ x # n
    <3>1. CASE \E j \in 1 .. Len(scopes[t].slots) : scopes[t].slots[j].name = x
      <4>1. PICK j \in 1 .. Len(scopes[t].slots) : scopes[t].slots[j].name = x
        BY <3>1
      <4>2. LocAt(scopes, t, x) = scopes[t].slots[j].loc
        BY <1>1, <2>0, <2>2, <4>1, LocAtFacts
      <4>3. j \in 1 .. Len(scopes'[t].slots) /\ scopes'[t].slots[j] = scopes[t].slots[j]
        BY <1>8
      <4>4. LocAt(scopes', t, x) = scopes'[t].slots[j].loc
        BY <1>6, <2>0, <2>2, <4>1, <4>3, LocAtFacts
      <4> QED BY <2>2, <4>2, <4>3, <4>4
    <3>2. CASE \A j \in 1 .. Len(scopes[t].slots) : scopes[t].slots[j].name # x
      <4>1. LocAt(scopes, t, x) = scopes[t].map[x]
        BY <1>1, <2>0, <2>2, <3>2, LocAtFacts
      <4>2. \A j \in 1 .. Len(scopes'[t].slots) : scopes'[t].slots[j].name # x
        BY <1>8, <1>9, <2>2, <3>2
      <4>3. LocAt(scopes', t, x) = scopes'[t].map[x]
        BY <1>6, <2>0, <2>2, <4>2, LocAtFacts
      <4> QED BY <1>8, <2>2, <4>1, <4>3
    <3> QED BY <3>1, <3>2
  <2>3. CASE i = t /\ x = n
    <3>1. CASE /\ Len(scopes[t].slots) + 1 \in 1 .. Len(scopes'[t].slots)
               /\ scopes'[t].slots[Len(scopes[t].slots) + 1] = NewSlot(n, l, v)
      BY <1>6, <1>9, <2>0, <2>3, <3>1, LocAtFacts
    <3>2. CASE /\ \A j \in 1 .. Len(scopes'[t].slots) : j \in 1 .. Len(scopes[t].slots)
               /\ scopes'[t].map[n] = l
      <4>1. scopes'[t].map[n] # NoLoc
        BY <1>4, <3>2
      <4> QED BY <1>6, <2>0, <2>3, <3>2, <4>1, LocAtFacts
    <3> QED BY <1>8, <3>1, <3>2
  <2> QED BY <2>1, <2>2, <2>3
<1>11. EnvOf(scopes') = [EnvOf(scopes) EXCEPT ![Top][n] = l]
  <2> DEFINE E == [EnvOf(scopes) EXCEPT ![t][n] = l]
  <2>1. EnvOf(scopes) = [i \in 1 .. t |-> [x \in Name |-> LocAt(scopes, i, x)]]
    BY DEF EnvOf, t
  <2>2. E = [i \in 1 .. t |-> [x \in Name |->
               IF i = t /\ x = n THEN l ELSE LocAt(scopes, i, x)]]
    <3> DEFINE e == [i \in 1 .. t |-> [x \in Name |-> LocAt(scopes, i, x)]]
               g == [e[t] EXCEPT ![n] = l]
    <3>1. e[t] = [x \in Name |-> LocAt(scopes, t, x)]
      BY <1>1
    <3>2. g = [x \in Name |-> IF x = n THEN l ELSE LocAt(scopes, t, x)]
      BY <3>1
    <3>3. E = [e EXCEPT ![t] = g]
      BY <2>1
    <3> HIDE DEF g, E
    <3>4. E = [i \in 1 .. t |-> IF i = t THEN g ELSE [x \in Name |-> LocAt(scopes, i, x)]]
      BY <3>3
    <3>5. \A i \in 1 .. t :
            (IF i = t THEN g ELSE [x \in Name |-> LocAt(scopes, i, x)])
              = [x \in Name |-> IF i = t /\ x = n THEN l ELSE LocAt(scopes, i, x)]
      BY <3>2
    <3> QED BY <3>4, <3>5
  <2> HIDE DEF E
  <2>3. EnvOf(scopes') = E
    BY <1>8, <1>10, <2>2 DEF EnvOf
  <2> QED BY <1>1, <2>3 DEF E
<1>12. Used(scopes', Held) = Used(scopes, Held) \cup {l}
  <2>1. \A i \in 1 .. t, x \in Name : LocAt(scopes', i, x) # NoLoc =>
          LocAt(scopes', i, x) = l \/ LocAt(scopes, i, x) = LocAt(scopes', i, x)
    BY <1>10
  <2>2. \A i \in 1 .. t, x \in Name : LocAt(scopes, i, x) # NoLoc =>
          LocAt(scopes, i, x) = LocAt(scopes', i, x)
    BY <1>5, <1>10
  <2>3. LocAt(scopes', t, n) = l
    BY <1>1, <1>10
  <2>4. Used(scopes', Held) = ({LocAt(scopes', i, x) : i \in 1 .. t, x \in Name} \ {NoLoc}) \cup Held
    BY <1>8 DEF Used
  <2>5. Used(scopes, Held) = ({LocAt(scopes, i, x) : i \in 1 .. t, x \in Name} \ {NoLoc}) \cup Held
    BY DEF Used, t
  <2> QED BY <1>1, <1>4, <2>1, <2>2, <2>3, <2>4, <2>5
<1>13. ASSUME NEW k \in Used(scopes, Held) \cup {l}
       PROVE  ValAt(scopes', content', k) = IF k = l THEN v ELSE ValAt(scopes, content, k)
  <2>0. k \in Loc /\ DOMAIN content = Loc
    BY <1>1, <1>4 DEF Contents
  <2>1. CASE k = l
    <3>1. CASE /\ Len(scopes[t].slots) + 1 \in 1 .. Len(scopes'[t].slots)
               /\ scopes'[t].slots[Len(scopes[t].slots) + 1] = NewSlot(n, l, v)
      BY <1>1, <1>6, <1>8, <1>9, <2>1, <3>1, ValAtFacts, SMTT(20)
    <3>2. CASE /\ \A j \in 1 .. Len(scopes'[t].slots) : j \in 1 .. Len(scopes[t].slots)
               /\ content' = [content EXCEPT ![l] = v]
      <4>1. \A i \in 1 .. t : \A j \in 1 .. Len(scopes'[i].slots) : scopes'[i].slots[j].loc # l
        BY <1>5, <1>8, <3>2
      <4>2. ValAt(scopes', content', l) = content'[l]
        <5>1. \A i \in 1 .. Len(scopes') : \A j \in 1 .. Len(scopes'[i].slots) :
                scopes'[i].slots[j].loc = l => scopes'[i].slots[j].boxed
          BY <1>8, <4>1
        <5> QED BY <1>6, <5>1, ValAtFacts
      <4> QED BY <2>0, <2>1, <3>2, <4>2
    <3> QED BY <1>8, <3>1, <3>2
  <2>2. CASE k # l
    <3>1. CASE \E i \in 1 .. t : \E j \in 1 .. Len(scopes[i].slots) :
                 scopes[i].slots[j].loc = k /\ ~scopes[i].slots[j].boxed
      <4>1. PICK i \in 1 .. t : \E j \in 1 .. Len(scopes[i].slots) :
                 scopes[i].slots[j].loc = k /\ ~scopes[i].slots[j].boxed
        BY <3>1
      <4>2. PICK j \in 1 .. Len(scopes[i].slots) :
                 scopes[i].slots[j].loc = k /\ ~scopes[i].slots[j].boxed
        BY <4>1
      <4>3. ValAt(scopes, content, k) = scopes[i].slots[j].val
        BY <1>1, <1>7, <4>2, ValAtFacts
      <4>4. j \in 1 .. Len(scopes'[i].slots) /\ scopes'[i].slots[j] = scopes[i].slots[j]
        BY <1>8
      <4>5. ValAt(scopes', content', k) = scopes'[i].slots[j].val
        BY <1>6, <1>8, <4>2, <4>4, ValAtFacts, SMTT(20)
      <4> QED BY <2>2, <4>3, <4>4, <4>5
    <3>2. CASE \A i \in 1 .. t : \A j \in 1 .. Len(scopes[i].slots) :
                 scopes[i].slots[j].loc = k => scopes[i].slots[j].boxed
      <4>1. ValAt(scopes, content, k) = content[k]
        BY <1>1, <3>2, ValAtFacts, SMTT(20) DEF t
      <4>2. \A i \in 1 .. t : \A j \in 1 .. Len(scopes'[i].slots) :
              scopes'[i].slots[j].loc = k => scopes'[i].slots[j].boxed
        BY <1>8, <1>9, <2>2, <3>2
      <4>3. ValAt(scopes', content', k) = content'[k]
        BY <1>6, <1>8, <4>2, ValAtFacts
      <4>4. content'[k] = content[k]
        BY <1>8, <2>0, <2>2
      <4> QED BY <2>2, <4>1, <4>3, <4>4
    <3> QED BY <3>1, <3>2
  <2> QED BY <2>1, <2>2
<1> QED BY <1>4, <1>11, <1>12, <1>13

Pushed(new, sc, r) ==
  /\ Len(new) = Len(sc) + 1
  /\ \A i \in 1 .. Len(sc) : new[i] = sc[i]
  /\ new[Len(sc) + 1] = r

OwnEnv(r) == [n \in Name |-> LocAt(<<r>>, 1, n)]
OwnLocs(r) == {LocAt(<<r>>, 1, n) : n \in Name} \ {NoLoc}

(* A scope on top adds its own bindings, and moves no value.                *)
LEMMA PushMaps ==
  ASSUME NEW sc \in Seq(ScopeRec), NEW r \in ScopeRec, NEW new \in Seq(ScopeRec), Pushed(new, sc, r),
         OneHome(sc), DistinctSlots(sc), OneHome(new), DistinctSlots(new)
  PROVE  /\ EnvOf(new) = Append(EnvOf(sc), OwnEnv(r))
         /\ \A held : Used(new, held) = Used(sc, held) \cup OwnLocs(r)
         /\ \A ct, k : (\A j \in 1 .. Len(r.slots) : r.slots[j].loc # k)
                          => ValAt(new, ct, k) = ValAt(sc, ct, k)
<1> DEFINE t == Len(sc)
           own == OwnEnv(r)
<1>1. /\ t \in Nat /\ new \in Seq(ScopeRec) /\ Len(new) = t + 1
      /\ \A i \in 1 .. t : new[i] = sc[i]
      /\ new[t + 1] = r
  BY ScopeFacts DEF Pushed
<1>2. ASSUME NEW i \in 1 .. t, NEW n \in Name PROVE LocAt(new, i, n) = LocAt(sc, i, n)
  <2>1. new[i] = sc[i]
    BY <1>1
  <2> QED BY <2>1 DEF LocAt, SlotsAt
<1>3. \A n \in Name : LocAt(new, t + 1, n) = LocAt(<<r>>, 1, n)
  <2>1. new[t + 1] = <<r>>[1]
    BY <1>1
  <2> QED BY <2>1 DEF LocAt, SlotsAt
<1> HIDE DEF t
<1>4. EnvOf(new) = Append(EnvOf(sc), own)
  <2>1. EnvOf(sc) = [i \in 1 .. t |-> [n \in Name |-> LocAt(sc, i, n)]]
    BY DEF EnvOf, t
  <2>2. EnvOf(new) = [i \in 1 .. t + 1 |-> [n \in Name |-> LocAt(new, i, n)]]
    BY <1>1 DEF EnvOf
  <2> DEFINE S == {EnvOf(sc)[i] : i \in 1 .. t} \cup {own}
             e == EnvOf(sc)
             g == EnvOf(new)
  <2> HIDE DEF own, OwnEnv
  <2>3. e \in [1 .. t -> S] /\ own \in S
    BY <2>1
  <2>4. \A i \in 1 .. t : g[i] = e[i]
    BY <1>1, <1>2, <2>1, <2>2
  <2>5. g[t + 1] = own
    <3>1. t + 1 \in 1 .. t + 1
      BY <1>1
    <3> QED BY <1>3, <2>2, <3>1 DEF own, OwnEnv
  <2>6. g \in [1 .. t + 1 -> S]
    <3>1. DOMAIN g = 1 .. t + 1 /\ g = [i \in 1 .. t + 1 |-> g[i]]
      BY <2>2
    <3>2. \A i \in 1 .. t + 1 : i \in 1 .. t \/ i = t + 1
      BY <1>1
    <3>3. \A i \in 1 .. t + 1 : g[i] \in S
      BY <2>3, <2>4, <2>5, <3>2
    <3> QED BY <3>1, <3>3
  <2> HIDE DEF S, e, g
  <2>7. e \in Seq(S) /\ Len(e) = t /\ g \in Seq(S) /\ Len(g) = t + 1
    BY <1>1, <2>3, <2>6, SeqOfFunction
  <2>8. /\ Append(e, own) \in Seq(S) /\ Len(Append(e, own)) = t + 1
        /\ \A i \in 1 .. t : Append(e, own)[i] = e[i]
        /\ Append(e, own)[t + 1] = own
    BY <2>3, <2>7, AppendFacts
  <2>9. \A i \in 1 .. t + 1 : g[i] = Append(e, own)[i]
    BY <1>1, <2>4, <2>5, <2>8
  <2>10. g = Append(e, own)
    BY <2>7, <2>8, <2>9, SameSequence
  <2> QED BY <2>10 DEF e, g
<1>5. ASSUME NEW held PROVE Used(new, held) = Used(sc, held) \cup OwnLocs(r)
  <2> DEFINE A == {LocAt(new, i, n) : i \in 1 .. t + 1, n \in Name}
             B == {LocAt(sc, i, n) : i \in 1 .. t, n \in Name}
             C == {LocAt(<<r>>, 1, n) : n \in Name}
  <2>1. A = B \cup C
    <3>1. 1 .. t + 1 = (1 .. t) \cup {t + 1}
      BY <1>1
    <3> QED BY <1>2, <1>3, <3>1
  <2>2. Used(new, held) = (A \ {NoLoc}) \cup held
    BY <1>1 DEF Used
  <2>3. Used(sc, held) = (B \ {NoLoc}) \cup held
    BY DEF Used, t
  <2>4. OwnLocs(r) = C \ {NoLoc}
    BY DEF OwnLocs
  <2> HIDE DEF A, B, C
  <2> QED BY <2>1, <2>2, <2>3, <2>4
<1>6. ASSUME NEW ct, NEW k, \A j \in 1 .. Len(r.slots) : r.slots[j].loc # k
      PROVE  ValAt(new, ct, k) = ValAt(sc, ct, k)
  <2>0. \A i \in 1 .. t : i \in 1 .. Len(new)
    BY <1>1
  <2>1. CASE \E i \in 1 .. t : \E j \in 1 .. Len(sc[i].slots) :
               sc[i].slots[j].loc = k /\ ~sc[i].slots[j].boxed
    <3>1. PICK i \in 1 .. t : \E j \in 1 .. Len(sc[i].slots) :
               sc[i].slots[j].loc = k /\ ~sc[i].slots[j].boxed
      BY <2>1
    <3>2. PICK j \in 1 .. Len(sc[i].slots) : sc[i].slots[j].loc = k /\ ~sc[i].slots[j].boxed
      BY <3>1
    <3>3. ValAt(sc, ct, k) = sc[i].slots[j].val
      BY <3>2, ValAtFacts DEF t
    <3>4. new[i] = sc[i] /\ i \in 1 .. Len(new)
      BY <1>1, <2>0
    <3>5. ValAt(new, ct, k) = new[i].slots[j].val
      BY <1>1, <3>2, <3>4, ValAtFacts
    <3> QED BY <3>3, <3>4, <3>5
  <2>2. CASE \A i \in 1 .. t : \A j \in 1 .. Len(sc[i].slots) :
               sc[i].slots[j].loc = k => sc[i].slots[j].boxed
    <3>1. ValAt(sc, ct, k) = ct[k]
      BY <2>2, ValAtFacts DEF t
    <3>2. \A i \in 1 .. Len(new) : i \in 1 .. t \/ i = t + 1
      BY <1>1
    <3>3. \A i \in 1 .. Len(new) : \A j \in 1 .. Len(new[i].slots) :
            new[i].slots[j].loc = k => new[i].slots[j].boxed
      BY <1>1, <1>6, <2>2, <3>2
    <3>4. ValAt(new, ct, k) = ct[k]
      BY <1>1, <3>3, ValAtFacts
    <3> QED BY <3>1, <3>4
  <2> QED BY <2>1, <2>2
<1> QED BY <1>4, <1>5, <1>6

(* An empty scope on top adds nothing.                                      *)
LEMMA EmptyMaps ==
  ASSUME LinkInv, scopes' \in Seq(ScopeRec), Pushed(scopes', scopes, EmptyScope),
         DistinctSlots(scopes'), OneHome(scopes')
  PROVE  /\ EnvOf(scopes') = Append(EnvOf(scopes), Unbound)
         /\ \A held : Used(scopes', held) = Used(scopes, held)
         /\ \A k : ValAt(scopes', content, k) = ValAt(scopes, content, k)
<1>1. /\ ScopesInv /\ scopes \in Seq(ScopeRec) /\ Held \in SUBSET Loc
      /\ DistinctLocs(scopes) /\ DistinctSlots(scopes) /\ Live(scopes, content, Held)
      /\ OneHome(scopes) /\ frames \in Seq(FrameRec)
  BY LinkFacts
<1>4. /\ EmptyScope \in ScopeRec /\ Len(EmptyScope.slots) = 0
      /\ \A n \in Name : LocAt(<<EmptyScope>>, 1, n) = NoLoc
  <2>1. \A n : SlotsAt(<<EmptyScope>>, 1, n) = {}
    BY EmptyScopeFacts DEF SlotsAt
  <2>2. \A n \in Name : <<EmptyScope>>[1].map[n] = NoLoc
    BY EmptyScopeFacts
  <2> QED BY <2>1, <2>2, EmptyScopeFacts DEF LocAt
<1>5. OwnEnv(EmptyScope) = Unbound
  BY <1>4 DEF Unbound, OwnEnv
<1>6. EnvOf(scopes') = Append(EnvOf(scopes), Unbound)
  BY <1>1, <1>4, <1>5, PushMaps
<1>7. ASSUME NEW held PROVE Used(scopes', held) = Used(scopes, held)
  <2>1. OwnLocs(EmptyScope) = {}
    BY <1>4 DEF OwnLocs
  <2>2. Used(scopes', held) = Used(scopes, held) \cup OwnLocs(EmptyScope)
    BY <1>1, <1>4, PushMaps
  <2> QED BY <2>1, <2>2
<1>8. \A k : ValAt(scopes', content, k) = ValAt(scopes, content, k)
  BY <1>1, <1>4, PushMaps
<1> QED BY <1>6, <1>7, <1>8

(* A call's base scope adds the parameter.                                  *)
LEMMA ParamMaps ==
  ASSUME LinkInv, NEW n \in Name, NEW v \in Value, NEW l \in Loc \ InUse,
         scopes' \in Seq(ScopeRec), Pushed(scopes', scopes, ParamScope(n, l, v)),
         DistinctSlots(scopes'), OneHome(scopes')
  PROVE  /\ l \notin Used(scopes, Held)
         /\ EnvOf(scopes') = Append(EnvOf(scopes), [Unbound EXCEPT ![n] = l])
         /\ \A held : Used(scopes', held) = Used(scopes, held) \cup {l}
         /\ \A k \in Used(scopes, Held) \cup {l} :
              ValAt(scopes', content, k) = IF k = l THEN v ELSE ValAt(scopes, content, k)
<1> DEFINE r == ParamScope(n, l, v)
           t == Len(scopes)
<1>1. /\ ScopesInv /\ scopes \in Seq(ScopeRec) /\ Held \in SUBSET Loc
      /\ DistinctLocs(scopes) /\ DistinctSlots(scopes) /\ Live(scopes, content, Held)
      /\ OneHome(scopes) /\ t \in Nat /\ l \in Loc /\ l # NoLoc
  BY LinkFacts, ScopesAssumption
<1>3. /\ r \in ScopeRec /\ Len(r.slots) = 1 /\ r.slots[1] = NewSlot(n, l, v)
      /\ \A x \in Name : r.map[x] = NoLoc
  BY <1>1, ParamScopeFacts
<1>4. /\ NewSlot(n, l, v).name = n /\ NewSlot(n, l, v).loc = l /\ NewSlot(n, l, v).val = v
      /\ NewSlot(n, l, v).boxed = FALSE
  BY DEF NewSlot
<1> HIDE DEF r
<1>5. /\ Len(scopes') = t + 1 /\ scopes'[t + 1] = r /\ t + 1 \in 1 .. Len(scopes')
      /\ 1 \in 1 .. Len(r.slots)
  BY <1>1, <1>3, ScopeFacts DEF r, Pushed
<1>6. l \notin Used(scopes, Held)
  BY SameEnv
<1>7. \A x \in Name : LocAt(<<r>>, 1, x) = IF x = n THEN l ELSE NoLoc
  <2>1. \A x \in Name : LocAt(<<r>>, 1, x) = LocAt(scopes', t + 1, x)
    <3>1. scopes'[t + 1] = <<r>>[1]
      BY <1>5
    <3> QED BY <3>1 DEF LocAt, SlotsAt
  <2>2. LocAt(scopes', t + 1, n) = l
    BY <1>3, <1>4, <1>5, LocAtFacts
  <2>3. ASSUME NEW x \in Name, x # n PROVE LocAt(scopes', t + 1, x) = NoLoc
    <3>1. \A j \in 1 .. Len(scopes'[t + 1].slots) : scopes'[t + 1].slots[j].name # x
      BY <1>3, <1>4, <1>5, <2>3
    <3> QED BY <1>3, <1>5, <3>1, LocAtFacts
  <2> QED BY <2>1, <2>2, <2>3
<1>8. OwnEnv(r) = [Unbound EXCEPT ![n] = l]
  BY <1>7 DEF Unbound, OwnEnv
<1>9. EnvOf(scopes') = Append(EnvOf(scopes), [Unbound EXCEPT ![n] = l])
  <2>1. Pushed(scopes', scopes, r)
    BY DEF r
  <2>2. EnvOf(scopes') = Append(EnvOf(scopes), OwnEnv(r))
    BY <1>1, <1>3, <2>1, PushMaps
  <2> QED BY <1>8, <2>2
<1>10. ASSUME NEW held PROVE Used(scopes', held) = Used(scopes, held) \cup {l}
  <2>1. OwnLocs(r) = {l}
    BY <1>1, <1>7 DEF OwnLocs
  <2>2. Used(scopes', held) = Used(scopes, held) \cup OwnLocs(r)
    BY <1>1, <1>3, PushMaps DEF r
  <2> QED BY <2>1, <2>2
<1>11. ASSUME NEW k \in Used(scopes, Held) \cup {l}
       PROVE  ValAt(scopes', content, k) = IF k = l THEN v ELSE ValAt(scopes, content, k)
  <2>1. CASE k = l
    BY <1>3, <1>4, <1>5, <2>1, ValAtFacts
  <2>2. CASE k # l
    <3>1. \A j \in 1 .. Len(r.slots) : r.slots[j].loc # k
      BY <1>3, <1>4, <2>2
    <3>2. ValAt(scopes', content, k) = ValAt(scopes, content, k)
      BY <1>1, <1>3, <3>1, PushMaps DEF r
    <3> QED BY <2>2, <3>2
  <2> QED BY <2>1, <2>2
<1> QED BY <1>6, <1>9, <1>10, <1>11

(* What is left when scopes go has the locations and the values it had.     *)
LEMMA PopMaps ==
  ASSUME LinkInv, NEW d \in 1 .. Top, PopTo(d), NEW less \in SUBSET Held
  PROVE  /\ EnvOf(scopes') = SubSeq(EnvOf(scopes), 1, d)
         /\ \A k \in Used(scopes', less) :
              k \in Used(scopes, Held) /\ ValAt(scopes', content', k) = ValAt(scopes, content, k)
<1>1. /\ ScopesInv /\ scopes \in Seq(ScopeRec) /\ content \in Contents /\ Top = Len(scopes)
      /\ DistinctLocs(scopes) /\ DistinctSlots(scopes) /\ Live(scopes, content, Held)
      /\ OneHome(scopes) /\ Top \in Nat /\ d \in Nat /\ d <= Top
  BY LinkFacts
<1>2. scopes' \in Seq(ScopeRec) /\ Len(scopes') = d /\ DistinctSlots(scopes')
      /\ \A i \in 1 .. d : scopes'[i] = scopes[i] /\ i \in 1 .. Len(scopes)
  BY <1>1, PopStep DEF StoreOk, DistinctLocs
<1>3. content' = Dropped(scopes, content, d)
  BY <1>1 DEF PopTo, Dropped, Gone, Top
<1>4. OneHome(scopes')
  BY <1>1, <1>2 DEF OneHome
<1>5. ASSUME NEW i \in 1 .. d, NEW n \in Name PROVE LocAt(scopes', i, n) = LocAt(scopes, i, n)
  <2>1. scopes'[i] = scopes[i]
    BY <1>2
  <2> QED BY <2>1 DEF LocAt, SlotsAt
<1>6. EnvOf(scopes') = SubSeq(EnvOf(scopes), 1, d)
  <2> DEFINE e == EnvOf(scopes)
             g == EnvOf(scopes')
  <2>1. e \in Seq(Scope2) /\ Len(e) = Top
    BY SameEnv
  <2>2. \A i \in 1 .. Top : e[i] = [n \in Name |-> LocAt(scopes, i, n)]
    BY <1>1 DEF EnvOf
  <2>3. g = [i \in 1 .. d |-> [n \in Name |-> LocAt(scopes', i, n)]]
    BY <1>2 DEF EnvOf
  <2>4. \A i \in 1 .. d : g[i] = e[i] /\ i \in 1 .. Top
    BY <1>1, <1>2, <1>5, <2>2, <2>3
  <2>5. DOMAIN g = 1 .. d /\ g = [i \in 1 .. d |-> g[i]]
    BY <2>3
  <2> HIDE DEF e, g
  <2>6. \A i \in 1 .. d : g[i] \in Scope2
    BY <2>1, <2>4, SeqFacts
  <2>7. g \in Seq(Scope2) /\ Len(g) = d
    <3>1. g \in [1 .. d -> Scope2]
      BY <2>5, <2>6
    <3> QED BY <1>1, <3>1, SeqOfFunction
  <2>8. /\ SubSeq(e, 1, d) \in Seq(Scope2) /\ Len(SubSeq(e, 1, d)) = d
        /\ \A i \in 1 .. d : SubSeq(e, 1, d)[i] = e[i]
    <3>1. d \in 0 .. Len(e)
      BY <1>1, <2>1
    <3> QED BY <2>1, <3>1, PrefixFacts
  <2>9. \A i \in 1 .. Len(g) : g[i] = SubSeq(e, 1, d)[i]
    BY <2>4, <2>7, <2>8
  <2>10. g = SubSeq(e, 1, d)
    BY <2>7, <2>8, <2>9, SameSequence
  <2> QED BY <2>10 DEF e, g
<1>7. ASSUME NEW k \in Loc, \A i \in 1 .. Len(scopes), n \in Name :
                              i > d /\ scopes[i].map[n] = k => scopes[i].captured
      PROVE  content'[k] = content[k]
  <2>1. k \notin {scopes[i].map[n] : i \in Gone(scopes, d), n \in Name}
    <3>1. \A i \in Gone(scopes, d) : i \in 1 .. Len(scopes) /\ i > d /\ ~scopes[i].captured
      BY <1>1 DEF Gone
    <3> QED BY <1>7, <3>1
  <2> QED BY <1>3, <2>1 DEF Dropped
<1>0. ASSUME NEW k, \A i \in 1 .. Len(scopes) : \A j \in 1 .. Len(scopes[i].slots) :
                      scopes[i].slots[j].loc = k => scopes[i].slots[j].boxed
      PROVE  ValAt(scopes, content, k) = content[k]
  BY <1>0, <1>1, ValAtFacts
<1>8. ASSUME NEW k \in Loc, content'[k] = content[k],
             \A i \in 1 .. Len(scopes) : \A j \in 1 .. Len(scopes[i].slots) :
               scopes[i].slots[j].loc = k => scopes[i].slots[j].boxed
      PROVE  ValAt(scopes', content', k) = ValAt(scopes, content, k)
  <2>1. ValAt(scopes, content, k) = content[k]
    BY <1>0, <1>8
  <2>2. \A i \in 1 .. Len(scopes') : \A j \in 1 .. Len(scopes'[i].slots) :
          scopes'[i].slots[j].loc = k => scopes'[i].slots[j].boxed
    BY <1>2, <1>8
  <2>3. ValAt(scopes', content', k) = content'[k]
    BY <1>2, <2>2, ValAtFacts
  <2> QED BY <1>8, <2>1, <2>3
<1>9. ASSUME NEW k \in Held
      PROVE  k \in Used(scopes, Held) /\ ValAt(scopes', content', k) = ValAt(scopes, content, k)
  <2>1. k \in Loc /\ k \in Used(scopes, Held) /\ Leads(BoxAddr(k), k, scopes)
    BY HeldLeads, LinkFacts
  <2>2. \A i \in 1 .. Len(scopes) : \A j \in 1 .. Len(scopes[i].slots) :
          scopes[i].slots[j].loc = k => scopes[i].slots[j].boxed
    <3>1. \A i, j : BoxAddr(k) # SlotAddr(i, j)
      BY DEF BoxAddr, SlotAddr
    <3> QED BY <2>1, <3>1 DEF Leads
  <2>3. content'[k] = content[k]
    <3>1. \A i \in 1 .. Len(scopes), n \in Name : scopes[i].map[n] = k => scopes[i].captured
      BY <1>1 DEF Live, HeldSafe
    <3> QED BY <1>7, <2>1, <3>1
  <2> QED BY <1>8, <2>1, <2>2, <2>3
<1>10. ASSUME NEW i \in 1 .. d, NEW j \in 1 .. Len(scopes[i].slots), NEW k, k = scopes[i].slots[j].loc
       PROVE  k \in Used(scopes, Held) /\ ValAt(scopes', content', k) = ValAt(scopes, content, k)
  <2>1. i \in 1 .. Len(scopes) /\ i \in 1 .. Len(scopes') /\ scopes'[i] = scopes[i] /\ k \in Loc
        /\ k # NoLoc
    BY <1>1, <1>2, <1>10, ScopeFacts
  <2>2. k \in Used(scopes, Held)
    BY <1>1, <1>10, <2>1, UsedFacts
  <2>3. CASE ~scopes[i].slots[j].boxed
    <3>1. ValAt(scopes, content, k) = scopes[i].slots[j].val
      BY <1>1, <1>10, <2>1, <2>3, ValAtFacts
    <3>2. ValAt(scopes', content', k) = scopes'[i].slots[j].val
      BY <1>2, <1>10, <2>1, <2>3, ValAtFacts
    <3> QED BY <2>1, <2>2, <3>1, <3>2
  <2>4. CASE scopes[i].slots[j].boxed
    <3>1. \A h \in 1 .. Len(scopes) : \A m \in 1 .. Len(scopes[h].slots) :
            scopes[h].slots[m].loc = k => scopes[h].slots[m].boxed
      BY <1>1, <1>10, <2>1, <2>4 DEF DistinctSlots
    <3>2. \A h \in 1 .. Len(scopes), n \in Name : scopes[h].map[n] # k
      BY <1>1, <1>10, <2>1 DEF DistinctLocs, SlotsOffMaps
    <3>3. content'[k] = content[k]
      BY <1>7, <2>1, <3>2
    <3> QED BY <1>8, <2>1, <2>2, <3>1, <3>3
  <2> QED BY <2>3, <2>4
<1>11. ASSUME NEW i \in 1 .. d, NEW n \in Name, NEW k, k = scopes[i].map[n], k # NoLoc
       PROVE  k \in Used(scopes, Held) /\ ValAt(scopes', content', k) = ValAt(scopes, content, k)
  <2>1. i \in 1 .. Len(scopes) /\ k \in Loc /\ i <= d
    BY <1>1, <1>2, <1>11, ScopeFacts
  <2>2. k \in Used(scopes, Held)
    BY <1>1, <1>11, <2>1, UsedFacts
  <2>3. \A h \in 1 .. Len(scopes) : \A m \in 1 .. Len(scopes[h].slots) :
          scopes[h].slots[m].loc = k => scopes[h].slots[m].boxed
    BY <1>1, <1>11, <2>1 DEF DistinctLocs, SlotsOffMaps
  <2>4. \A h \in 1 .. Len(scopes), x \in Name : scopes[h].map[x] = k => h = i
    BY <1>1, <1>11, <2>1 DEF DistinctLocs, DistinctPayloads
  <2>5. content'[k] = content[k]
    BY <1>1, <1>7, <2>1, <2>4
  <2> QED BY <1>8, <2>1, <2>2, <2>3, <2>5
<1>12. ASSUME NEW k \in Used(scopes', less)
       PROVE  k \in Used(scopes, Held) /\ ValAt(scopes', content', k) = ValAt(scopes, content, k)
  <2>1. \/ k \in less
        \/ \E i \in 1 .. Len(scopes') : \E j \in 1 .. Len(scopes'[i].slots) : k = scopes'[i].slots[j].loc
        \/ \E i \in 1 .. Len(scopes'), n \in Name : k = scopes'[i].map[n] /\ k # NoLoc
    BY <1>2, <1>4, UsedFacts
  <2>2. \/ k \in Held
        \/ \E i \in 1 .. d : \E j \in 1 .. Len(scopes[i].slots) : k = scopes[i].slots[j].loc
        \/ \E i \in 1 .. d, n \in Name : k = scopes[i].map[n] /\ k # NoLoc
    BY <1>2, <2>1
  <2> QED BY <1>9, <1>10, <1>11, <2>2
<1> QED BY <1>6, <1>12

(* A capture moves values into boxes, and changes no binding and no value.  *)
LEMMA BoxMaps ==
  ASSUME LinkInv, NEW ns \in SUBSET Name, \A n \in ns : vm_scope_get(n) # NullAddr,
         vm_box_slot(ns)
  PROVE  /\ EnvOf(scopes') = EnvOf(scopes)
         /\ \A held : Used(scopes', held) = Used(scopes, held)
         /\ \A k \in Loc : ValAt(scopes', content', k) = ValAt(scopes, content, k)
<1> DEFINE fresh == {p \in BoxedSlots(ns) : ~scopes[p[1]].slots[p[2]].boxed}
           spilled == {HolderOf(n) : n \in {m \in ns : SlotsNamed(HolderOf(m), m) = {}}}
<1>1. /\ ScopesInv /\ scopes \in Seq(ScopeRec) /\ OneHome(scopes) /\ Top = Len(scopes)
      /\ DistinctSlots(scopes) /\ content \in Contents
  BY LinkFacts
<1>2. scopes' = Boxed(scopes, fresh, spilled) /\ content' = BoxFilled(scopes, content, fresh)
  BY DEF vm_box_slot, Boxed, BoxFilled, Top
<1>3. ASSUME NEW p \in fresh
      PROVE  /\ p \in BoxedSlots(ns) /\ p = <<p[1], p[2]>> /\ p[1] \in 1 .. Len(scopes)
             /\ p[2] \in 1 .. Len(scopes[p[1]].slots) /\ ~scopes[p[1]].slots[p[2]].boxed
  <2>1. PICK n \in ns : SlotsNamed(HolderOf(n), n) # {} /\ p = <<HolderOf(n), Slot(HolderOf(n), n)>>
    BY DEF BoxedSlots
  <2>2. HolderOf(n) \in 1 .. Top
    BY <1>1, LookupValid, HolderFacts
  <2>3. Slot(HolderOf(n), n) \in 1 .. Len(scopes[HolderOf(n)].slots)
    BY <1>1, <2>1, <2>2, SlotsNamedFacts
  <2> QED BY <1>1, <2>1, <2>2, <2>3
<1> HIDE DEF fresh, spilled
<1>4. /\ scopes' \in Seq(ScopeRec) /\ Len(scopes') = Len(scopes)
      /\ \A i \in 1 .. Len(scopes) :
           /\ Len(scopes'[i].slots) = Len(scopes[i].slots)
           /\ \A j \in 1 .. Len(scopes[i].slots) :
                /\ scopes'[i].slots[j].loc = scopes[i].slots[j].loc
                /\ scopes'[i].slots[j].val = scopes[i].slots[j].val
                /\ scopes'[i].slots[j].boxed <=> (scopes[i].slots[j].boxed \/ <<i, j>> \in fresh)
  BY <1>1, <1>2, BoxedShape
<1>5. SamePlaces(scopes', scopes) /\ OneHome(scopes')
  BY BoxLinks DEF LinkOk
<1>6. EnvOf(scopes') = EnvOf(scopes) /\ \A held : Used(scopes', held) = Used(scopes, held)
  BY <1>1, <1>4, <1>5, EnvSame
<1>7. DistinctSlots(scopes')
  <2> SUFFICES ASSUME NEW i \in 1 .. Len(scopes'), NEW h \in 1 .. Len(scopes'),
                      NEW j \in 1 .. Len(scopes'[i].slots), NEW m \in 1 .. Len(scopes'[h].slots),
                      scopes'[i].slots[j].loc = scopes'[h].slots[m].loc
               PROVE  i = h /\ j = m
    BY DEF DistinctSlots
  <2>1. /\ i \in 1 .. Len(scopes) /\ h \in 1 .. Len(scopes)
        /\ j \in 1 .. Len(scopes[i].slots) /\ m \in 1 .. Len(scopes[h].slots)
        /\ scopes[i].slots[j].loc = scopes[h].slots[m].loc
    BY <1>4
  <2> QED BY <1>1, <2>1 DEF DistinctSlots
<1>8. ASSUME NEW k \in Loc PROVE ValAt(scopes', content', k) = ValAt(scopes, content, k)
  <2>1. CASE \E p \in fresh : scopes[p[1]].slots[p[2]].loc = k
    <3> DEFINE q == CHOOSE p \in fresh : scopes[p[1]].slots[p[2]].loc = k
    <3>1. q \in fresh /\ scopes[q[1]].slots[q[2]].loc = k
      BY <2>1
    <3>2. content'[k] = scopes[q[1]].slots[q[2]].val
      BY <1>2, <2>1 DEF BoxFilled
    <3> HIDE DEF q
    <3>3. /\ q = <<q[1], q[2]>> /\ q[1] \in 1 .. Len(scopes)
          /\ q[2] \in 1 .. Len(scopes[q[1]].slots) /\ ~scopes[q[1]].slots[q[2]].boxed
      BY <1>3, <3>1
    <3>4. ValAt(scopes, content, k) = scopes[q[1]].slots[q[2]].val
      BY <1>1, <3>1, <3>3, ValAtFacts
    <3>5. scopes'[q[1]].slots[q[2]].boxed
      BY <1>4, <3>1, <3>3
    <3>6. ASSUME NEW i \in 1 .. Len(scopes'), NEW j \in 1 .. Len(scopes'[i].slots),
                 scopes'[i].slots[j].loc = k
          PROVE  scopes'[i].slots[j].boxed
      <4>1. i \in 1 .. Len(scopes) /\ j \in 1 .. Len(scopes[i].slots) /\ scopes[i].slots[j].loc = k
        BY <1>4, <3>6
      <4>2. i = q[1] /\ j = q[2]
        BY <1>1, <3>1, <3>3, <4>1 DEF DistinctSlots
      <4> QED BY <3>5, <4>2
    <3>7. ValAt(scopes', content', k) = content'[k]
      BY <1>4, <1>7, <3>6, ValAtFacts
    <3> QED BY <3>2, <3>4, <3>7
  <2>2. CASE \A p \in fresh : scopes[p[1]].slots[p[2]].loc # k
    <3>1. content'[k] = content[k]
      BY <1>2, <2>2 DEF BoxFilled
    <3>2. \A i \in 1 .. Len(scopes) : \A j \in 1 .. Len(scopes[i].slots) :
            scopes[i].slots[j].loc = k => (scopes'[i].slots[j].boxed <=> scopes[i].slots[j].boxed)
      <4>1. ASSUME NEW i \in 1 .. Len(scopes), NEW j \in 1 .. Len(scopes[i].slots),
                   scopes[i].slots[j].loc = k
            PROVE  <<i, j>> \notin fresh
        BY <2>2, <4>1
      <4> QED BY <1>4, <4>1
    <3>3. CASE \E i \in 1 .. Len(scopes) : \E j \in 1 .. Len(scopes[i].slots) :
                 scopes[i].slots[j].loc = k /\ ~scopes[i].slots[j].boxed
      <4>1. PICK i \in 1 .. Len(scopes) : \E j \in 1 .. Len(scopes[i].slots) :
                 scopes[i].slots[j].loc = k /\ ~scopes[i].slots[j].boxed
        BY <3>3
      <4>2. PICK j \in 1 .. Len(scopes[i].slots) :
                 scopes[i].slots[j].loc = k /\ ~scopes[i].slots[j].boxed
        BY <4>1
      <4>3. ValAt(scopes, content, k) = scopes[i].slots[j].val
        BY <1>1, <4>2, ValAtFacts
      <4>4. /\ i \in 1 .. Len(scopes') /\ j \in 1 .. Len(scopes'[i].slots)
            /\ scopes'[i].slots[j].loc = k /\ ~scopes'[i].slots[j].boxed
            /\ scopes'[i].slots[j].val = scopes[i].slots[j].val
        BY <1>4, <3>2, <4>2
      <4>5. ValAt(scopes', content', k) = scopes'[i].slots[j].val
        BY <1>4, <1>7, <4>4, ValAtFacts
      <4> QED BY <4>3, <4>4, <4>5
    <3>4. CASE \A i \in 1 .. Len(scopes) : \A j \in 1 .. Len(scopes[i].slots) :
                 scopes[i].slots[j].loc = k => scopes[i].slots[j].boxed
      <4>1. ValAt(scopes, content, k) = content[k]
        BY <1>1, <3>4, ValAtFacts
      <4>2. \A i \in 1 .. Len(scopes') : \A j \in 1 .. Len(scopes'[i].slots) :
              scopes'[i].slots[j].loc = k => scopes'[i].slots[j].boxed
        BY <1>4, <3>2, <3>4
      <4>3. ValAt(scopes', content', k) = content'[k]
        BY <1>4, <1>7, <4>2, ValAtFacts
      <4> QED BY <3>1, <4>1, <4>3
    <3> QED BY <3>3, <3>4
  <2> QED BY <2>1, <2>2
<1> QED BY <1>6, <1>8

(* What a closure captures is the binding that is in force.                 *)
LEMMA BoxLocIs ==
  ASSUME LinkInv, NEW n \in Name, vm_scope_get(n) # NullAddr
  PROVE  BoxLoc(n) = LocAt(scopes, HolderOf(n), n)
<1>1. ScopesInv /\ scopes \in Seq(ScopeRec) /\ OneHome(scopes) /\ Top = Len(scopes)
  BY LinkFacts
<1>2. HolderOf(n) \in 1 .. Top
  BY FoundLeads
<1>3. CASE SlotsNamed(HolderOf(n), n) = {}
  <2>1. \A j \in 1 .. Len(scopes[HolderOf(n)].slots) : scopes[HolderOf(n)].slots[j].name # n
    BY <1>1, <1>2, <1>3, NamedHolds
  <2> QED BY <1>1, <1>2, <1>3, <2>1, LocAtFacts DEF BoxLoc
<1>4. CASE SlotsNamed(HolderOf(n), n) # {}
  <2>1. /\ Slot(HolderOf(n), n) \in 1 .. Len(scopes[HolderOf(n)].slots)
        /\ scopes[HolderOf(n)].slots[Slot(HolderOf(n), n)].name = n
    BY <1>1, <1>2, <1>4, SlotsNamedFacts
  <2>2. BoxLoc(n) = scopes[HolderOf(n)].slots[Slot(HolderOf(n), n)].loc
    BY <1>4 DEF BoxLoc
  <2> QED BY <1>1, <1>2, <2>1, <2>2, LocAtFacts
<1> QED BY <1>3, <1>4

(* The state before a step and after it, as Environment sees them.          *)
LEMMA BothEnds ==
  ASSUME LinkInv, LinkInv'
  PROVE  /\ EnvScopes = EnvOf(scopes) /\ EnvScopes' = EnvOf(scopes')
         /\ EnvFrames = Outline(frames) /\ EnvFrames' = Outline(frames')
         /\ EnvStore = StoreFor(scopes, content, Held)
         /\ EnvStore' = StoreFor(scopes', content', HeldBy(frames', closures'))
         /\ Env!InUse(EnvScopes, EnvFrames, closures) = Used(scopes, Held)
         /\ Env!InUse(EnvScopes', EnvFrames', closures') = Used(scopes', HeldBy(frames', closures'))
         /\ scopes' \in Seq(ScopeRec) /\ OneHome(scopes') /\ DistinctSlots(scopes')
         /\ frames' \in Seq(FrameRec)
<1>1. scopes' \in Seq(ScopeRec) /\ DistinctSlots(scopes') /\ frames' \in Seq(FrameRec)
  BY DEF LinkInv, ScopesInv, StateOk, StoreOk, FramesOk, DistinctLocs
<1>2. OneHome(scopes')
  BY DEF LinkInv, LinkOk
<1>3. /\ EnvScopes' = EnvOf(scopes') /\ EnvFrames' = Outline(frames')
      /\ EnvStore' = StoreFor(scopes', content', HeldBy(frames', closures'))
      /\ Env!InUse(EnvScopes', EnvFrames', closures') = Used(scopes', HeldBy(frames', closures'))
  BY <1>1, <1>2, MappingNext
<1>4. EnvFrames = Outline(frames)
  BY DEF EnvFrames, Outline
<1> QED BY <1>1, <1>2, <1>3, <1>4, SameEnv

(* What StoreFor holds.                                                     *)
LEMMA StoreFacts ==
  ASSUME NEW sc, NEW ct, NEW held
  PROVE  /\ DOMAIN StoreFor(sc, ct, held) = Used(sc, held)
         /\ \A l \in Used(sc, held) : StoreFor(sc, ct, held)[l] = ValAt(sc, ct, l)
BY DEF StoreFor

(* A step that leaves the variables alone leaves Environment's alone.       *)
LEMMA SameWorld ==
  ASSUME LinkInv, LinkInv', UNCHANGED <<scopes, content, frames, closures>>
  PROVE  UNCHANGED <<EnvScopes, EnvStore, EnvFrames>>
BY BothEnds DEF Held

(* Reading through any address that leads to the binding in force.          *)
LEMMA ReadMaps ==
  ASSUME LinkInv, LinkInv', NEW n \in Name, UNCHANGED <<scopes, content, frames, closures>>,
         acc' = IF vm_scope_get(n) = NullAddr THEN Null ELSE Deref(vm_scope_get(n))
  PROVE  Env!Read(n)
<1>1. UNCHANGED <<EnvScopes, EnvStore, EnvFrames, closures>>
  BY SameWorld
<1>2. acc' = IF Env!Binding(n) = NoLoc THEN Null ELSE EnvStore[Env!Binding(n)]
  <2>1. CASE vm_scope_get(n) = NullAddr
    BY <2>1, SameBinding
  <2>2. CASE vm_scope_get(n) # NullAddr
    <3> DEFINE l == LocAt(scopes, HolderOf(n), n)
    <3>1. /\ Leads(vm_scope_get(n), l, scopes) /\ l \in Used(scopes, Held) /\ l # NoLoc
      BY <2>2, FoundLeads
    <3>2. Env!Binding(n) = l
      BY <2>2, SameBinding
    <3> HIDE DEF l
    <3>3. Deref(vm_scope_get(n)) = ValAt(scopes, content, l)
      BY <3>1, LeadsReads
    <3>4. EnvStore[l] = ValAt(scopes, content, l)
      BY <3>1, SameEnv, StoreFacts
    <3> QED BY <2>2, <3>1, <3>2, <3>3, <3>4
  <2> QED BY <2>1, <2>2
<1> QED BY <1>1, <1>2 DEF Env!Read

(* Writing through an address that leads to a location updates it.          *)
LEMMA WriteMaps ==
  ASSUME LinkInv, LinkInv', NEW l \in Used(scopes, Held), NEW a, NEW v \in Value,
         Leads(a, l, scopes), Write(a, v), UNCHANGED <<frames, closures, acc>>
  PROVE  Env!Update(l, v)
<1>1. HeldBy(frames', closures') = Held
  BY DEF Held
<1>2. /\ EnvOf(scopes') = EnvOf(scopes)
      /\ StoreFor(scopes', content', Held) = [StoreFor(scopes, content, Held) EXCEPT ![l] = v]
  BY LeadsWrites
<1>3. EnvScopes' = EnvScopes /\ EnvFrames' = EnvFrames
  BY <1>2, BothEnds
<1>4. EnvStore' = [EnvStore EXCEPT ![l] = v]
  BY <1>1, <1>2, BothEnds
<1>5. l \in DOMAIN EnvStore
  BY SameEnv, StoreFacts
<1> QED BY <1>3, <1>4, <1>5 DEF Env!Update

(* A binding where the innermost scope has none.                            *)
LEMMA BindMaps ==
  ASSUME LinkInv, LinkInv', NEW n \in Name, NEW v \in Value, vm_scope_define(n, v),
         ~Holds(Top, n), UNCHANGED <<frames, closures, acc>>
  PROVE  Env!Bind(n, v)
<1>1. HeldBy(frames', closures') = Held
  BY DEF Held
<1>2. OneHome(scopes') /\ Top \in 1 .. Top
  BY BothEnds, LinkFacts
<1>3. PICK l \in Loc \ Used(scopes, Held) :
        /\ EnvOf(scopes') = [EnvOf(scopes) EXCEPT ![Top][n] = l]
        /\ Used(scopes', Held) = Used(scopes, Held) \cup {l}
        /\ \A k \in Used(scopes, Held) \cup {l} :
             ValAt(scopes', content', k) = IF k = l THEN v ELSE ValAt(scopes, content, k)
  BY <1>2, DefineMaps
<1>4. EnvScopes[Len(EnvScopes)][n] = NoLoc
  BY <1>2, SameEnv
<1>5. EnvScopes' = [EnvScopes EXCEPT ![Len(EnvScopes)][n] = l]
  BY <1>3, BothEnds, SameEnv
<1>6. l \in Loc \ Env!InUse(EnvScopes, EnvFrames, closures) /\ EnvFrames' = EnvFrames
  BY <1>3, BothEnds
<1> DEFINE new == [k \in Loc |-> IF k = l THEN v ELSE IF k \in DOMAIN EnvStore THEN EnvStore[k] ELSE v]
<1>7. EnvStore' = [k \in Env!InUse(EnvScopes', EnvFrames', closures') |-> new[k]]
  <2>1. Used(scopes, Held) \in SUBSET Loc
    BY LinkFacts
  <2>2. \A k \in Used(scopes, Held) \cup {l} : new[k] = ValAt(scopes', content', k)
    BY <1>3, <2>1, SameEnv, StoreFacts
  <2>3. EnvStore' = StoreFor(scopes', content', Held)
    BY <1>1, BothEnds
  <2>4. Env!InUse(EnvScopes', EnvFrames', closures') = Used(scopes, Held) \cup {l}
    BY <1>1, <1>3, BothEnds
  <2> HIDE DEF new
  <2> QED BY <1>3, <2>2, <2>3, <2>4 DEF StoreFor
<1>8. Env!Keep(new)
  BY <1>7 DEF Env!Keep
<1> QED BY <1>4, <1>5, <1>6, <1>8 DEF Env!Bind

(* An assignment to a name, at the address its lookup gives.                *)
LEMMA AssignMaps ==
  ASSUME LinkInv, LinkInv', NEW n \in Name, NEW v \in Value, UNCHANGED <<frames, closures, acc>>,
         IF vm_scope_get(n) # NullAddr THEN Write(vm_scope_get(n), v) ELSE vm_scope_define(n, v)
  PROVE  Env!Assign(n, v)
<1>1. CASE vm_scope_get(n) # NullAddr
  <2> DEFINE l == LocAt(scopes, HolderOf(n), n)
  <2>1. Leads(vm_scope_get(n), l, scopes) /\ l \in Used(scopes, Held) /\ l # NoLoc
    BY <1>1, FoundLeads
  <2>2. Env!Binding(n) = l
    BY <1>1, SameBinding
  <2> HIDE DEF l
  <2>3. Env!Update(l, v)
    BY <1>1, <2>1, WriteMaps
  <2> QED BY <2>1, <2>2, <2>3 DEF Env!Assign
<1>2. CASE vm_scope_get(n) = NullAddr
  <2>1. Env!Binding(n) = NoLoc
    BY <1>2, SameBinding
  <2>2. ~Holds(Top, n)
    <3>1. {i \in Visible : Holds(i, n)} = {}
      BY <1>2, NothingVisible
    <3>2. Top \in Visible
      BY LinkFacts, InvFacts DEF Visible
    <3> QED BY <3>1, <3>2
  <2>3. Env!Bind(n, v)
    BY <1>2, <2>2, BindMaps
  <2> QED BY <2>1, <2>3 DEF Env!Assign
<1> QED BY <1>1, <1>2

(* A loop variable, in the innermost scope.                                 *)
LEMMA LoopVarMaps ==
  ASSUME LinkInv, LinkInv', NEW n \in Name, NEW v \in Value, UNCHANGED <<frames, closures, acc>>,
         vm_scope_define(n, v)
  PROVE  Env!Define(n, v)
<1>1. /\ Top \in 1 .. Top /\ Len(EnvScopes) = Top
      /\ EnvScopes[Top][n] = LocAt(scopes, Top, n)
      /\ EnvScopes[Top][n] # NoLoc <=> Holds(Top, n)
  BY LinkFacts, SameEnv
<1>2. CASE Holds(Top, n)
  <2> DEFINE l == LocAt(scopes, Top, n)
  <2>1. Leads(AddrIn(Top, n), l, scopes) /\ l \in Used(scopes, Held) /\ Write(AddrIn(Top, n), v)
    BY <1>1, <1>2, AddrInLeads DEF vm_scope_define
  <2> HIDE DEF l
  <2>2. Env!Update(l, v)
    BY <2>1, WriteMaps
  <2> QED BY <1>1, <1>2, <2>2 DEF Env!Define, l
<1>3. CASE ~Holds(Top, n)
  <2>1. Env!Bind(n, v)
    BY <1>3, BindMaps
  <2> QED BY <1>1, <1>3, <2>1 DEF Env!Define
<1> QED BY <1>2, <1>3

(* Environment keeps the values of the locations that are still in use.     *)
LEMMA KeepMaps ==
  ASSUME LinkInv, LinkInv',
         \A k \in Used(scopes', HeldBy(frames', closures')) :
           k \in Used(scopes, Held) /\ ValAt(scopes', content', k) = ValAt(scopes, content, k)
  PROVE  Env!Keep(EnvStore)
<1> DEFINE used == Used(scopes', HeldBy(frames', closures'))
<1>1. \A k \in used : EnvStore[k] = ValAt(scopes', content', k)
  BY SameEnv, StoreFacts
<1>2. EnvStore' = [k \in used |-> ValAt(scopes', content', k)]
  BY BothEnds DEF StoreFor
<1>3. Env!InUse(EnvScopes', EnvFrames', closures') = used
  BY BothEnds
<1> HIDE DEF used
<1>4. EnvStore' = [k \in Env!InUse(EnvScopes', EnvFrames', closures') |-> EnvStore[k]]
  BY <1>1, <1>2, <1>3
<1> QED BY <1>4 DEF Env!Keep

(* Scopes go: with the block, the call or the program that they belong to.  *)
LEMMA TruncateMaps ==
  ASSUME LinkInv, LinkInv', NEW d \in 1 .. Top, PopTo(d), UNCHANGED <<closures, acc>>,
         HeldBy(frames', closures') \in SUBSET Held
  PROVE  Env!Truncate(d)
<1> DEFINE less == HeldBy(frames', closures')
<1>1. /\ EnvOf(scopes') = SubSeq(EnvOf(scopes), 1, d)
      /\ \A k \in Used(scopes', less) :
           k \in Used(scopes, Held) /\ ValAt(scopes', content', k) = ValAt(scopes, content, k)
  BY PopMaps
<1>2. EnvScopes' = SubSeq(EnvScopes, 1, d)
  BY <1>1, BothEnds
<1>3. Env!Keep(EnvStore)
  BY <1>1, KeepMaps
<1> QED BY <1>2, <1>3 DEF Env!Truncate

(* The frames of a prefix of the call stack.                                *)
LEMMA OutlineFacts ==
  ASSUME NEW fr \in Seq(FrameRec)
  PROVE  /\ Outline(fr) \in Seq(Frame2) /\ Len(Outline(fr)) = Len(fr)
         /\ \A k \in 0 .. Len(fr) : Outline(SubSeq(fr, 1, k)) = SubSeq(Outline(fr), 1, k)
         /\ \A f \in FrameRec :
              Outline(Append(fr, f)) = Append(Outline(fr), [floor |-> f.floor, ups |-> f.ups])
<1>1. ASSUME NEW s \in Seq(FrameRec)
      PROVE  /\ Outline(s) \in Seq(Frame2) /\ Len(Outline(s)) = Len(s) /\ Len(s) \in Nat
             /\ \A i \in 1 .. Len(s) : Outline(s)[i] = [floor |-> s[i].floor, ups |-> s[i].ups]
  <2>1. Len(s) \in Nat /\ DOMAIN s = 1 .. Len(s) /\ \A i \in 1 .. Len(s) : s[i] \in FrameRec
    BY SeqFacts
  <2>2. \A f \in FrameRec : [floor |-> f.floor, ups |-> f.ups] \in Frame2
    BY DEF FrameRec, Frame2
  <2>3. Outline(s) = [i \in 1 .. Len(s) |-> [floor |-> s[i].floor, ups |-> s[i].ups]]
    BY <2>1 DEF Outline
  <2>4. \A i \in 1 .. Len(s) : Outline(s)[i] = [floor |-> s[i].floor, ups |-> s[i].ups]
    BY <2>3
  <2>5. Outline(s) \in [1 .. Len(s) -> Frame2]
    BY <2>1, <2>2, <2>3
  <2>6. Outline(s) \in Seq(Frame2) /\ Len(Outline(s)) = Len(s)
    BY <2>1, <2>5, SeqOfFunction
  <2> QED BY <2>1, <2>4, <2>6
<1>2. ASSUME NEW k \in 0 .. Len(fr)
      PROVE  Outline(SubSeq(fr, 1, k)) = SubSeq(Outline(fr), 1, k)
  <2> DEFINE p == SubSeq(fr, 1, k)
  <2>1. p \in Seq(FrameRec) /\ Len(p) = k /\ \A i \in 1 .. k : p[i] = fr[i]
    BY PrefixFacts
  <2> HIDE DEF p
  <2>2. /\ Outline(p) \in Seq(Frame2) /\ Len(Outline(p)) = k
        /\ \A i \in 1 .. k : Outline(p)[i] = [floor |-> p[i].floor, ups |-> p[i].ups]
    BY <1>1, <2>1
  <2>3. /\ SubSeq(Outline(fr), 1, k) \in Seq(Frame2) /\ Len(SubSeq(Outline(fr), 1, k)) = k
        /\ \A i \in 1 .. k : SubSeq(Outline(fr), 1, k)[i] = Outline(fr)[i]
    BY <1>1, PrefixFacts
  <2>4. \A i \in 1 .. k : i \in 1 .. Len(fr)
    BY <1>1
  <2>5. \A i \in 1 .. Len(Outline(p)) : Outline(p)[i] = SubSeq(Outline(fr), 1, k)[i]
    BY <1>1, <2>1, <2>2, <2>3, <2>4
  <2>6. Outline(p) = SubSeq(Outline(fr), 1, k)
    BY <2>2, <2>3, <2>5, SameSequence
  <2> QED BY <2>6 DEF p
<1>3. ASSUME NEW f \in FrameRec
      PROVE  Outline(Append(fr, f)) = Append(Outline(fr), [floor |-> f.floor, ups |-> f.ups])
  <2> DEFINE p == Append(fr, f)
             g == [floor |-> f.floor, ups |-> f.ups]
             t == Len(fr)
  <2>1. p \in Seq(FrameRec) /\ Len(p) = t + 1 /\ p[t + 1] = f /\ \A i \in 1 .. t : p[i] = fr[i]
    BY AppendFacts
  <2>2. g \in Frame2
    BY DEF FrameRec, Frame2
  <2>3. /\ Outline(fr) \in Seq(Frame2) /\ Len(Outline(fr)) = t /\ t \in Nat
        /\ \A i \in 1 .. t : Outline(fr)[i] = [floor |-> fr[i].floor, ups |-> fr[i].ups]
    BY <1>1
  <2> HIDE DEF p
  <2>4. /\ Outline(p) \in Seq(Frame2) /\ Len(Outline(p)) = t + 1
        /\ \A i \in 1 .. t + 1 : Outline(p)[i] = [floor |-> p[i].floor, ups |-> p[i].ups]
    BY <1>1, <2>1
  <2>5. \A i \in 1 .. t + 1 : (i \in 1 .. t \/ i = t + 1)
    BY <2>3
  <2>6. t + 1 \in 1 .. t + 1 /\ \A i \in 1 .. t : i \in 1 .. t + 1
    BY <2>3
  <2>7. \A i \in 1 .. t : Outline(p)[i] = Outline(fr)[i]
    BY <2>1, <2>3, <2>4, <2>6
  <2>8. Outline(p)[t + 1] = g
    BY <2>1, <2>4, <2>6
  <2> HIDE DEF g, t
  <2>9. /\ Append(Outline(fr), g) \in Seq(Frame2) /\ Len(Append(Outline(fr), g)) = t + 1
        /\ \A i \in 1 .. t : Append(Outline(fr), g)[i] = Outline(fr)[i]
        /\ Append(Outline(fr), g)[t + 1] = g
    BY <2>2, <2>3, AppendFacts
  <2>10. \A i \in 1 .. Len(Outline(p)) : Outline(p)[i] = Append(Outline(fr), g)[i]
    BY <2>4, <2>5, <2>7, <2>8, <2>9
  <2>11. Outline(p) = Append(Outline(fr), g)
    BY <2>4, <2>9, <2>10, SameSequence
  <2> QED BY <2>11 DEF p, g
<1> QED BY <1>1, <1>2, <1>3

(* An empty scope on top: a block, or the call of a closure.                *)
LEMMA EmptyScopeMaps ==
  ASSUME LinkInv, LinkInv', scopes' = Append(scopes, EmptyScope), UNCHANGED content,
         HeldBy(frames', closures') = Held
  PROVE  EnvScopes' = Append(EnvScopes, Env!Unbound) /\ EnvStore' = EnvStore
<1>1. Pushed(scopes', scopes, EmptyScope)
  BY LinkFacts, EmptyScopeFacts, AppendFacts DEF Pushed
<1>2. scopes' \in Seq(ScopeRec) /\ DistinctSlots(scopes') /\ OneHome(scopes')
  BY BothEnds
<1>3. /\ EnvOf(scopes') = Append(EnvOf(scopes), Unbound)
      /\ Used(scopes', Held) = Used(scopes, Held)
      /\ \A k : ValAt(scopes', content, k) = ValAt(scopes, content, k)
  BY <1>1, <1>2, EmptyMaps
<1>4. EnvScopes' = Append(EnvScopes, Env!Unbound)
  BY <1>3, BothEnds DEF Unbound, Env!Unbound
<1>5. EnvStore' = EnvStore
  BY <1>3, BothEnds DEF StoreFor
<1> QED BY <1>4, <1>5

(* What the calls in progress hold, with one more of them.                  *)
LEMMA AppendHolds ==
  ASSUME ScopesInv, NEW f \in FrameRec,
         \A n \in Name : f.ups[n] # NoLoc => f.ups[n] \in Held
  PROVE  HeldBy(Append(frames, f), closures) = Held
<1> DEFINE fr == Append(frames, f)
<1>1. fr \in Seq(FrameRec) /\ DOMAIN frames \subseteq DOMAIN fr
      /\ \A i \in DOMAIN frames : fr[i] = frames[i]
  BY InvFacts, SeqFacts, AppendFacts
<1> HIDE DEF fr
<1>2. HeldBy(fr, closures) \in SUBSET Held
  BY CallHolds DEF fr
<1>3. Held \in SUBSET HeldBy(fr, closures)
  BY <1>1 DEF Held, HeldBy
<1> QED BY <1>2, <1>3 DEF fr

(* A call of a function: its parameter is a binding of its own.             *)
LEMMA CallMaps ==
  ASSUME LinkInv, LinkInv', NEW f \in Fn, NEW v \in Value, Call(f, v)
  PROVE  Env!Call(Param[f], v, Env!Unbound)
<1> DEFINE r == [fn |-> f, floor |-> Top + 1, ups |-> Unbound]
<1>1. /\ ScopesInv /\ scopes \in Seq(ScopeRec) /\ Param[f] \in Name /\ Top \in Nat \ {0}
      /\ frames \in Seq(FrameRec) /\ Used(scopes, Held) \in SUBSET Loc
  BY LinkFacts, ScopesAssumption
<1>2. PICK l \in Loc \ InUse : scopes' = Append(scopes, ParamScope(Param[f], l, v))
  BY DEF Call, ParamScope
<1>3. r \in FrameRec /\ \A x \in Name : r.ups[x] = NoLoc
  BY <1>1 DEF FrameRec, Unbound
<1>4. /\ r.floor = Top + 1 /\ r.ups = Unbound /\ frames' = Append(frames, r)
      /\ UNCHANGED <<content, closures, acc>> /\ Top < MaxScopes
  BY DEF Call
<1> HIDE DEF r
<1>5. HeldBy(frames', closures') = Held
  BY <1>1, <1>3, <1>4, AppendHolds
<1>6. Pushed(scopes', scopes, ParamScope(Param[f], l, v))
  BY <1>1, <1>2, ParamScopeFacts, AppendFacts DEF Pushed
<1>7. scopes' \in Seq(ScopeRec) /\ DistinctSlots(scopes') /\ OneHome(scopes')
  BY BothEnds
<1>8. /\ l \notin Used(scopes, Held)
      /\ EnvOf(scopes') = Append(EnvOf(scopes), [Unbound EXCEPT ![Param[f]] = l])
      /\ Used(scopes', Held) = Used(scopes, Held) \cup {l}
      /\ \A k \in Used(scopes, Held) \cup {l} :
           ValAt(scopes', content, k) = IF k = l THEN v ELSE ValAt(scopes, content, k)
  BY <1>1, <1>6, <1>7, ParamMaps
<1>9. /\ l \in Loc \ Env!InUse(EnvScopes, EnvFrames, closures) /\ Len(EnvScopes) = Top
      /\ EnvScopes' = Append(EnvScopes, [Env!Unbound EXCEPT ![Param[f]] = l])
  BY <1>8, BothEnds, SameEnv DEF Unbound, Env!Unbound
<1>10. EnvFrames' = Append(EnvFrames, [floor |-> Len(EnvScopes) + 1, ups |-> Env!Unbound])
  <2>1. Outline(Append(frames, r)) = Append(Outline(frames), [floor |-> r.floor, ups |-> r.ups])
    BY <1>1, <1>3, OutlineFacts
  <2>2. [floor |-> r.floor, ups |-> r.ups] = [floor |-> Len(EnvScopes) + 1, ups |-> Env!Unbound]
    BY <1>4, <1>9 DEF Unbound, Env!Unbound
  <2> QED BY <1>4, <2>1, <2>2, BothEnds
<1> DEFINE new == [k \in Loc |-> IF k = l THEN v ELSE IF k \in DOMAIN EnvStore THEN EnvStore[k] ELSE v]
<1>11. Env!Keep(new)
  <2>1. \A k \in Used(scopes, Held) \cup {l} : new[k] = ValAt(scopes', content', k)
    BY <1>1, <1>4, <1>8, SameEnv, StoreFacts
  <2>2. EnvStore' = StoreFor(scopes', content', Held)
    BY <1>5, BothEnds
  <2>3. Env!InUse(EnvScopes', EnvFrames', closures') = Used(scopes, Held) \cup {l}
    BY <1>5, <1>8, BothEnds
  <2> HIDE DEF new
  <2>4. EnvStore' = [k \in Env!InUse(EnvScopes', EnvFrames', closures') |-> new[k]]
    BY <1>8, <2>1, <2>2, <2>3 DEF StoreFor
  <2> QED BY <2>4 DEF Env!Keep
<1>12. Len(EnvScopes) < MaxScopes
  BY <1>4, <1>9
<1> QED BY <1>4, <1>9, <1>10, <1>11, <1>12 DEF Env!Call

(* The call of a closure: it brings the locations that the closure holds.   *)
LEMMA CallClosureMaps ==
  ASSUME LinkInv, LinkInv', NEW k \in Closure, CallClosure(k)
  PROVE  Env!CallClosure(k)
<1> DEFINE r == [fn |-> "closure", floor |-> Top + 1, ups |-> closures[k]]
<1>1. /\ ScopesInv /\ Top \in Nat \ {0} /\ frames \in Seq(FrameRec) /\ closures \in ClosureSet
      /\ Len(EnvScopes) = Top
  BY LinkFacts, SameEnv
<1>2. r \in FrameRec /\ \A n \in Name : r.ups[n] = closures[k][n]
  BY <1>1 DEF FrameRec, ClosureSet
<1>3. /\ r.floor = Top + 1 /\ r.ups = closures[k] /\ frames' = Append(frames, r)
      /\ scopes' = Append(scopes, EmptyScope)
      /\ UNCHANGED <<content, closures, acc>> /\ Top < MaxScopes
  BY DEF CallClosure
<1> HIDE DEF r
<1>4. HeldBy(frames', closures') = Held
  <2>1. \A n \in Name : r.ups[n] # NoLoc => r.ups[n] \in Held
    BY <1>2 DEF Held, HeldBy
  <2> QED BY <1>1, <1>2, <1>3, <2>1, AppendHolds
<1>5. EnvScopes' = Append(EnvScopes, Env!Unbound) /\ EnvStore' = EnvStore
  BY <1>3, <1>4, EmptyScopeMaps
<1>6. EnvFrames' = Append(EnvFrames, [floor |-> Len(EnvScopes) + 1, ups |-> closures[k]])
  <2>1. Outline(Append(frames, r)) = Append(Outline(frames), [floor |-> r.floor, ups |-> r.ups])
    BY <1>1, <1>2, OutlineFacts
  <2> QED BY <1>1, <1>3, <2>1, BothEnds
<1> QED BY <1>1, <1>3, <1>5, <1>6 DEF Env!CallClosure

(* A block is entered: lbl_push_scope.                                      *)
LEMMA PushScopeMaps ==
  ASSUME LinkInv, LinkInv', PushScope
  PROVE  Env!PushScope
<1>1. /\ scopes' = Append(scopes, EmptyScope) /\ UNCHANGED <<content, frames, closures, acc>>
      /\ Top < MaxScopes
  BY DEF PushScope
<1>2. HeldBy(frames', closures') = Held
  BY <1>1 DEF Held
<1>3. EnvScopes' = Append(EnvScopes, Env!Unbound) /\ EnvStore' = EnvStore
  BY <1>1, <1>2, EmptyScopeMaps
<1>4. EnvFrames' = EnvFrames /\ Len(EnvScopes) < MaxScopes
  BY <1>1, BothEnds, SameEnv
<1> QED BY <1>1, <1>3, <1>4 DEF Env!PushScope

(* A block is left: lbl_pop_scope.                                          *)
LEMMA PopScopeMaps ==
  ASSUME LinkInv, LinkInv', PopScope
  PROVE  Env!PopScope
<1>1. /\ ScopesInv /\ Top \in Nat \ {0} /\ vm_scope_floor \in 1 .. Top
  BY LinkFacts, InvFacts
<1>2. /\ Top > vm_scope_floor /\ PopTo(Top - 1) /\ UNCHANGED <<frames, closures, acc>>
      /\ Top - 1 \in 1 .. Top
  BY <1>1 DEF PopScope
<1>3. HeldBy(frames', closures') = Held
  BY <1>2 DEF Held
<1>4. Env!Truncate(Top - 1)
  BY <1>2, <1>3, TruncateMaps
<1>5. EnvFrames' = EnvFrames /\ Len(EnvScopes) = Top /\ Env!Floor = vm_scope_floor
  BY <1>2, BothEnds, SameEnv, SameFloor
<1> QED BY <1>2, <1>4, <1>5 DEF Env!PopScope

(* A call ends: lbl_return.                                                 *)
LEMMA ReturnMaps ==
  ASSUME LinkInv, LinkInv', Return
  PROVE  Env!Return
<1> DEFINE k == Len(frames) - 1
           d == vm_scope_floor - 1
<1>1. ScopesInv /\ frames \in Seq(FrameRec) /\ Len(frames) \in Nat /\ FramesOk(frames, scopes)
      /\ Top \in Nat
  BY LinkFacts, InvFacts
<1>2. /\ frames # <<>> /\ PopTo(d) /\ frames' = SubSeq(frames, 1, k) /\ UNCHANGED <<closures, acc>>
  BY DEF Return
<1>3. Len(frames) > 0 /\ vm_scope_floor \in 2 .. Top /\ d \in 1 .. Top /\ k \in 0 .. Len(frames)
  BY <1>1, <1>2, SeqFacts, FloorFacts
<1>4. HeldBy(frames', closures') \in SUBSET Held
  <2>1. frames' \in Seq(FrameRec) /\ DOMAIN frames' = 1 .. k /\ \A i \in 1 .. k : frames'[i] = frames[i]
    BY <1>1, <1>2, <1>3, PrefixFacts
  <2>2. DOMAIN frames = 1 .. Len(frames) /\ \A i \in 1 .. k : i \in 1 .. Len(frames)
    BY <1>1, <1>3
  <2> QED BY <1>2, <2>1, <2>2 DEF HeldBy, Held
<1> HIDE DEF k, d
<1>5. Env!Truncate(d)
  BY <1>2, <1>3, <1>4, TruncateMaps
<1>6. EnvFrames' = SubSeq(EnvFrames, 1, k)
  BY <1>1, <1>2, <1>3, OutlineFacts, BothEnds
<1>7. Len(EnvFrames) = Len(frames) /\ Env!Floor = vm_scope_floor /\ EnvFrames # <<>>
  BY <1>2, SameFloor
<1> QED BY <1>5, <1>6, <1>7 DEF Env!Return, k, d

(* The next line after an error: run() of main.c.                           *)
LEMMA RestartMaps ==
  ASSUME LinkInv, LinkInv', Restart
  PROVE  Env!Restart
<1>1. /\ Top \in Nat \ {0} /\ 1 \in 1 .. Top /\ frames' = <<>> /\ PopTo(1) /\ UNCHANGED <<closures, acc>>
  BY LinkFacts DEF Restart
<1>2. HeldBy(frames', closures') \in SUBSET Held
  BY <1>1 DEF HeldBy, Held
<1>3. Env!Truncate(1)
  BY <1>1, <1>2, TruncateMaps
<1>4. EnvFrames' = <<>>
  <2>1. Outline(frames') \in Seq(Frame2) /\ Len(Outline(frames')) = Len(frames')
    BY BothEnds, OutlineFacts
  <2>2. Len(frames') = 0
    BY <1>1
  <2>3. Outline(frames') = <<>>
    BY <2>1, <2>2, SeqFacts
  <2> QED BY <2>3, BothEnds
<1> QED BY <1>3, <1>4 DEF Env!Restart

(* A closure is made: of the bindings in force, or not at all.              *)
LEMMA MakeClosureMaps ==
  ASSUME LinkInv, LinkInv', NEW k \in Closure, MakeClosure(k)
  PROVE  \/ \E names \in SUBSET Name : Env!MakeClosure(k, names)
         \/ UNCHANGED <<EnvScopes, EnvStore, EnvFrames, closures, acc>>
<1> DEFINE ns == Captures[Running]
           bound == {n \in ns : vm_scope_get(n) # NullAddr}
<1>1. ns \in SUBSET Name /\ UNCHANGED <<frames, acc>>
  BY ScopesAssumption DEF MakeClosure
<1>2. Used(scopes, Held) \in SUBSET Loc /\ closures \in ClosureSet /\ EnvFrames' = EnvFrames
      /\ NoLoc \notin Loc
  BY <1>1, LinkFacts, BothEnds, ScopesAssumption
<1>3. CASE bound = ns
  <2>1. /\ vm_box_slot(ns)
        /\ closures' = [closures EXCEPT ![k] =
                          [n \in Name |-> IF n \in ns THEN BoxLoc(n) ELSE NoLoc]]
    BY <1>3 DEF MakeClosure
  <2>2. \A n \in ns : vm_scope_get(n) # NullAddr
    BY <1>3
  <2> HIDE DEF ns, bound
  <2>3. \A n \in ns : /\ BoxLoc(n) = Env!Binding(n) /\ Env!Binding(n) # NoLoc
                      /\ BoxLoc(n) \in Used(scopes, Held)
    <3>1. ASSUME NEW n \in ns
          PROVE  /\ BoxLoc(n) = Env!Binding(n) /\ Env!Binding(n) # NoLoc
                 /\ BoxLoc(n) \in Used(scopes, Held)
      <4>1. n \in Name /\ vm_scope_get(n) # NullAddr
        BY <1>1, <2>2
      <4>2. BoxLoc(n) = LocAt(scopes, HolderOf(n), n)
        BY <4>1, BoxLocIs
      <4>3. Env!Binding(n) = LocAt(scopes, HolderOf(n), n)
        BY <4>1, SameBinding
      <4>4. LocAt(scopes, HolderOf(n), n) \in Used(scopes, Held)
            /\ LocAt(scopes, HolderOf(n), n) # NoLoc
        BY <4>1, FoundLeads
      <4> QED BY <4>2, <4>3, <4>4
    <3> QED BY <3>1
  <2>4. /\ EnvOf(scopes') = EnvOf(scopes)
        /\ \A held : Used(scopes', held) = Used(scopes, held)
        /\ \A l \in Loc : ValAt(scopes', content', l) = ValAt(scopes, content, l)
    BY <1>1, <2>1, <2>2, BoxMaps
  <2>5. HeldBy(frames', closures') \in SUBSET Used(scopes, Held)
    <3>1. \A c \in Closure, n \in Name :
            closures'[c][n] \in Used(scopes, Held) \cup {NoLoc} \/ closures'[c][n] = closures[c][n]
      BY <1>2, <2>1, <2>3 DEF ClosureSet
    <3>2. Held \in SUBSET Used(scopes, Held)
      BY DEF Used
    <3>3. HeldBy(frames', closures') \in SUBSET (Used(scopes, Held) \cup Held)
      BY <1>1, <3>1 DEF HeldBy, Held
    <3> QED BY <3>2, <3>3
  <2>6. Env!Keep(EnvStore)
    <3>1. \A l \in Used(scopes', HeldBy(frames', closures')) :
            l \in Used(scopes, Held) /\ ValAt(scopes', content', l) = ValAt(scopes, content, l)
      <4>1. \A l \in Used(scopes', HeldBy(frames', closures')) :
              l \in Used(scopes, HeldBy(frames', closures'))
        BY <2>4
      <4>2. Used(scopes, HeldBy(frames', closures')) \in SUBSET Used(scopes, Held)
        BY <2>5 DEF Used
      <4> QED BY <1>2, <2>4, <4>1, <4>2
    <3> QED BY <3>1, KeepMaps
  <2>7. closures' = [closures EXCEPT ![k] =
                       [n \in Name |-> IF n \in ns THEN Env!Binding(n) ELSE NoLoc]]
    <3>1. [n \in Name |-> IF n \in ns THEN BoxLoc(n) ELSE NoLoc]
            = [n \in Name |-> IF n \in ns THEN Env!Binding(n) ELSE NoLoc]
      BY <2>3
    <3> QED BY <2>1, <3>1
  <2>8. EnvScopes' = EnvScopes
    BY <2>4, BothEnds
  <2>9. Env!MakeClosure(k, ns)
    BY <1>1, <1>2, <2>3, <2>6, <2>7, <2>8 DEF Env!MakeClosure
  <2> QED BY <1>1, <2>9
<1>4. CASE bound # ns
  <2>1. PICK done \in SUBSET bound : vm_box_slot(done)
    BY <1>4 DEF MakeClosure
  <2>2. closures' = closures
    BY <1>4 DEF MakeClosure
  <2>3. done \in SUBSET Name /\ \A n \in done : vm_scope_get(n) # NullAddr
    BY <1>1
  <2> HIDE DEF ns, bound
  <2>4. /\ EnvOf(scopes') = EnvOf(scopes)
        /\ \A held : Used(scopes', held) = Used(scopes, held)
        /\ \A l \in Loc : ValAt(scopes', content', l) = ValAt(scopes, content, l)
    BY <2>1, <2>3, BoxMaps
  <2>5. HeldBy(frames', closures') = Held
    BY <1>1, <2>2 DEF Held
  <2>6. EnvStore' = EnvStore
    <3>1. \A l \in Used(scopes, Held) : ValAt(scopes', content', l) = ValAt(scopes, content, l)
      BY <1>2, <2>4
    <3> QED BY <2>4, <2>5, <3>1, BothEnds DEF StoreFor
  <2>7. EnvScopes' = EnvScopes
    BY <2>4, BothEnds
  <2> QED BY <1>1, <1>2, <2>2, <2>6, <2>7
<1> QED BY <1>3, <1>4

(* What a closure captured, read and written in its calls.                  *)
LEMMA UpvalueMaps ==
  ASSUME LinkInv, LinkInv', NEW n \in Name
  PROVE  /\ LoadUpvalue(n) => Env!ReadCaptured(n)
         /\ \A v \in Value : StoreUpvalue(n, v) => Env!WriteCaptured(n, v)
<1> DEFINE l == frames[Len(frames)].ups[n]
<1>1. ASSUME Upvalue(n)
      PROVE  /\ frames # <<>> /\ l \in Held /\ Leads(BoxAddr(l), l, scopes)
             /\ l \in Used(scopes, Held) /\ l # NoLoc
             /\ EnvFrames # <<>> /\ EnvFrames[Len(EnvFrames)].ups[n] = l
  <2>1. frames # <<>> /\ l # NoLoc
    BY <1>1 DEF Upvalue
  <2>2. frames \in Seq(FrameRec) /\ DOMAIN frames = 1 .. Len(frames) /\ Len(frames) \in 1 .. Len(frames)
    BY <2>1, LinkFacts, SeqFacts
  <2>3. l \in Held
    BY <2>1, <2>2 DEF Held, HeldBy
  <2>4. EnvFrames # <<>> /\ EnvFrames[Len(EnvFrames)].ups[n] = l
    BY <2>1, <2>2, SameFloor
  <2> HIDE DEF l
  <2>5. Leads(BoxAddr(l), l, scopes) /\ l \in Used(scopes, Held)
    BY <2>3, HeldLeads
  <2> QED BY <2>1, <2>3, <2>4, <2>5
<1>2. ASSUME LoadUpvalue(n) PROVE Env!ReadCaptured(n)
  <2>1. Upvalue(n) /\ acc' = content[l] /\ UNCHANGED <<scopes, content, frames, closures>>
    BY <1>2 DEF LoadUpvalue
  <2>2. UNCHANGED <<EnvScopes, EnvStore, EnvFrames, closures>>
    BY <2>1, SameWorld
  <2> HIDE DEF l
  <2>3. Deref(BoxAddr(l)) = content[l]
    BY DEF Deref, BoxAddr
  <2>4. EnvStore[l] = content[l]
    BY <1>1, <2>1, <2>3, LeadsReads, SameEnv, StoreFacts
  <2> QED BY <1>1, <2>1, <2>2, <2>4 DEF Env!ReadCaptured
<1>3. ASSUME NEW v \in Value, StoreUpvalue(n, v) PROVE Env!WriteCaptured(n, v)
  <2>1. /\ Upvalue(n) /\ content' = [content EXCEPT ![l] = v]
        /\ UNCHANGED <<scopes, frames, closures, acc>>
    BY <1>3 DEF StoreUpvalue
  <2> HIDE DEF l
  <2>2. Write(BoxAddr(l), v)
    BY <2>1 DEF Write, BoxAddr
  <2>3. Env!Update(l, v)
    BY <1>1, <2>1, <2>2, WriteMaps
  <2> QED BY <1>1, <2>1, <2>3 DEF Env!WriteCaptured
<1> QED BY <1>2, <1>3

-----------------------------------------------------------------------------
(* Every step of Scopes is a step of Environment, or the hit of a site      *)
(* whose cached address was overtaken.                                      *)
EnvStep == [Env!Next \/ \E s \in Site : StaleHit(s)]_(Env!vars)

(* What a site that nothing has overtaken uses is the lookup's answer.      *)
LEMMA ResolveIs ==
  ASSUME CacheInv, NEW s \in Site, At(s), ~Stale(s)
  PROVE  Resolve(s) = vm_scope_get(SiteName[s]) /\ SiteName[s] \in Name
BY KeptWins, ScopesAssumption DEF Resolve

(* Where a slot has moved into its box, the word it leaves is no variable's. *)
LEMMA DeadWrites ==
  ASSUME LinkInv, NEW i \in 1 .. Len(scopes), NEW j \in 1 .. Len(scopes[i].slots),
         scopes[i].slots[j].boxed = TRUE, NEW v \in Value, Write(SlotAddr(i, j), v)
  PROVE  /\ EnvOf(scopes') = EnvOf(scopes) /\ Used(scopes', Held) = Used(scopes, Held)
         /\ StoreFor(scopes', content', Held) = StoreFor(scopes, content, Held)
<1>1. ScopesInv /\ scopes \in Seq(ScopeRec) /\ DistinctSlots(scopes) /\ OneHome(scopes)
  BY LinkFacts
<1>2. ValidAddr(SlotAddr(i, j), scopes)
  BY DEF ValidAddr
<1>3. SameBindings(scopes', scopes)
  BY <1>1, <1>2, WriteStep
<1>4. /\ scopes' \in Seq(ScopeRec) /\ OneHome(scopes') /\ SamePlaces(scopes', scopes)
      /\ DistinctSlots(scopes')
  <2>1. OneHome(scopes')
    BY <1>2, WriteLinks DEF LinkOk
  <2>2. SamePlaces(scopes', scopes)
    BY <1>1, <1>3, SameBindingsPlaces, LinkFacts
  <2>3. DistinctLocs(scopes')
    BY <1>1, <1>3, SameKeepsDistinct, LinkFacts
  <2> QED BY <1>3, <2>1, <2>2, <2>3 DEF SameBindings, DistinctLocs
<1>5. EnvOf(scopes') = EnvOf(scopes) /\ Used(scopes', Held) = Used(scopes, Held)
  BY <1>1, <1>4, EnvSame
<1>6. /\ Len(scopes') = Len(scopes)
      /\ \A x \in 1 .. Len(scopes) :
           /\ Len(scopes'[x].slots) = Len(scopes[x].slots)
           /\ \A y \in 1 .. Len(scopes[x].slots) :
                /\ scopes'[x].slots[y].loc = scopes[x].slots[y].loc
                /\ scopes'[x].slots[y].boxed = scopes[x].slots[y].boxed
  BY <1>3 DEF SameBindings
<1>7. scopes' = WrittenSlot(scopes, i, j, v) /\ content' = content
  <2> DEFINE a == SlotAddr(i, j)
  <2>1. a[1] = "val" /\ a[2] = i /\ a[3] = j
    BY DEF SlotAddr
  <2>2. Write(a, v)
    OBVIOUS
  <2> HIDE DEF a
  <2> QED BY <2>1, <2>2 DEF Write, WrittenSlot
<1>8. \A x \in 1 .. Len(scopes) : \A y \in 1 .. Len(scopes[x].slots) :
        scopes'[x].slots[y].val = IF x = i /\ y = j THEN v ELSE scopes[x].slots[y].val
  <2>1. \A x \in 1 .. Len(scopes) : \A y \in 1 .. Len(scopes[x].slots) :
          WrittenSlot(scopes, i, j, v)[x].slots[y].val
            = IF x = i /\ y = j THEN v ELSE scopes[x].slots[y].val
    BY <1>1, WrittenVals
  <2> QED BY <1>7, <2>1
<1>9. ASSUME NEW k PROVE ValAt(scopes', content', k) = ValAt(scopes, content, k)
  <2>1. CASE \E x \in 1 .. Len(scopes) : \E y \in 1 .. Len(scopes[x].slots) :
               scopes[x].slots[y].loc = k /\ ~scopes[x].slots[y].boxed
    <3>1. PICK x \in 1 .. Len(scopes) : \E y \in 1 .. Len(scopes[x].slots) :
                 scopes[x].slots[y].loc = k /\ ~scopes[x].slots[y].boxed
      BY <2>1
    <3>2. PICK y \in 1 .. Len(scopes[x].slots) :
                 scopes[x].slots[y].loc = k /\ ~scopes[x].slots[y].boxed
      BY <3>1
    <3>3. ValAt(scopes, content, k) = scopes[x].slots[y].val
      BY <1>1, <3>2, ValAtFacts
    <3>4. /\ x \in 1 .. Len(scopes') /\ y \in 1 .. Len(scopes'[x].slots)
          /\ scopes'[x].slots[y].loc = k /\ ~scopes'[x].slots[y].boxed
      BY <1>6, <3>2
    <3>5. ValAt(scopes', content', k) = scopes'[x].slots[y].val
      BY <1>4, <3>4, ValAtFacts
    <3>6. ~(x = i /\ y = j)
      BY <3>2
    <3> QED BY <1>8, <3>3, <3>5, <3>6
  <2>2. CASE \A x \in 1 .. Len(scopes) : \A y \in 1 .. Len(scopes[x].slots) :
               scopes[x].slots[y].loc = k => scopes[x].slots[y].boxed
    <3>1. \A x \in 1 .. Len(scopes') : \A y \in 1 .. Len(scopes'[x].slots) :
            scopes'[x].slots[y].loc = k => scopes'[x].slots[y].boxed
      BY <1>6, <2>2
    <3>2. ValAt(scopes', content', k) = content'[k] /\ ValAt(scopes, content, k) = content[k]
      BY <1>1, <1>4, <2>2, <3>1, ValAtFacts
    <3> QED BY <1>7, <3>2
  <2> QED BY <2>1, <2>2
<1>10. StoreFor(scopes', content', Held) = StoreFor(scopes, content, Held)
  BY <1>5, <1>9 DEF StoreFor
<1> QED BY <1>5, <1>10

(* The global that a stale site still reaches, in both modules.             *)
LEMMA StaleSlot ==
  ASSUME CacheInv, LinkInv, NEW s \in Site, Stale(s)
  PROVE  LET n == SiteName[s]
             g == LocIn(1, n)
         IN /\ 1 \in 1 .. Len(scopes) /\ Slot(1, n) \in 1 .. Len(scopes[1].slots)
            /\ Resolve(s) = SlotAddr(1, Slot(1, n)) /\ Resolve(s) # NullAddr
            /\ addr_cache[s] = SlotAddr(1, Slot(1, n))
            /\ Captured(n) => scopes[1].slots[Slot(1, n)].boxed
            /\ ~Captured(n) => Leads(Resolve(s), g, scopes) /\ g \in Used(scopes, Held)
<1> DEFINE n == SiteName[s]
<1>1. addr_cache[s] # NullAddr
  BY DEF Stale
<1>2. /\ n \in Name /\ SlotsNamed(1, n) # {} /\ 1 \in 1 .. Top /\ Holds(1, n)
      /\ Slot(1, n) \in 1 .. Len(scopes[1].slots)
      /\ addr_cache[s] = SlotAddr(1, Slot(1, n))
  BY <1>1, KeptSlot
<1>3. LocIn(1, n) = LocAt(scopes, 1, n)
  <2>1. EnvScopes[1][n] = LocIn(1, n)
    BY <1>2 DEF EnvScopes
  <2> QED BY <1>2, <2>1, SameEnv
<1>4. ASSUME ~Captured(n) PROVE AddrIn(1, n) = SlotAddr(1, Slot(1, n))
  BY <1>2, <1>4 DEF Captured, AddrIn
<1> QED BY <1>1, <1>2, <1>3, <1>4, AddrInLeads DEF Resolve, Captured, Top

(* A hit of an overtaken site reads or writes that global.                  *)
LEMMA StaleReads ==
  ASSUME CacheInv, LinkInv, LinkInv', NEW s \in Site, Stale(s),
         UNCHANGED <<scopes, content, frames, closures>>, acc' = Deref(Resolve(s))
  PROVE  StaleHit(s)
<1> DEFINE n == SiteName[s]
           g == LocIn(1, n)
<1>1. UNCHANGED <<EnvScopes, EnvStore, EnvFrames, closures>>
  BY SameWorld
<1>2. CASE Captured(n)
  <2>1. acc' = Deref(addr_cache[s])
    BY DEF Resolve, Stale
  <2> QED BY <1>1, <1>2, <2>1 DEF StaleHit
<1>3. CASE ~Captured(n)
  <2>1. Leads(Resolve(s), g, scopes) /\ g \in Used(scopes, Held)
    BY <1>3, StaleSlot
  <2> HIDE DEF g
  <2>2. acc' = EnvStore[g]
    BY <2>1, LeadsReads, SameEnv, StoreFacts
  <2> QED BY <1>1, <1>3, <2>2 DEF StaleHit, g
<1> QED BY <1>2, <1>3

LEMMA StaleWrites ==
  ASSUME CacheInv, LinkInv, LinkInv', NEW s \in Site, Stale(s), NEW v \in Value,
         Write(Resolve(s), v), UNCHANGED <<frames, closures, acc>>
  PROVE  StaleHit(s)
<1> DEFINE n == SiteName[s]
           g == LocIn(1, n)
<1>1. HeldBy(frames', closures') = Held
  BY DEF Held
<1>2. CASE Captured(n)
  <2>1. /\ EnvOf(scopes') = EnvOf(scopes)
        /\ StoreFor(scopes', content', Held) = StoreFor(scopes, content, Held)
    BY <1>2, StaleSlot, DeadWrites
  <2>2. UNCHANGED <<EnvScopes, EnvStore, EnvFrames, closures, acc>>
    BY <1>1, <2>1, BothEnds
  <2> QED BY <1>2, <2>2 DEF StaleHit
<1>3. CASE ~Captured(n)
  <2>1. Leads(Resolve(s), g, scopes) /\ g \in Used(scopes, Held)
    BY <1>3, StaleSlot
  <2> HIDE DEF g
  <2>2. /\ EnvOf(scopes') = EnvOf(scopes)
        /\ StoreFor(scopes', content', Held) = [StoreFor(scopes, content, Held) EXCEPT ![g] = v]
    BY <2>1, LeadsWrites
  <2>3. /\ UNCHANGED <<EnvScopes, EnvFrames, closures, acc>>
        /\ EnvStore' = [EnvStore EXCEPT ![g] = v]
    BY <1>1, <2>2, BothEnds
  <2> QED BY <1>3, <2>3 DEF StaleHit, g
<1> QED BY <1>2, <1>3

(* Steps that use a name are reads and writes of variables.                 *)
LEMMA NameStepsMap ==
  ASSUME CacheInv, LinkInv, LinkInv', NameSteps
  PROVE  EnvStep
<1>1. ASSUME NEW n \in Name, Env!Read(n) PROVE EnvStep
  BY <1>1 DEF EnvStep, Env!Next
<1>2. ASSUME NEW n \in Name, NEW v \in Value, Env!Assign(n, v) \/ Env!Define(n, v) PROVE EnvStep
  BY <1>2 DEF EnvStep, Env!Next
<1>3. ASSUME NEW s \in Site, Load(s) PROVE EnvStep
  <2>1. /\ UNCHANGED <<scopes, content, frames, closures>> /\ At(s)
        /\ acc' = IF Resolve(s) = NullAddr THEN Null ELSE Deref(Resolve(s))
    BY <1>3 DEF Load
  <2>2. CASE ~Stale(s)
    <3>1. Resolve(s) = vm_scope_get(SiteName[s]) /\ SiteName[s] \in Name
      BY <2>1, <2>2, ResolveIs
    <3>2. Env!Read(SiteName[s])
      BY <2>1, <3>1, ReadMaps
    <3> QED BY <1>1, <3>1, <3>2
  <2>3. CASE Stale(s)
    <3>1. StaleHit(s)
      BY <2>1, <2>3, StaleSlot, StaleReads
    <3> QED BY <3>1 DEF EnvStep
  <2> QED BY <2>2, <2>3
<1>4. ASSUME NEW s \in Site, NEW v \in Value, Store(s, v) PROVE EnvStep
  <2>1. /\ UNCHANGED <<frames, closures, acc>> /\ At(s)
        /\ IF Resolve(s) # NullAddr THEN Write(Resolve(s), v) ELSE vm_scope_define(SiteName[s], v)
    BY <1>4 DEF Store
  <2>2. CASE ~Stale(s)
    <3>1. Resolve(s) = vm_scope_get(SiteName[s]) /\ SiteName[s] \in Name
      BY <2>1, <2>2, ResolveIs
    <3>2. Env!Assign(SiteName[s], v)
      BY <2>1, <3>1, AssignMaps
    <3> QED BY <1>2, <3>1, <3>2
  <2>3. CASE Stale(s)
    <3>1. StaleHit(s)
      BY <2>1, <2>3, StaleSlot, StaleWrites
    <3> QED BY <3>1 DEF EnvStep
  <2> QED BY <2>2, <2>3
<1>5. ASSUME NEW s \in Site, NEW v \in Value, Compound(s, v) PROVE EnvStep
  <2>1. /\ UNCHANGED <<frames, closures, acc>> /\ At(s) /\ SiteName[s] \in Name
        /\ IF Resolve(s) # NullAddr THEN Write(Resolve(s), v) ELSE UNCHANGED <<scopes, content>>
    BY <1>5, ScopesAssumption DEF Compound
  <2>2. CASE Resolve(s) = NullAddr
    <3>1. UNCHANGED <<EnvScopes, EnvStore, EnvFrames, closures, acc>>
      BY <2>1, <2>2, SameWorld
    <3> QED BY <3>1 DEF EnvStep, Env!vars
  <2>3. CASE Resolve(s) # NullAddr /\ ~Stale(s)
    <3>1. Resolve(s) = vm_scope_get(SiteName[s])
      BY <2>1, <2>3, ResolveIs
    <3>2. Env!Assign(SiteName[s], v)
      BY <2>1, <2>3, <3>1, AssignMaps
    <3> QED BY <1>2, <2>1, <3>2
  <2>4. CASE Resolve(s) # NullAddr /\ Stale(s)
    <3>1. StaleHit(s)
      BY <2>1, <2>4, StaleWrites
    <3> QED BY <3>1 DEF EnvStep
  <2> QED BY <2>2, <2>3, <2>4
<1>6. ASSUME NEW n \in Name, NEW v \in Value, DefineLoopVar(n, v) PROVE EnvStep
  <2>1. Env!Define(n, v)
    BY <1>6, LoopVarMaps DEF DefineLoopVar
  <2> QED BY <1>2, <2>1
<1>7. ASSUME Running \in Fn
      PROVE  ParamAddr = vm_scope_get(Param[Running]) /\ ParamAddr # NullAddr /\ Param[Running] \in Name
  <2>1. ParamAddr = vm_scope_get(Param[Running]) /\ Param[Running] \in Name
    BY <1>7, ParamFound, ScopesAssumption
  <2>2. ParamAddr # NullAddr
    BY DEF ParamAddr, BoxAddr, SlotAddr, NullAddr
  <2> QED BY <2>1, <2>2
<1>8. CASE LoadLocal
  <2>1. Running \in Fn /\ acc' = Deref(ParamAddr) /\ UNCHANGED <<scopes, content, frames, closures>>
    BY <1>8 DEF LoadLocal
  <2>2. Env!Read(Param[Running])
    BY <1>7, <2>1, ReadMaps
  <2> QED BY <1>1, <1>7, <2>1, <2>2
<1>9. ASSUME NEW v \in Value, StoreLocal(v) PROVE EnvStep
  <2>1. Running \in Fn /\ Write(ParamAddr, v) /\ UNCHANGED <<frames, closures, acc>>
    BY <1>9 DEF StoreLocal
  <2>2. Env!Assign(Param[Running], v)
    BY <1>7, <2>1, AssignMaps
  <2> QED BY <1>2, <1>7, <2>1, <2>2
<1> QED BY <1>3, <1>4, <1>5, <1>6, <1>8, <1>9 DEF NameSteps

(* Steps that push and pop scopes are steps of Environment.                 *)
LEMMA ScopeStepsMap ==
  ASSUME LinkInv, LinkInv', ScopeSteps
  PROVE  EnvStep
<1>1. CASE PushScope
  BY <1>1, PushScopeMaps DEF EnvStep, Env!Next
<1>2. CASE PopScope
  BY <1>2, PopScopeMaps DEF EnvStep, Env!Next
<1>3. CASE Return
  BY <1>3, ReturnMaps DEF EnvStep, Env!Next
<1>4. CASE Restart
  BY <1>4, RestartMaps DEF EnvStep, Env!Next
<1>5. ASSUME NEW f \in Fn, NEW v \in Value, Call(f, v) PROVE EnvStep
  <2>1. Env!Call(Param[f], v, Env!Unbound) /\ Param[f] \in Name
    BY <1>5, CallMaps, ScopesAssumption
  <2> QED BY <2>1 DEF EnvStep, Env!Next
<1> QED BY <1>1, <1>2, <1>3, <1>4, <1>5 DEF ScopeSteps

(* Steps of closures are steps of Environment.                              *)
LEMMA ClosureStepsMap ==
  ASSUME LinkInv, LinkInv', ClosureSteps
  PROVE  EnvStep
<1>1. ASSUME NEW k \in Closure, MakeClosure(k) PROVE EnvStep
  BY <1>1, MakeClosureMaps DEF EnvStep, Env!Next, Env!vars
<1>2. ASSUME NEW k \in Closure, CallClosure(k) PROVE EnvStep
  BY <1>2, CallClosureMaps DEF EnvStep, Env!Next
<1>3. ASSUME NEW n \in Name, LoadUpvalue(n) PROVE EnvStep
  BY <1>3, UpvalueMaps DEF EnvStep, Env!Next
<1>4. ASSUME NEW n \in Name, NEW v \in Value, StoreUpvalue(n, v) PROVE EnvStep
  BY <1>4, UpvalueMaps DEF EnvStep, Env!Next
<1> QED BY <1>1, <1>2, <1>3, <1>4 DEF ClosureSteps

(* Where nothing happens, nothing happens.                                  *)
LEMMA StutterMaps ==
  ASSUME LinkInv, LinkInv', UNCHANGED vars
  PROVE  EnvStep
<1>1. UNCHANGED <<scopes, content, frames, closures, acc>>
  BY DEF vars
<1>2. UNCHANGED <<EnvScopes, EnvStore, EnvFrames, closures, acc>>
  BY <1>1, SameWorld
<1> QED BY <1>2 DEF EnvStep, Env!vars

(* The two start alike.                                                     *)
LEMMA InitMaps ==
  ASSUME Init PROVE Env!Init
<1>1. /\ scopes = <<EmptyScope>> /\ frames = <<>> /\ closures = [k \in Closure |-> Unbound]
      /\ acc = Null
  BY DEF Init
<1>2. LinkInv
  BY LinkInit
<1>3. Top = 1 /\ 1 \in 1 .. Top
  BY <1>1 DEF Top
<1>4. \A n \in Name : EnvScopes[1][n] = NoLoc
  <2>1. \A n : ~Holds(1, n) \/ n \notin Name
    <3>1. scopes[1] = EmptyScope
      BY <1>1
    <3> QED BY <3>1, EmptyScopeFacts DEF Holds, SlotsNamed
  <2> QED BY <1>2, <1>3, <2>1, SameEnv
<1>5. EnvScopes = <<Env!Unbound>>
  <2>1. EnvScopes = [i \in 1 .. 1 |-> [n \in Name |-> LocAt(scopes, i, n)]]
    BY <1>1, <1>2, SameEnv DEF EnvOf
  <2>2. EnvScopes[1] = [n \in Name |-> LocAt(scopes, 1, n)]
    BY <2>1
  <2>3. EnvScopes[1] = Env!Unbound
    BY <1>4, <2>2 DEF Env!Unbound
  <2>4. EnvScopes \in Seq(Scope2) /\ Len(EnvScopes) = 1
    BY <1>2, <1>3, SameEnv
  <2> QED BY <2>3, <2>4
<1>6. EnvFrames = <<>>
  BY <1>1, <1>2, SameFloor
<1>7. EnvStore = <<>>
  <2>1. Held = {}
    BY <1>1 DEF Held, HeldBy, Unbound
  <2>2. Used(scopes, Held) = {}
    <3>1. \A i \in 1 .. Len(scopes), n \in Name : LocAt(scopes, i, n) = NoLoc
      BY <1>2, <1>3, <1>4, SameEnv DEF Top
    <3> QED BY <2>1, <3>1 DEF Used
  <2>3. EnvStore = [l \in {} |-> ValAt(scopes, content, l)]
    BY <1>2, <2>2, SameEnv DEF StoreFor
  <2> QED BY <2>3
<1>8. closures = [k \in Closure |-> Env!Unbound]
  BY <1>1 DEF Unbound, Env!Unbound
<1> QED BY <1>1, <1>5, <1>6, <1>7, <1>8 DEF Env!Init

(* Scopes refines Environment: inline slots, spilled maps, boxes, parameter *)
(* slots and cached addresses together are one store of variables.  Only a  *)
(* site whose cached address was overtaken departs from it, and then by the *)
(* global of its name alone; for every program in which ParamsApart holds.  *)
THEOREM ScopesRefineEnvironment ==
  ASSUME ParamsApart PROVE Spec => RefinesEnvironment
<1>1. Init => CacheInv /\ LinkInv /\ Env!Init
  BY CacheInit, LinkInit, InitMaps
<1>2. CacheInv /\ LinkInv /\ [Next]_vars => CacheInv' /\ LinkInv' /\ EnvStep
  <2> SUFFICES ASSUME CacheInv, LinkInv, [Next]_vars PROVE CacheInv' /\ LinkInv' /\ EnvStep
    OBVIOUS
  <2>1. CacheInv' /\ LinkInv'
    BY CacheStep, LinkStep
  <2>2. CASE Next
    BY <2>1, <2>2, NameStepsMap, ScopeStepsMap, ClosureStepsMap DEF Next
  <2>3. CASE UNCHANGED vars
    BY <2>1, <2>3, StutterMaps
  <2> QED BY <2>1, <2>2, <2>3
<1> QED BY <1>1, <1>2, PTL DEF Spec, RefinesEnvironment, EnvStep

(* As long as no site is visited whose address was overtaken, nothing tells *)
(* Scopes from Environment.                                                 *)
THEOREM FreshSitesRefine ==
  ASSUME ParamsApart PROVE Spec /\ [](\A s \in Site : ~Stale(s)) => Env!Spec
<1>1. (\A s \in Site : ~Stale(s)) /\ EnvStep => [Env!Next]_(Env!vars)
  BY DEF EnvStep, StaleHit
<1> QED BY <1>1, ScopesRefineEnvironment, PTL DEF RefinesEnvironment, Env!Spec, EnvStep
=============================================================================
