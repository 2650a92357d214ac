------------------------------ MODULE HashTable ------------------------------
(***************************************************************************)
(* The open-addressing table of hashtable.c: linear probing, growth by     *)
(* rehash, and removal that puts the rest of the probe chain back.  The    *)
(* chain is put back one entry per step, as the loop does, so the          *)
(* half-repaired table is a state of the model.                            *)
(***************************************************************************)
EXTENDS Integers, FiniteSets, FiniteSetsExt

CONSTANTS
  Key, Val,
  Absent,        \* a NULL key pointer; also "not found"
  HashValue,     \* the hashes hash_key may give the keys
  HashWord,      \* hash_key's results wrap here (2^64 in the code)
  InitSize,      \* HASHTABLE_INIT_SIZE
  High, Low,     \* HASHTABLE_HIGH, HASHTABLE_LOW
  MaxDoublings   \* bound: how often a table may double

VARIABLES
  hash,          \* hash_key: any function of the keys, the same for ever
  buckets, capacity, count,
  pc, pos,       \* hashtable_remove: "idle", or repairing the chain at pos
  answer         \* what the last hashtable_get returned

vars == <<hash, buckets, capacity, count, pc, pos, answer>>
table == <<buckets, capacity, count>>

Entry == [key : Key, val : Val]

(* The capacities a table may have.                                         *)
Size == {InitSize * 2^d : d \in 0 .. MaxDoublings}

(* HASHTABLE_HIGH leaves an empty bucket in the smallest table already, and *)
(* the bound on the doublings is one that a table of all keys does not meet. *)
ASSUME HashTableAssumption ==
  /\ Absent \notin Key /\ Absent \notin Entry /\ Absent \notin Val
  /\ IsFiniteSet(Key)
  /\ HashWord \in Nat \ {0} /\ HashValue \subseteq 0 .. HashWord - 1
  /\ InitSize \in Nat \ {0} /\ MaxDoublings \in Nat
  /\ High \in 1 .. 100 /\ Low \in 1 .. High
  /\ InitSize * (100 - High) >= 100
  /\ InitSize \in Size /\ \A c \in Size : c \in Nat /\ c >= InitSize /\ HashWord % c = 0
  /\ \E c \in Size : Cardinality(Key) * 100 < Low * c

TypeOK ==
  /\ hash \in [Key -> HashValue]
  /\ capacity \in Size \cup {0} /\ count \in 0 .. capacity
  /\ buckets \in [0 .. capacity - 1 -> Entry \cup {Absent}]
  /\ pc \in {"idle", "repair"} /\ pos \in Nat
  /\ answer \in Val \cup {Absent}

Init ==
  /\ hash \in [Key -> HashValue]
  /\ buckets = <<>> /\ capacity = 0 /\ count = 0
  /\ pc = "idle" /\ pos = 0 /\ answer = Absent

-----------------------------------------------------------------------------
(* Probing.  hashtable_put and hashtable_get reduce hash + i, which may     *)
(* wrap; hashtable_remove reduces the hash first.                           *)

Probe(k, i, cap) == ((hash[k] + i) % HashWord) % cap
RemoveProbe(k, i, cap) == ((hash[k] % cap) + i) % cap

KeyAt(b, j, k) == b[j] # Absent /\ b[j].key = k

(* The step of the probe sequence at which the loop stops, if it stops.     *)
Stops(b, cap, k) ==
  {i \in 0 .. cap - 1 : b[Probe(k, i, cap)] = Absent \/ KeyAt(b, Probe(k, i, cap), k)}

(* The slot hashtable_put writes.  A full table drops the entry silently.   *)
Insert(b, cap, e) ==
  IF Stops(b, cap, e.key) = {} THEN b
  ELSE [b EXCEPT ![Probe(e.key, Min(Stops(b, cap, e.key)), cap)] = e]

Load(n, cap) == (n * 100) \div cap

(* rehash doubles until the load is below Low, and inserts bucket by bucket. *)
Grown(n, cap) == Min({c \in Size : c >= cap /\ Load(n, c) < Low})

(* Mutant: the copy loop of rehash ends one bucket early.                   *)
RehashedShort(b, cap, new) ==
  LET copy[j \in 0 .. cap - 1] ==
        IF j = 0 THEN [i \in 0 .. new - 1 |-> Absent]
        ELSE IF b[j - 1] # Absent THEN Insert(copy[j - 1], new, b[j - 1]) ELSE copy[j - 1]
  IN copy[cap - 1]

Rehashed(b, cap, new) ==
  LET copy[j \in 0 .. cap] ==
        IF j = 0 THEN [i \in 0 .. new - 1 |-> Absent]
        ELSE IF b[j - 1] # Absent THEN Insert(copy[j - 1], new, b[j - 1]) ELSE copy[j - 1]
  IN copy[cap]

Occupied(b) == Cardinality({j \in DOMAIN b : b[j] # Absent})

(* Mutant: a nearly empty table is also shrunk.                             *)
PreparedShrinking(b, cap, n) ==
  LET size == IF cap = 0 THEN InitSize
              ELSE IF Load(n, cap) >= High THEN Grown(n, cap)
              ELSE IF Load(n, cap) < Low \div 2 THEN InitSize ELSE cap
      new == IF cap = 0 THEN [i \in 0 .. size - 1 |-> Absent]
             ELSE IF size = cap THEN b ELSE Rehashed(b, cap, size)
  IN [buckets |-> new, capacity |-> size, count |-> Occupied(new)]

(* The table with n entries that hashtable_put inserts into: allocated, or  *)
(* grown and recounted, if need be.                                         *)
Prepared(b, cap, n) ==
  IF cap = 0
  THEN [buckets |-> [i \in 0 .. InitSize - 1 |-> Absent], capacity |-> InitSize, count |-> 0]
  ELSE IF Load(n, cap) < High
  THEN [buckets |-> b, capacity |-> cap, count |-> n]
  ELSE LET new == Rehashed(b, cap, Grown(n, cap))
       IN [buckets |-> new, capacity |-> Grown(n, cap), count |-> Occupied(new)]

(* Mutant: an overwritten entry is counted again.                           *)
hashtable_put_counting(b, cap, n, e) ==
  LET t == Prepared(b, cap, n)
  IN [t EXCEPT !.buckets = Insert(@, t.capacity, e), !.count = @ + 1]

hashtable_put(b, cap, n, e) ==
  LET t == Prepared(b, cap, n)
      done == Insert(t.buckets, t.capacity, e)
  IN [t EXCEPT !.buckets = done, !.count = @ + (Occupied(done) - Occupied(t.buckets))]

SetTable(t) == buckets' = t.buckets /\ capacity' = t.capacity /\ count' = t.count

-----------------------------------------------------------------------------
Put(k, v) ==
  /\ pc = "idle"
  /\ SetTable(hashtable_put(buckets, capacity, count, [key |-> k, val |-> v]))
  /\ UNCHANGED <<hash, pc, pos, answer>>

(* hashtable_get                                                            *)
Get(k) ==
  /\ pc = "idle"
  /\ LET stops == Stops(buckets, capacity, k)
         e == buckets[Probe(k, Min(stops), capacity)]
     IN answer' = IF stops = {} THEN Absent ELSE IF e = Absent THEN Absent ELSE e.val
  /\ UNCHANGED <<hash, table, pc, pos>>

(* Where hashtable_remove finds k: nowhere behind an empty slot.            *)
Found(k) ==
  {i \in 0 .. capacity - 1 :
     /\ KeyAt(buckets, RemoveProbe(k, i, capacity), k)
     /\ \A h \in 0 .. i - 1 : buckets[RemoveProbe(k, h, capacity)] # Absent}

(* Mutant: the rest of the probe chain is left where it is.                 *)
RemoveNoRepair(k) ==
  /\ pc = "idle"
  /\ IF Found(k) = {} THEN UNCHANGED <<table, pc, pos>>
     ELSE /\ buckets' = [buckets EXCEPT ![RemoveProbe(k, Min(Found(k)), capacity)] = Absent]
          /\ count' = count - 1
          /\ UNCHANGED <<capacity, pc, pos>>
  /\ UNCHANGED <<hash, answer>>

Remove(k) ==
  /\ pc = "idle"
  /\ IF Found(k) = {} THEN UNCHANGED <<table, pc, pos>>
     ELSE LET found == RemoveProbe(k, Min(Found(k)), capacity)
          IN /\ buckets' = [buckets EXCEPT ![found] = Absent]
             /\ count' = count - 1
             /\ pc' = "repair"
             /\ pos' = (found + 1) % capacity
             /\ UNCHANGED capacity
  /\ UNCHANGED <<hash, answer>>

(* Mutant: pos stands still.                                                *)
ReinsertInPlace ==
  /\ pc = "repair" /\ buckets[pos] # Absent
  /\ SetTable(hashtable_put([buckets EXCEPT ![pos] = Absent], capacity, count - 1,
                            buckets[pos]))
  /\ UNCHANGED <<hash, pc, pos, answer>>

(* One iteration of the loop after it, with cap as it was at the start.     *)
Reinsert ==
  /\ pc = "repair" /\ buckets[pos] # Absent
  /\ SetTable(hashtable_put([buckets EXCEPT ![pos] = Absent], capacity, count - 1,
                             buckets[pos]))
  /\ pos' = (pos + 1) % capacity
  /\ UNCHANGED <<hash, pc, answer>>

Repaired ==
  /\ pc = "repair" /\ buckets[pos] = Absent
  /\ pc' = "idle" /\ pos' = 0
  /\ UNCHANGED <<hash, table, answer>>

(* hashtable_clear                                                          *)
Clear ==
  /\ pc = "idle"
  /\ buckets' = [j \in DOMAIN buckets |-> Absent]
  /\ count' = 0
  /\ UNCHANGED <<hash, capacity, pc, pos, answer>>

(* hashtable_free                                                           *)
Free ==
  /\ pc = "idle"
  /\ buckets' = <<>> /\ capacity' = 0 /\ count' = 0
  /\ UNCHANGED <<hash, pc, pos, answer>>

Repair == Reinsert \/ Repaired

Next ==
  \/ \E k \in Key : Get(k) \/ Remove(k) \/ \E v \in Val : Put(k, v)
  \/ Repair \/ Clear \/ Free

(* The repair loop belongs to the call of hashtable_remove: once entered it *)
(* runs on.                                                                 *)
Spec == Init /\ [][Next]_vars /\ WF_vars(Repair)

-----------------------------------------------------------------------------
(* Properties.                                                             *)

Holding(k) == {j \in DOMAIN buckets : KeyAt(buckets, j, k)}

Abstract == INSTANCE Dict WITH
  dict <- [k \in Key |-> IF Holding(k) = {} THEN Absent
                         ELSE buckets[CHOOSE j \in Holding(k) : TRUE].val]

(* The table is a finite map: growth, collisions, wrapped probe sequences   *)
(* and the chain repair after a removal never lose, resurrect or hide an    *)
(* entry from hashtable_get, and the repair steps change nothing.           *)
RefinesDict == Abstract!Spec

(* hashtable_get stops at the first empty slot, so between operations no    *)
(* entry may have one before it in its probe sequence, and no key is in two *)
(* slots.                                                                   *)
ProbeChainsUnbroken ==
  pc = "idle" =>
    \A j \in DOMAIN buckets : buckets[j] # Absent =>
      /\ Holding(buckets[j].key) = {j}
      /\ \E i \in 0 .. capacity - 1 :
           /\ Probe(buckets[j].key, i, capacity) = j
           /\ \A h \in 0 .. i : buckets[Probe(buckets[j].key, h, capacity)] # Absent

(* t->count is the number of entries, also between the steps of a repair,   *)
(* and there is always an empty slot for a probe to stop at.                *)
CountExact ==
  count = Occupied(buckets) /\ (capacity > 0 => count < capacity)

(* hashtable_remove keeps its cap and pos while it calls hashtable_put:     *)
(* that call must never grow the table under it.                            *)
RepairNeverRehashes == [][Reinsert => capacity' = capacity]_vars

(* The repair loop reaches an empty slot: hashtable_remove returns.         *)
RemoveReturns == pc = "repair" ~> pc = "idle"
=============================================================================
