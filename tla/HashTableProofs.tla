--------------------------- MODULE HashTableProofs ---------------------------
(***************************************************************************)
(* Proofs about the hash table, for any keys, any hashes of theirs, any    *)
(* load limits that leave an empty bucket, and any capacities that divide  *)
(* the word the hashes wrap in.                                            *)
(*                                                                         *)
(* A probe sequence goes round the table from the home bucket of its key,  *)
(* so buckets are compared by their distance from it.  Between operations  *)
(* no entry has an empty bucket between its home and itself (Linked).      *)
(* While hashtable_remove repairs the chain there is exactly one hole that *)
(* probe sequences may lead over, and none of the entries that have been   *)
(* put back lies behind it (Detour).                                       *)
(*                                                                         *)
(* Loops over a dict stand on that table; their theorems, and those of the *)
(* other loops, are at the end.                                            *)
(***************************************************************************)
EXTENDS Loops, TLAPS, FiniteSetTheorems

(* Its operators on sequences have names that the table uses too.           *)
Data == INSTANCE DataFacts

-----------------------------------------------------------------------------
(* Remainders.                                                              *)

LEMMA RemainderIs ==
  ASSUME NEW x \in Nat, NEW c \in Nat \ {0}, NEW q \in Int, NEW r \in 0 .. c - 1,
         x = c * q + r
  PROVE  x % c = r
<1> DEFINE p == x \div c
           s == x % c
<1>1. s \in 0 .. c - 1 /\ p \in Int /\ x = c * p + s
  OBVIOUS
<1> HIDE DEF p, s
<1>2. c * (q - p) = s - r
  BY <1>1
<1>3. s - r < c /\ s - r > -c
  BY <1>1
<1>4. q - p \in Int /\ (q - p >= 1 \/ q - p <= -1 \/ q - p = 0)
  BY <1>1
<1>5. /\ \A k \in Int : k >= 1 => c * k >= c
      /\ \A k \in Int : k <= -1 => c * k <= -c
  OBVIOUS
<1>6. q = p
  BY <1>1, <1>2, <1>3, <1>4, <1>5
<1>7. s = r
  BY <1>1, <1>6
<1> QED BY <1>7 DEF s

(* i places behind a, in a table of cap buckets.                            *)
Turn(a, i, cap) == IF a + i < cap THEN a + i ELSE a + i - cap

LEMMA RemainderPlus ==
  ASSUME NEW x \in Nat, NEW c \in Nat \ {0}, NEW i \in 0 .. c
  PROVE  x % c \in 0 .. c - 1 /\ (x + i) % c = Turn(x % c, i, c)
<1> DEFINE q == x \div c
           r == x % c
<1>1. r \in 0 .. c - 1 /\ q \in Nat /\ x = c * q + r
  OBVIOUS
<1> HIDE DEF q, r
<1>2. CASE r + i < c
  <2>1. x + i = c * q + (r + i) /\ r + i \in 0 .. c - 1 /\ x + i \in Nat
    BY <1>1, <1>2
  <2>2. (x + i) % c = r + i
    BY <2>1, <1>1, RemainderIs
  <2> QED BY <1>1, <1>2, <2>2 DEF Turn, r
<1>3. CASE ~(r + i < c)
  <2>1. x + i = c * (q + 1) + (r + i - c) /\ r + i - c \in 0 .. c - 1 /\ x + i \in Nat
        /\ q + 1 \in Int
    BY <1>1, <1>3
  <2>2. (x + i) % c = r + i - c
    BY <2>1, RemainderIs
  <2> QED BY <1>1, <1>3, <2>2 DEF Turn, r
<1> QED BY <1>2, <1>3

(* Wrapping in a word that the capacity divides changes no bucket.          *)
LEMMA RemainderInWord ==
  ASSUME NEW x \in Nat, NEW c \in Nat \ {0}, NEW w \in Nat \ {0}, w % c = 0
  PROVE  (x % w) % c = x % c
<1> DEFINE s == x % w
           p == x \div w
           m == w \div c
           t == s \div c
           u == s % c
<1>1. m \in Nat /\ w = c * m + (w % c)
  OBVIOUS
<1>2. p \in Nat /\ s \in Nat /\ x = w * p + s
  OBVIOUS
<1>3. t \in Nat /\ u \in 0 .. c - 1 /\ s = c * t + u
  BY <1>2
<1> HIDE DEF s, p, m, t, u
<1>4. w = c * m
  BY <1>1
<1>5. x = c * (m * p + t) + u
  BY <1>1, <1>2, <1>3, <1>4
<1>6. m * p + t \in Int
  BY <1>1, <1>2, <1>3
<1>7. x % c = u
  BY <1>3, <1>5, <1>6, RemainderIs
<1> QED BY <1>7 DEF s, u

LEMMA LoadGrows ==
  ASSUME NEW n \in Nat, NEW m \in Nat, n <= m, NEW c \in Nat \ {0}
  PROVE  Load(n, c) <= Load(m, c) /\ Load(n, c) \in Nat /\ Load(0, c) = 0
<1>1. \A a \in Nat : (a * 100) \div c \in Nat
  OBVIOUS
<1>2. (n * 100) \div c <= (m * 100) \div c
  OBVIOUS
<1>3. (0 * 100) \div c = 0
  OBVIOUS
<1> QED BY <1>1, <1>2, <1>3 DEF Load

-----------------------------------------------------------------------------
(* Probe sequences.                                                         *)

Home(h, k, cap) == h[k] % cap

(* How far j is behind a.                                                   *)
Dist(a, j, cap) == IF j >= a THEN j - a ELSE j - a + cap

(* The buckets that a probe for k passes on the way to bucket j.            *)
Before(h, k, j, cap) ==
  {x \in 0 .. cap - 1 : Dist(Home(h, k, cap), x, cap) < Dist(Home(h, k, cap), j, cap)}

LEMMA SizeFacts ==
  ASSUME NEW cap \in Size
  PROVE  cap \in Nat /\ cap >= 2 /\ cap >= InitSize /\ HashWord % cap = 0
<1>1. cap \in Nat /\ cap >= InitSize /\ HashWord % cap = 0
  BY HashTableAssumption
<1>2. InitSize \in Nat /\ InitSize * (100 - High) >= 100 /\ High \in 1 .. 100
  BY HashTableAssumption
<1>3. InitSize # 0 /\ InitSize # 1
  BY <1>2
<1> QED BY <1>1, <1>2, <1>3

LEMMA TurnFacts ==
  ASSUME NEW cap \in Nat \ {0}, NEW a \in 0 .. cap - 1
  PROVE  /\ \A i \in 0 .. cap - 1 : Turn(a, i, cap) \in 0 .. cap - 1 /\ Dist(a, Turn(a, i, cap), cap) = i
         /\ \A j \in 0 .. cap - 1 : Dist(a, j, cap) \in 0 .. cap - 1 /\ Turn(a, Dist(a, j, cap), cap) = j
BY DEF Turn, Dist

(* hashtable_put and hashtable_get reduce the wrapped sum, hashtable_remove *)
(* the hash: they probe the same buckets.                                   *)
LEMMA ProbeFacts ==
  ASSUME hash \in [Key -> HashValue], NEW cap \in Size, NEW k \in Key
  PROVE  /\ Home(hash, k, cap) \in 0 .. cap - 1
         /\ \A i \in 0 .. cap - 1 :
              /\ Probe(k, i, cap) = Turn(Home(hash, k, cap), i, cap)
              /\ RemoveProbe(k, i, cap) = Turn(Home(hash, k, cap), i, cap)
<1>1. cap \in Nat \ {0} /\ HashWord \in Nat \ {0} /\ HashWord % cap = 0 /\ hash[k] \in Nat
  <2>1. hash[k] \in 0 .. HashWord - 1
    BY HashTableAssumption, Zenon
  <2>2. HashWord \in Nat \ {0}
    BY HashTableAssumption
  <2>3. hash[k] \in Nat
    BY <2>1, <2>2
  <2> QED BY <2>2, <2>3, SizeFacts
<1> DEFINE x == hash[k]
           a == x % cap
<1>2. x \in Nat
  BY <1>1
<1> HIDE DEF x
<1>3. a \in 0 .. cap - 1 /\ a \in Nat
  BY <1>1, <1>2
<1>4. ASSUME NEW i \in 0 .. cap - 1
      PROVE  ((x + i) % HashWord) % cap = Turn(a, i, cap) /\ (a + i) % cap = Turn(a, i, cap)
  <2>1. i \in 0 .. cap /\ x + i \in Nat
    BY <1>1, <1>2
  <2>2. ((x + i) % HashWord) % cap = (x + i) % cap
    BY <1>1, <2>1, RemainderInWord
  <2>3. (x + i) % cap = Turn(a, i, cap)
    BY <1>1, <1>2, <2>1, RemainderPlus
  <2>4. (a + i) % cap = Turn(a % cap, i, cap) /\ a % cap = a
    <3> HIDE DEF a
    <3>1. a + i \in Nat /\ a % cap = a
      BY <1>1, <1>3
    <3> QED BY <1>1, <1>3, <2>1, <3>1, RemainderPlus
  <2> QED BY <2>2, <2>3, <2>4
<1> QED BY <1>3, <1>4 DEF Home, Probe, RemoveProbe, x

-----------------------------------------------------------------------------
(* Tables.                                                                  *)

Buckets(cap) == [0 .. cap - 1 -> Entry \cup {Absent}]
Entries(b) == {b[j] : j \in DOMAIN b} \ {Absent}

(* No key is in two buckets.                                                *)
Single(b) ==
  \A i, j \in DOMAIN b : b[i] # Absent /\ b[j] # Absent /\ b[i].key = b[j].key => i = j

(* No entry is behind an empty bucket.                                      *)
Linked(h, b, cap) ==
  \A j \in 0 .. cap - 1 : b[j] # Absent =>
    \A x \in Before(h, b[j].key, j, cap) : b[x] # Absent

LEMMA EntryFacts == \A e \in Entry : e # Absent /\ e.key \in Key /\ e.val \in Val
BY HashTableAssumption DEF Entry

LEMMA BucketFacts ==
  ASSUME NEW cap \in Size, NEW b \in Buckets(cap)
  PROVE  /\ DOMAIN b = 0 .. cap - 1 /\ cap \in Nat /\ cap >= 2
         /\ \A j \in 0 .. cap - 1 : b[j] # Absent => b[j] \in Entry /\ b[j].key \in Key
<1>1. b \in [0 .. cap - 1 -> Entry \cup {Absent}]
  BY DEF Buckets
<1> QED BY <1>1, SizeFacts, EntryFacts

(* Distances order the buckets.                                             *)
LEMMA DistFacts ==
  ASSUME NEW cap \in Nat \ {0}, NEW a \in 0 .. cap - 1
  PROVE  /\ Dist(a, a, cap) = 0
         /\ \A x \in 0 .. cap - 1 : Dist(a, x, cap) \in 0 .. cap - 1
         /\ \A x, y \in 0 .. cap - 1 : Dist(a, x, cap) = Dist(a, y, cap) => x = y
         /\ \A x, y \in 0 .. cap - 1 : Dist(a, x, cap) <= Dist(a, y, cap) =>
              Dist(a, y, cap) = Dist(a, x, cap) + Dist(x, y, cap)
BY DEF Dist

(* The bucket where a probe for k stops.                                    *)
StopsAt(h, b, cap, k, s) ==
  /\ s \in 0 .. cap - 1 /\ (b[s] = Absent \/ b[s].key = k)
  /\ \A x \in Before(h, k, s, cap) : b[x] # Absent /\ b[x].key # k

LEMMA FirstStop ==
  ASSUME hash \in [Key -> HashValue], NEW cap \in Size, NEW b \in Buckets(cap), NEW k \in Key,
         \E j \in 0 .. cap - 1 : b[j] = Absent \/ b[j].key = k
  PROVE  /\ Stops(b, cap, k) # {}
         /\ StopsAt(hash, b, cap, k, Probe(k, Min(Stops(b, cap, k)), cap))
<1> DEFINE a == Home(hash, k, cap)
           S == Stops(b, cap, k)
<1>1. /\ cap \in Nat \ {0} /\ a \in 0 .. cap - 1
      /\ \A i \in 0 .. cap - 1 : Probe(k, i, cap) = Turn(a, i, cap)
  BY SizeFacts, ProbeFacts
<1> HIDE DEF a
<1>2. /\ \A i \in 0 .. cap - 1 : Turn(a, i, cap) \in 0 .. cap - 1 /\ Dist(a, Turn(a, i, cap), cap) = i
      /\ \A j \in 0 .. cap - 1 : Dist(a, j, cap) \in 0 .. cap - 1 /\ Turn(a, Dist(a, j, cap), cap) = j
  BY <1>1, TurnFacts
<1>3. \A i : i \in S <=> /\ i \in 0 .. cap - 1
                         /\ b[Turn(a, i, cap)] = Absent \/ b[Turn(a, i, cap)].key = k
  BY <1>1 DEF Stops, KeyAt
<1> HIDE DEF S
<1>4. S # {} /\ S \in SUBSET Nat
  <2>1. PICK j \in 0 .. cap - 1 : b[j] = Absent \/ b[j].key = k
    OBVIOUS
  <2>2. Dist(a, j, cap) \in S
    BY <1>2, <1>3, <2>1
  <2> QED BY <1>1, <1>3, <2>2
<1>5. Min(S) \in S /\ \A i \in S : Min(S) <= i
  <2>1. \E n \in S : \A m \in S : n <= m
    BY <1>4, Data!LeastElement
  <2> QED BY <2>1 DEF Min
<1> DEFINE m == Min(S)
           s == Turn(a, m, cap)
<1> HIDE DEF m
<1>6. m \in 0 .. cap - 1 /\ (b[s] = Absent \/ b[s].key = k) /\ s \in 0 .. cap - 1 /\ Dist(a, s, cap) = m
  BY <1>2, <1>3, <1>5 DEF m
<1>7. ASSUME NEW x \in Before(hash, k, s, cap) PROVE b[x] # Absent /\ b[x].key # k
  <2>1. x \in 0 .. cap - 1 /\ Dist(a, x, cap) < m
    BY <1>6 DEF Before, a
  <2>2. Dist(a, x, cap) \in 0 .. cap - 1 /\ Turn(a, Dist(a, x, cap), cap) = x
    BY <1>2, <2>1
  <2>3. Dist(a, x, cap) \notin S
    BY <1>5, <1>6, <2>1, <2>2 DEF m
  <2> QED BY <1>3, <2>2, <2>3
<1>8. Probe(k, m, cap) = s
  BY <1>1, <1>6
<1> QED BY <1>4, <1>6, <1>7, <1>8 DEF StopsAt, S, m

(* Where the probe stops, the table says whether it holds the key.          *)
LEMMA StopTells ==
  ASSUME NEW cap \in Size, NEW b \in Buckets(cap), NEW h \in [Key -> HashValue],
         NEW k \in Key, NEW s, StopsAt(h, b, cap, k, s), Linked(h, b, cap),
         Home(h, k, cap) \in 0 .. cap - 1, b[s] = Absent
  PROVE  \A j \in 0 .. cap - 1 : b[j] # Absent => b[j].key # k
<1> SUFFICES ASSUME NEW j \in 0 .. cap - 1, b[j] # Absent, b[j].key = k PROVE FALSE
  OBVIOUS
<1> DEFINE a == Home(h, k, cap)
<1>1. cap \in Nat \ {0} /\ a \in 0 .. cap - 1 /\ s \in 0 .. cap - 1
  BY SizeFacts DEF StopsAt
<1>2. \A x \in 0 .. cap - 1 : Dist(a, x, cap) < Dist(a, s, cap) => b[x].key # k
  BY DEF StopsAt, Before
<1>3. \A x \in 0 .. cap - 1 : Dist(a, x, cap) < Dist(a, j, cap) => b[x] # Absent
  BY DEF Linked, Before
<1> HIDE DEF a
<1>4. /\ Dist(a, j, cap) \in 0 .. cap - 1 /\ Dist(a, s, cap) \in 0 .. cap - 1
      /\ Dist(a, j, cap) # Dist(a, s, cap)
  <2>1. j # s
    OBVIOUS
  <2>2. \A x \in 0 .. cap - 1 : Dist(a, x, cap) \in 0 .. cap - 1
    BY <1>1, DistFacts
  <2>3. \A x, y \in 0 .. cap - 1 : Dist(a, x, cap) = Dist(a, y, cap) => x = y
    BY <1>1, DistFacts
  <2> QED BY <1>1, <2>1, <2>2, <2>3
<1>5. ~(Dist(a, j, cap) < Dist(a, s, cap)) /\ ~(Dist(a, s, cap) < Dist(a, j, cap))
  BY <1>1, <1>2, <1>3
<1> QED BY <1>4, <1>5

-----------------------------------------------------------------------------
(* Writing a bucket.                                                        *)

Written(b, s, e) == [b EXCEPT ![s] = e]

LEMMA OccupiedFacts ==
  ASSUME NEW cap \in Size, NEW b \in Buckets(cap)
  PROVE  /\ Occupied(b) \in 0 .. cap
         /\ Occupied(b) < cap => \E j \in 0 .. cap - 1 : b[j] = Absent
         /\ \A s \in 0 .. cap - 1 :
              Occupied(b) + 1 < cap => \E j \in 0 .. cap - 1 : j # s /\ b[j] = Absent
<1> DEFINE O == {j \in 0 .. cap - 1 : b[j] # Absent}
           N == 0 .. cap - 1
<1>1. cap \in Nat /\ cap >= 2 /\ Occupied(b) = Cardinality(O)
  BY BucketFacts DEF Occupied
<1>2. IsFiniteSet(N) /\ Cardinality(N) = cap
  <2>1. 0 \in Int /\ cap - 1 \in Int /\ ~(0 > cap - 1) /\ cap - 1 - 0 + 1 = cap
    BY <1>1
  <2> QED BY <2>1, FS_Interval
<1>3. IsFiniteSet(O) /\ Cardinality(O) \in Nat /\ Cardinality(O) <= cap
  <2>1. O \subseteq N
    OBVIOUS
  <2> QED BY <1>2, <2>1, FS_Subset, FS_CardinalityType
<1>4. ASSUME \A j \in 0 .. cap - 1 : b[j] # Absent PROVE ~(Occupied(b) < cap)
  <2>1. O = N
    BY <1>4
  <2>2. Occupied(b) = cap
    BY <1>1, <1>2, <2>1, Zenon
  <2> QED BY <1>1, <2>2
<1>5. ASSUME NEW s \in 0 .. cap - 1, \A j \in 0 .. cap - 1 : j # s => b[j] # Absent
      PROVE  ~(Occupied(b) + 1 < cap)
  <2>1. N \subseteq O \cup {s}
    BY <1>5
  <2>2. IsFiniteSet(O \cup {s})
    BY <1>3, FS_AddElement
  <2>3. Cardinality(O \cup {s}) \in {Cardinality(O), Cardinality(O) + 1}
    BY <1>3, FS_AddElement
  <2>4. cap <= Cardinality(O \cup {s})
    <3> HIDE DEF O, N
    <3> QED BY <1>2, <2>1, <2>2, FS_Subset
  <2> QED BY <1>1, <1>3, <2>3, <2>4
<1>6. Occupied(b) \in 0 .. cap
  <2> HIDE DEF O
  <2> QED BY <1>1, <1>3
<1>7. Occupied(b) < cap => \E j \in 0 .. cap - 1 : b[j] = Absent
  BY <1>4, Zenon
<1>8. \A s \in 0 .. cap - 1 :
        Occupied(b) + 1 < cap => \E j \in 0 .. cap - 1 : j # s /\ b[j] = Absent
  BY <1>5, Zenon
<1> QED BY <1>6, <1>7, <1>8

LEMMA OccupiedWrite ==
  ASSUME NEW cap \in Size, NEW b \in Buckets(cap), NEW s \in 0 .. cap - 1
  PROVE  /\ \A e \in Entry : Occupied(Written(b, s, e)) =
              IF b[s] = Absent THEN Occupied(b) + 1 ELSE Occupied(b)
         /\ Occupied(Written(b, s, Absent)) =
              IF b[s] = Absent THEN Occupied(b) ELSE Occupied(b) - 1
<1> DEFINE O == {j \in 0 .. cap - 1 : b[j] # Absent}
<1>1. b \in [0 .. cap - 1 -> Entry \cup {Absent}] /\ DOMAIN b = 0 .. cap - 1
  BY BucketFacts DEF Buckets
<1>2. IsFiniteSet(O) /\ Occupied(b) = Cardinality(O) /\ Cardinality(O) \in Nat
  <2>1. IsFiniteSet(0 .. cap - 1) /\ O \subseteq 0 .. cap - 1
    BY SizeFacts, FS_Interval
  <2> QED BY <1>1, <2>1, FS_Subset, FS_CardinalityType DEF Occupied
<1>3. /\ s \notin O => Cardinality(O \cup {s}) = Cardinality(O) + 1
      /\ s \in O => O \cup {s} = O
  BY <1>2, FS_AddElement
<1>4. /\ s \in O => Cardinality(O \ {s}) = Cardinality(O) - 1
      /\ s \notin O => O \ {s} = O
  BY <1>2, FS_RemoveElement
<1>5. ASSUME NEW e \in Entry
      PROVE  Occupied(Written(b, s, e)) = IF b[s] = Absent THEN Occupied(b) + 1 ELSE Occupied(b)
  <2> DEFINE new == Written(b, s, e)
  <2>1. DOMAIN new = 0 .. cap - 1 /\ new[s] = e /\ \A j \in 0 .. cap - 1 : j # s => new[j] = b[j]
    BY <1>1 DEF Written
  <2>2. {j \in DOMAIN new : new[j] # Absent} = O \cup {s}
    <3> HIDE DEF new
    <3> QED BY <2>1, EntryFacts
  <2>3. Occupied(new) = Cardinality(O \cup {s})
    BY <2>2 DEF Occupied
  <2> QED BY <1>2, <1>3, <2>3
<1>6. Occupied(Written(b, s, Absent)) = IF b[s] = Absent THEN Occupied(b) ELSE Occupied(b) - 1
  <2> DEFINE new == Written(b, s, Absent)
  <2>1. DOMAIN new = 0 .. cap - 1 /\ new[s] = Absent
        /\ \A j \in 0 .. cap - 1 : j # s => new[j] = b[j]
    BY <1>1 DEF Written
  <2>2. {j \in DOMAIN new : new[j] # Absent} = O \ {s}
    <3> HIDE DEF new
    <3> QED BY <2>1
  <2>3. Occupied(new) = Cardinality(O \ {s})
    BY <2>2 DEF Occupied
  <2> QED BY <1>2, <1>4, <2>3
<1> QED BY <1>5, <1>6

(* hashtable_put writes the entry where the probe stops.                    *)
LEMMA InsertMeans ==
  ASSUME hash \in [Key -> HashValue], NEW cap \in Size, NEW b \in Buckets(cap),
         NEW e \in Entry, Occupied(b) < cap
  PROVE  \E s : StopsAt(hash, b, cap, e.key, s) /\ Insert(b, cap, e) = Written(b, s, e)
<1> DEFINE s == Probe(e.key, Min(Stops(b, cap, e.key)), cap)
<1>1. e.key \in Key /\ \E j \in 0 .. cap - 1 : b[j] = Absent \/ b[j].key = e.key
  BY EntryFacts, OccupiedFacts
<1>2. Stops(b, cap, e.key) # {} /\ StopsAt(hash, b, cap, e.key, s)
  BY <1>1, FirstStop
<1>3. Insert(b, cap, e) = Written(b, s, e)
  BY <1>2 DEF Insert, Written
<1> HIDE DEF s
<1> QED BY <1>2, <1>3

(* What that does to the entries, when the key is nowhere else.             *)
LEMMA PutEntries ==
  ASSUME NEW cap \in Size, NEW b \in Buckets(cap), NEW e \in Entry, NEW s \in 0 .. cap - 1,
         Single(b), \A j \in 0 .. cap - 1 : b[j] # Absent /\ b[j].key = e.key => j = s,
         b[s] = Absent \/ b[s].key = e.key
  PROVE  LET new == Written(b, s, e) IN
         /\ new \in Buckets(cap) /\ Single(new)
         /\ Entries(new) = {f \in Entries(b) : f.key # e.key} \cup {e}
<1> DEFINE new == Written(b, s, e)
<1>1. /\ b \in [0 .. cap - 1 -> Entry \cup {Absent}] /\ DOMAIN b = 0 .. cap - 1
      /\ new \in [0 .. cap - 1 -> Entry \cup {Absent}] /\ DOMAIN new = 0 .. cap - 1
      /\ new[s] = e /\ \A j \in 0 .. cap - 1 : j # s => new[j] = b[j]
  BY BucketFacts DEF Buckets, Written
<1> HIDE DEF new
<1>2. Single(new)
  BY <1>1 DEF Single
<1>3. ASSUME NEW f
      PROVE  f \in Entries(new) <=> f \in {g \in Entries(b) : g.key # e.key} \cup {e}
  <2>1. ASSUME f \in Entries(new) PROVE f \in {g \in Entries(b) : g.key # e.key} \cup {e}
    BY <1>1, <2>1 DEF Entries
  <2>2. ASSUME f \in Entries(b), f.key # e.key PROVE f \in Entries(new)
    <3>1. PICK j \in 0 .. cap - 1 : f = b[j] /\ f # Absent
      BY <1>1, <2>2 DEF Entries
    <3>2. j # s
      BY <2>2, <3>1
    <3> QED BY <1>1, <3>1, <3>2 DEF Entries
  <2>3. e \in Entries(new)
    BY <1>1, EntryFacts DEF Entries
  <2> QED BY <2>1, <2>2, <2>3
<1> QED BY <1>1, <1>2, <1>3 DEF Buckets, new

(* A write where the probe stops keeps the chains.                          *)
LEMMA PutLinked ==
  ASSUME NEW cap \in Size, NEW b \in Buckets(cap), NEW e \in Entry, NEW h, NEW s,
         StopsAt(h, b, cap, e.key, s), Linked(h, b, cap)
  PROVE  Linked(h, Written(b, s, e), cap)
<1> DEFINE new == Written(b, s, e)
<1>1. /\ s \in 0 .. cap - 1 /\ \A x \in Before(h, e.key, s, cap) : b[x] # Absent
  BY DEF StopsAt
<1>2. /\ new[s] = e /\ \A j \in 0 .. cap - 1 : j # s => new[j] = b[j]
  BY <1>1 DEF Buckets, Written
<1> HIDE DEF new
<1>3. \A j \in 0 .. cap - 1 : b[j] # Absent => new[j] # Absent
  BY <1>2, EntryFacts
<1> SUFFICES ASSUME NEW j \in 0 .. cap - 1, new[j] # Absent,
                    NEW x \in Before(h, new[j].key, j, cap)
             PROVE  new[x] # Absent
  BY DEF Linked, new
<1>4. x \in 0 .. cap - 1
  BY DEF Before
<1>5. CASE j = s
  BY <1>1, <1>2, <1>3, <1>4, <1>5
<1>6. CASE j # s
  BY <1>2, <1>3, <1>4, <1>6 DEF Linked
<1> QED BY <1>5, <1>6

-----------------------------------------------------------------------------
(* The load.                                                                *)

(* What every put leaves: before its entry came, the load was below High.   *)
Light(n, cap) == n > 0 => Load(n - 1, cap) < High

LEMMA LoadBelow ==
  ASSUME NEW n \in Nat, NEW c \in Nat \ {0}, NEW m \in Nat
  PROVE  Load(n, c) < m <=> n * 100 < m * c
<1> DEFINE x == n * 100
           q == x \div c
           r == x % c
<1>1. q \in Nat /\ r \in 0 .. c - 1 /\ x = c * q + r /\ x \in Nat
  OBVIOUS
<1> HIDE DEF x, q, r
<1>2. ASSUME q < m PROVE x < m * c
  <2>1. \A a, d \in Nat : a <= d => c * a <= d * c
    OBVIOUS
  <2>2. c * (q + 1) <= m * c /\ c * (q + 1) = c * q + c
    BY <1>1, <1>2, <2>1
  <2> QED BY <1>1, <2>2
<1>3. ASSUME ~(q < m) PROVE ~(x < m * c)
  <2>1. \A a, d \in Nat : a <= d => a * c <= c * d
    OBVIOUS
  <2>2. m * c <= c * q
    BY <1>1, <1>3, <2>1
  <2>3. m * c \in Int /\ c * q \in Int
    BY <1>1
  <2> QED BY <1>1, <2>2, <2>3
<1> QED BY <1>2, <1>3 DEF Load, x, q

(* A light table has an empty bucket.                                       *)
LEMMA LightRoom ==
  ASSUME NEW cap \in Size, NEW n \in Nat
  PROVE  Light(n, cap) => n < cap
<1> SUFFICES ASSUME Light(n, cap), ~(n < cap) PROVE FALSE
  OBVIOUS
<1>1. cap \in Nat /\ cap >= 2 /\ cap >= InitSize
  BY SizeFacts
<1>2. /\ InitSize \in Nat /\ High \in Nat /\ 100 - High \in Nat
      /\ InitSize * (100 - High) >= 100
  BY HashTableAssumption
<1>3. n - 1 \in Nat /\ Load(n - 1, cap) < High /\ n - 1 >= cap - 1
  BY <1>1 DEF Light
<1>4. (n - 1) * 100 < High * cap
  BY <1>1, <1>2, <1>3, LoadBelow
<1>5. (cap - 1) * 100 < High * cap
  BY <1>1, <1>2, <1>3, <1>4
<1>6. \A d \in Nat : cap * d >= InitSize * d
  BY <1>1, <1>2
<1>7. cap * (100 - High) >= 100
  BY <1>1, <1>2, <1>6
<1>8. cap * (100 - High) = cap * 100 - High * cap
  BY <1>1, <1>2
<1> QED BY <1>1, <1>2, <1>5, <1>7, <1>8

LEMMA LightFacts ==
  ASSUME NEW cap \in Size, NEW n \in Nat
  PROVE  /\ Load(n, cap) < High => Light(n, cap) /\ Light(n + 1, cap) /\ n + 1 < cap
         /\ Light(n + 1, cap) => Load(n, cap) < High
         /\ \A m \in 0 .. n : Load(n, cap) < High => Load(m, cap) < High
<1>1. cap \in Nat \ {0} /\ High \in Nat
  BY SizeFacts, HashTableAssumption
<1>2. \A m \in 0 .. n : Load(m, cap) <= Load(n, cap) /\ Load(m, cap) \in Nat /\ Load(n, cap) \in Nat
  BY <1>1, LoadGrows
<1>3. n + 1 - 1 = n /\ n + 1 > 0 /\ n + 1 \in Nat
  OBVIOUS
<1>4. Light(n + 1, cap) <=> Load(n, cap) < High
  BY <1>3 DEF Light
<1>5. \A m \in 0 .. n : Load(n, cap) < High => Load(m, cap) < High
  BY <1>1, <1>2
<1>6. Load(n, cap) < High => Light(n, cap)
  <2> SUFFICES ASSUME n > 0, Load(n, cap) < High PROVE Load(n - 1, cap) < High
    BY DEF Light
  <2>1. n - 1 \in 0 .. n
    OBVIOUS
  <2> QED BY <1>5, <2>1
<1>7. Light(n + 1, cap) => n + 1 < cap
  BY <1>3, LightRoom
<1> QED BY <1>4, <1>5, <1>6, <1>7

(* A table has no more entries than there are keys.                         *)
LEMMA FewEntries ==
  ASSUME NEW cap \in Size, NEW b \in Buckets(cap), Single(b)
  PROVE  Occupied(b) <= Cardinality(Key) /\ Cardinality(Key) \in Nat
<1> DEFINE O == {j \in DOMAIN b : b[j] # Absent}
           f == [j \in O |-> b[j].key]
<1>1. IsFiniteSet(Key) /\ Cardinality(Key) \in Nat
  BY HashTableAssumption, FS_CardinalityType
<1>2. f \in Injection(O, Key)
  BY BucketFacts DEF Single, Injection, IsInjective
<1>3. Cardinality(O) <= Cardinality(Key)
  <2> HIDE DEF O, f
  <2> QED BY <1>1, <1>2, FS_Injection
<1> QED BY <1>1, <1>3 DEF Occupied

LEMMA GrownFacts ==
  ASSUME NEW cap \in Size, NEW n \in Nat, n <= Cardinality(Key)
  PROVE  /\ Grown(n, cap) \in Size
         /\ Load(n, Grown(n, cap)) < High
<1>1. /\ Cardinality(Key) \in Nat /\ Low \in Nat /\ High \in Nat /\ Low <= High
      /\ \E c \in Size : Cardinality(Key) * 100 < Low * c
  BY HashTableAssumption, FS_CardinalityType
<1>2. PICK c \in Size : Cardinality(Key) * 100 < Low * c
  BY <1>1
<1>3. \A d \in Size : d \in Nat /\ d # 0
  BY SizeFacts
<1>4. n * 100 < Low * c
  <2>1. Low * c \in Nat
    BY <1>1, <1>3
  <2> QED BY <1>1, <1>2, <2>1
<1>5. \E d \in Size : d >= cap /\ Load(n, d) < Low
  <2>1. CASE c >= cap
    BY <1>1, <1>3, <1>4, <2>1, LoadBelow
  <2>2. CASE ~(c >= cap)
    <3>1. \A x, y \in Nat : x <= y => Low * x <= Low * y
      BY <1>1
    <3>2. Low * c <= Low * cap /\ Low * c \in Nat /\ Low * cap \in Nat
      BY <1>1, <1>3, <2>2, <3>1
    <3>3. Load(n, cap) < Low
      BY <1>1, <1>3, <1>4, <3>2, LoadBelow
    <3> QED BY <1>3, <3>3
  <2> QED BY <2>1, <2>2
<1> DEFINE S == {d \in Size : d >= cap /\ Load(n, d) < Low}
<1>6. S # {} /\ S \in SUBSET Nat
  BY <1>3, <1>5
<1>7. Min(S) \in S
  <2> HIDE DEF S
  <2>1. \E x \in S : \A m \in S : x <= m
    BY <1>6, Data!LeastElement
  <2> QED BY <2>1 DEF Min
<1>8. Grown(n, cap) \in S
  BY <1>7 DEF Grown
<1>9. Grown(n, cap) \in Size /\ Load(n, Grown(n, cap)) < Low
  BY <1>8
<1>10. Load(n, Grown(n, cap)) \in Nat
  BY <1>3, <1>9, LoadGrows
<1> QED BY <1>1, <1>9, <1>10

-----------------------------------------------------------------------------
(* Inserting into a sound table, and rehashing one.                         *)

Empty(cap) == [i \in 0 .. cap - 1 |-> Absent]

LEMMA EmptyFacts ==
  ASSUME NEW cap \in Size, NEW h
  PROVE  /\ Empty(cap) \in Buckets(cap) /\ Single(Empty(cap)) /\ Linked(h, Empty(cap), cap)
         /\ Entries(Empty(cap)) = {} /\ Occupied(Empty(cap)) = 0
<1>1. \A j \in 0 .. cap - 1 : Empty(cap)[j] = Absent
  BY DEF Empty
<1>2. DOMAIN Empty(cap) = 0 .. cap - 1 /\ Empty(cap) \in Buckets(cap)
  BY DEF Empty, Buckets
<1>3. Single(Empty(cap)) /\ Linked(h, Empty(cap), cap)
  BY <1>1, <1>2 DEF Single, Linked
<1>4. Entries(Empty(cap)) = {}
  BY <1>1, <1>2 DEF Entries
<1>5. {j \in DOMAIN Empty(cap) : Empty(cap)[j] # Absent} = {}
  BY <1>1, <1>2
<1> QED BY <1>2, <1>3, <1>4, <1>5, FS_EmptySet DEF Occupied

(* Where a sound table holds the key, or would.                             *)
LEMMA OnlyThere ==
  ASSUME hash \in [Key -> HashValue], NEW cap \in Size, NEW b \in Buckets(cap), NEW k \in Key,
         Single(b), Linked(hash, b, cap), NEW s, StopsAt(hash, b, cap, k, s)
  PROVE  \A j \in 0 .. cap - 1 : b[j] # Absent /\ b[j].key = k => j = s /\ b[s] # Absent
<1>1. Home(hash, k, cap) \in 0 .. cap - 1 /\ s \in 0 .. cap - 1 /\ DOMAIN b = 0 .. cap - 1
  BY ProbeFacts, BucketFacts DEF StopsAt
<1>2. CASE b[s] = Absent
  BY <1>1, <1>2, StopTells
<1>3. CASE b[s] # Absent
  BY <1>1, <1>3 DEF StopsAt, Single
<1> QED BY <1>2, <1>3

LEMMA InsertFacts ==
  ASSUME hash \in [Key -> HashValue], NEW cap \in Size, NEW b \in Buckets(cap),
         NEW e \in Entry, Occupied(b) < cap, Single(b), Linked(hash, b, cap)
  PROVE  LET new == Insert(b, cap, e) IN
         /\ new \in Buckets(cap) /\ Single(new) /\ Linked(hash, new, cap)
         /\ Entries(new) = {f \in Entries(b) : f.key # e.key} \cup {e}
         /\ Occupied(new) \in {Occupied(b), Occupied(b) + 1}
<1> DEFINE new == Insert(b, cap, e)
<1>1. PICK s : StopsAt(hash, b, cap, e.key, s) /\ new = Written(b, s, e)
  BY InsertMeans
<1>2. s \in 0 .. cap - 1 /\ (b[s] = Absent \/ b[s].key = e.key) /\ e.key \in Key
  BY <1>1, EntryFacts DEF StopsAt
<1>3. \A j \in 0 .. cap - 1 : b[j] # Absent /\ b[j].key = e.key => j = s
  BY <1>1, <1>2, OnlyThere
<1> DEFINE put == Written(b, s, e)
<1>4. /\ put \in Buckets(cap) /\ Single(put)
      /\ Entries(put) = {f \in Entries(b) : f.key # e.key} \cup {e}
  BY <1>2, <1>3, PutEntries
<1>5. Linked(hash, put, cap)
  BY <1>1, PutLinked
<1>6. Occupied(put) \in {Occupied(b), Occupied(b) + 1}
  <2>1. Occupied(put) = IF b[s] = Absent THEN Occupied(b) + 1 ELSE Occupied(b)
    BY <1>2, OccupiedWrite
  <2> HIDE DEF put
  <2> QED BY <2>1
<1> HIDE DEF put
<1> QED BY <1>1, <1>4, <1>5, <1>6 DEF put

(* The copy loop of rehash, and the table it has made of the first n        *)
(* buckets.                                                                 *)
CopyStep(t, e, new) == IF e # Absent THEN Insert(t, new, e) ELSE t

IsCopy(f, b, n, new) ==
  f = [j \in 0 .. n |-> IF j = 0 THEN Empty(new) ELSE CopyStep(f[j - 1], b[j - 1], new)]

LEMMA CopyExists ==
  ASSUME NEW b, NEW new
  PROVE  \A n \in Nat : \E f : IsCopy(f, b, n, new)
<1> DEFINE G == {n \in Nat : \E f : IsCopy(f, b, n, new)}
<1>1. 0 \in G
  <2> DEFINE f == [j \in 0 .. 0 |-> Empty(new)]
  <2>1. f = [j \in 0 .. 0 |-> IF j = 0 THEN Empty(new) ELSE CopyStep(f[j - 1], b[j - 1], new)]
    OBVIOUS
  <2> QED BY <2>1 DEF IsCopy
<1>2. ASSUME NEW n \in Nat, n \in G PROVE n + 1 \in G
  <2>1. PICK f : IsCopy(f, b, n, new)
    BY <1>2
  <2> DEFINE g == [j \in 0 .. n + 1 |->
                     IF j = n + 1 THEN CopyStep(f[n], b[n], new) ELSE f[j]]
  <2>2. f = [j \in 0 .. n |-> IF j = 0 THEN Empty(new) ELSE CopyStep(f[j - 1], b[j - 1], new)]
    BY <2>1 DEF IsCopy
  <2>3. ASSUME NEW j \in 0 .. n + 1
        PROVE  g[j] = IF j = 0 THEN Empty(new) ELSE CopyStep(g[j - 1], b[j - 1], new)
    <3>1. CASE j = 0
      BY <2>2, <3>1
    <3>2. CASE j \in 1 .. n
      <4>1. g[j] = f[j] /\ g[j - 1] = f[j - 1]
        BY <3>2
      <4>2. f[j] = CopyStep(f[j - 1], b[j - 1], new)
        BY <2>2, <3>2
      <4> QED BY <3>2, <4>1, <4>2
    <3>3. CASE j = n + 1
      <4>1. g[j] = CopyStep(f[n], b[n], new) /\ g[n] = f[n] /\ j - 1 = n /\ j # 0
        BY <3>3
      <4> QED BY <4>1
    <3> QED BY <3>1, <3>2, <3>3
  <2>4. IsCopy(g, b, n + 1, new)
    <3>1. g = [j \in 0 .. n + 1 |-> g[j]]
      OBVIOUS
    <3> HIDE DEF g
    <3> QED BY <2>3, <3>1 DEF IsCopy
  <2> QED BY <2>4
<1>3. Nat \subseteq G
  <2> HIDE DEF G
  <2> QED BY <1>1, <1>2, Data!SetInduction
<1> QED BY <1>3

LEMMA RehashedIsCopy ==
  ASSUME NEW b, NEW cap \in Nat, NEW new
  PROVE  \E f : IsCopy(f, b, cap, new) /\ Rehashed(b, cap, new) = f[cap]
<1> DEFINE c == CHOOSE f : IsCopy(f, b, cap, new)
<1>1. IsCopy(c, b, cap, new)
  BY CopyExists
<1>2. Rehashed(b, cap, new) = c[cap]
  BY DEF Rehashed, IsCopy, CopyStep, Empty
<1> QED BY <1>1, <1>2

(* The occupied buckets among the first n, and what the copy loop has made  *)
(* of them.                                                                 *)
First(b, n) == {i \in DOMAIN b : i < n /\ b[i] # Absent}

CopiedSoFar(t, b, n, new) ==
  /\ t \in Buckets(new) /\ Single(t) /\ Linked(hash, t, new)
  /\ Entries(t) = {b[i] : i \in First(b, n)}
  /\ Occupied(t) <= Cardinality(First(b, n))

LEMMA FirstFacts ==
  ASSUME NEW cap \in Size, NEW b \in Buckets(cap)
  PROVE  /\ First(b, 0) = {} /\ Cardinality(First(b, 0)) = 0
         /\ {b[i] : i \in First(b, cap)} = Entries(b) /\ Cardinality(First(b, cap)) = Occupied(b)
         /\ \A n \in 0 .. cap - 1 :
              /\ IsFiniteSet(First(b, n)) /\ Cardinality(First(b, n)) \in Nat
              /\ Cardinality(First(b, n)) <= Occupied(b)
              /\ b[n] = Absent => First(b, n + 1) = First(b, n)
              /\ b[n] # Absent => /\ First(b, n + 1) = First(b, n) \cup {n}
                                  /\ Cardinality(First(b, n + 1)) = Cardinality(First(b, n)) + 1
<1>1. DOMAIN b = 0 .. cap - 1 /\ cap \in Nat
  BY BucketFacts
<1>2. First(b, 0) = {} /\ Cardinality(First(b, 0)) = 0
  <2>1. First(b, 0) = {}
    BY <1>1 DEF First
  <2> QED BY <2>1, FS_EmptySet
<1>3. First(b, cap) = {i \in DOMAIN b : b[i] # Absent}
  BY <1>1 DEF First
<1>4. {b[i] : i \in First(b, cap)} = Entries(b)
  BY <1>3 DEF Entries
<1>5. Cardinality(First(b, cap)) = Occupied(b)
  BY <1>3 DEF Occupied
<1>6. IsFiniteSet(First(b, cap))
  <2>1. IsFiniteSet(0 .. cap - 1) /\ First(b, cap) \subseteq 0 .. cap - 1
    BY <1>1, <1>3, FS_Interval
  <2> QED BY <2>1, FS_Subset
<1>7. ASSUME NEW n \in 0 .. cap - 1
      PROVE  /\ IsFiniteSet(First(b, n)) /\ Cardinality(First(b, n)) \in Nat
             /\ Cardinality(First(b, n)) <= Occupied(b)
             /\ b[n] = Absent => First(b, n + 1) = First(b, n)
             /\ b[n] # Absent => /\ First(b, n + 1) = First(b, n) \cup {n}
                                 /\ Cardinality(First(b, n + 1)) = Cardinality(First(b, n)) + 1
  <2>1. First(b, n) \subseteq First(b, cap)
    BY <1>1, <1>3 DEF First
  <2>2. IsFiniteSet(First(b, n)) /\ Cardinality(First(b, n)) \in Nat
        /\ Cardinality(First(b, n)) <= Occupied(b)
    BY <1>5, <1>6, <2>1, FS_Subset, FS_CardinalityType
  <2>3. b[n] = Absent => First(b, n + 1) = First(b, n)
    BY <1>1 DEF First
  <2>4. b[n] # Absent => First(b, n + 1) = First(b, n) \cup {n}
    BY <1>1 DEF First
  <2>5. n \notin First(b, n)
    BY <1>1 DEF First
  <2>6. Cardinality(First(b, n) \cup {n}) = Cardinality(First(b, n)) + 1
    BY <2>2, <2>5, FS_AddElement
  <2> QED BY <2>2, <2>3, <2>4, <2>6
<1> QED BY <1>2, <1>4, <1>5, <1>7

LEMMA CopyStepFacts ==
  ASSUME hash \in [Key -> HashValue], NEW cap \in Size, NEW new \in Size,
         NEW b \in Buckets(cap), Single(b), Occupied(b) < new,
         NEW n \in 0 .. cap - 1, NEW t, CopiedSoFar(t, b, n, new)
  PROVE  CopiedSoFar(CopyStep(t, b[n], new), b, n + 1, new)
<1>1. /\ cap \in Nat /\ n \in Nat /\ DOMAIN b = 0 .. cap - 1
  BY BucketFacts
<1>2. /\ t \in Buckets(new) /\ Single(t) /\ Linked(hash, t, new)
      /\ Entries(t) = {b[i] : i \in First(b, n)}
      /\ Occupied(t) <= Cardinality(First(b, n))
  BY DEF CopiedSoFar
<1>3. Cardinality(First(b, n)) \in Nat /\ Cardinality(First(b, n)) <= Occupied(b)
  BY FirstFacts
<1>4. CASE b[n] = Absent
  <2>1. CopyStep(t, b[n], new) = t
    BY <1>4 DEF CopyStep
  <2>2. First(b, n + 1) = First(b, n)
    BY <1>4, FirstFacts
  <2> QED BY <1>2, <2>1, <2>2 DEF CopiedSoFar
<1>5. CASE b[n] # Absent
  <2> DEFINE e == b[n]
             u == Insert(t, new, e)
  <2>1. CopyStep(t, b[n], new) = u /\ e \in Entry
    BY <1>1, <1>5, BucketFacts DEF CopyStep
  <2>2. Occupied(t) < new /\ Occupied(t) \in Nat
    <3>1. Occupied(t) \in 0 .. new /\ new \in Nat /\ Occupied(b) \in 0 .. cap
      BY <1>2, SizeFacts, OccupiedFacts
    <3> QED BY <1>1, <1>2, <1>3, <3>1
  <2>3. /\ u \in Buckets(new) /\ Single(u) /\ Linked(hash, u, new)
        /\ Entries(u) = {f \in Entries(t) : f.key # e.key} \cup {e}
        /\ Occupied(u) \in {Occupied(t), Occupied(t) + 1}
    <3> HIDE DEF e, u
    <3> QED BY <1>2, <2>1, <2>2, InsertFacts DEF u
  <2>4. {f \in Entries(t) : f.key # e.key} = Entries(t)
    <3>1. ASSUME NEW f \in Entries(t) PROVE f.key # e.key
      <4>1. PICK i \in First(b, n) : f = b[i]
        BY <1>2
      <4>2. i \in 0 .. cap - 1 /\ i # n /\ b[i] # Absent
        BY <1>1, <4>1 DEF First
      <4> QED BY <1>1, <1>5, <4>1, <4>2 DEF Single
    <3> QED BY <3>1
  <2>5. /\ First(b, n + 1) = First(b, n) \cup {n}
        /\ Cardinality(First(b, n + 1)) = Cardinality(First(b, n)) + 1
    BY <1>5, FirstFacts
  <2>6. Entries(u) = {b[i] : i \in First(b, n + 1)}
    BY <1>2, <2>3, <2>4, <2>5
  <2>7. Occupied(u) <= Cardinality(First(b, n + 1))
    <3> HIDE DEF u
    <3> QED BY <1>2, <1>3, <2>2, <2>3, <2>5
  <2> QED BY <2>1, <2>3, <2>6, <2>7 DEF CopiedSoFar
<1> QED BY <1>4, <1>5

LEMMA RehashFacts ==
  ASSUME hash \in [Key -> HashValue], NEW cap \in Size, NEW new \in Size,
         NEW b \in Buckets(cap), Single(b), Occupied(b) < new
  PROVE  LET t == Rehashed(b, cap, new) IN
         /\ t \in Buckets(new) /\ Single(t) /\ Linked(hash, t, new)
         /\ Entries(t) = Entries(b) /\ Occupied(t) <= Occupied(b)
<1>1. cap \in Nat /\ DOMAIN b = 0 .. cap - 1
  BY BucketFacts
<1>2. PICK f : IsCopy(f, b, cap, new) /\ Rehashed(b, cap, new) = f[cap]
  BY <1>1, RehashedIsCopy
<1>3. /\ f[0] = Empty(new)
      /\ \A j \in 0 .. cap - 1 : f[j + 1] = CopyStep(f[j], b[j], new)
  <2>1. \A j \in 0 .. cap : f[j] = IF j = 0 THEN Empty(new) ELSE CopyStep(f[j - 1], b[j - 1], new)
    BY <1>2 DEF IsCopy
  <2>2. \A j \in 0 .. cap - 1 : j + 1 \in 0 .. cap /\ j + 1 # 0 /\ j + 1 - 1 = j
    BY <1>1
  <2>3. 0 \in 0 .. cap
    BY <1>1
  <2> QED BY <2>1, <2>2, <2>3
<1> DEFINE G == {n \in Nat : n <= cap => CopiedSoFar(f[n], b, n, new)}
<1>4. 0 \in G
  <2>1. First(b, 0) = {} /\ Cardinality(First(b, 0)) = 0
    BY FirstFacts
  <2>2. {b[i] : i \in First(b, 0)} = {}
    BY <2>1
  <2> QED BY <1>3, <2>1, <2>2, EmptyFacts DEF CopiedSoFar
<1>5. ASSUME NEW n \in Nat, n \in G PROVE n + 1 \in G
  <2>1. SUFFICES ASSUME n + 1 <= cap PROVE CopiedSoFar(f[n + 1], b, n + 1, new)
    OBVIOUS
  <2>2. n \in 0 .. cap - 1 /\ CopiedSoFar(f[n], b, n, new)
    BY <1>1, <1>5, <2>1
  <2> QED BY <1>3, <2>2, CopyStepFacts
<1>6. Nat \subseteq G
  <2> HIDE DEF G
  <2> QED BY <1>4, <1>5, Data!SetInduction
<1>7. CopiedSoFar(f[cap], b, cap, new)
  BY <1>1, <1>6
<1> QED BY <1>2, <1>7, FirstFacts DEF CopiedSoFar

(* The table hashtable_put inserts into holds the same entries, and has     *)
(* room for one more.                                                       *)
LEMMA PreparedFacts ==
  ASSUME hash \in [Key -> HashValue], NEW cap, NEW b, NEW n \in Nat,
         \/ cap = 0 /\ b = <<>> /\ n = 0
         \/ /\ cap \in Size /\ b \in Buckets(cap) /\ Single(b) /\ n = Occupied(b)
            /\ Linked(hash, b, cap)
  PROVE  LET t == Prepared(b, cap, n) IN
         /\ t = [buckets |-> t.buckets, capacity |-> t.capacity, count |-> t.count]
         /\ t.capacity \in Size /\ t.buckets \in Buckets(t.capacity)
         /\ Single(t.buckets) /\ Linked(hash, t.buckets, t.capacity)
         /\ t.count = Occupied(t.buckets) /\ Load(t.count, t.capacity) < High
         /\ Entries(t.buckets) = Entries(b)
<1>1. CASE cap = 0 /\ b = <<>> /\ n = 0
  <2>1. Prepared(b, cap, n) = [buckets |-> Empty(InitSize), capacity |-> InitSize, count |-> 0]
    BY <1>1 DEF Prepared, Empty
  <2>2. InitSize \in Size /\ InitSize \in Nat \ {0} /\ High \in 1 .. 100
    BY HashTableAssumption
  <2>3. Load(0, InitSize) = 0
    BY <2>2, LoadGrows
  <2>4. Entries(b) = {}
    BY <1>1 DEF Entries
  <2>5. /\ Empty(InitSize) \in Buckets(InitSize) /\ Single(Empty(InitSize))
        /\ Linked(hash, Empty(InitSize), InitSize)
        /\ Entries(Empty(InitSize)) = {} /\ Occupied(Empty(InitSize)) = 0
    BY <2>2, EmptyFacts
  <2>6. Load(0, InitSize) < High
    BY <2>2, <2>3
  <2> QED BY <2>1, <2>2, <2>4, <2>5, <2>6
<1>2. CASE /\ cap \in Size /\ b \in Buckets(cap) /\ Single(b) /\ n = Occupied(b)
           /\ Linked(hash, b, cap)
  <2>1. cap # 0
    BY <1>2, SizeFacts
  <2>2. CASE Load(n, cap) < High
    <3>1. Prepared(b, cap, n) = [buckets |-> b, capacity |-> cap, count |-> n]
      BY <2>1, <2>2 DEF Prepared
    <3> QED BY <1>2, <2>2, <3>1
  <2>3. CASE ~(Load(n, cap) < High)
    <3> DEFINE new == Grown(n, cap)
               r == Rehashed(b, cap, new)
    <3>1. Prepared(b, cap, n) = [buckets |-> r, capacity |-> new, count |-> Occupied(r)]
      BY <2>1, <2>3 DEF Prepared
    <3>2. new \in Size /\ Load(n, new) < High
      BY <1>2, FewEntries, GrownFacts
    <3> HIDE DEF new
    <3>3. n + 1 < new /\ n < new
      <4>1. n + 1 < new
        BY <3>2, LightFacts
      <4>2. new \in Nat
        BY <3>2, SizeFacts
      <4> QED BY <4>1, <4>2
    <3>4. /\ r \in Buckets(new) /\ Single(r) /\ Linked(hash, r, new)
          /\ Entries(r) = Entries(b) /\ Occupied(r) <= n
      BY <1>2, <3>2, <3>3, RehashFacts
    <3>5. Occupied(r) \in 0 .. n
      <4>1. Occupied(r) \in 0 .. new /\ new \in Nat
        BY <3>2, <3>4, OccupiedFacts, SizeFacts
      <4> QED BY <3>4, <4>1
    <3>6. Load(Occupied(r), new) < High
      BY <3>2, <3>5, LightFacts
    <3> HIDE DEF r
    <3> QED BY <3>1, <3>2, <3>4, <3>6
  <2> QED BY <2>2, <2>3
<1> QED BY <1>1, <1>2

-----------------------------------------------------------------------------
(* The repair of a chain.                                                   *)

(* The probe sequences begin in the table.                                  *)
Homes(h, cap) == \A k \in Key : Home(h, k, cap) \in 0 .. cap - 1

(* hashtable_remove has left a hole and has put back all entries between it *)
(* and pos.  Probe sequences that lead over an empty bucket lead over this  *)
(* one, and none of the entries that have been put back has such a one.     *)
Detour(h, b, cap, hole, here) ==
  /\ hole \in 0 .. cap - 1 /\ b[hole] = Absent
  /\ \A x \in 0 .. cap - 1 :
       x # hole /\ Dist(hole, x, cap) < Dist(hole, here, cap) => b[x] # Absent
  /\ \A j \in 0 .. cap - 1 : b[j] # Absent =>
       \A x \in Before(h, b[j].key, j, cap) : x = hole \/ b[x] # Absent
  /\ \A j \in 0 .. cap - 1 : b[j] # Absent /\ Dist(hole, j, cap) < Dist(hole, here, cap) =>
       hole \notin Before(h, b[j].key, j, cap)

(* The bucket after here.                                                   *)
LEMMA NextFacts ==
  ASSUME NEW cap \in Nat, cap >= 2, NEW here \in 0 .. cap - 1
  PROVE  LET next == (here + 1) % cap IN
         /\ next \in 0 .. cap - 1 /\ next # here /\ Dist(here, next, cap) = 1
         /\ \A x \in 0 .. cap - 1 :
              /\ next # x => Dist(x, next, cap) = Dist(x, here, cap) + 1
              /\ next = x => Dist(x, here, cap) = cap - 1
<1>1. here % cap = here /\ here \in Nat /\ 1 \in 0 .. cap /\ cap \in Nat \ {0}
  OBVIOUS
<1>2. (here + 1) % cap = Turn(here, 1, cap)
  BY <1>1, RemainderPlus
<1> QED BY <1>2 DEF Turn, Dist

LEMMA DetourBegins ==
  ASSUME NEW cap \in Size, NEW b \in Buckets(cap), NEW h, Linked(h, b, cap),
         NEW s \in 0 .. cap - 1
  PROVE  Detour(h, Written(b, s, Absent), cap, s, (s + 1) % cap)
<1> DEFINE new == Written(b, s, Absent)
           next == (s + 1) % cap
<1>1. /\ new[s] = Absent /\ \A j \in 0 .. cap - 1 : j # s => new[j] = b[j]
  BY BucketFacts DEF Written, Buckets
<1>2. Dist(s, next, cap) = 1 /\ cap \in Nat \ {0}
  BY SizeFacts, NextFacts
<1>3. \A x \in 0 .. cap - 1 : Dist(s, x, cap) \in 0 .. cap - 1 /\ (Dist(s, x, cap) = 0 => x = s)
  BY <1>2 DEF Dist
<1> HIDE DEF new, next
<1>4. \A x \in 0 .. cap - 1 : Dist(s, x, cap) < Dist(s, next, cap) => x = s
  BY <1>2, <1>3
<1>5. \A j \in 0 .. cap - 1 : new[j] # Absent => j # s /\ new[j] = b[j]
  BY <1>1
<1>6. ASSUME NEW j \in 0 .. cap - 1, new[j] # Absent, NEW x \in Before(h, new[j].key, j, cap)
      PROVE  x = s \/ new[x] # Absent
  <2>1. x \in 0 .. cap - 1
    BY DEF Before
  <2> QED BY <1>1, <1>5, <1>6, <2>1 DEF Linked
<1>7. Detour(h, new, cap, s, next)
  BY <1>1, <1>4, <1>5, <1>6 DEF Detour
<1> QED BY <1>7 DEF new, next

(* An empty bucket elsewhere ends the repair: every chain is whole again.   *)
LEMMA DetourEnds ==
  ASSUME NEW cap \in Size, NEW b \in Buckets(cap), NEW h,
         Homes(h, cap),
         NEW hole, NEW here \in 0 .. cap - 1, here # hole, b[here] = Absent,
         Detour(h, b, cap, hole, here)
  PROVE  Linked(h, b, cap)
<1> SUFFICES ASSUME NEW j \in 0 .. cap - 1, b[j] # Absent,
                    NEW x \in Before(h, b[j].key, j, cap), b[x] = Absent
             PROVE  FALSE
  BY DEF Linked
<1> DEFINE a == Home(h, b[j].key, cap)
<1>1. x = hole /\ hole \in 0 .. cap - 1
  BY DEF Detour
<1>2. a \in 0 .. cap - 1 /\ cap \in Nat \ {0}
  BY BucketFacts DEF Homes
<1>3. Dist(a, hole, cap) < Dist(a, j, cap)
  BY <1>1 DEF Before
<1>4. ~(Dist(hole, j, cap) < Dist(hole, here, cap))
  BY <1>1 DEF Detour
<1>5. here \notin Before(h, b[j].key, j, cap)
  BY DEF Detour
<1>6. ~(Dist(a, here, cap) < Dist(a, j, cap))
  BY <1>5 DEF Before
<1> HIDE DEF a
<1>7. j # here
  OBVIOUS
<1> QED BY <1>1, <1>2, <1>3, <1>4, <1>6, <1>7 DEF Dist

(* Where the entry at pos goes: into the hole, or where it was.             *)
LEMMA HoleOrHere ==
  ASSUME NEW cap \in Size, NEW b \in Buckets(cap), NEW h,
         Homes(h, cap), Single(b),
         NEW hole, NEW here \in 0 .. cap - 1, b[here] # Absent, Detour(h, b, cap, hole, here),
         NEW s, StopsAt(h, Written(b, here, Absent), cap, b[here].key, s)
  PROVE  s \in {hole, here} /\ Written(b, here, Absent)[s] = Absent
<1> DEFINE out == Written(b, here, Absent)
           k == b[here].key
           a == Home(h, k, cap)
<1>1. /\ out[here] = Absent /\ \A j \in 0 .. cap - 1 : j # here => out[j] = b[j]
      /\ DOMAIN b = 0 .. cap - 1 /\ cap \in Nat \ {0} /\ a \in 0 .. cap - 1
  BY BucketFacts DEF Written, Buckets, Homes
<1>2. s \in 0 .. cap - 1 /\ (out[s] = Absent \/ out[s].key = k)
  BY DEF StopsAt
<1>3. \A x \in Before(h, k, s, cap) : out[x] # Absent
  BY DEF StopsAt
<1> HIDE DEF out
<1>4. out[s] = Absent
  <2> SUFFICES ASSUME out[s] # Absent PROVE FALSE
    OBVIOUS
  <2>1. s # here /\ b[s] # Absent /\ b[s].key = k
    BY <1>1, <1>2
  <2> QED BY <1>1, <1>2, <2>1 DEF Single
<1>5. ASSUME s # here PROVE s = hole
  <2>1. b[s] = Absent
    BY <1>1, <1>2, <1>4, <1>5
  <2>2. here \notin Before(h, k, s, cap)
    BY <1>1, <1>3
  <2>3. ~(Dist(a, here, cap) < Dist(a, s, cap))
    BY <2>2 DEF Before
  <2>4. Dist(a, s, cap) < Dist(a, here, cap)
    <3> HIDE DEF a
    <3> QED BY <1>1, <1>2, <1>5, <2>3 DEF Dist
  <2>5. s \in Before(h, k, here, cap)
    BY <1>2, <2>4 DEF Before
  <2> QED BY <2>1, <2>5 DEF Detour
<1> QED BY <1>4, <1>5 DEF out

(* One iteration of the repair: the hole stays, or the entry fills it and   *)
(* leaves one where it was.                                                 *)
LEMMA DetourSteps ==
  ASSUME NEW cap \in Size, NEW b \in Buckets(cap), NEW h,
         Homes(h, cap), Single(b),
         NEW hole, NEW here \in 0 .. cap - 1, here # hole, b[here] # Absent,
         Detour(h, b, cap, hole, here), Occupied(b) + 1 < cap,
         NEW s, StopsAt(h, Written(b, here, Absent), cap, b[here].key, s)
  PROVE  \E way \in 0 .. cap - 1 :
           /\ way # (here + 1) % cap
           /\ Detour(h, Written(Written(b, here, Absent), s, b[here]), cap, way, (here + 1) % cap)
<1> DEFINE e == b[here]
           out == Written(b, here, Absent)
           new == Written(out, s, e)
           next == (here + 1) % cap
<1>1. /\ cap \in Nat \ {0} /\ cap >= 2 /\ DOMAIN b = 0 .. cap - 1
      /\ b \in [0 .. cap - 1 -> Entry \cup {Absent}]
      /\ e \in Entry /\ e # Absent /\ e.key \in Key
  BY BucketFacts DEF Buckets
<1>2. /\ out \in [0 .. cap - 1 -> Entry \cup {Absent}] /\ out[here] = Absent
      /\ \A j \in 0 .. cap - 1 : j # here => out[j] = b[j]
  BY <1>1 DEF Written
<1>3. s \in {hole, here} /\ out[s] = Absent /\ s \in 0 .. cap - 1 /\ hole \in 0 .. cap - 1
  <2>1. s \in {hole, here} /\ out[s] = Absent
    BY HoleOrHere
  <2>2. hole \in 0 .. cap - 1
    BY DEF Detour
  <2> QED BY <2>1, <2>2
<1>4. \A x \in Before(h, e.key, s, cap) : out[x] # Absent
  BY DEF StopsAt
<1>5. /\ next \in 0 .. cap - 1 /\ next # here /\ Dist(here, next, cap) = 1
      /\ \A x \in 0 .. cap - 1 :
           /\ next # x => Dist(x, next, cap) = Dist(x, here, cap) + 1
           /\ next = x => Dist(x, here, cap) = cap - 1
  BY <1>1, NextFacts
<1> HIDE DEF e, next
<1>6. /\ new[s] = e /\ \A j \in 0 .. cap - 1 : j # s => new[j] = out[j]
  BY <1>1, <1>2, <1>3 DEF Written
<1> HIDE DEF out, new
<1>7. /\ b[hole] = Absent
      /\ \A x \in 0 .. cap - 1 :
           x # hole /\ Dist(hole, x, cap) < Dist(hole, here, cap) => b[x] # Absent
      /\ \A j \in 0 .. cap - 1 : b[j] # Absent =>
           \A x \in Before(h, b[j].key, j, cap) : x = hole \/ b[x] # Absent
      /\ \A j \in 0 .. cap - 1 : b[j] # Absent /\ Dist(hole, j, cap) < Dist(hole, here, cap) =>
           hole \notin Before(h, b[j].key, j, cap)
  BY DEF Detour
<1>8. \A x, y \in 0 .. cap - 1 : /\ Dist(x, y, cap) \in 0 .. cap - 1
                                 /\ (Dist(x, y, cap) = 0 => y = x)
  BY <1>1 DEF Dist
<1>9. CASE s = here
  <2>1. \A j \in 0 .. cap - 1 : new[j] = b[j]
    BY <1>2, <1>6, <1>9 DEF e
  <2>2. hole \notin Before(h, e.key, here, cap)
    BY <1>2, <1>3, <1>4, <1>7, <1>9
  <2>3. next # hole
    <3> SUFFICES ASSUME next = hole PROVE FALSE
      OBVIOUS
    <3>1. Dist(hole, here, cap) = cap - 1
      BY <1>3, <1>5
    <3>2. PICK j \in 0 .. cap - 1 : j # hole /\ b[j] = Absent
      BY <1>3, OccupiedFacts
    <3>3. j # here
      BY <3>2
    <3>4. Dist(hole, j, cap) = cap - 1
      <4>1. ~(Dist(hole, j, cap) < Dist(hole, here, cap))
        BY <1>7, <3>2
      <4>2. Dist(hole, j, cap) \in 0 .. cap - 1
        BY <1>3, <1>8
      <4> QED BY <1>1, <3>1, <4>1, <4>2
    <3>5. \A x, y \in 0 .. cap - 1 : Dist(hole, x, cap) = Dist(hole, y, cap) => x = y
      BY <1>1, <1>3, DistFacts
    <3> QED BY <3>1, <3>3, <3>4, <3>5
  <2>4. Dist(hole, next, cap) = Dist(hole, here, cap) + 1
    BY <1>3, <1>5, <2>3
  <2>5. \A x \in 0 .. cap - 1 : Dist(hole, x, cap) < Dist(hole, next, cap) =>
                                  x = here \/ Dist(hole, x, cap) < Dist(hole, here, cap)
    <3>1. \A x, y \in 0 .. cap - 1 : Dist(hole, x, cap) = Dist(hole, y, cap) => x = y
      BY <1>1, <1>3, DistFacts
    <3>2. ASSUME NEW x \in 0 .. cap - 1, Dist(hole, x, cap) < Dist(hole, next, cap), x # here
          PROVE  Dist(hole, x, cap) < Dist(hole, here, cap)
      <4>1. Dist(hole, x, cap) # Dist(hole, here, cap)
        BY <3>1, <3>2
      <4>2. Dist(hole, x, cap) \in 0 .. cap - 1 /\ Dist(hole, here, cap) \in 0 .. cap - 1
        BY <1>3, <1>8
      <4> QED BY <1>1, <2>4, <3>2, <4>1, <4>2
    <3> QED BY <3>2
  <2>6. \A x \in 0 .. cap - 1 :
          x # hole /\ Dist(hole, x, cap) < Dist(hole, next, cap) => new[x] # Absent
    BY <1>7, <2>1, <2>5
  <2>7. \A j \in 0 .. cap - 1 : new[j] # Absent =>
          \A x \in Before(h, new[j].key, j, cap) : x = hole \/ new[x] # Absent
    <3>1. \A j \in 0 .. cap - 1 : \A x \in Before(h, b[j].key, j, cap) : x \in 0 .. cap - 1
      BY DEF Before
    <3> QED BY <1>7, <2>1, <3>1
  <2>8. \A j \in 0 .. cap - 1 : new[j] # Absent /\ Dist(hole, j, cap) < Dist(hole, next, cap) =>
          hole \notin Before(h, new[j].key, j, cap)
    BY <1>7, <2>1, <2>2, <2>5 DEF e
  <2>9. new[hole] = Absent
    BY <1>3, <1>7, <2>1
  <2>10. Detour(h, new, cap, hole, next)
    BY <1>3, <2>6, <2>7, <2>8, <2>9 DEF Detour
  <2> QED BY <1>3, <2>3, <2>10 DEF e, out, new, next
<1>10. CASE s = hole
  <2>1. new[here] = Absent
    BY <1>2, <1>6, <1>10
  <2>2. \A x \in 0 .. cap - 1 : Dist(here, x, cap) < Dist(here, next, cap) => x = here
    BY <1>5, <1>8
  <2>3. ASSUME NEW j \in 0 .. cap - 1, new[j] # Absent,
               NEW x \in Before(h, new[j].key, j, cap)
        PROVE  x = here \/ new[x] # Absent
    <3>1. x \in 0 .. cap - 1
      BY DEF Before
    <3>2. CASE j = s
      <4>1. out[x] # Absent
        BY <1>4, <1>6, <2>3, <3>2
      <4> QED BY <1>1, <1>6, <3>1, <4>1
    <3>3. CASE j # s
      <4>1. j # here /\ new[j] = b[j]
        BY <1>2, <1>6, <2>1, <2>3, <3>3
      <4>2. x = hole \/ b[x] # Absent
        BY <1>7, <2>3, <4>1
      <4> QED BY <1>1, <1>2, <1>6, <1>10, <3>1, <4>2
    <3> QED BY <3>2, <3>3
  <2>4. Detour(h, new, cap, here, next)
    BY <2>1, <2>2, <2>3 DEF Detour
  <2> QED BY <1>5, <2>4 DEF e, out, new, next
<1> QED BY <1>3, <1>9, <1>10

(* The entries, and their number, are as they were.                         *)
LEMMA ReinsertKeeps ==
  ASSUME NEW cap \in Size, NEW b \in Buckets(cap), Single(b), NEW here \in 0 .. cap - 1,
         b[here] # Absent, NEW s \in 0 .. cap - 1, Written(b, here, Absent)[s] = Absent
  PROVE  LET out == Written(b, here, Absent)
             new == Written(out, s, b[here])
         IN /\ out \in Buckets(cap) /\ Occupied(out) = Occupied(b) - 1
            /\ new \in Buckets(cap) /\ Single(new)
            /\ Entries(new) = Entries(b) /\ Occupied(new) = Occupied(b)
<1> DEFINE e == b[here]
           out == Written(b, here, Absent)
           new == Written(out, s, e)
<1>1. /\ DOMAIN b = 0 .. cap - 1 /\ b \in [0 .. cap - 1 -> Entry \cup {Absent}]
      /\ e \in Entry /\ e # Absent
  BY BucketFacts DEF Buckets
<1>2. /\ out \in [0 .. cap - 1 -> Entry \cup {Absent}] /\ out[here] = Absent
      /\ DOMAIN out = 0 .. cap - 1
      /\ out[s] = Absent /\ \A j \in 0 .. cap - 1 : j # here => out[j] = b[j]
  BY <1>1 DEF Written
<1>3. Occupied(out) = Occupied(b) - 1
  BY <1>1, OccupiedWrite
<1> HIDE DEF out
<1>4. out \in Buckets(cap) /\ Single(out)
  BY <1>1, <1>2 DEF Buckets, Single
<1>5. \A j \in 0 .. cap - 1 : ~(out[j] # Absent /\ out[j].key = e.key)
  BY <1>1, <1>2 DEF Single
<1>6. /\ new \in Buckets(cap) /\ Single(new)
      /\ Entries(new) = {f \in Entries(out) : f.key # e.key} \cup {e}
  <2>1. out[s] = Absent \/ out[s].key = e.key
    BY <1>2
  <2> HIDE DEF e
  <2> QED BY <1>1, <1>4, <1>5, <2>1, PutEntries
<1>7. Occupied(new) = Occupied(out) + 1
  BY <1>1, <1>2, <1>4, OccupiedWrite
<1>8. {f \in Entries(out) : f.key # e.key} \cup {e} = Entries(b)
  <2>1. ASSUME NEW f PROVE f \in {g \in Entries(out) : g.key # e.key} \cup {e} <=> f \in Entries(b)
    <3>1. ASSUME f \in Entries(out) PROVE f \in Entries(b) /\ f.key # e.key
      BY <1>1, <1>2, <1>5, <3>1 DEF Entries
    <3>2. e \in Entries(b)
      BY <1>1 DEF Entries
    <3>3. ASSUME f \in Entries(b), f # e PROVE f \in Entries(out)
      <4>1. PICK j \in 0 .. cap - 1 : f = b[j] /\ f # Absent
        BY <1>1, <3>3 DEF Entries
      <4>2. j # here
        BY <3>3, <4>1
      <4> QED BY <1>2, <4>1, <4>2 DEF Entries
    <3> QED BY <3>1, <3>2, <3>3
  <2> QED BY <2>1
<1>9. Occupied(b) \in Nat
  BY OccupiedFacts
<1> HIDE DEF e, new
<1>10. Occupied(new) = Occupied(b)
  BY <1>3, <1>7, <1>9
<1> QED BY <1>3, <1>4, <1>6, <1>8, <1>10 DEF e, out, new

-----------------------------------------------------------------------------
(* The operations.                                                          *)

(* A table between two operations: none yet, or a linked one with room.     *)
Whole(h, b, cap, n) ==
  \/ cap = 0 /\ b = <<>> /\ n = 0
  \/ /\ cap \in Size /\ b \in Buckets(cap) /\ Single(b) /\ n = Occupied(b)
     /\ Linked(h, b, cap) /\ Light(n, cap)

LEMMA PutWhole ==
  ASSUME hash \in [Key -> HashValue], NEW cap, NEW b, NEW n, Whole(hash, b, cap, n),
         NEW e \in Entry
  PROVE  LET t == hashtable_put(b, cap, n, e) IN
         /\ t.capacity \in Size /\ Whole(hash, t.buckets, t.capacity, t.count)
         /\ Entries(t.buckets) = {f \in Entries(b) : f.key # e.key} \cup {e}
<1> DEFINE t == Prepared(b, cap, n)
           done == Insert(t.buckets, t.capacity, e)
<1>1. n \in Nat
  BY OccupiedFacts DEF Whole
<1>2. /\ t = [buckets |-> t.buckets, capacity |-> t.capacity, count |-> t.count]
      /\ t.capacity \in Size /\ t.buckets \in Buckets(t.capacity)
      /\ Single(t.buckets) /\ Linked(hash, t.buckets, t.capacity)
      /\ t.count = Occupied(t.buckets) /\ Load(t.count, t.capacity) < High
      /\ Entries(t.buckets) = Entries(b)
  BY <1>1, PreparedFacts DEF Whole
<1> HIDE DEF t
<1>3. t.count \in Nat /\ t.count + 1 < t.capacity /\ t.capacity \in Nat
      /\ Light(t.count, t.capacity) /\ Light(t.count + 1, t.capacity)
  <2>1. t.capacity \in Nat /\ Occupied(t.buckets) \in 0 .. t.capacity
    BY <1>2, SizeFacts, OccupiedFacts
  <2>2. t.count \in Nat
    BY <1>2, <2>1
  <2> QED BY <1>2, <2>1, <2>2, LightFacts
<1>4. Occupied(t.buckets) < t.capacity
  BY <1>2, <1>3
<1>5. /\ done \in Buckets(t.capacity) /\ Single(done) /\ Linked(hash, done, t.capacity)
      /\ Entries(done) = {f \in Entries(t.buckets) : f.key # e.key} \cup {e}
      /\ Occupied(done) \in {Occupied(t.buckets), Occupied(t.buckets) + 1}
  BY <1>2, <1>4, InsertFacts
<1> HIDE DEF done
<1>6. t.count + (Occupied(done) - Occupied(t.buckets)) = Occupied(done)
  BY <1>2, <1>3, <1>5
<1>7. Light(Occupied(done), t.capacity)
  BY <1>2, <1>3, <1>5
<1>8. hashtable_put(b, cap, n, e) =
        [buckets |-> done, capacity |-> t.capacity,
         count |-> t.count + (Occupied(done) - Occupied(t.buckets))]
  <2>1. hashtable_put(b, cap, n, e) =
          [t EXCEPT !.buckets = done,
                    !.count = t.count + (Occupied(done) - Occupied(t.buckets))]
    BY DEF hashtable_put, t, done
  <2> QED BY <1>2, <2>1
<1>9. Whole(hash, done, t.capacity, Occupied(done))
  BY <1>2, <1>5, <1>7 DEF Whole
<1> QED BY <1>2, <1>5, <1>6, <1>8, <1>9

(* Putting an entry back never grows the table.                             *)
LEMMA PutBack ==
  ASSUME hash \in [Key -> HashValue], NEW cap \in Size, NEW b \in Buckets(cap), Single(b),
         NEW n, n = Occupied(b), Light(n + 1, cap),
         NEW here \in 0 .. cap - 1, b[here] # Absent,
         NEW hole, here # hole, Detour(hash, b, cap, hole, here)
  PROVE  LET t == hashtable_put(Written(b, here, Absent), cap, n - 1, b[here]) IN
         /\ t.capacity = cap /\ t.count = n
         /\ t.buckets \in Buckets(cap) /\ Single(t.buckets) /\ Occupied(t.buckets) = n
         /\ Entries(t.buckets) = Entries(b)
         /\ \E way \in 0 .. cap - 1 : /\ way # (here + 1) % cap
                                      /\ Detour(hash, t.buckets, cap, way, (here + 1) % cap)
<1> DEFINE e == b[here]
           out == Written(b, here, Absent)
           done == Insert(out, cap, e)
<1>1. /\ cap \in Nat /\ cap # 0 /\ e \in Entry /\ e.key \in Key /\ DOMAIN b = 0 .. cap - 1
      /\ b \in [0 .. cap - 1 -> Entry \cup {Absent}]
  BY BucketFacts DEF Buckets
<1>2. Homes(hash, cap)
  BY ProbeFacts DEF Homes
<1>3. out \in Buckets(cap) /\ Occupied(out) = n - 1
  <2>1. out \in Buckets(cap)
    BY <1>1 DEF Written, Buckets
  <2>2. Occupied(out) = n - 1
    BY OccupiedWrite
  <2> QED BY <2>1, <2>2
<1>4. n \in Nat /\ n - 1 \in Nat /\ n + 1 < cap
  <2>1. n \in Nat /\ Occupied(out) \in 0 .. cap
    BY <1>3, OccupiedFacts
  <2>2. n + 1 < cap
    BY <2>1, LightRoom
  <2> QED BY <1>3, <2>1, <2>2
<1>5. Load(n - 1, cap) < High
  <2>1. Load(n, cap) < High /\ n - 1 \in 0 .. n
    BY <1>4, LightFacts
  <2> QED BY <1>4, <2>1, LightFacts
<1>6. PICK s : StopsAt(hash, out, cap, e.key, s) /\ done = Written(out, s, e)
  <2>1. Occupied(out) < cap
    BY <1>1, <1>3, <1>4
  <2> HIDE DEF e, out
  <2> QED BY <1>1, <1>3, <2>1, InsertMeans
<1>7. s \in {hole, here} /\ out[s] = Absent /\ s \in 0 .. cap - 1
  <2>1. s \in {hole, here} /\ out[s] = Absent
    BY <1>2, <1>6, HoleOrHere
  <2>2. s \in 0 .. cap - 1
    BY <1>6 DEF StopsAt
  <2> QED BY <2>1, <2>2
<1> DEFINE new == Written(out, s, e)
<1>8. new \in Buckets(cap) /\ Single(new) /\ Entries(new) = Entries(b) /\ Occupied(new) = n
  BY <1>7, ReinsertKeeps
<1>9. \E way \in 0 .. cap - 1 : /\ way # (here + 1) % cap
                                /\ Detour(hash, new, cap, way, (here + 1) % cap)
  <2>1. Occupied(b) + 1 < cap /\ StopsAt(hash, Written(b, here, Absent), cap, b[here].key, s)
    BY <1>4, <1>6
  <2> QED BY <1>2, <2>1, DetourSteps
<1>10. hashtable_put(out, cap, n - 1, e) = [buckets |-> new, capacity |-> cap, count |-> n]
  <2> DEFINE u == Prepared(out, cap, n - 1)
  <2>1. u = [buckets |-> out, capacity |-> cap, count |-> n - 1]
    BY <1>1, <1>5 DEF Prepared
  <2>2. Insert(out, cap, e) = new
    BY <1>6
  <2> HIDE DEF out, new, e
  <2>3. hashtable_put(out, cap, n - 1, e) =
          [u EXCEPT !.buckets = Insert(u.buckets, u.capacity, e),
                    !.count = u.count + (Occupied(Insert(u.buckets, u.capacity, e))
                                         - Occupied(u.buckets))]
    BY DEF hashtable_put
  <2>4. n - 1 + (Occupied(new) - Occupied(out)) = n
    BY <1>3, <1>4, <1>8
  <2> HIDE DEF u
  <2>5. u.buckets = out /\ u.capacity = cap /\ u.count = n - 1
    BY <2>1
  <2>6. hashtable_put(out, cap, n - 1, e) = [u EXCEPT !.buckets = new, !.count = n]
    BY <2>2, <2>3, <2>4, <2>5
  <2> QED BY <2>1, <2>6
<1> HIDE DEF new
<1> QED BY <1>8, <1>9, <1>10 DEF out, e

-----------------------------------------------------------------------------
(* The inductive invariant.                                                 *)

TableSound ==
  /\ hash \in [Key -> HashValue] /\ answer \in Val \cup {Absent}
  /\ pc \in {"idle", "repair"} /\ pos \in Nat

Repairing(h, b, cap, n, here) ==
  /\ cap \in Size /\ b \in Buckets(cap) /\ Single(b) /\ n = Occupied(b)
  /\ Light(n + 1, cap) /\ here \in 0 .. cap - 1
  /\ \E hole \in 0 .. cap - 1 : hole # here /\ Detour(h, b, cap, hole, here)

HashInv ==
  /\ TableSound
  /\ pc = "idle" => Whole(hash, buckets, capacity, count)
  /\ pc = "repair" => Repairing(hash, buckets, capacity, count, pos)

(* hashtable_remove finds the key if a bucket holds it.                     *)
LEMMA FoundFacts ==
  ASSUME hash \in [Key -> HashValue], Whole(hash, buckets, capacity, count), NEW k \in Key
  PROVE  /\ Found(k) = {} => \A e \in Entries(buckets) : e.key # k
         /\ Found(k) # {} =>
              LET s == RemoveProbe(k, Min(Found(k)), capacity) IN
              capacity \in Size /\ s \in 0 .. capacity - 1 /\ KeyAt(buckets, s, k)
<1>1. CASE capacity = 0 /\ buckets = <<>>
  <2>1. Found(k) = {} /\ Entries(buckets) = {}
    BY <1>1 DEF Found, Entries
  <2> QED BY <2>1
<1>2. CASE /\ capacity \in Size /\ buckets \in Buckets(capacity)
           /\ Linked(hash, buckets, capacity)
  <2> DEFINE a == Home(hash, k, capacity)
  <2>1. /\ capacity \in Nat \ {0} /\ a \in 0 .. capacity - 1
        /\ \A i \in 0 .. capacity - 1 : RemoveProbe(k, i, capacity) = Turn(a, i, capacity)
        /\ DOMAIN buckets = 0 .. capacity - 1
    BY <1>2, SizeFacts, ProbeFacts, BucketFacts
  <2> HIDE DEF a
  <2>2. /\ \A i \in 0 .. capacity - 1 :
             Turn(a, i, capacity) \in 0 .. capacity - 1 /\ Dist(a, Turn(a, i, capacity), capacity) = i
        /\ \A j \in 0 .. capacity - 1 :
             Dist(a, j, capacity) \in 0 .. capacity - 1 /\ Turn(a, Dist(a, j, capacity), capacity) = j
    BY <2>1, TurnFacts
  <2>3. ASSUME NEW j \in 0 .. capacity - 1, buckets[j] # Absent, buckets[j].key = k
        PROVE  Dist(a, j, capacity) \in Found(k)
    <3>1. \A x \in Before(hash, k, j, capacity) : buckets[x] # Absent
      BY <1>2, <2>3 DEF Linked
    <3> DEFINE d == Dist(a, j, capacity)
    <3>2. d \in 0 .. capacity - 1 /\ Turn(a, d, capacity) = j
      BY <2>2
    <3>3. ASSUME NEW i \in 0 .. d - 1 PROVE buckets[Turn(a, i, capacity)] # Absent
      <4>1. i \in 0 .. capacity - 1 /\ i < d
        BY <2>1, <3>2
      <4>2. Turn(a, i, capacity) \in Before(hash, k, j, capacity)
        BY <2>2, <4>1 DEF Before, a
      <4> QED BY <3>1, <4>2
    <3>4. \A i \in 0 .. d - 1 : i \in 0 .. capacity - 1
      BY <2>1, <3>2
    <3> HIDE DEF d
    <3>5. d \in Found(k)
      BY <2>1, <2>3, <3>2, <3>3, <3>4 DEF Found, KeyAt
    <3> QED BY <3>5 DEF d
  <2>4. Found(k) = {} => \A e \in Entries(buckets) : e.key # k
    BY <2>1, <2>3 DEF Entries
  <2>5. ASSUME Found(k) # {}
        PROVE  LET s == RemoveProbe(k, Min(Found(k)), capacity) IN
               s \in 0 .. capacity - 1 /\ KeyAt(buckets, s, k)
    <3>1. Found(k) \in SUBSET Nat
      BY <2>1 DEF Found
    <3>2. \E x \in Found(k) : \A m \in Found(k) : x <= m
      BY <2>5, <3>1, Data!LeastElement
    <3>3. Min(Found(k)) \in Found(k)
      BY <3>2 DEF Min
    <3> DEFINE i == Min(Found(k))
    <3> HIDE DEF i
    <3>4. i \in 0 .. capacity - 1 /\ KeyAt(buckets, RemoveProbe(k, i, capacity), k)
      BY <3>3 DEF Found, i
    <3>5. RemoveProbe(k, i, capacity) \in 0 .. capacity - 1
      BY <2>1, <2>2, <3>4
    <3> QED BY <3>4, <3>5 DEF i
  <2> QED BY <1>2, <2>4, <2>5
<1> QED BY <1>1, <1>2 DEF Whole

(* What hashtable_get answers.                                              *)
Answer(k) ==
  LET stops == Stops(buckets, capacity, k)
      e == buckets[Probe(k, Min(stops), capacity)]
  IN IF stops = {} THEN Absent ELSE IF e = Absent THEN Absent ELSE e.val

LEMMA AnswerFacts ==
  ASSUME hash \in [Key -> HashValue], Whole(hash, buckets, capacity, count), NEW k \in Key
  PROVE  /\ \A e \in Entries(buckets) : e.key = k => Answer(k) = e.val
         /\ (\A e \in Entries(buckets) : e.key # k) => Answer(k) = Absent
         /\ Answer(k) \in Val \cup {Absent}
<1>1. CASE capacity = 0 /\ buckets = <<>>
  <2>1. Stops(buckets, capacity, k) = {} /\ Entries(buckets) = {}
    BY <1>1 DEF Stops, Entries
  <2>2. Answer(k) = Absent
    BY <2>1 DEF Answer
  <2> QED BY <2>1, <2>2
<1>2. CASE /\ capacity \in Size /\ buckets \in Buckets(capacity) /\ Single(buckets)
           /\ count = Occupied(buckets) /\ Linked(hash, buckets, capacity) /\ Light(count, capacity)
  <2>1. /\ capacity \in Nat /\ DOMAIN buckets = 0 .. capacity - 1
        /\ \A j \in 0 .. capacity - 1 : buckets[j] # Absent => buckets[j] \in Entry
    BY <1>2, BucketFacts
  <2>2. \E j \in 0 .. capacity - 1 : buckets[j] = Absent \/ buckets[j].key = k
    <3>1. count \in Nat
      BY <1>2, <2>1, OccupiedFacts
    <3>2. count < capacity
      BY <1>2, <3>1, LightRoom
    <3> QED BY <1>2, <3>2, OccupiedFacts
  <2> DEFINE s == Probe(k, Min(Stops(buckets, capacity, k)), capacity)
  <2>3. Stops(buckets, capacity, k) # {} /\ StopsAt(hash, buckets, capacity, k, s)
    BY <1>2, <2>2, FirstStop
  <2>4. Answer(k) = IF buckets[s] = Absent THEN Absent ELSE buckets[s].val
    BY <2>3 DEF Answer
  <2> HIDE DEF s
  <2>5. s \in 0 .. capacity - 1 /\ (buckets[s] = Absent \/ buckets[s].key = k)
    BY <2>3 DEF StopsAt
  <2>6. \A j \in 0 .. capacity - 1 : buckets[j] # Absent /\ buckets[j].key = k =>
                                       j = s /\ buckets[s] # Absent
    BY <1>2, <2>3, OnlyThere
  <2>7. ASSUME NEW e \in Entries(buckets), e.key = k PROVE Answer(k) = e.val
    <3>1. PICK j \in 0 .. capacity - 1 : e = buckets[j] /\ e # Absent
      BY <2>1 DEF Entries
    <3> QED BY <2>4, <2>6, <2>7, <3>1
  <2>8. ASSUME \A e \in Entries(buckets) : e.key # k PROVE Answer(k) = Absent
    <3>1. buckets[s] # Absent => buckets[s] \in Entries(buckets)
      BY <2>1, <2>5 DEF Entries
    <3> QED BY <2>4, <2>5, <2>8, <3>1
  <2>9. Answer(k) \in Val \cup {Absent}
    BY <2>1, <2>4, <2>5, EntryFacts
  <2> QED BY <2>7, <2>8, <2>9
<1> QED BY <1>1, <1>2 DEF Whole

(* The table hashtable_clear leaves.                                        *)
LEMMA ClearWhole ==
  ASSUME NEW h, NEW b, NEW cap, NEW n, Whole(h, b, cap, n)
  PROVE  LET new == [j \in DOMAIN b |-> Absent] IN
         Whole(h, new, cap, 0) /\ Entries(new) = {}
<1> DEFINE new == [j \in DOMAIN b |-> Absent]
<1>1. CASE cap = 0 /\ b = <<>>
  <2>1. new = <<>> /\ Entries(new) = {}
    BY <1>1 DEF Entries
  <2> QED BY <1>1, <2>1 DEF Whole
<1>2. CASE cap \in Size /\ b \in Buckets(cap)
  <2>1. new = Empty(cap)
    BY <1>2, BucketFacts DEF Empty
  <2>2. Light(0, cap)
    BY DEF Light
  <2> HIDE DEF new
  <2>3. Whole(h, new, cap, 0) /\ Entries(new) = {}
    BY <1>2, <2>1, <2>2, EmptyFacts DEF Whole
  <2> QED BY <2>3 DEF new
<1> QED BY <1>1, <1>2 DEF Whole

(* The table hashtable_remove begins to repair.                             *)
LEMMA RemoveBegins ==
  ASSUME NEW h, NEW b, NEW cap \in Size, NEW n, Whole(h, b, cap, n),
         NEW s \in 0 .. cap - 1, b[s] # Absent
  PROVE  Repairing(h, Written(b, s, Absent), cap, n - 1, (s + 1) % cap)
<1> DEFINE new == Written(b, s, Absent)
           next == (s + 1) % cap
<1>1. /\ cap \in Nat /\ cap >= 2 /\ b \in Buckets(cap) /\ Single(b) /\ n = Occupied(b)
      /\ Linked(h, b, cap) /\ Light(n, cap)
  BY SizeFacts DEF Whole
<1>2. /\ DOMAIN b = 0 .. cap - 1 /\ b \in [0 .. cap - 1 -> Entry \cup {Absent}]
  BY <1>1, BucketFacts DEF Buckets
<1>3. /\ new \in [0 .. cap - 1 -> Entry \cup {Absent}] /\ new[s] = Absent
      /\ DOMAIN new = 0 .. cap - 1 /\ \A j \in 0 .. cap - 1 : j # s => new[j] = b[j]
  BY <1>2 DEF Written
<1>4. Occupied(new) = n - 1 /\ n - 1 \in Nat /\ n - 1 + 1 = n
  <2>1. Occupied(new) = Occupied(b) - 1
    BY <1>1, OccupiedWrite
  <2> HIDE DEF new
  <2>2. new \in Buckets(cap)
    BY <1>3 DEF Buckets
  <2>3. Occupied(new) \in Nat /\ Occupied(b) \in Nat
    BY <1>1, <2>2, OccupiedFacts
  <2> QED BY <1>1, <2>1, <2>3
<1>5. Detour(h, new, cap, s, next) /\ next \in 0 .. cap - 1 /\ next # s
  BY <1>1, DetourBegins, NextFacts
<1> HIDE DEF new, next
<1>6. new \in Buckets(cap) /\ Single(new)
  BY <1>1, <1>2, <1>3 DEF Buckets, Single
<1>7. Repairing(h, new, cap, n - 1, next)
  BY <1>1, <1>4, <1>5, <1>6 DEF Repairing
<1> QED BY <1>7 DEF new, next

LEMMA RemoveEntries ==
  ASSUME NEW cap \in Size, NEW b \in Buckets(cap), Single(b),
         NEW s \in 0 .. cap - 1, b[s] # Absent
  PROVE  Entries(Written(b, s, Absent)) = {f \in Entries(b) : f.key # b[s].key}
<1> DEFINE new == Written(b, s, Absent)
<1>1. /\ DOMAIN b = 0 .. cap - 1 /\ b \in [0 .. cap - 1 -> Entry \cup {Absent}]
  BY BucketFacts DEF Buckets
<1>2. /\ new[s] = Absent /\ DOMAIN new = 0 .. cap - 1
      /\ \A j \in 0 .. cap - 1 : j # s => new[j] = b[j]
  BY <1>1 DEF Written
<1> HIDE DEF new
<1>3. ASSUME NEW f PROVE f \in Entries(new) <=> f \in Entries(b) /\ f.key # b[s].key
  <2>1. ASSUME f \in Entries(new) PROVE f \in Entries(b) /\ f.key # b[s].key
    <3>1. PICK j \in 0 .. cap - 1 : f = new[j] /\ f # Absent
      BY <1>2, <2>1 DEF Entries
    <3>2. j # s /\ f = b[j]
      BY <1>2, <3>1
    <3> QED BY <1>1, <3>1, <3>2 DEF Entries, Single
  <2>2. ASSUME f \in Entries(b), f.key # b[s].key PROVE f \in Entries(new)
    <3>1. PICK j \in 0 .. cap - 1 : f = b[j] /\ f # Absent
      BY <1>1, <2>2 DEF Entries
    <3>2. j # s
      BY <2>2, <3>1
    <3> QED BY <1>2, <3>1, <3>2 DEF Entries
  <2> QED BY <2>1, <2>2
<1> QED BY <1>3 DEF new

(* What each operation, and each step of a repair, does to the table.       *)
LEMMA HashStep ==
  ASSUME HashInv, [Next]_vars
  PROVE  HashInv'
<1>1. TableSound
  BY DEF HashInv
<1>2. ASSUME NEW k \in Key, Get(k) PROVE HashInv'
  <2>1. Whole(hash, buckets, capacity, count) /\ pc = "idle"
    BY <1>2 DEF Get, HashInv
  <2>2. answer' = Answer(k) /\ UNCHANGED <<hash, buckets, capacity, count, pc, pos>>
    BY <1>2 DEF Get, Answer, table
  <2>3. answer' \in Val \cup {Absent}
    BY <1>1, <2>1, <2>2, AnswerFacts DEF TableSound
  <2> QED BY <1>1, <2>1, <2>2, <2>3 DEF HashInv, TableSound
<1>3. ASSUME NEW k \in Key, Remove(k) PROVE HashInv'
  <2>1. Whole(hash, buckets, capacity, count) /\ pc = "idle" /\ hash \in [Key -> HashValue]
    BY <1>1, <1>3 DEF Remove, HashInv, TableSound
  <2>2. CASE Found(k) = {}
    BY <1>1, <1>3, <2>1, <2>2 DEF Remove, HashInv, TableSound, table
  <2>3. CASE Found(k) # {}
    <3> DEFINE s == RemoveProbe(k, Min(Found(k)), capacity)
    <3>1. capacity \in Size /\ s \in 0 .. capacity - 1 /\ buckets[s] # Absent
      BY <2>1, <2>3, FoundFacts DEF KeyAt
    <3>2. /\ buckets' = Written(buckets, s, Absent) /\ count' = count - 1
          /\ pc' = "repair" /\ pos' = (s + 1) % capacity
          /\ UNCHANGED <<capacity, hash, answer>>
      BY <1>3, <2>3 DEF Remove, Written
    <3> HIDE DEF s
    <3>3. Repairing(hash, Written(buckets, s, Absent), capacity, count - 1, (s + 1) % capacity)
      BY <2>1, <3>1, RemoveBegins
    <3>4. Repairing(hash', buckets', capacity', count', pos')
      BY <3>2, <3>3
    <3>5. pos' \in Nat
      BY <3>4, SizeFacts DEF Repairing
    <3> QED BY <1>1, <3>2, <3>4, <3>5 DEF HashInv, TableSound
  <2> QED BY <2>2, <2>3
<1>4. ASSUME NEW k \in Key, NEW v \in Val, Put(k, v) PROVE HashInv'
  <2> DEFINE e == [key |-> k, val |-> v]
             t == hashtable_put(buckets, capacity, count, e)
  <2>1. Whole(hash, buckets, capacity, count) /\ pc = "idle" /\ hash \in [Key -> HashValue]
    BY <1>1, <1>4 DEF Put, HashInv, TableSound
  <2>2. e \in Entry
    BY DEF Entry
  <2>3. /\ buckets' = t.buckets /\ capacity' = t.capacity /\ count' = t.count
        /\ UNCHANGED <<hash, pc, pos, answer>>
    BY <1>4 DEF Put, SetTable
  <2> HIDE DEF e
  <2>4. Whole(hash, t.buckets, t.capacity, t.count)
    BY <2>1, <2>2, PutWhole
  <2> HIDE DEF t
  <2> QED BY <1>1, <2>1, <2>3, <2>4 DEF HashInv, TableSound
<1>5. CASE Reinsert
  <2> DEFINE t == hashtable_put(Written(buckets, pos, Absent), capacity, count - 1, buckets[pos])
  <2>1. /\ pc = "repair" /\ buckets[pos] # Absent /\ hash \in [Key -> HashValue]
        /\ Repairing(hash, buckets, capacity, count, pos)
    BY <1>1, <1>5 DEF Reinsert, HashInv, TableSound
  <2>2. /\ buckets' = t.buckets /\ capacity' = t.capacity /\ count' = t.count
        /\ pos' = (pos + 1) % capacity /\ UNCHANGED <<hash, pc, answer>>
    BY <1>5 DEF Reinsert, SetTable, Written
  <2>3. /\ capacity \in Size /\ buckets \in Buckets(capacity) /\ Single(buckets)
        /\ count = Occupied(buckets) /\ Light(count + 1, capacity) /\ pos \in 0 .. capacity - 1
    BY <2>1 DEF Repairing
  <2>4. PICK hole \in 0 .. capacity - 1 :
          hole # pos /\ Detour(hash, buckets, capacity, hole, pos)
    BY <2>1 DEF Repairing
  <2>5. /\ t.capacity = capacity /\ t.count = count
        /\ t.buckets \in Buckets(capacity) /\ Single(t.buckets) /\ Occupied(t.buckets) = count
        /\ \E way \in 0 .. capacity - 1 :
             /\ way # (pos + 1) % capacity
             /\ Detour(hash, t.buckets, capacity, way, (pos + 1) % capacity)
    BY <2>1, <2>3, <2>4, PutBack
  <2> HIDE DEF t
  <2>6. (pos + 1) % capacity \in 0 .. capacity - 1 /\ (pos + 1) % capacity \in Nat
    BY <2>3, SizeFacts, NextFacts
  <2>7. Repairing(hash, t.buckets, capacity, count, (pos + 1) % capacity)
    BY <2>3, <2>5, <2>6 DEF Repairing
  <2>8. Repairing(hash', buckets', capacity', count', pos') /\ pos' \in Nat
    BY <2>2, <2>5, <2>6, <2>7
  <2> QED BY <1>1, <2>1, <2>2, <2>8 DEF HashInv, TableSound
<1>6. CASE Repaired
  <2>1. /\ pc = "repair" /\ buckets[pos] = Absent /\ hash \in [Key -> HashValue]
        /\ Repairing(hash, buckets, capacity, count, pos)
        /\ pc' = "idle" /\ pos' = 0 /\ UNCHANGED <<hash, buckets, capacity, count, answer>>
    BY <1>1, <1>6 DEF Repaired, HashInv, TableSound, table
  <2>2. /\ capacity \in Size /\ buckets \in Buckets(capacity) /\ Single(buckets)
        /\ count = Occupied(buckets) /\ Light(count + 1, capacity) /\ pos \in 0 .. capacity - 1
    BY <2>1 DEF Repairing
  <2>3. Linked(hash, buckets, capacity)
    <3>1. PICK hole \in 0 .. capacity - 1 :
            hole # pos /\ Detour(hash, buckets, capacity, hole, pos)
      BY <2>1 DEF Repairing
    <3>2. Homes(hash, capacity)
      BY <2>1, <2>2, ProbeFacts DEF Homes
    <3> QED BY <2>1, <2>2, <3>1, <3>2, DetourEnds
  <2>4. Light(count, capacity)
    <3>1. count \in Nat
      BY <2>2, OccupiedFacts
    <3> QED BY <2>2, <3>1, LightFacts
  <2>5. Whole(hash, buckets, capacity, count)
    BY <2>2, <2>3, <2>4 DEF Whole
  <2> QED BY <1>1, <2>1, <2>5 DEF HashInv, TableSound
<1>7. CASE Clear
  <2>1. Whole(hash, buckets, capacity, count)
    BY <1>7 DEF Clear, HashInv
  <2>2. Whole(hash, [j \in DOMAIN buckets |-> Absent], capacity, 0)
    BY <2>1, ClearWhole
  <2> QED BY <1>1, <1>7, <2>2 DEF Clear, HashInv, TableSound
<1>8. CASE Free
  BY <1>1, <1>8 DEF Free, HashInv, TableSound, Whole
<1>9. CASE UNCHANGED vars
  BY <1>9 DEF HashInv, TableSound, vars
<1> QED BY <1>2, <1>3, <1>4, <1>5, <1>6, <1>7, <1>8, <1>9 DEF Next, Repair


(* Capacity, chains, count and the state of a repair fit together, whatever *)
(* the hashes: Init establishes it and every call and every step of a       *)
(* repair keeps it.                                                         *)
THEOREM HashTableInvariant == Spec => []HashInv
<1>1. Init => HashInv
  BY HashTableAssumption DEF Init, HashInv, TableSound, Whole
<1> QED BY <1>1, HashStep, PTL DEF Spec

-----------------------------------------------------------------------------
(* What the runs check.                                                     *)

(* The parts of the table keep their types.                                 *)
THEOREM HashTableTypes == Spec => []TypeOK
<1>1. HashInv => TypeOK
  <2> SUFFICES ASSUME HashInv PROVE TypeOK
    OBVIOUS
  <2>1. TableSound
    BY DEF HashInv
  <2>2. CASE capacity = 0 /\ buckets = <<>> /\ count = 0
    <3>1. buckets \in [0 .. capacity - 1 -> Entry \cup {Absent}]
      BY <2>2
    <3> QED BY <2>1, <2>2, <3>1 DEF TypeOK, TableSound
  <2>3. CASE capacity \in Size /\ buckets \in Buckets(capacity) /\ count = Occupied(buckets)
    BY <2>1, <2>3, OccupiedFacts DEF TypeOK, TableSound, Buckets
  <2> QED BY <2>1, <2>2, <2>3 DEF HashInv, TableSound, Whole, Repairing
<1> QED BY <1>1, HashTableInvariant, PTL

(* t->count is the number of entries in every state, also in the middle of  *)
(* hashtable_remove's repair, and a probe always has an empty bucket to     *)
(* stop at.                                                                 *)
THEOREM CountIsExact == Spec => []CountExact
<1>1. HashInv => CountExact
  <2> SUFFICES ASSUME HashInv PROVE CountExact
    OBVIOUS
  <2>1. CASE capacity = 0 /\ buckets = <<>> /\ count = 0
    <3>1. {j \in DOMAIN buckets : buckets[j] # Absent} = {}
      BY <2>1
    <3>2. Occupied(buckets) = 0
      BY <3>1, FS_EmptySet DEF Occupied
    <3> QED BY <2>1, <3>2 DEF CountExact
  <2>2. CASE /\ capacity \in Size /\ buckets \in Buckets(capacity) /\ count = Occupied(buckets)
             /\ Light(count, capacity) \/ Light(count + 1, capacity)
    <3>1. count \in Nat /\ capacity \in Nat
      BY <2>2, OccupiedFacts, SizeFacts
    <3>2. count < capacity
      BY <2>2, <3>1, LightRoom
    <3> QED BY <2>2, <3>2 DEF CountExact
  <2> QED BY <2>1, <2>2 DEF HashInv, TableSound, Whole, Repairing
<1> QED BY <1>1, HashTableInvariant, PTL

(* Between operations every key is in one bucket and no entry has an empty  *)
(* bucket before it in its probe sequence: hashtable_get finds it.          *)
THEOREM ChainsUnbroken == Spec => []ProbeChainsUnbroken
<1>1. HashInv => ProbeChainsUnbroken
  <2> SUFFICES ASSUME HashInv, pc = "idle", NEW j \in DOMAIN buckets, buckets[j] # Absent
               PROVE  /\ Holding(buckets[j].key) = {j}
                      /\ \E i \in 0 .. capacity - 1 :
                           /\ Probe(buckets[j].key, i, capacity) = j
                           /\ \A g \in 0 .. i : buckets[Probe(buckets[j].key, g, capacity)] # Absent
    BY DEF ProbeChainsUnbroken
  <2>1. /\ capacity \in Size /\ buckets \in Buckets(capacity) /\ Single(buckets)
        /\ Linked(hash, buckets, capacity) /\ hash \in [Key -> HashValue]
    BY DEF HashInv, TableSound, Whole
  <2>2. /\ capacity \in Nat \ {0} /\ DOMAIN buckets = 0 .. capacity - 1
        /\ buckets[j].key \in Key
    BY <2>1, BucketFacts
  <2>3. Holding(buckets[j].key) = {j}
    BY <2>1, <2>2 DEF Holding, KeyAt, Single
  <2> DEFINE k == buckets[j].key
             a == Home(hash, k, capacity)
             i == Dist(a, j, capacity)
  <2>4. \A x \in Before(hash, k, j, capacity) : buckets[x] # Absent
    BY <2>1, <2>2 DEF Linked
  <2>5. a \in 0 .. capacity - 1 /\ \A g \in 0 .. capacity - 1 : Probe(k, g, capacity) = Turn(a, g, capacity)
    BY <2>1, <2>2, ProbeFacts
  <2> HIDE DEF k, a
  <2>6. /\ \A g \in 0 .. capacity - 1 :
             Turn(a, g, capacity) \in 0 .. capacity - 1 /\ Dist(a, Turn(a, g, capacity), capacity) = g
        /\ i \in 0 .. capacity - 1 /\ Turn(a, i, capacity) = j
    BY <2>2, <2>5, TurnFacts
  <2> HIDE DEF i
  <2>7. ASSUME NEW g \in 0 .. i PROVE buckets[Probe(k, g, capacity)] # Absent
    <3>1. g \in 0 .. capacity - 1 /\ (g = i \/ g < i)
      BY <2>2, <2>6
    <3>2. CASE g = i
      BY <2>5, <2>6, <3>1, <3>2
    <3>3. CASE g < i
      <4>1. Turn(a, g, capacity) \in Before(hash, k, j, capacity)
        BY <2>6, <3>1, <3>3 DEF Before, a, i
      <4> QED BY <2>4, <2>5, <3>1, <4>1
    <3> QED BY <3>1, <3>2, <3>3
  <2>8. Probe(k, i, capacity) = j
    BY <2>5, <2>6
  <2> QED BY <2>3, <2>6, <2>7, <2>8 DEF k
<1> QED BY <1>1, HashTableInvariant, PTL

(* hashtable_remove keeps its cap and pos while hashtable_put puts the rest *)
(* of the chain back: that call never grows the table.                      *)
THEOREM NoRehashInRepair == Spec => RepairNeverRehashes
<1>1. HashInv /\ [Next]_vars => [Reinsert => capacity' = capacity]_vars
  <2> SUFFICES ASSUME HashInv, Reinsert PROVE capacity' = capacity
    OBVIOUS
  <2> DEFINE t == hashtable_put(Written(buckets, pos, Absent), capacity, count - 1, buckets[pos])
  <2>1. /\ buckets[pos] # Absent /\ hash \in [Key -> HashValue]
        /\ Repairing(hash, buckets, capacity, count, pos)
    BY DEF Reinsert, HashInv, TableSound
  <2>2. capacity' = t.capacity
    BY DEF Reinsert, SetTable, Written
  <2>3. /\ capacity \in Size /\ buckets \in Buckets(capacity) /\ Single(buckets)
        /\ count = Occupied(buckets) /\ Light(count + 1, capacity) /\ pos \in 0 .. capacity - 1
    BY <2>1 DEF Repairing
  <2>4. PICK hole \in 0 .. capacity - 1 : hole # pos /\ Detour(hash, buckets, capacity, hole, pos)
    BY <2>1 DEF Repairing
  <2>5. t.capacity = capacity
    BY <2>1, <2>3, <2>4, PutBack
  <2> QED BY <2>2, <2>5
<1> QED BY <1>1, HashTableInvariant, PTL DEF Spec, RepairNeverRehashes

-----------------------------------------------------------------------------
(* The table implements the finite map of hashtable.h.                      *)

(* The map that the buckets stand for.                                      *)
Held(b) ==
  [k \in Key |->
     IF {j \in DOMAIN b : KeyAt(b, j, k)} = {} THEN Absent
     ELSE b[CHOOSE j \in {j \in DOMAIN b : KeyAt(b, j, k)} : TRUE].val]

Proper(b) == Single(b) /\ \A j \in DOMAIN b : b[j] # Absent => b[j] \in Entry

(* It is told by the entries alone.                                         *)
LEMMA HeldFacts ==
  ASSUME NEW b, Proper(b)
  PROVE  \A k \in Key : /\ \A e \in Entries(b) : e.key = k => Held(b)[k] = e.val
                        /\ (\A e \in Entries(b) : e.key # k) => Held(b)[k] = Absent
<1> SUFFICES ASSUME NEW k \in Key
             PROVE  /\ \A e \in Entries(b) : e.key = k => Held(b)[k] = e.val
                    /\ (\A e \in Entries(b) : e.key # k) => Held(b)[k] = Absent
  OBVIOUS
<1> DEFINE H == {j \in DOMAIN b : KeyAt(b, j, k)}
<1>1. Held(b)[k] = IF H = {} THEN Absent ELSE b[CHOOSE j \in H : TRUE].val
  BY DEF Held
<1>2. \A j : j \in H <=> j \in DOMAIN b /\ b[j] # Absent /\ b[j].key = k
  BY DEF KeyAt
<1> HIDE DEF H
<1>3. ASSUME NEW e \in Entries(b), e.key = k PROVE Held(b)[k] = e.val
  <2>1. PICK j \in DOMAIN b : e = b[j] /\ e # Absent
    BY DEF Entries
  <2>2. j \in H
    BY <1>2, <1>3, <2>1
  <2>3. \A i \in H : i = j
    BY <1>2, <2>2 DEF Proper, Single
  <2>4. (CHOOSE i \in H : TRUE) \in H
    BY <2>2
  <2> QED BY <1>1, <2>1, <2>2, <2>3, <2>4
<1>4. ASSUME \A e \in Entries(b) : e.key # k PROVE Held(b)[k] = Absent
  <2>1. H = {}
    BY <1>2, <1>4 DEF Entries
  <2> QED BY <1>1, <2>1
<1> QED BY <1>3, <1>4

LEMMA HeldSame ==
  ASSUME NEW b, NEW c, Proper(b), Proper(c), Entries(c) = Entries(b)
  PROVE  Held(c) = Held(b)
<1>1. ASSUME NEW k \in Key PROVE Held(c)[k] = Held(b)[k]
  BY HeldFacts
<1>2. /\ Held(b) = [k \in Key |-> Held(b)[k]] /\ Held(c) = [k \in Key |-> Held(c)[k]]
  BY DEF Held
<1> HIDE DEF Held
<1> QED BY <1>1, <1>2

LEMMA HeldPut ==
  ASSUME NEW b, NEW c, Proper(b), Proper(c), NEW e \in Entry,
         Entries(c) = {f \in Entries(b) : f.key # e.key} \cup {e}
  PROVE  Held(c) = [Held(b) EXCEPT ![e.key] = e.val]
<1>1. ASSUME NEW k \in Key PROVE Held(c)[k] = IF k = e.key THEN e.val ELSE Held(b)[k]
  BY HeldFacts
<1>2. /\ Held(b) = [k \in Key |-> Held(b)[k]] /\ Held(c) = [k \in Key |-> Held(c)[k]]
  BY DEF Held
<1> HIDE DEF Held
<1> QED BY <1>1, <1>2

LEMMA HeldRemove ==
  ASSUME NEW b, NEW c, Proper(b), Proper(c), NEW x \in Key,
         Entries(c) = {f \in Entries(b) : f.key # x}
  PROVE  Held(c) = [Held(b) EXCEPT ![x] = Absent]
<1>1. ASSUME NEW k \in Key PROVE Held(c)[k] = IF k = x THEN Absent ELSE Held(b)[k]
  BY HeldFacts
<1>2. /\ Held(b) = [k \in Key |-> Held(b)[k]] /\ Held(c) = [k \in Key |-> Held(c)[k]]
  BY DEF Held
<1> HIDE DEF Held
<1> QED BY <1>1, <1>2

LEMMA WholeProper ==
  ASSUME NEW h, NEW b, NEW cap, NEW n, NEW here,
         Whole(h, b, cap, n) \/ Repairing(h, b, cap, n, here)
  PROVE  Proper(b)
<1>1. CASE b = <<>>
  BY <1>1 DEF Proper, Single
<1>2. CASE cap \in Size /\ b \in Buckets(cap) /\ Single(b)
  BY <1>2, BucketFacts DEF Proper
<1> QED BY <1>1, <1>2 DEF Whole, Repairing

dictHeld == [k \in Key |-> IF Holding(k) = {} THEN Absent
                           ELSE buckets[CHOOSE j \in Holding(k) : TRUE].val]

(* Growth, collisions, wrapped probe sequences and the repair after a       *)
(* removal never lose, resurrect or hide an entry from hashtable_get: every *)
(* step of the table is a step of the map, and the steps of a repair change *)
(* nothing.                                                                 *)
THEOREM ImplementsDict == Spec => RefinesDict
<1>1. Init => Abstract!Init
  <2> SUFFICES ASSUME Init PROVE Abstract!Init
    OBVIOUS
  <2>1. \A k \in Key : Holding(k) = {}
    BY DEF Init, Holding
  <2> QED BY <2>1 DEF Init, Abstract!Init
<1>2. HashInv /\ HashInv' /\ [Next]_vars => [Abstract!Next]_(Abstract!vars)
  <2> SUFFICES ASSUME HashInv, HashInv', [Next]_vars PROVE [Abstract!Next]_(Abstract!vars)
    OBVIOUS
  <2>1. dictHeld = Held(buckets) /\ dictHeld' = Held(buckets')
    BY DEF dictHeld, Held, Holding
  <2>2. Proper(buckets) /\ Proper(buckets')
    <3>1. Proper(buckets)
      BY WholeProper DEF HashInv, TableSound
    <3>2. Proper(buckets')
      BY WholeProper DEF HashInv, TableSound
    <3> QED BY <3>1, <3>2
  <2>3. TableSound
    BY DEF HashInv
  <2>4. ASSUME dictHeld' = dictHeld, answer' = answer
        PROVE  [Abstract!Next]_(Abstract!vars)
    BY <2>4 DEF Abstract!vars, dictHeld
  <2>5. ASSUME NEW k \in Key, Get(k) PROVE [Abstract!Next]_(Abstract!vars)
    <3>1. Whole(hash, buckets, capacity, count)
      BY <2>5 DEF Get, HashInv
    <3>2. answer' = Answer(k) /\ buckets' = buckets
      BY <2>5 DEF Get, Answer, table
    <3>3. Answer(k) = Held(buckets)[k]
      BY <2>2, <2>3, <3>1, AnswerFacts, HeldFacts DEF TableSound
    <3>4. answer' = dictHeld[k] /\ dictHeld' = dictHeld
      BY <2>1, <3>2, <3>3
    <3>5. Abstract!Get(k)
      BY <3>4 DEF Abstract!Get, dictHeld
    <3> QED BY <3>5 DEF Abstract!Next
  <2>6. ASSUME NEW k \in Key, Remove(k) PROVE [Abstract!Next]_(Abstract!vars)
    <3>1. Whole(hash, buckets, capacity, count) /\ hash \in [Key -> HashValue]
          /\ UNCHANGED answer
      BY <2>3, <2>6 DEF Remove, HashInv, TableSound
    <3>2. CASE Found(k) = {}
      <4>1. \A e \in Entries(buckets) : e.key # k
        BY <3>1, <3>2, FoundFacts
      <4>2. buckets' = buckets
        BY <2>6, <3>2 DEF Remove, table
      <4> QED BY <2>1, <2>4, <3>1, <4>2
    <3>3. CASE Found(k) # {}
      <4> DEFINE s == RemoveProbe(k, Min(Found(k)), capacity)
      <4>1. capacity \in Size /\ s \in 0 .. capacity - 1 /\ buckets[s] # Absent /\ buckets[s].key = k
        BY <3>1, <3>3, FoundFacts DEF KeyAt
      <4>2. buckets' = Written(buckets, s, Absent) /\ buckets \in Buckets(capacity) /\ Single(buckets)
        <5>1. buckets' = Written(buckets, s, Absent)
          BY <2>6, <3>3 DEF Remove, Written
        <5>2. capacity # 0
          BY <4>1, SizeFacts
        <5> QED BY <3>1, <5>1, <5>2 DEF Whole
      <4> HIDE DEF s
      <4>3. Entries(buckets') = {f \in Entries(buckets) : f.key # k}
        <5>1. Entries(Written(buckets, s, Absent)) =
                {f \in Entries(buckets) : f.key # buckets[s].key}
          BY <4>1, <4>2, RemoveEntries
        <5> QED BY <4>1, <4>2, <5>1
      <4>4. dictHeld' = [dictHeld EXCEPT ![k] = Absent]
        BY <2>1, <2>2, <4>3, HeldRemove
      <4>5. Abstract!Remove(k)
        BY <3>1, <4>4 DEF Abstract!Remove, dictHeld
      <4> QED BY <4>5 DEF Abstract!Next
    <3> QED BY <3>2, <3>3
  <2>7. ASSUME NEW k \in Key, NEW v \in Val, Put(k, v) PROVE [Abstract!Next]_(Abstract!vars)
    <3> DEFINE e == [key |-> k, val |-> v]
               t == hashtable_put(buckets, capacity, count, e)
    <3>1. Whole(hash, buckets, capacity, count) /\ hash \in [Key -> HashValue]
      BY <2>3, <2>7 DEF Put, HashInv, TableSound
    <3>2. e \in Entry /\ e.key = k /\ e.val = v
      BY DEF Entry
    <3>3. buckets' = t.buckets /\ UNCHANGED answer
      BY <2>7 DEF Put, SetTable
    <3> HIDE DEF e
    <3>4. Entries(buckets') = {f \in Entries(buckets) : f.key # e.key} \cup {e}
      BY <3>1, <3>2, <3>3, PutWhole
    <3>5. dictHeld' = [dictHeld EXCEPT ![k] = v]
      BY <2>1, <2>2, <3>2, <3>4, HeldPut
    <3>6. Abstract!Put(k, v)
      BY <3>3, <3>5 DEF Abstract!Put, dictHeld
    <3> QED BY <3>6 DEF Abstract!Next
  <2>8. CASE Reinsert
    <3> DEFINE t == hashtable_put(Written(buckets, pos, Absent), capacity, count - 1, buckets[pos])
    <3>1. /\ buckets[pos] # Absent /\ hash \in [Key -> HashValue]
          /\ Repairing(hash, buckets, capacity, count, pos)
      BY <2>3, <2>8 DEF Reinsert, HashInv, TableSound
    <3>2. buckets' = t.buckets /\ UNCHANGED answer
      BY <2>8 DEF Reinsert, SetTable, Written
    <3>3. /\ capacity \in Size /\ buckets \in Buckets(capacity) /\ Single(buckets)
          /\ count = Occupied(buckets) /\ Light(count + 1, capacity) /\ pos \in 0 .. capacity - 1
      BY <3>1 DEF Repairing
    <3>4. PICK hole \in 0 .. capacity - 1 :
            hole # pos /\ Detour(hash, buckets, capacity, hole, pos)
      BY <3>1 DEF Repairing
    <3>5. Entries(t.buckets) = Entries(buckets)
      BY <3>1, <3>3, <3>4, PutBack
    <3> HIDE DEF t
    <3>6. dictHeld' = dictHeld
      BY <2>1, <2>2, <3>2, <3>5, HeldSame
    <3> QED BY <2>4, <3>2, <3>6
  <2>9. CASE Repaired
    <3>1. buckets' = buckets /\ answer' = answer
      BY <2>9 DEF Repaired, table
    <3> QED BY <2>1, <2>4, <3>1
  <2>10. ASSUME Entries(buckets') = {}, UNCHANGED answer PROVE [Abstract!Next]_(Abstract!vars)
    <3>1. \A k \in Key : Held(buckets')[k] = Absent
      BY <2>2, <2>10, HeldFacts
    <3>2. Held(buckets') = [k \in Key |-> Absent]
      BY <3>1 DEF Held
    <3>3. Abstract!Clear
      BY <2>1, <2>10, <3>2 DEF Abstract!Clear, dictHeld
    <3> QED BY <3>3 DEF Abstract!Next
  <2>11. CASE Clear
    <3>1. Whole(hash, buckets, capacity, count)
      BY <2>11 DEF Clear, HashInv
    <3>2. Entries([j \in DOMAIN buckets |-> Absent]) = {}
      BY <3>1, ClearWhole
    <3> QED BY <2>10, <2>11, <3>2 DEF Clear
  <2>12. CASE Free
    <3>1. buckets' = <<>> /\ answer' = answer
      BY <2>12 DEF Free
    <3>2. Entries(buckets') = {}
      BY <3>1 DEF Entries
    <3> QED BY <2>10, <3>1, <3>2
  <2>13. CASE UNCHANGED vars
    <3>1. buckets' = buckets /\ answer' = answer
      BY <2>13 DEF vars
    <3> QED BY <2>1, <2>4, <3>1
  <2> QED BY <2>5, <2>6, <2>7, <2>8, <2>9, <2>11, <2>12, <2>13 DEF Next, Repair
<1> QED BY <1>1, <1>2, HashTableInvariant, PTL DEF Spec, RefinesDict, Abstract!Spec

-----------------------------------------------------------------------------
(* Loops over a dict.                                                      *)

(* d[k] = v on a key that is there changes no bucket's key.                *)
Updated(b, e) == [j \in DOMAIN b |-> IF KeyAt(b, j, e.key) THEN e ELSE b[j]]

LEMMA UpdatedWhole ==
  ASSUME NEW h, NEW b, NEW cap, NEW n, Whole(h, b, cap, n), NEW e \in Entry
  PROVE  /\ Whole(h, Updated(b, e), cap, n) /\ DOMAIN Updated(b, e) = DOMAIN b
         /\ \A j \in DOMAIN b : /\ Updated(b, e)[j] = Absent <=> b[j] = Absent
                                /\ b[j] # Absent => Updated(b, e)[j].key = b[j].key
<1> DEFINE new == Updated(b, e)
<1>1. /\ DOMAIN new = DOMAIN b
      /\ \A j \in DOMAIN b : /\ new[j] = Absent <=> b[j] = Absent
                             /\ b[j] # Absent => new[j].key = b[j].key
                             /\ new[j] \in {b[j], e}
  BY EntryFacts DEF Updated, KeyAt
<1>2. CASE cap = 0 /\ b = <<>> /\ n = 0
  <2>1. new = <<>>
    BY <1>2 DEF Updated
  <2> QED BY <1>1, <1>2, <2>1 DEF Whole
<1>3. CASE /\ cap \in Size /\ b \in Buckets(cap) /\ Single(b) /\ n = Occupied(b)
           /\ Linked(h, b, cap) /\ Light(n, cap)
  <2>1. DOMAIN b = 0 .. cap - 1
    BY <1>3, BucketFacts
  <2>2. new \in Buckets(cap)
    BY <1>3, <2>1, BucketFacts DEF Buckets, Updated
  <2> HIDE DEF new
  <2>3. Single(new)
    BY <1>1, <1>3 DEF Single
  <2>4. Linked(h, new, cap)
    <3> SUFFICES ASSUME NEW j \in 0 .. cap - 1, new[j] # Absent,
                        NEW x \in Before(h, new[j].key, j, cap)
                 PROVE  new[x] # Absent
      BY DEF Linked
    <3>1. b[j] # Absent /\ new[j].key = b[j].key
      BY <1>1, <2>1
    <3>2. b[x] # Absent /\ x \in 0 .. cap - 1
      BY <1>3, <3>1 DEF Linked, Before
    <3> QED BY <1>1, <2>1, <3>2
  <2>5. {j \in DOMAIN new : new[j] # Absent} = {j \in DOMAIN b : b[j] # Absent}
    BY <1>1
  <2>6. Occupied(new) = Occupied(b)
    BY <2>5 DEF Occupied
  <2> QED BY <1>1, <1>3, <2>2, <2>3, <2>4, <2>6 DEF Whole, new
<1> QED BY <1>2, <1>3 DEF Whole

(* The keys of the buckets that the loop has come past.                    *)
KeysUpTo(b, n) == {b[j].key : j \in {i \in DOMAIN b : i < n /\ b[i] # Absent}}

LEMMA DomainOfTable ==
  ASSUME NEW h, NEW b, NEW cap, NEW n, Whole(h, b, cap, n)
  PROVE  /\ cap \in Nat /\ DOMAIN b = 0 .. cap - 1 /\ Single(b)
         /\ \A j \in DOMAIN b : b[j] # Absent => b[j] \in Entry /\ b[j].key \in Key
<1>1. CASE cap = 0 /\ b = <<>>
  BY <1>1 DEF Single
<1>2. CASE cap \in Size /\ b \in Buckets(cap) /\ Single(b)
  BY <1>2, BucketFacts
<1> QED BY <1>1, <1>2 DEF Whole

(* What a loop has given out, and what it gives out next.                  *)
LEMMA AppendRange ==
  ASSUME NEW S, NEW s \in Seq(S), NEW e \in S
  PROVE  Append(s, e) \in Seq(S) /\ Range(Append(s, e)) = Range(s) \cup {e}
<1>1. /\ Append(s, e) \in Seq(S) /\ Len(s) \in Nat
      /\ DOMAIN Append(s, e) = 1 .. Len(s) + 1
      /\ \A i \in 1 .. Len(s) : Append(s, e)[i] = s[i]
      /\ Append(s, e)[Len(s) + 1] = e
  BY Data!AppendFacts
<1>2. DOMAIN s = 1 .. Len(s)
  BY Data!SeqFacts
<1>3. \A i \in 1 .. Len(s) + 1 : i \in 1 .. Len(s) \/ i = Len(s) + 1
  BY <1>1
<1>4. 1 .. Len(s) \subseteq 1 .. Len(s) + 1 /\ Len(s) + 1 \in 1 .. Len(s) + 1
  BY <1>1
<1>5. \A x : x \in Range(Append(s, e)) <=> \E i \in 1 .. Len(s) + 1 : x = Append(s, e)[i]
  BY <1>1 DEF Range
<1>6. \A x : x \in Range(s) <=> \E i \in 1 .. Len(s) : x = s[i]
  BY <1>2 DEF Range
<1> QED BY <1>1, <1>3, <1>4, <1>5, <1>6

LEMMA AppendNew ==
  ASSUME NEW S, NEW s \in Seq(S), IsInjective(s), NEW e \in S, e \notin Range(s)
  PROVE  IsInjective(Append(s, e))
<1>1. /\ Len(s) \in Nat /\ DOMAIN Append(s, e) = 1 .. Len(s) + 1
      /\ \A i \in 1 .. Len(s) : Append(s, e)[i] = s[i]
      /\ Append(s, e)[Len(s) + 1] = e
  BY Data!AppendFacts
<1>2. DOMAIN s = 1 .. Len(s)
  BY Data!SeqFacts
<1>3. \A i \in 1 .. Len(s) : s[i] # e
  BY <1>2 DEF Range
<1> QED BY <1>1, <1>2, <1>3 DEF IsInjective

(* Until the body brings a key in or takes one out, the loop has given out *)
(* the keys of the buckets before idx.                                     *)
VisitInv ==
  kind = "dict" =>
    /\ HashInv
    /\ at = "before" => idx = 0 /\ seen = <<>> /\ reshaped = 0
    /\ at # "before" /\ reshaped = 0 =>
         /\ pc = "idle" /\ idx \in Nat
         /\ seen \in Seq(Key) /\ IsInjective(seen)
         /\ Range(seen) = KeysUpTo(buckets, idx)

LEMMA NothingGivenOut ==
  ASSUME NEW h, NEW b, NEW cap, NEW n, Whole(h, b, cap, n)
  PROVE  KeysUpTo(b, 0) = {} /\ <<>> \in Seq(Key) /\ IsInjective(<<>>) /\ Range(<<>>) = {}
<1>1. DOMAIN b = 0 .. cap - 1 /\ cap \in Nat
  BY DomainOfTable
<1>2. {i \in DOMAIN b : i < 0 /\ b[i] # Absent} = {}
  BY <1>1
<1>3. KeysUpTo(b, 0) = {}
  BY <1>2 DEF KeysUpTo
<1>4. DOMAIN <<>> = {} /\ <<>> \in Seq(Key)
  OBVIOUS
<1> QED BY <1>3, <1>4 DEF IsInjective, Range

(* The next key is one not given out, and no bucket is left out.           *)
LEMMA NextKey ==
  ASSUME Whole(hash, buckets, capacity, count), idx \in Nat, BucketsAhead # {}
  PROVE  LET m == Min(BucketsAhead) IN
         /\ m \in Nat /\ buckets[m].key \in Key /\ buckets[m].key \notin KeysUpTo(buckets, idx)
         /\ KeysUpTo(buckets, m + 1) = KeysUpTo(buckets, idx) \cup {buckets[m].key}
<1> DEFINE m == Min(BucketsAhead)
<1>1. /\ capacity \in Nat /\ DOMAIN buckets = 0 .. capacity - 1 /\ Single(buckets)
      /\ \A j \in DOMAIN buckets : buckets[j] # Absent => buckets[j].key \in Key
  BY DomainOfTable
<1>2. m \in BucketsAhead /\ \A j \in BucketsAhead : m <= j
  <2>1. BucketsAhead \in SUBSET Nat
    BY <1>1 DEF BucketsAhead
  <2>2. \E n \in BucketsAhead : \A j \in BucketsAhead : n <= j
    BY <2>1, Data!LeastElement
  <2> QED BY <2>2 DEF Min
<1> HIDE DEF m
<1>3. m \in idx .. capacity - 1 /\ buckets[m] # Absent /\ m \in DOMAIN buckets /\ m \in Nat
  BY <1>1, <1>2 DEF BucketsAhead
<1>4. \A i \in DOMAIN buckets : i < m + 1 /\ buckets[i] # Absent
        <=> (i < idx /\ buckets[i] # Absent) \/ i = m
  <2> SUFFICES ASSUME NEW i \in DOMAIN buckets, buckets[i] # Absent
               PROVE  i < m + 1 <=> i < idx \/ i = m
    BY <1>3
  <2>1. i >= idx => i \in BucketsAhead
    BY <1>1 DEF BucketsAhead
  <2> QED BY <1>1, <1>2, <1>3, <2>1
<1>5. buckets[m].key \notin KeysUpTo(buckets, idx)
  BY <1>1, <1>3 DEF KeysUpTo, Single
<1>6. KeysUpTo(buckets, m + 1) = KeysUpTo(buckets, idx) \cup {buckets[m].key}
  BY <1>3, <1>4 DEF KeysUpTo
<1> QED BY <1>1, <1>3, <1>5, <1>6 DEF m

LEMMA DictStep ==
  ASSUME VisitInv, [LoopNext]_allVars
  PROVE  VisitInv'
<1>1. kind' = kind
  BY DEF LoopNext, Iterate, Begin, Refuse, Finish, YieldNumber, YieldItem, YieldKey, Body,
         LoopRepair, Break, ArrayAppend, ArrayDelete, Ended, Delete, IndexSet, allVars, loopVars
<1> SUFFICES ASSUME kind = "dict" PROVE VisitInv'
  BY <1>1 DEF VisitInv
<1>2. HashInv /\ (pc = "idle" => Whole(hash, buckets, capacity, count))
  BY DEF VisitInv, HashInv
<1>3. ASSUME UNCHANGED vars PROVE HashInv'
  <2>1. [Next]_vars
    BY <1>3
  <2> QED BY <1>2, <2>1, HashStep
<1>4. CASE Begin
  <2>1. UNCHANGED <<vars, kind, idx, seen, reshaped>> /\ pc = "idle" /\ at' # "before"
        /\ at = "before"
    BY <1>4 DEF Begin
  <2>2. UNCHANGED vars /\ UNCHANGED <<buckets, pc>>
    BY <2>1 DEF vars
  <2>3. /\ KeysUpTo(buckets, 0) = {} /\ <<>> \in Seq(Key) /\ IsInjective(<<>>) /\ Range(<<>>) = {}
    BY <1>2, <2>1, NothingGivenOut
  <2>4. /\ seen' = <<>> /\ idx' = 0 /\ pc' = "idle" /\ idx' \in Nat
        /\ KeysUpTo(buckets', idx') = {}
    BY <1>2, <2>1, <2>2, <2>3 DEF VisitInv
  <2>5. seen' \in Seq(Key) /\ IsInjective(seen') /\ Range(seen') = KeysUpTo(buckets', idx')
    BY <2>3, <2>4
  <2> QED BY <1>3, <2>1, <2>2, <2>4, <2>5 DEF VisitInv
<1>5. ASSUME UNCHANGED <<vars, kind, idx, seen, reshaped>>, at = "before" <=> at' = "before"
      PROVE  VisitInv'
  <2>1. UNCHANGED vars /\ UNCHANGED <<buckets, pc>>
    BY <1>5 DEF vars
  <2> QED BY <1>3, <1>5, <2>1 DEF VisitInv
<1>6. CASE Refuse \/ Finish \/ Body \/ Break \/ Ended
  BY <1>5, <1>6 DEF Refuse, Finish, Body, Break, Ended, allVars, loopVars
<1>7. CASE YieldKey
  <2> DEFINE m == Min(BucketsAhead)
  <2>1. /\ at = "head" /\ at' = "body" /\ UNCHANGED <<vars, kind, reshaped>>
        /\ idx' = m + 1 /\ BucketsAhead # {}
        /\ seen' = IF reshaped = 0 THEN Append(seen, buckets[m].key) ELSE seen
    BY <1>7 DEF YieldKey, Yielding, Ends
  <2>2. UNCHANGED vars /\ UNCHANGED <<buckets, pc>>
    BY <2>1 DEF vars
  <2>3. CASE reshaped = 0
    <3>1. /\ pc = "idle" /\ idx \in Nat /\ seen \in Seq(Key) /\ IsInjective(seen)
          /\ Range(seen) = KeysUpTo(buckets, idx)
      BY <2>1, <2>3 DEF VisitInv
    <3>2. /\ m \in Nat /\ buckets[m].key \in Key /\ buckets[m].key \notin KeysUpTo(buckets, idx)
          /\ KeysUpTo(buckets, m + 1) = KeysUpTo(buckets, idx) \cup {buckets[m].key}
      BY <1>2, <2>1, <3>1, NextKey
    <3> HIDE DEF m
    <3> DEFINE e == buckets[m].key
    <3> HIDE DEF e
    <3>3. seen' = Append(seen, e) /\ e \in Key /\ e \notin Range(seen)
      BY <2>1, <2>3, <3>1, <3>2 DEF e
    <3>4. /\ seen' \in Seq(Key) /\ IsInjective(seen') /\ Range(seen') = Range(seen) \cup {e}
      BY <3>1, <3>3, AppendNew, AppendRange
    <3>5. Range(seen') = KeysUpTo(buckets, m + 1)
      BY <3>1, <3>2, <3>4 DEF e
    <3> QED BY <1>3, <2>1, <2>2, <3>1, <3>2, <3>4, <3>5 DEF VisitInv
  <2>4. CASE reshaped # 0
    BY <1>3, <2>1, <2>2, <2>4 DEF VisitInv
  <2> QED BY <2>3, <2>4
<1>8. CASE YieldNumber \/ YieldItem \/ ArrayAppend \/ ArrayDelete
  BY <1>8 DEF YieldNumber, YieldItem, ArrayAppend, ArrayDelete
<1>9. CASE LoopRepair
  <2>1. [Next]_vars /\ pc = "repair" /\ UNCHANGED loopVars
    BY <1>9 DEF LoopRepair, Next, Repair, Reinsert, Repaired
  <2>2. HashInv'
    BY <1>2, <2>1, HashStep
  <2> QED BY <2>1, <2>2 DEF VisitInv, loopVars
<1>10. ASSUME HashInv', UNCHANGED <<idx, seen>>, at' = at, at = "body" => reshaped' = 1,
              at = "before" => reshaped' = reshaped, Changing
       PROVE  VisitInv'
  BY <1>1, <1>10 DEF VisitInv, Changing
<1>11. ASSUME NEW k \in Key, Delete(k) PROVE VisitInv'
  <2>1. /\ Remove(k) /\ UNCHANGED <<idx, at, seen>> /\ Changing
        /\ reshaped' = IF at = "body" /\ Present(k) THEN 1 ELSE reshaped
    BY <1>11 DEF Delete, Reshapes
  <2>2. HashInv'
    BY <1>2, <2>1, HashStep DEF Next
  <2>3. CASE Present(k)
    BY <1>10, <2>1, <2>2, <2>3 DEF Changing
  <2>4. CASE ~Present(k)
    <3>1. UNCHANGED <<buckets, pc>>
      BY <2>1, <2>4 DEF Remove, Present, table
    <3> QED BY <1>1, <2>1, <2>2, <2>4, <3>1 DEF VisitInv
  <2> QED BY <2>3, <2>4
<1>12. ASSUME NEW k \in Key, NEW v \in Val, IndexSet(k, v) PROVE VisitInv'
  <2>1. /\ UNCHANGED <<idx, at, seen>> /\ Changing
        /\ reshaped' = IF at = "body" /\ ~Present(k) THEN 1 ELSE reshaped
    BY <1>12 DEF IndexSet, Reshapes
  <2>2. CASE ~Present(k)
    <3>1. Put(k, v)
      BY <1>12, <2>2 DEF IndexSet
    <3>2. HashInv'
      BY <1>2, <3>1, HashStep DEF Next
    <3> QED BY <1>10, <2>1, <2>2, <3>2 DEF Changing
  <2>3. CASE Present(k)
    <3> DEFINE e == [key |-> k, val |-> v]
    <3>1. /\ e \in Entry /\ e.key = k
      BY DEF Entry
    <3>2. /\ pc = "idle" /\ UNCHANGED <<hash, capacity, count, pc, pos, answer>>
          /\ buckets' = Updated(buckets, e)
      BY <1>12, <2>3 DEF IndexSet, Updated
    <3> HIDE DEF e
    <3>3. /\ Whole(hash, Updated(buckets, e), capacity, count)
          /\ DOMAIN Updated(buckets, e) = DOMAIN buckets
          /\ \A j \in DOMAIN buckets :
               /\ Updated(buckets, e)[j] = Absent <=> buckets[j] = Absent
               /\ buckets[j] # Absent => Updated(buckets, e)[j].key = buckets[j].key
      BY <1>2, <3>1, <3>2, UpdatedWhole
    <3>4. HashInv'
      BY <1>2, <3>2, <3>3 DEF HashInv, TableSound
    <3>5. KeysUpTo(buckets', idx) = KeysUpTo(buckets, idx)
      BY <3>2, <3>3 DEF KeysUpTo
    <3> QED BY <1>1, <2>1, <2>3, <3>2, <3>4, <3>5 DEF VisitInv
  <2> QED BY <2>2, <2>3
<1>13. CASE UNCHANGED allVars
  BY <1>5, <1>13 DEF allVars, loopVars
<1> QED BY <1>4, <1>6, <1>7, <1>8, <1>9, <1>11, <1>12, <1>13 DEF LoopNext, Iterate

(* As long as the body brings in no key and takes none out, a loop over a  *)
(* dict gives out every key once, whatever it assigns to those there are   *)
(* and however full the table is.                                          *)
THEOREM KeysVisitedOnce == LoopSpec => []VisitsEachKeyOnce
<1>1. LoopInit => VisitInv
  <2> SUFFICES ASSUME LoopInit, kind = "dict" PROVE VisitInv
    BY DEF VisitInv
  <2>1. Init /\ at = "before" /\ idx = 0 /\ seen = <<>> /\ reshaped = 0
    BY DEF LoopInit
  <2>2. HashInv
    BY <2>1, HashTableAssumption DEF Init, HashInv, TableSound, Whole
  <2> QED BY <2>1, <2>2 DEF VisitInv
<1>2. VisitInv => VisitsEachKeyOnce
  <2> SUFFICES ASSUME VisitInv, kind = "dict", pc = "idle", at # "before", reshaped = 0
               PROVE  /\ IsInjective(seen)
                      /\ {k \in Key : Present(k)} =
                           Range(seen) \cup {buckets[j].key : j \in BucketsAhead}
    BY DEF VisitsEachKeyOnce
  <2>1. /\ HashInv /\ idx \in Nat /\ IsInjective(seen) /\ Range(seen) = KeysUpTo(buckets, idx)
    BY DEF VisitInv
  <2>2. Whole(hash, buckets, capacity, count) /\ hash \in [Key -> HashValue]
    BY <2>1 DEF HashInv, TableSound
  <2>3. /\ capacity \in Nat /\ DOMAIN buckets = 0 .. capacity - 1
        /\ \A j \in DOMAIN buckets : buckets[j] # Absent => buckets[j].key \in Key
    BY <2>2, DomainOfTable
  <2>4. \A k \in Key : Present(k) <=> \E j \in DOMAIN buckets : buckets[j] # Absent /\ buckets[j].key = k
    <3> SUFFICES ASSUME NEW k \in Key
                 PROVE  Present(k) <=> \E j \in DOMAIN buckets : buckets[j] # Absent /\ buckets[j].key = k
      OBVIOUS
    <3> DEFINE s == RemoveProbe(k, Min(Found(k)), capacity)
    <3>1. /\ Found(k) = {} => \A e \in Entries(buckets) : e.key # k
          /\ Found(k) # {} => s \in 0 .. capacity - 1 /\ KeyAt(buckets, s, k)
      BY <2>2, FoundFacts
    <3> HIDE DEF s
    <3> QED BY <2>3, <3>1 DEF Present, Entries, KeyAt
  <2>5. \A j \in DOMAIN buckets : buckets[j] # Absent => (j < idx \/ j \in BucketsAhead)
    BY <2>1, <2>3 DEF BucketsAhead
  <2>6. \A j \in BucketsAhead : j \in DOMAIN buckets /\ buckets[j] # Absent
    BY <2>1, <2>3 DEF BucketsAhead
  <2>7. \A k : k \in KeysUpTo(buckets, idx) <=>
               \E j \in DOMAIN buckets : j < idx /\ buckets[j] # Absent /\ buckets[j].key = k
    BY DEF KeysUpTo
  <2>8. {k \in Key : Present(k)} = Range(seen) \cup {buckets[j].key : j \in BucketsAhead}
    BY <2>1, <2>3, <2>4, <2>5, <2>6, <2>7
  <2> QED BY <2>1, <2>8
<1> QED BY <1>1, <1>2, DictStep, PTL DEF LoopSpec

-----------------------------------------------------------------------------
(* Loops over arrays and strings.                                          *)

Rising(s) == \A i, j \in DOMAIN s : i < j => s[i] < s[j]

(* The positions up to idx that hold nothing the loop has given out.       *)
Missed(s, n, given) == {p \in 1 .. n : p > Len(s) \/ s[p] \notin given}

(* What the loop has given out rises, and so does what is left.            *)
ItemsInv ==
  kind \in {"array", "string"} =>
    /\ items \in Seq(1 .. ItemMax) /\ seen \in Seq(1 .. ItemMax)
    /\ idx \in Nat /\ reshaped \in Nat
    /\ Rising(items) /\ Rising(seen)
    /\ \A i \in DOMAIN seen, p \in DOMAIN items : p > idx => seen[i] < items[p]
    /\ Cardinality(Missed(items, idx, Range(seen))) <= reshaped
    /\ at = "done" => idx >= Len(items)

LEMMA MissedFinite ==
  ASSUME NEW s, NEW n \in Nat, NEW given
  PROVE  /\ IsFiniteSet(Missed(s, n, given)) /\ Cardinality(Missed(s, n, given)) \in Nat
<1>1. IsFiniteSet(1 .. n) /\ Missed(s, n, given) \in SUBSET (1 .. n)
  BY FS_Interval DEF Missed
<1> QED BY <1>1, FS_Subset, FS_CardinalityType

(* Giving out an item, or appending one, misses none more.                 *)
LEMMA MissedFewer ==
  ASSUME NEW s, NEW n \in Nat, NEW given, NEW t, NEW m \in Nat, NEW more,
         Missed(t, m, more) \subseteq Missed(s, n, given)
  PROVE  Cardinality(Missed(t, m, more)) <= Cardinality(Missed(s, n, given))
<1>1. IsFiniteSet(Missed(s, n, given))
  BY MissedFinite
<1> QED BY <1>1, FS_Subset

(* A sequence without its i-th element.                                    *)
Without(s, i) == SubSeq(s, 1, i - 1) \o SubSeq(s, i + 1, Len(s))

LEMMA WithoutFacts ==
  ASSUME NEW S, NEW s \in Seq(S), NEW i \in 1 .. Len(s)
  PROVE  /\ Without(s, i) \in Seq(S) /\ Len(Without(s, i)) = Len(s) - 1 /\ Len(s) \in Nat \ {0}
         /\ DOMAIN Without(s, i) = 1 .. Len(s) - 1
         /\ \A p \in 1 .. Len(s) - 1 : Without(s, i)[p] = IF p < i THEN s[p] ELSE s[p + 1]
BY Data!WithoutFacts DEF Without

(* A deletion behind the loop misses one more at most.                     *)
LEMMA MissedByDelete ==
  ASSUME NEW S, NEW s \in Seq(S), NEW i \in 1 .. Len(s), NEW n \in Nat, NEW given
  PROVE  /\ i <= n => Cardinality(Missed(Without(s, i), n, given))
                        <= Cardinality(Missed(s, n, given)) + 1
         /\ i > n => Missed(Without(s, i), n, given) = Missed(s, n, given)
<1> DEFINE t == Without(s, i)
           M == Missed(s, n, given)
           N == Missed(t, n, given)
           f == [p \in N \ {n} |-> IF p < i THEN p ELSE p + 1]
<1>1. /\ Len(t) = Len(s) - 1 /\ Len(s) \in Nat \ {0}
      /\ \A p \in 1 .. Len(s) - 1 : t[p] = IF p < i THEN s[p] ELSE s[p + 1]
  BY WithoutFacts
<1> HIDE DEF t
<1>2. CASE i <= n
  <2>1. ASSUME NEW p \in N \ {n}
        PROVE  (IF p < i THEN p ELSE p + 1) \in M
    <3>1. p \in 1 .. n - 1 /\ p \in Nat /\ (p > Len(t) \/ t[p] \notin given)
      BY DEF Missed
    <3>2. CASE p < i
      <4>1. p \in 1 .. Len(s) - 1 /\ s[p] \notin given
        BY <1>1, <3>1, <3>2
      <4> QED BY <3>1, <3>2, <4>1 DEF Missed
    <3>3. CASE ~(p < i)
      <4>1. p + 1 > Len(s) \/ s[p + 1] \notin given
        BY <1>1, <3>1, <3>3
      <4>2. p + 1 \in 1 .. n
        BY <3>1
      <4> QED BY <3>3, <4>1, <4>2 DEF Missed
    <3> QED BY <3>2, <3>3
  <2>2. N \ {n} \subseteq Nat
    BY DEF Missed
  <2>3. f \in Injection(N \ {n}, M)
    <3>1. f \in [N \ {n} -> M]
      BY <2>1
    <3>2. \A p, q \in N \ {n} : f[p] = f[q] => p = q
      <4> HIDE DEF N
      <4> QED BY <2>2
    <3>3. DOMAIN f = N \ {n}
      OBVIOUS
    <3> HIDE DEF f, N
    <3> QED BY <3>1, <3>2, <3>3 DEF Injection, IsInjective
  <2>4. IsFiniteSet(M) /\ IsFiniteSet(N) /\ Cardinality(M) \in Nat /\ Cardinality(N) \in Nat
    BY MissedFinite
  <2> HIDE DEF f, M, N
  <2>5. Cardinality(N \ {n}) <= Cardinality(M)
    BY <2>3, <2>4, FS_Injection
  <2>6. Cardinality(N) <= Cardinality(N \ {n}) + 1
    <3>1. Cardinality(N \ {n}) = IF n \in N THEN Cardinality(N) - 1 ELSE Cardinality(N)
      BY <2>4, FS_RemoveElement
    <3> QED BY <2>4, <3>1
  <2>7. Cardinality(N \ {n}) \in Nat
    BY <2>4, FS_RemoveElement, FS_CardinalityType
  <2> QED BY <1>2, <2>4, <2>5, <2>6, <2>7 DEF M, N, t
<1>3. CASE i > n
  <2>1. \A p \in 1 .. n : p \in 1 .. Len(s) - 1 /\ p < i
    BY <1>1, <1>3
  <2>2. \A p \in 1 .. n : (p > Len(t) \/ t[p] \notin given) <=> (p > Len(s) \/ s[p] \notin given)
    BY <1>1, <2>1
  <2>3. N = M
    BY <2>2 DEF Missed
  <2> QED BY <1>3, <2>3 DEF t
<1> QED BY <1>2, <1>3

(* An item that is greater than all the others.                            *)
LEMMA AppendRising ==
  ASSUME NEW s \in Seq(1 .. ItemMax), Rising(s), NEW e \in 1 .. ItemMax,
         \A x \in Range(s) : x < e
  PROVE  /\ Append(s, e) \in Seq(1 .. ItemMax) /\ Rising(Append(s, e))
         /\ Range(Append(s, e)) = Range(s) \cup {e}
<1>1. /\ Append(s, e) \in Seq(1 .. ItemMax) /\ Len(s) \in Nat
      /\ DOMAIN Append(s, e) = 1 .. Len(s) + 1
      /\ \A i \in 1 .. Len(s) : Append(s, e)[i] = s[i]
      /\ Append(s, e)[Len(s) + 1] = e
  BY Data!AppendFacts
<1>2. DOMAIN s = 1 .. Len(s) /\ \A i \in 1 .. Len(s) : s[i] \in 1 .. ItemMax
  BY Data!SeqFacts
<1>3. \A i \in 1 .. Len(s) : s[i] < e
  BY <1>2 DEF Range
<1>4. Rising(Append(s, e))
  <2> SUFFICES ASSUME NEW i \in 1 .. Len(s) + 1, NEW j \in 1 .. Len(s) + 1, i < j
               PROVE  Append(s, e)[i] < Append(s, e)[j]
    BY <1>1 DEF Rising
  <2>1. i \in 1 .. Len(s)
    BY <1>1
  <2>2. CASE j = Len(s) + 1
    BY <1>1, <1>3, <2>1, <2>2
  <2>3. CASE j \in 1 .. Len(s)
    BY <1>1, <1>2, <2>1, <2>3 DEF Rising
  <2> QED BY <1>1, <2>2, <2>3
<1>5. Range(Append(s, e)) = Range(s) \cup {e}
  <2> DEFINE I == 1 .. ItemMax
  <2>1. s \in Seq(I) /\ e \in I
    OBVIOUS
  <2> HIDE DEF I
  <2> QED BY <2>1, AppendRange
<1> QED BY <1>1, <1>4, <1>5

(* What the loop gives out next is greater than what it gave out.          *)
LEMMA ItemsStep ==
  ASSUME ItemsInv, [LoopNext]_allVars
  PROVE  ItemsInv'
<1>1. kind' = kind
  BY DEF LoopNext, Iterate, Begin, Refuse, Finish, YieldNumber, YieldItem, YieldKey, Body,
         LoopRepair, Break, ArrayAppend, ArrayDelete, Ended, Delete, IndexSet, allVars, loopVars
<1> SUFFICES ASSUME kind \in {"array", "string"} PROVE ItemsInv'
  BY <1>1 DEF ItemsInv
<1>2. /\ items \in Seq(1 .. ItemMax) /\ seen \in Seq(1 .. ItemMax)
      /\ idx \in Nat /\ reshaped \in Nat
      /\ Rising(items) /\ Rising(seen)
      /\ \A i \in DOMAIN seen, p \in DOMAIN items : p > idx => seen[i] < items[p]
      /\ Cardinality(Missed(items, idx, Range(seen))) <= reshaped
      /\ at = "done" => idx >= Len(items)
  BY DEF ItemsInv
<1>3. /\ DOMAIN items = 1 .. Len(items) /\ Len(items) \in Nat /\ \A p \in 1 .. Len(items) : items[p] \in 1 .. ItemMax
      /\ DOMAIN seen = 1 .. Len(seen) /\ Len(seen) \in Nat /\ \A i \in 1 .. Len(seen) : seen[i] \in 1 .. ItemMax
  BY <1>2, Data!SeqFacts
<1>4. Cardinality(Missed(items, idx, Range(seen))) \in Nat
  BY <1>2, MissedFinite
<1>5. ASSUME UNCHANGED <<items, idx, seen, reshaped>>, at' = "done" => idx >= Len(items)
      PROVE  ItemsInv'
  BY <1>1, <1>2, <1>5 DEF ItemsInv
<1>6. CASE Begin \/ Refuse \/ Body \/ Break \/ Ended \/ LoopRepair \/ UNCHANGED allVars
  BY <1>2, <1>5, <1>6 DEF Begin, Refuse, Body, Break, Ended, LoopRepair, allVars, loopVars
<1>7. CASE Finish
  BY <1>5, <1>7 DEF Finish, Ends
<1>8. CASE YieldItem
  <2> DEFINE e == items[idx + 1]
  <2>1. /\ at' = "body" /\ UNCHANGED <<items, reshaped>> /\ idx' = idx + 1
        /\ seen' = Append(seen, e) /\ idx < Len(items)
    BY <1>2, <1>3, <1>8 DEF YieldItem, Yielding, Ends
  <2>2. /\ e \in 1 .. ItemMax /\ \A x \in Range(seen) : x < e
    <3>1. idx + 1 \in 1 .. Len(items) /\ idx + 1 > idx
      BY <1>2, <1>3, <2>1
    <3>2. \A i \in 1 .. Len(seen) : seen[i] < e
      BY <1>2, <1>3, <3>1
    <3> QED BY <1>3, <3>1, <3>2 DEF Range
  <2> HIDE DEF e
  <2>3. /\ seen' \in Seq(1 .. ItemMax) /\ Rising(seen') /\ Range(seen') = Range(seen) \cup {e}
    BY <1>2, <2>1, <2>2, AppendRising
  <2>4. ASSUME NEW i \in DOMAIN seen', NEW p \in DOMAIN items', p > idx'
        PROVE  seen'[i] < items'[p]
    <3>1. /\ p \in 1 .. Len(items) /\ p > idx + 1 /\ items'[p] = items[p] /\ idx + 1 \in 1 .. Len(items)
      <4>1. items' = items /\ idx' = idx + 1
        BY <2>1
      <4>2. DOMAIN items' = 1 .. Len(items)
        BY <1>3, <4>1
      <4> QED BY <1>2, <1>3, <2>1, <2>4, <4>1, <4>2
    <3>2. e < items[p]
      BY <1>2, <1>3, <3>1 DEF Rising, e
    <3>3. seen'[i] \in Range(seen) \cup {e}
      BY <2>3 DEF Range
    <3>4. items[p] \in Nat /\ e \in Nat /\ \A x \in Range(seen) : x \in Nat
      BY <1>3, <2>2, <3>1 DEF Range
    <3> QED BY <2>2, <3>1, <3>2, <3>3, <3>4
  <2>5. Missed(items', idx', Range(seen')) \subseteq Missed(items, idx, Range(seen))
    <3>1. \A p \in 1 .. idx + 1 : p = idx + 1 \/ p \in 1 .. idx
      BY <1>2
    <3> QED BY <1>2, <2>1, <2>3, <3>1 DEF Missed, e
  <2>6. idx' \in Nat
    BY <1>2, <2>1
  <2>7. /\ Cardinality(Missed(items', idx', Range(seen'))) <= Cardinality(Missed(items, idx, Range(seen)))
        /\ Cardinality(Missed(items', idx', Range(seen'))) \in Nat
    BY <1>2, <2>5, <2>6, MissedFewer, MissedFinite
  <2>8. Cardinality(Missed(items', idx', Range(seen'))) <= reshaped'
    BY <1>2, <1>4, <2>1, <2>7
  <2>9. /\ items' \in Seq(1 .. ItemMax) /\ reshaped' \in Nat /\ Rising(items') /\ at' # "done"
    BY <1>2, <2>1
  <2> QED BY <2>3, <2>4, <2>6, <2>8, <2>9 DEF ItemsInv
<1>9. CASE ArrayAppend
  <2> DEFINE X == Range(items) \cup Range(seen) \cup {0}
             new == Max(X) + 1
  <2>1. /\ Changing /\ new <= ItemMax /\ items' = Append(items, new)
        /\ UNCHANGED <<idx, at, seen, reshaped>>
    BY <1>9 DEF ArrayAppend
  <2>2. X \in SUBSET Nat /\ \A x \in X : x <= ItemMax
    BY <1>3, LoopsAssumption DEF Range
  <2>3. Max(X) \in X /\ \A x \in X : x <= Max(X)
    <3>1. \E n \in X : \A m \in X : m <= n
      <4> HIDE DEF X
      <4>1. X # {}
        BY DEF X
      <4> QED BY <2>2, <4>1, LoopsAssumption, Data!GreatestElement
    <3>2. \E n \in X : \A m \in X : n >= m
      BY <2>2, <3>1
    <3> HIDE DEF X
    <3> QED BY <2>2, <3>2 DEF Max
  <2>4. new \in 1 .. ItemMax /\ \A x \in X : x < new
    <3> DEFINE m == Max(X)
    <3>1. m \in Nat /\ m + 1 <= ItemMax /\ \A x \in X : x \in Nat /\ x <= m
      BY <2>1, <2>2, <2>3
    <3> HIDE DEF X, m
    <3>2. m + 1 \in 1 .. ItemMax /\ \A x \in X : x < m + 1
      BY <3>1, LoopsAssumption
    <3> QED BY <3>2 DEF m
  <2>5. \A x \in Range(items) \cup Range(seen) : x < new
    BY <2>4
  <2> HIDE DEF new
  <2>6. /\ items' \in Seq(1 .. ItemMax) /\ Rising(items')
    BY <1>2, <2>1, <2>4, <2>5, AppendRising
  <2>7. /\ Len(items') = Len(items) + 1 /\ DOMAIN items' = 1 .. Len(items) + 1
        /\ \A p \in 1 .. Len(items) : items'[p] = items[p]
        /\ items'[Len(items) + 1] = new
    BY <1>2, <2>1, <2>4, Data!AppendFacts
  <2>8. ASSUME NEW i \in DOMAIN seen, NEW p \in DOMAIN items', p > idx
        PROVE  seen[i] < items'[p]
    <3>1. CASE p = Len(items) + 1
      BY <2>5, <2>7, <3>1 DEF Range
    <3>2. CASE p \in 1 .. Len(items)
      BY <1>2, <1>3, <2>7, <2>8, <3>2
    <3> QED BY <1>3, <2>7, <3>1, <3>2
  <2>9. Missed(items', idx, Range(seen)) \subseteq Missed(items, idx, Range(seen))
    <3> SUFFICES ASSUME NEW p \in 1 .. idx, p > Len(items) + 1 \/ items'[p] \notin Range(seen)
                 PROVE  p > Len(items) \/ items[p] \notin Range(seen)
      BY <2>7 DEF Missed
    <3> QED BY <1>2, <1>3, <2>7
  <2>10. Cardinality(Missed(items', idx, Range(seen))) <= reshaped
    <3>1. /\ Cardinality(Missed(items', idx, Range(seen))) <= Cardinality(Missed(items, idx, Range(seen)))
          /\ Cardinality(Missed(items', idx, Range(seen))) \in Nat
      BY <1>2, <2>9, MissedFewer, MissedFinite
    <3> QED BY <1>2, <1>4, <3>1
  <2> QED BY <1>2, <2>1, <2>6, <2>8, <2>10 DEF ItemsInv, Changing
<1>10. CASE ArrayDelete
  <2>1. PICK i \in 1 .. Len(items) :
          /\ items' = Without(items, i)
          /\ reshaped' = IF i <= idx THEN reshaped + 1 ELSE reshaped
    BY <1>3, <1>10 DEF ArrayDelete, Without
  <2>2. UNCHANGED <<idx, at, seen>> /\ at # "done"
    BY <1>10 DEF ArrayDelete, Changing
  <2>3. /\ items' \in Seq(1 .. ItemMax) /\ Len(items') = Len(items) - 1
        /\ DOMAIN items' = 1 .. Len(items) - 1
        /\ \A p \in 1 .. Len(items) - 1 : items'[p] = IF p < i THEN items[p] ELSE items[p + 1]
    <3>1. /\ Without(items, i) \in Seq(1 .. ItemMax) /\ Len(Without(items, i)) = Len(items) - 1
          /\ DOMAIN Without(items, i) = 1 .. Len(items) - 1
          /\ \A p \in 1 .. Len(items) - 1 :
               Without(items, i)[p] = IF p < i THEN items[p] ELSE items[p + 1]
      BY <1>2, WithoutFacts
    <3> QED BY <2>1, <3>1
  <2>4. Rising(items')
    <3> SUFFICES ASSUME NEW p \in 1 .. Len(items) - 1, NEW q \in 1 .. Len(items) - 1, p < q
                 PROVE  items'[p] < items'[q]
      BY <2>3 DEF Rising
    <3>1. /\ p \in 1 .. Len(items) /\ p + 1 \in 1 .. Len(items)
          /\ q \in 1 .. Len(items) /\ q + 1 \in 1 .. Len(items)
      BY <1>3
    <3>2. /\ \A a, b \in 1 .. Len(items) : a < b => items[a] < items[b]
      BY <1>2, <1>3 DEF Rising
    <3> QED BY <1>3, <2>3, <3>1, <3>2
  <2>5. ASSUME NEW j \in DOMAIN seen, NEW p \in DOMAIN items', p > idx
        PROVE  seen[j] < items'[p]
    <3>1. p \in 1 .. Len(items) /\ p + 1 \in 1 .. Len(items) /\ p + 1 > idx
      BY <1>2, <1>3, <2>3, <2>5
    <3> QED BY <1>2, <1>3, <2>3, <2>5, <3>1
  <2>6. Cardinality(Missed(items', idx, Range(seen))) <= reshaped' /\ reshaped' \in Nat
    <3>1. Cardinality(Missed(items', idx, Range(seen))) \in Nat
      BY <1>2, MissedFinite
    <3>2. CASE i <= idx
      <4>1. Cardinality(Missed(items', idx, Range(seen)))
              <= Cardinality(Missed(items, idx, Range(seen))) + 1
        BY <1>2, <2>1, <3>2, MissedByDelete
      <4> QED BY <1>2, <1>4, <2>1, <3>1, <3>2, <4>1
    <3>3. CASE i > idx
      <4>1. Missed(items', idx, Range(seen)) = Missed(items, idx, Range(seen))
        BY <1>2, <2>1, <3>3, MissedByDelete
      <4> QED BY <1>2, <2>1, <3>3, <4>1
    <3> QED BY <1>2, <3>2, <3>3
  <2> QED BY <1>2, <2>2, <2>3, <2>4, <2>5, <2>6 DEF ItemsInv
<1>11. CASE YieldNumber \/ YieldKey \/ \E k \in Key : Delete(k) \/ \E v \in Val : IndexSet(k, v)
  BY <1>11 DEF YieldNumber, YieldKey, Delete, IndexSet
<1> QED BY <1>6, <1>7, <1>8, <1>9, <1>10, <1>11 DEF LoopNext, Iterate

(* A loop over an array or a string gives the items out in order and none  *)
(* twice, and misses no more of those that stay than the body has deleted  *)
(* behind it.                                                              *)
THEOREM ItemsVisitedInOrder == LoopSpec => []VisitsItemsInOrder
<1>1. LoopInit => ItemsInv
  <2> SUFFICES ASSUME LoopInit, kind \in {"array", "string"} PROVE ItemsInv
    BY DEF ItemsInv
  <2>1. idx = 0 /\ at = "before" /\ seen = <<>> /\ reshaped = 0
    BY DEF LoopInit
  <2>2. PICK n \in 0 .. ItemMax : items = [i \in 1 .. n |-> i]
    BY DEF LoopInit
  <2>3. n \in Nat /\ items \in [1 .. n -> 1 .. ItemMax]
    BY <2>2, LoopsAssumption
  <2>4. items \in Seq(1 .. ItemMax) /\ Rising(items)
    BY <2>2, <2>3, Data!SeqOfFunction DEF Rising
  <2>5. <<>> \in Seq(1 .. ItemMax) /\ DOMAIN <<>> = {}
    OBVIOUS
  <2>6. Rising(<<>>)
    BY <2>5 DEF Rising
  <2>7. Missed(items, 0, Range(seen)) = {}
    BY DEF Missed
  <2>8. Cardinality(Missed(items, 0, Range(seen))) = 0
    BY <2>7, FS_EmptySet
  <2> QED BY <2>1, <2>4, <2>5, <2>6, <2>8 DEF ItemsInv
<1>2. ItemsInv => VisitsItemsInOrder
  <2> DEFINE unseen == {i \in {j \in DOMAIN items : j <= idx \/ at = "done"} :
                          items[i] \notin Range(seen)}
  <2> SUFFICES ASSUME ItemsInv, kind \in {"array", "string"}
               PROVE  Rising(seen) /\ Cardinality(unseen) <= reshaped
    BY DEF VisitsItemsInOrder, Rising
  <2>1. /\ items \in Seq(1 .. ItemMax) /\ idx \in Nat /\ reshaped \in Nat /\ Rising(seen)
        /\ Cardinality(Missed(items, idx, Range(seen))) <= reshaped
        /\ at = "done" => idx >= Len(items)
    BY DEF ItemsInv
  <2>2. DOMAIN items = 1 .. Len(items) /\ Len(items) \in Nat
    BY <2>1, Data!SeqFacts
  <2>3. unseen \in SUBSET Missed(items, idx, Range(seen))
    BY <2>1, <2>2 DEF Missed
  <2>4. /\ IsFiniteSet(Missed(items, idx, Range(seen)))
        /\ Cardinality(Missed(items, idx, Range(seen))) \in Nat
    BY <2>1, MissedFinite
  <2> HIDE DEF unseen
  <2>5. Cardinality(unseen) <= Cardinality(Missed(items, idx, Range(seen)))
        /\ Cardinality(unseen) \in Nat
    BY <2>3, <2>4, FS_Subset, FS_CardinalityType
  <2> QED BY <2>1, <2>4, <2>5
<1> QED BY <1>1, <1>2, ItemsStep, PTL DEF LoopSpec

-----------------------------------------------------------------------------
(* Loops over a range.                                                     *)

MultiplesBelow(n, s) == {m \in 0 .. n - 1 : m % s = 0}

LEMMA MultiplesApart ==
  ASSUME NEW x \in Nat, NEW y \in Nat, NEW s \in Nat \ {0}, x % s = 0, y % s = 0, x < y
  PROVE  x + s <= y
<1> DEFINE p == x \div s
           q == y \div s
<1>1. p \in Nat /\ x = s * p + (x % s)
  OBVIOUS
<1>2. q \in Nat /\ y = s * q + (y % s)
  OBVIOUS
<1> HIDE DEF p, q
<1>3. x = s * p /\ y = s * q
  BY <1>1, <1>2
<1>4. q >= p + 1
  <2> SUFFICES ASSUME ~(q >= p + 1) PROVE FALSE
    OBVIOUS
  <2>1. q <= p /\ p - q \in Nat
    BY <1>1, <1>2
  <2>2. s * (p - q) >= 0 /\ s * (p - q) = x - y
    BY <1>1, <1>2, <1>3, <2>1
  <2> QED BY <2>2
<1>5. q - p - 1 \in Nat /\ s * (q - p - 1) >= 0 /\ s * (q - p - 1) = y - x - s
  BY <1>1, <1>2, <1>3, <1>4
<1> QED BY <1>5

LEMMA NextMultiple ==
  ASSUME NEW n \in Nat, NEW s \in Nat \ {0}, n % s = 0
  PROVE  /\ (n + s) % s = 0 /\ n + s \in Nat
         /\ MultiplesBelow(n + s, s) = MultiplesBelow(n, s) \cup {n}
<1>1. (n + s) % s = 0
  <2>1. s \in 0 .. s
    OBVIOUS
  <2>2. (n + s) % s = Turn(n % s, s, s)
    BY <2>1, RemainderPlus
  <2> QED BY <2>2 DEF Turn
<1>2. ASSUME NEW m \in 0 .. n + s - 1, m % s = 0 PROVE m <= n
  <2> SUFFICES ASSUME n < m PROVE FALSE
    OBVIOUS
  <2>1. m \in Nat
    OBVIOUS
  <2>2. n + s <= m
    BY <1>2, <2>1, MultiplesApart
  <2> QED BY <2>1, <2>2
<1>3. \A m : m \in 0 .. n + s - 1 /\ m <= n <=> m \in 0 .. n - 1 \/ m = n
  OBVIOUS
<1> QED BY <1>1, <1>2, <1>3 DEF MultiplesBelow

(* How far the loop goes, and the value m from its first.                  *)
Far == IF range.first <= range.end THEN range.end - range.first ELSE range.first - range.end
Toward(m) == IF range.first <= range.end THEN range.first + m ELSE range.first - m

RangeWords == [first : Bound \cup {NotInteger}, cur : Int \cup {NotInteger},
               end : Bound \cup {NotInteger}, step : Step \cup {1, NotInteger}]

(* What the manual says the loop gives out before the value n from first.  *)
Values(n) == {Toward(m) : m \in MultiplesBelow(n, range.step)}

(* The loop is n further than its first value.                             *)
Come(n) == n % range.step = 0 /\ range.cur = Toward(n) /\ Range(seen) = Values(n)

(* The step from low leads past the end, and from there back to low.       *)
Passed(low) ==
  /\ low % range.step = 0 /\ Far < low + range.step
  /\ \/ range.cur = Toward(low + range.step) /\ Range(seen) = Values(low + range.step)
     \/ /\ range.cur \in {Toward(low), Toward(low + range.step)}
        /\ Range(seen) = Values(low + range.step + range.step)

Whereabouts == (\E n \in 0 .. Far : Come(n)) \/ (\E low \in 0 .. Far - 1 : Passed(low))

RangeInv ==
  kind = "range" =>
    /\ range \in RangeWords /\ ~pair
    /\ ~Refused =>
         /\ range.first \in Bound /\ range.end \in Bound
         /\ range.step \in Step \cup {1} /\ range.step > 0
         /\ seen \in Seq(Int) /\ Whereabouts
         /\ at = "done" => range.cur = range.end

LEMMA RangeTypes == Bound \subseteq Int /\ Step \cup {1} \subseteq Int
<1>1. Bound \subseteq Int /\ Step \subseteq Int
  BY LoopsAssumption
<1>2. 1 \in Int
  OBVIOUS
<1> QED BY <1>1, <1>2, Zenon

LEMMA RangeFacts ==
  ASSUME range.first \in Bound, range.end \in Bound, range.step \in Step \cup {1}, range.step > 0
  PROVE  /\ range.first \in Int /\ range.end \in Int /\ range.step \in Nat \ {0} /\ Far \in Nat
         /\ \A m \in Int : Toward(m) \in Int
         /\ Toward(Far) = range.end /\ Toward(0) = range.first
<1>1. range.first \in Int /\ range.end \in Int /\ range.step \in Nat \ {0}
  <2>1. range.first \in Int /\ range.end \in Int /\ range.step \in Int
    BY RangeTypes, Zenon
  <2> QED BY <2>1
<1> QED BY <1>1 DEF Far, Toward

(* The direction is inferred from cur alone, and is the one towards end.   *)
LEMMA RangeHead ==
  ASSUME range.first \in Int, range.end \in Int, range.step \in Nat \ {0},
         NEW n \in Int, range.cur = Toward(n)
  PROVE  /\ RangeEnd <=> n = Far
         /\ n < Far => Stepped = Toward(n + range.step)
         /\ n > Far => Stepped = Toward(n - range.step)
         /\ range.cur \in Int
BY DEF Far, Toward, RangeEnd, ascending, Stepped

(* What the body sees next.                                                *)
LEMMA NextValue ==
  ASSUME NEW n \in Nat, range.step \in Nat \ {0}, n % range.step = 0
  PROVE  /\ (n + range.step) % range.step = 0 /\ n + range.step \in Nat
         /\ Values(n + range.step) = Values(n) \cup {Toward(n)}
<1>1. /\ (n + range.step) % range.step = 0 /\ n + range.step \in Nat
      /\ MultiplesBelow(n + range.step, range.step) = MultiplesBelow(n, range.step) \cup {n}
  BY NextMultiple
<1> QED BY <1>1 DEF Values

LEMMA RangeStep ==
  ASSUME RangeInv, [LoopNext]_allVars
  PROVE  RangeInv'
<1>1. kind' = kind
  BY DEF LoopNext, Iterate, Begin, Refuse, Finish, YieldNumber, YieldItem, YieldKey, Body,
         LoopRepair, Break, ArrayAppend, ArrayDelete, Ended, Delete, IndexSet, allVars, loopVars
<1> SUFFICES ASSUME kind = "range" PROVE RangeInv'
  BY <1>1 DEF RangeInv
<1>2. range \in RangeWords /\ ~pair
  BY DEF RangeInv
<1>3. ASSUME ~Refused
      PROVE  /\ range.first \in Bound /\ range.end \in Bound
             /\ range.step \in Step \cup {1} /\ range.step > 0
             /\ seen \in Seq(Int) /\ Whereabouts
             /\ at = "done" => range.cur = range.end
  BY <1>3 DEF RangeInv
<1>4. ASSUME UNCHANGED <<range, pair, seen>>, at' = "done" /\ ~Refused => range.cur = range.end
      PROVE  RangeInv'
  <2>1. Refused' <=> Refused
    BY <1>1, <1>4 DEF Refused, Integers3
  <2>2. Whereabouts => Whereabouts'
    BY <1>4 DEF Whereabouts, Far, Come, Passed, Values, Toward
  <2> QED BY <1>2, <1>3, <1>4, <2>1, <2>2 DEF RangeInv
<1>5. CASE Begin \/ Refuse \/ Body \/ Break \/ Ended \/ LoopRepair \/ UNCHANGED allVars
  BY <1>3, <1>4, <1>5 DEF Begin, Refuse, Body, Break, Ended, LoopRepair, allVars, loopVars
<1>6. CASE Finish
  <2>1. ~Refused /\ RangeEnd /\ UNCHANGED <<range, pair, seen>>
    BY <1>6 DEF Finish, Ends
  <2>2. /\ range.first \in Int /\ range.end \in Int /\ range.step \in Nat \ {0}
        /\ Toward(Far) = range.end /\ Far \in Nat
    BY <1>3, <2>1, RangeFacts
  <2>3. PICK n \in Int : range.cur = Toward(n)
    BY <1>3, <2>1, <2>2 DEF Whereabouts, Come, Passed
  <2>4. n = Far
    BY <2>1, <2>2, <2>3, RangeHead
  <2> QED BY <1>4, <2>1, <2>2, <2>3, <2>4
<1>7. CASE YieldNumber
  <2>1. /\ ~Refused /\ ~RangeEnd /\ at' = "body" /\ UNCHANGED pair
        /\ seen' = IF range.cur \in Range(seen) THEN seen ELSE Append(seen, range.cur)
        /\ range' = [range EXCEPT !.cur = Stepped]
    BY <1>7 DEF YieldNumber, Yielding, Ends
  <2>2. /\ range.first \in Bound /\ range.end \in Bound
        /\ range.step \in Step \cup {1} /\ range.step > 0 /\ seen \in Seq(Int)
    BY <1>3, <2>1
  <2>3. /\ range.first \in Int /\ range.end \in Int /\ range.step \in Nat \ {0} /\ Far \in Nat
        /\ \A m \in Int : Toward(m) \in Int
    BY <2>2, RangeFacts
  <2>4. PICK n \in Nat : range.cur = Toward(n) /\ n # Far
    <3>1. PICK n \in Nat : range.cur = Toward(n)
      BY <1>3, <2>1, <2>3 DEF Whereabouts, Come, Passed
    <3> QED BY <2>1, <2>3, <3>1, RangeHead
  <2>5. Stepped \in Int /\ range.cur \in Int
    <3>1. /\ n < Far => Stepped = Toward(n + range.step)
          /\ n > Far => Stepped = Toward(n - range.step)
          /\ range.cur \in Int
      BY <2>3, <2>4, RangeHead
    <3>2. n + range.step \in Int /\ n - range.step \in Int /\ (n < Far \/ n > Far)
      BY <2>3, <2>4
    <3> QED BY <2>3, <3>1, <3>2
  <2>6. /\ range' \in RangeWords /\ range'.cur = Stepped
        /\ range'.first = range.first /\ range'.end = range.end /\ range'.step = range.step
    BY <1>2, <2>1, <2>5 DEF RangeWords
  <2>7. Far' = Far /\ (\A m : Toward(m)' = Toward(m)) /\ \A m : Values(m)' = Values(m)
    BY <2>6 DEF Far, Toward, Values
  <2>8. seen' \in Seq(Int) /\ Range(seen') = Range(seen) \cup {range.cur}
    <3>1. CASE range.cur \in Range(seen)
      BY <2>1, <2>2, <3>1
    <3>2. CASE range.cur \notin Range(seen)
      BY <2>1, <2>2, <2>5, <3>2, AppendRange
    <3> QED BY <3>1, <3>2
  <2>9. Whereabouts'
    <3>1. ASSUME NEW m \in 0 .. Far, Come(m) PROVE Whereabouts'
      <4>1. m \in Nat /\ m % range.step = 0 /\ range.cur = Toward(m) /\ Range(seen) = Values(m)
        BY <2>3, <3>1 DEF Come
      <4>2. m < Far /\ Stepped = Toward(m + range.step)
        BY <2>1, <2>3, <3>1, <4>1, RangeHead
      <4>3. /\ (m + range.step) % range.step = 0 /\ m + range.step \in Nat
            /\ Range(seen') = Values(m + range.step)
        BY <2>3, <2>8, <4>1, NextValue
      <4>4. CASE m + range.step <= Far
        <5>1. PICK k \in 0 .. Far : k = m + range.step
          BY <2>3, <4>3, <4>4
        <5>2. Come(k)'
          BY <2>6, <2>7, <4>2, <4>3, <5>1 DEF Come
        <5> QED BY <2>7, <5>2 DEF Whereabouts
      <4>5. CASE Far < m + range.step
        <5>1. Passed(m)'
          BY <2>6, <2>7, <4>1, <4>2, <4>3, <4>5 DEF Passed
        <5>2. m \in 0 .. Far - 1
          BY <2>3, <4>1, <4>2
        <5> QED BY <2>7, <5>1, <5>2 DEF Whereabouts
      <4> QED BY <2>3, <4>3, <4>4, <4>5
    <3>2. ASSUME NEW low \in 0 .. Far - 1, Passed(low) PROVE Whereabouts'
      <4> DEFINE top == low + range.step
      <4>1. low \in Nat /\ low % range.step = 0 /\ low < Far /\ Far < top /\ top \in Nat
        BY <2>3, <3>2 DEF Passed
      <4>2. /\ top % range.step = 0
            /\ Values(top) = Values(low) \cup {Toward(low)}
            /\ Values(top + range.step) = Values(top) \cup {Toward(top)}
        BY <2>3, <4>1, NextValue
      <4>3. CASE range.cur = Toward(top)
        <5>1. Stepped = Toward(low)
          <6>1. Stepped = Toward(top - range.step)
            BY <2>3, <4>1, <4>3, RangeHead
          <6> QED BY <2>3, <4>1, <6>1
        <5>2. Range(seen) = Values(top) \/ Range(seen) = Values(top + range.step)
          BY <3>2 DEF Passed
        <5>3. Range(seen') = Values(top + range.step)
          BY <2>8, <4>2, <4>3, <5>2
        <5>4. Passed(low)'
          BY <2>6, <2>7, <4>1, <5>1, <5>3 DEF Passed
        <5> QED BY <2>7, <3>2, <5>4 DEF Whereabouts
      <4>4. CASE range.cur = Toward(low) /\ range.cur # Toward(top)
        <5>1. Stepped = Toward(top)
          BY <2>3, <4>1, <4>4, RangeHead
        <5>2. Range(seen) = Values(top + range.step)
          BY <3>2, <4>4 DEF Passed
        <5>3. Range(seen') = Values(top + range.step)
          BY <2>8, <4>2, <4>4, <5>2
        <5>4. Passed(low)'
          BY <2>6, <2>7, <4>1, <5>1, <5>3 DEF Passed
        <5> QED BY <2>7, <3>2, <5>4 DEF Whereabouts
      <4> QED BY <3>2, <4>3, <4>4 DEF Passed
    <3> QED BY <1>3, <2>1, <3>1, <3>2 DEF Whereabouts
  <2> QED BY <2>1, <2>2, <2>6, <2>8, <2>9 DEF RangeInv
<1>8. CASE \/ YieldItem \/ YieldKey \/ ArrayAppend \/ ArrayDelete
           \/ \E k \in Key : Delete(k) \/ \E v \in Val : IndexSet(k, v)
  BY <1>8 DEF YieldItem, YieldKey, ArrayAppend, ArrayDelete, Delete, IndexSet
<1> QED BY <1>5, <1>6, <1>7, <1>8 DEF LoopNext, Iterate

(* The two sides of the end as distances from first.                       *)
LEMMA ProgressionValues ==
  ASSUME range.first \in Int, range.end \in Int, range.step \in Nat \ {0}
  PROVE  Progression = Values(Far)
  <1>1. CASE range.first <= range.end
    <2>1. \A x : x \in range.first .. range.end - 1 <=>
            \E m \in 0 .. Far - 1 : x = range.first + m
      <3>1. \A x \in range.first .. range.end - 1 :
              x - range.first \in 0 .. Far - 1 /\ x = range.first + (x - range.first)
        BY <1>1 DEF Far
      <3>2. \A m \in 0 .. Far - 1 : range.first + m \in range.first .. range.end - 1
        BY <1>1 DEF Far
      <3> QED BY <3>1, <3>2
    <2>2. \A m \in 0 .. Far - 1 : (range.first + m) - range.first = m
      OBVIOUS
    <2>3. Progression = {x \in range.first .. range.end - 1 : (x - range.first) % range.step = 0}
      BY <1>1 DEF Progression
    <2>4. \A m : Toward(m) = range.first + m
      BY <1>1 DEF Toward
    <2> QED BY <2>1, <2>2, <2>3, <2>4 DEF Values, MultiplesBelow
  <1>2. CASE ~(range.first <= range.end)
    <2>1. \A x : x \in range.end + 1 .. range.first <=>
            \E m \in 0 .. Far - 1 : x = range.first - m
      <3>1. \A x \in range.end + 1 .. range.first :
              range.first - x \in 0 .. Far - 1 /\ x = range.first - (range.first - x)
        BY <1>2 DEF Far
      <3>2. \A m \in 0 .. Far - 1 : range.first - m \in range.end + 1 .. range.first
        BY <1>2 DEF Far
      <3> QED BY <3>1, <3>2
    <2>2. \A m \in 0 .. Far - 1 : range.first - (range.first - m) = m
      OBVIOUS
    <2>3. Progression = {x \in range.end + 1 .. range.first : (range.first - x) % range.step = 0}
      BY <1>2 DEF Progression
    <2>4. \A m : Toward(m) = range.first - m
      BY <1>2 DEF Toward
    <2> QED BY <2>1, <2>2, <2>3, <2>4 DEF Values, MultiplesBelow
  <1> QED BY <1>1, <1>2

LEMMA BeyondValues ==
  ASSUME range.first \in Int, range.end \in Int, range.step \in Nat \ {0}
  PROVE  /\ Beyond = {Toward(m) : m \in {i \in Far + 1 .. Far + range.step - 1 : i % range.step = 0}}
         /\ Progression \cap Beyond = {}
<1>1. CASE range.first <= range.end
  <2>1. \A x : x \in range.end + 1 .. range.end + range.step - 1 <=>
          \E m \in Far + 1 .. Far + range.step - 1 : x = range.first + m
    <3>1. \A x \in range.end + 1 .. range.end + range.step - 1 :
            /\ x - range.first \in Far + 1 .. Far + range.step - 1
            /\ x = range.first + (x - range.first)
      BY <1>1 DEF Far
    <3>2. \A m \in Far + 1 .. Far + range.step - 1 :
            range.first + m \in range.end + 1 .. range.end + range.step - 1
      BY <1>1 DEF Far
    <3> QED BY <3>1, <3>2
  <2>2. \A m \in Far + 1 .. Far + range.step - 1 : (range.first + m) - range.first = m
    BY DEF Far
  <2>3. Beyond = {x \in range.end + 1 .. range.end + range.step - 1 :
                    (x - range.first) % range.step = 0}
    BY <1>1 DEF Beyond
  <2>4. \A m : Toward(m) = range.first + m
    BY <1>1 DEF Toward
  <2>5. Progression \subseteq range.first .. range.end - 1
    BY <1>1 DEF Progression
  <2>6. Progression \cap Beyond = {}
    BY <2>3, <2>5
  <2> QED BY <2>1, <2>2, <2>3, <2>4, <2>6
<1>2. CASE ~(range.first <= range.end)
  <2>1. \A x : x \in range.end - range.step + 1 .. range.end - 1 <=>
          \E m \in Far + 1 .. Far + range.step - 1 : x = range.first - m
    <3>1. \A x \in range.end - range.step + 1 .. range.end - 1 :
            /\ range.first - x \in Far + 1 .. Far + range.step - 1
            /\ x = range.first - (range.first - x)
      BY <1>2 DEF Far
    <3>2. \A m \in Far + 1 .. Far + range.step - 1 :
            range.first - m \in range.end - range.step + 1 .. range.end - 1
      BY <1>2 DEF Far
    <3> QED BY <3>1, <3>2
  <2>2. \A m \in Far + 1 .. Far + range.step - 1 : range.first - (range.first - m) = m
    BY DEF Far
  <2>3. Beyond = {x \in range.end - range.step + 1 .. range.end - 1 :
                    (range.first - x) % range.step = 0}
    BY <1>2 DEF Beyond
  <2>4. \A m : Toward(m) = range.first - m
    BY <1>2 DEF Toward
  <2>5. Progression \subseteq range.end + 1 .. range.first
    BY <1>2 DEF Progression
  <2>6. Progression \cap Beyond = {}
    BY <2>3, <2>5
  <2> QED BY <2>1, <2>2, <2>3, <2>4, <2>6
<1> QED BY <1>1, <1>2

(* lbl_iter_range: a loop over a range gives out first, then every step-th *)
(* value towards end, and all of them if it runs to its end, whichever its *)
(* direction.  If its step leads past the end it gives out the whole       *)
(* progression and one value behind the end, and is never done.            *)
THEOREM RangesAreExact == LoopSpec => []RangeExact
<1>1. LoopInit => RangeInv
  <2> SUFFICES ASSUME LoopInit, kind = "range" PROVE RangeInv
    BY DEF RangeInv
  <2>1. PICK first \in Bound \cup {NotInteger}, end \in Bound \cup {NotInteger},
             step \in Step \cup {1, NotInteger} :
               range = [first |-> first, cur |-> first, end |-> end, step |-> step]
    BY DEF LoopInit
  <2>2. ~pair /\ at = "before" /\ seen = <<>>
    BY DEF LoopInit
  <2>3. range \in RangeWords
    BY <2>1, LoopsAssumption DEF RangeWords
  <2>4. ASSUME ~Refused
        PROVE  /\ range.first \in Bound /\ range.end \in Bound
               /\ range.step \in Step \cup {1} /\ range.step > 0
               /\ seen \in Seq(Int) /\ Come(0) /\ 0 \in 0 .. Far
    <3>1. NotInteger \notin {range.cur, range.end, range.step} /\ ~(range.step <= 0)
      BY <2>4 DEF Refused, Integers3
    <3>2. /\ range.first \in Bound /\ range.end \in Bound /\ range.step \in Step \cup {1}
          /\ range.cur = range.first
      BY <2>1, <3>1
    <3>3. range.step > 0
      <4>1. range.step \in Int
        BY <3>2, RangeTypes, Zenon
      <4> QED BY <3>1, <4>1
    <3>4. Far \in Nat /\ Toward(0) = range.first /\ range.step \in Nat \ {0}
      BY <3>2, <3>3, RangeFacts
    <3>5. Values(0) = {} /\ Range(seen) = {} /\ seen \in Seq(Int)
      BY <2>2 DEF Values, MultiplesBelow, Range
    <3>6. 0 % range.step = 0
      BY <3>4
    <3> QED BY <3>2, <3>3, <3>4, <3>5, <3>6 DEF Come
  <2> QED BY <2>2, <2>3, <2>4 DEF RangeInv, Whereabouts
<1>2. RangeInv => RangeExact
  <2> SUFFICES ASSUME RangeInv, kind = "range", ~Refused
               PROVE  /\ Range(seen) \subseteq Progression \cup Beyond
                      /\ Range(seen) \cap Beyond # {} => Progression \subseteq Range(seen)
                      /\ at = "done" => Beyond = {} /\ Range(seen) = Progression
    BY DEF RangeExact
  <2>1. /\ range.first \in Bound /\ range.end \in Bound
        /\ range.step \in Step \cup {1} /\ range.step > 0
        /\ Whereabouts
        /\ at = "done" => range.cur = range.end
    BY DEF RangeInv
  <2>2. /\ range.first \in Int /\ range.end \in Int /\ range.step \in Nat \ {0} /\ Far \in Nat
        /\ Toward(Far) = range.end
    BY <2>1, RangeFacts
  <2>3. /\ Progression = Values(Far) /\ Progression \cap Beyond = {}
        /\ Beyond = {Toward(m) : m \in {i \in Far + 1 .. Far + range.step - 1 : i % range.step = 0}}
    <3>1. Progression = Values(Far)
      BY <2>2, ProgressionValues, Zenon
    <3> QED BY <2>2, <3>1, BeyondValues, Zenon
  <2>4. \A n \in Int : range.cur = Toward(n) /\ at = "done" => n = Far
    <3>1. \A n \in Int : Toward(n) = range.end => n = Far
      BY <2>2 DEF Toward, Far
    <3>2. at = "done" => range.cur = range.end
      BY <2>1
    <3> QED BY <3>1, <3>2
  <2>5. ASSUME NEW n \in 0 .. Far, Come(n)
        PROVE  /\ Range(seen) \subseteq Progression
               /\ at = "done" => Beyond = {} /\ Range(seen) = Progression
    <3>1. n \in Nat /\ n % range.step = 0 /\ range.cur = Toward(n) /\ Range(seen) = Values(n)
      BY <2>2, <2>5 DEF Come
    <3>2. Values(n) \subseteq Values(Far)
      BY <2>2, <2>5 DEF Values, MultiplesBelow
    <3>3. ASSUME at = "done" PROVE n = Far /\ Beyond = {}
      <4>1. n = Far
        BY <2>4, <3>1, <3>3
      <4>2. ASSUME NEW m \in Far + 1 .. Far + range.step - 1, m % range.step = 0 PROVE FALSE
        <5>1. m \in Nat /\ Far < m /\ m < Far + range.step
          BY <2>2
        <5>2. Far + range.step <= m
          BY <2>2, <3>1, <4>1, <4>2, <5>1, MultiplesApart
        <5> QED BY <2>2, <5>1, <5>2
      <4> QED BY <2>3, <4>1, <4>2
    <3> QED BY <2>3, <3>1, <3>2, <3>3
  <2>6. ASSUME NEW low \in 0 .. Far - 1, Passed(low)
        PROVE  /\ Range(seen) \subseteq Progression \cup Beyond
               /\ Progression \subseteq Range(seen) /\ at # "done"
    <3> DEFINE top == low + range.step
    <3>1. low \in Nat /\ low % range.step = 0 /\ low < Far /\ Far < top /\ top \in Nat
      BY <2>2, <2>6 DEF Passed
    <3>2. top % range.step = 0 /\ Values(top + range.step) = Values(top) \cup {Toward(top)}
      BY <2>2, <3>1, NextValue
    <3>3. Values(top) = Values(Far)
      <4>1. ASSUME NEW m \in 0 .. top - 1, m % range.step = 0 PROVE m < Far
        <5> SUFFICES ASSUME Far <= m PROVE FALSE
          BY <2>2, <3>1
        <5>1. m \in Nat /\ low < m /\ m < top
          BY <2>2, <3>1
        <5>2. low + range.step <= m
          BY <2>2, <3>1, <4>1, <5>1, MultiplesApart
        <5> QED BY <2>2, <3>1, <5>1, <5>2
      <4>2. \A m : m \in 0 .. Far - 1 <=> m \in 0 .. top - 1 /\ m < Far
        BY <2>2, <3>1
      <4>3. MultiplesBelow(top, range.step) = MultiplesBelow(Far, range.step)
        BY <4>1, <4>2 DEF MultiplesBelow
      <4> QED BY <4>3 DEF Values
    <3>4. Toward(top) \in Beyond
      <4>1. top \in Far + 1 .. Far + range.step - 1
        BY <2>2, <3>1
      <4> QED BY <2>3, <3>2, <4>1
    <3>5. Range(seen) = Values(top) \/ Range(seen) = Values(top + range.step)
      BY <2>6 DEF Passed
    <3>6. at # "done"
      <4>1. range.cur = Toward(low) \/ range.cur = Toward(top)
        BY <2>6 DEF Passed
      <4> QED BY <2>2, <2>4, <3>1, <4>1
    <3> HIDE DEF top
    <3>7. Range(seen) = Progression \/ Range(seen) = Progression \cup {Toward(top)}
      BY <2>3, <3>2, <3>3, <3>5, Zenon
    <3> QED BY <3>4, <3>6, <3>7, Zenon
  <2>7. CASE \E n \in 0 .. Far : Come(n)
    BY <2>3, <2>5, <2>7
  <2>8. CASE \E low \in 0 .. Far - 1 : Passed(low)
    BY <2>6, <2>8
  <2>9. (\E n \in 0 .. Far : Come(n)) \/ (\E low \in 0 .. Far - 1 : Passed(low))
    BY <2>1 DEF Whereabouts
  <2> QED BY <2>7, <2>8, <2>9
<1> QED BY <1>1, <1>2, RangeStep, PTL DEF LoopSpec
=============================================================================
