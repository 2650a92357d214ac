------------------------------ MODULE DataFacts ------------------------------
(***************************************************************************)
(* Facts about sequences, sets of naturals and counts of positions that    *)
(* the proofs of several components need.                                  *)
(***************************************************************************)
EXTENDS Integers, Sequences, FiniteSets, SequencesExt,
        TLAPS, FiniteSetTheorems, SequenceTheorems

(* The elements of a sequence.                                             *)
LEMMA SeqFacts ==
  ASSUME NEW S, NEW s \in Seq(S)
  PROVE  /\ Len(s) \in Nat /\ DOMAIN s = 1 .. Len(s) /\ s \in [1 .. Len(s) -> S]
         /\ \A i \in 1 .. Len(s) : s[i] \in S
         /\ s # <<>> => Len(s) > 0
OBVIOUS

(* A function on an initial interval is a sequence.                        *)
LEMMA SeqOfFunction ==
  ASSUME NEW S, NEW n \in Nat, NEW f \in [1 .. n -> S]
  PROVE  f \in Seq(S) /\ Len(f) = n
OBVIOUS

(* What Append adds.                                                       *)
LEMMA AppendFacts ==
  ASSUME NEW S, NEW s \in Seq(S), NEW e \in S
  PROVE  /\ Append(s, e) \in Seq(S) /\ Len(s) \in Nat
         /\ Len(Append(s, e)) = Len(s) + 1 /\ DOMAIN Append(s, e) = 1 .. Len(s) + 1
         /\ \A i \in 1 .. Len(s) : Append(s, e)[i] = s[i]
         /\ Append(s, e)[Len(s) + 1] = e
OBVIOUS

(* A prefix of a sequence.                                                 *)
LEMMA PrefixFacts ==
  ASSUME NEW S, NEW s \in Seq(S), NEW n \in 0 .. Len(s)
  PROVE  /\ SubSeq(s, 1, n) \in Seq(S)
         /\ Len(SubSeq(s, 1, n)) = n /\ DOMAIN SubSeq(s, 1, n) = 1 .. n
         /\ \A i \in 1 .. n : SubSeq(s, 1, n)[i] = s[i]
<1>1. n \in Nat /\ \A i \in 1 .. n : s[i] \in S
  BY SeqFacts
<1>2. Len(SubSeq(s, 1, n)) = IF 1 <= n THEN n - 1 + 1 ELSE 0
  BY <1>1, SubSeqProperties
<1>3. Len(SubSeq(s, 1, n)) = n
  BY <1>1, <1>2
<1>4. SubSeq(s, 1, n) \in Seq(S)
  BY <1>1
<1>5. \A i \in 1 .. n : SubSeq(s, 1, n)[i] = s[i]
  BY <1>1
<1>6. DOMAIN SubSeq(s, 1, n) = 1 .. n
  BY <1>3, <1>4, SeqFacts
<1> QED BY <1>3, <1>4, <1>5, <1>6

(* A sequence without its i-th element.                                    *)
LEMMA WithoutFacts ==
  ASSUME NEW S, NEW s \in Seq(S), NEW i \in 1 .. Len(s)
  PROVE  LET t == SubSeq(s, 1, i - 1) \o SubSeq(s, i + 1, Len(s)) IN
         /\ t \in Seq(S) /\ Len(t) = Len(s) - 1 /\ Len(s) \in Nat \ {0}
         /\ DOMAIN t = 1 .. Len(s) - 1
         /\ \A p \in 1 .. Len(s) - 1 : t[p] = IF p < i THEN s[p] ELSE s[p + 1]
<1> DEFINE a == SubSeq(s, 1, i - 1)
           b == SubSeq(s, i + 1, Len(s))
<1>1. /\ Len(s) \in Nat \ {0} /\ i \in Nat \ {0}
      /\ \A p \in 1 .. Len(s) : s[p] \in S
  BY SeqFacts
<1>2. /\ a \in Seq(S) /\ Len(a) = i - 1 /\ \A p \in 1 .. i - 1 : a[p] = s[p]
  BY <1>1, PrefixFacts
<1>3. /\ b \in Seq(S) /\ Len(b) = Len(s) - i
      /\ \A p \in 1 .. Len(s) - i : b[p] = s[i + p]
  <2>1. \A p \in i + 1 .. Len(s) : s[p] \in S
    BY <1>1
  <2>2. i + 1 \in Int /\ Len(s) \in Int
    BY <1>1
  <2>3. /\ b \in Seq(S) /\ Len(b) = IF i + 1 <= Len(s) THEN Len(s) - (i + 1) + 1 ELSE 0
        /\ \A p \in 1 .. Len(s) - (i + 1) + 1 : b[p] = s[i + 1 + p - 1]
    BY <2>1, <2>2, SubSeqProperties
  <2> HIDE DEF b
  <2>4. Len(b) = Len(s) - i
    BY <1>1, <2>3
  <2>5. ASSUME NEW p \in 1 .. Len(s) - i PROVE b[p] = s[i + p]
    <3>1. p \in 1 .. Len(s) - (i + 1) + 1 /\ i + 1 + p - 1 = i + p
      BY <1>1
    <3> QED BY <2>3, <3>1
  <2> QED BY <2>3, <2>4, <2>5
<1> HIDE DEF a, b
<1>4. /\ a \o b \in Seq(S) /\ Len(a \o b) = Len(a) + Len(b)
      /\ \A p \in 1 .. Len(a) + Len(b) :
           (a \o b)[p] = IF p <= Len(a) THEN a[p] ELSE b[p - Len(a)]
  BY <1>2, <1>3, ConcatProperties
<1>5. Len(a) + Len(b) = Len(s) - 1
  BY <1>1, <1>2, <1>3
<1>6. ASSUME NEW p \in 1 .. Len(s) - 1
      PROVE  (a \o b)[p] = IF p < i THEN s[p] ELSE s[p + 1]
  <2>1. CASE p < i
    BY <1>1, <1>2, <1>4, <1>5, <2>1
  <2>2. CASE ~(p < i)
    <3>1. p - (i - 1) \in 1 .. Len(s) - i /\ i + (p - (i - 1)) = p + 1
      BY <1>1, <2>2
    <3>2. (a \o b)[p] = b[p - (i - 1)]
      BY <1>1, <1>2, <1>4, <1>5, <2>2
    <3>3. b[p - (i - 1)] = s[p + 1]
      BY <1>3, <3>1
    <3> QED BY <2>2, <3>2, <3>3
  <2> QED BY <2>1, <2>2
<1>7. DOMAIN (a \o b) = 1 .. Len(s) - 1
  BY <1>4, <1>5, SeqFacts
<1> QED BY <1>1, <1>4, <1>5, <1>6, <1>7 DEF a, b

(* A sequence without its last element.                                    *)
LEMMA FrontFacts ==
  ASSUME NEW S, NEW s \in Seq(S), s # <<>>
  PROVE  /\ Front(s) \in Seq(S) /\ Len(s) \in Nat \ {0}
         /\ Len(Front(s)) = Len(s) - 1 /\ DOMAIN Front(s) = 1 .. Len(s) - 1
         /\ \A i \in 1 .. Len(s) - 1 : Front(s)[i] = s[i]
         /\ Last(s) = s[Len(s)] /\ Last(s) \in S
<1>1. Len(s) \in Nat \ {0} /\ Len(s) - 1 \in 0 .. Len(s) /\ \A i \in 1 .. Len(s) : s[i] \in S
  BY SeqFacts
<1>2. Front(s) = SubSeq(s, 1, Len(s) - 1) /\ Last(s) = s[Len(s)]
  BY DEF Front, Last
<1>3. /\ Front(s) \in Seq(S) /\ Len(Front(s)) = Len(s) - 1
      /\ DOMAIN Front(s) = 1 .. Len(s) - 1
      /\ \A i \in 1 .. Len(s) - 1 : Front(s)[i] = s[i]
  <2> DEFINE n == Len(s) - 1
  <2> HIDE DEF n
  <2>1. n \in 0 .. Len(s) /\ Front(s) = SubSeq(s, 1, n)
    BY <1>1, <1>2 DEF n
  <2>2. /\ SubSeq(s, 1, n) \in Seq(S)
        /\ Len(SubSeq(s, 1, n)) = n /\ DOMAIN SubSeq(s, 1, n) = 1 .. n
        /\ \A i \in 1 .. n : SubSeq(s, 1, n)[i] = s[i]
    BY <2>1, PrefixFacts
  <2> QED BY <2>1, <2>2, Zenon DEF n
<1> QED BY <1>1, <1>2, <1>3

(* The places of a sequence without its last element.                       *)
LEMMA FrontDomain ==
  ASSUME NEW S, NEW fs \in Seq(S), fs # <<>>
  PROVE  /\ Front(fs) \in Seq(S) /\ Len(fs) \in Nat \ {0} /\ DOMAIN fs = 1 .. Len(fs)
         /\ Len(Front(fs)) = Len(fs) - 1 /\ DOMAIN Front(fs) = 1 .. Len(fs) - 1
         /\ Last(fs) = fs[Len(fs)] /\ Len(fs) \in DOMAIN fs
         /\ \A j \in DOMAIN Front(fs) : /\ Front(fs)[j] = fs[j] /\ j \in DOMAIN fs /\ j < Len(fs)
                                        /\ j # Len(fs) - 1 => j + 1 \in DOMAIN Front(fs)
<1> DEFINE n == Len(fs)
<1>1. /\ Front(fs) \in Seq(S) /\ n \in Nat \ {0} /\ Len(Front(fs)) = n - 1
      /\ DOMAIN Front(fs) = 1 .. n - 1 /\ \A i \in 1 .. n - 1 : Front(fs)[i] = fs[i]
      /\ Last(fs) = fs[n]
  BY FrontFacts
<1>2. DOMAIN fs = 1 .. n
  BY SeqFacts
<1> HIDE DEF n
<1>3. n \in 1 .. n /\ \A j \in 1 .. n - 1 : j \in 1 .. n /\ j < n /\ (j # n - 1 => j + 1 \in 1 .. n - 1)
  BY <1>1
<1> QED BY <1>1, <1>2, <1>3 DEF n

(* The first n elements of a stack.                                        *)
Prefix(stack, n) == SubSeq(stack, 1, n)

(* Two sequences with the same elements are the same.                      *)
LEMMA SameSequence ==
  ASSUME NEW S, NEW s \in Seq(S), NEW t \in Seq(S), Len(s) = Len(t),
         \A i \in 1 .. Len(s) : s[i] = t[i]
  PROVE  s = t
<1>1. s \in [1 .. Len(s) -> S] /\ t \in [1 .. Len(s) -> S]
  BY SeqFacts
<1> QED BY <1>1

(* The prefixes of a stack that is pushed on or popped.                    *)
LEMMA PrefixAppend ==
  ASSUME NEW S, NEW st \in Seq(S), NEW f \in S, NEW n \in 0 .. Len(st)
  PROVE  Prefix(Append(st, f), n) = Prefix(st, n)
<1>1. /\ Append(st, f) \in Seq(S) /\ n \in 0 .. Len(Append(st, f))
      /\ \A i \in 1 .. Len(st) : Append(st, f)[i] = st[i]
  BY AppendFacts
<1>2. /\ Prefix(st, n) \in Seq(S) /\ Len(Prefix(st, n)) = n
      /\ \A i \in 1 .. n : Prefix(st, n)[i] = st[i]
  BY PrefixFacts DEF Prefix
<1>3. /\ Prefix(Append(st, f), n) \in Seq(S) /\ Len(Prefix(Append(st, f), n)) = n
      /\ \A i \in 1 .. n : Prefix(Append(st, f), n)[i] = Append(st, f)[i]
  BY <1>1, PrefixFacts DEF Prefix
<1>4. \A i \in 1 .. n : i \in 1 .. Len(st)
  BY SeqFacts
<1> QED BY <1>1, <1>2, <1>3, <1>4, SameSequence

LEMMA PrefixWhole ==
  ASSUME NEW S, NEW st \in Seq(S)
  PROVE  Prefix(st, Len(st)) = st
<1>1. Len(st) \in 0 .. Len(st)
  BY SeqFacts
<1>2. /\ Prefix(st, Len(st)) \in Seq(S) /\ Len(Prefix(st, Len(st))) = Len(st)
      /\ \A i \in 1 .. Len(st) : Prefix(st, Len(st))[i] = st[i]
  BY <1>1, PrefixFacts DEF Prefix
<1> QED BY <1>2, SameSequence

LEMMA AppendLast ==
  ASSUME NEW S, NEW st \in Seq(S), st # <<>>
  PROVE  st = Append(Front(st), Last(st))
<1>1. /\ Front(st) \in Seq(S) /\ Len(Front(st)) = Len(st) - 1 /\ Last(st) \in S
      /\ Last(st) = st[Len(st)] /\ Len(st) \in Nat \ {0}
      /\ \A i \in 1 .. Len(st) - 1 : Front(st)[i] = st[i]
  BY FrontFacts
<1>2. /\ Append(Front(st), Last(st)) \in Seq(S)
      /\ Len(Append(Front(st), Last(st))) = Len(st)
      /\ \A i \in 1 .. Len(st) - 1 : Append(Front(st), Last(st))[i] = Front(st)[i]
      /\ Append(Front(st), Last(st))[Len(st)] = Last(st)
  <2>1. /\ Append(Front(st), Last(st)) \in Seq(S)
        /\ Len(Append(Front(st), Last(st))) = Len(Front(st)) + 1
        /\ \A i \in 1 .. Len(Front(st)) : Append(Front(st), Last(st))[i] = Front(st)[i]
        /\ Append(Front(st), Last(st))[Len(Front(st)) + 1] = Last(st)
    BY <1>1, AppendFacts
  <2> QED BY <1>1, <2>1
<1>3. \A i \in 1 .. Len(st) : st[i] = Append(Front(st), Last(st))[i]
  BY <1>1, <1>2
<1> QED BY <1>2, <1>3, SameSequence

-----------------------------------------------------------------------------
(* Sets of naturals.                                                       *)

(* A set of naturals has a least element.                                  *)
LEMMA LeastElement ==
  ASSUME NEW S \in SUBSET Nat, S # {}
  PROVE  \E n \in S : \A m \in S : n <= m
<1> DEFINE R == StrictSubsetOrdering(Nat)
           U == FiniteSubsetsOf(Nat)
           T == {0 .. n : n \in S}
<1>1. IsWellFoundedOn(R, U)
  BY FS_StrictSubsetOrderingWellFounded
<1>2. T \subseteq U
  <2>1. \A n \in S : 0 .. n \in SUBSET Nat /\ IsFiniteSet(0 .. n)
    BY FS_Interval
  <2> QED BY <2>1 DEF FiniteSubsetsOf
<1>3. T # {}
  OBVIOUS
<1> HIDE DEF R, U
<1>4. PICK x \in T : \A y \in T : ~ (<<y, x>> \in R)
  BY <1>1, <1>2, <1>3, WFMin
<1>5. PICK n \in S : x = 0 .. n
  OBVIOUS
<1>6. ASSUME NEW m \in S, m < n PROVE FALSE
  <2>1. 0 .. m \in T
    OBVIOUS
  <2>2. 0 .. m \in SUBSET Nat /\ x \in SUBSET Nat
    BY <1>5
  <2>3. 0 .. m \subseteq x /\ n \in x /\ n \notin 0 .. m
    BY <1>5, <1>6
  <2>4. <<0 .. m, x>> \in R
    BY <2>2, <2>3 DEF R, StrictSubsetOrdering
  <2> QED BY <1>4, <2>1, <2>4
<1> QED BY <1>6

(* A bounded set of naturals has a greatest element.                       *)
LEMMA GreatestElement ==
  ASSUME NEW S \in SUBSET Nat, S # {}, NEW b \in Nat, \A m \in S : m <= b
  PROVE  \E n \in S : \A m \in S : m <= n
<1> DEFINE T == {b - m : m \in S}
<1>1. T \in SUBSET Nat /\ T # {}
  OBVIOUS
<1>2. PICK t \in T : \A u \in T : t <= u
  BY <1>1, LeastElement
<1>3. PICK n \in S : t = b - n
  OBVIOUS
<1>4. ASSUME NEW m \in S PROVE m <= n
  <2>1. b - n <= b - m
    BY <1>2, <1>3
  <2> QED BY <2>1
<1> QED BY <1>4

LEMMA MaxFacts ==
  ASSUME NEW S \in SUBSET Nat, S # {}, NEW b \in Nat, \A m \in S : m <= b
  PROVE  Max(S) \in S /\ \A m \in S : m <= Max(S)
<1>1. \E n \in S : \A m \in S : m <= n
  BY GreatestElement
<1>2. \E n \in S : \A m \in S : n >= m
  BY <1>1
<1>3. Max(S) \in S /\ \A m \in S : Max(S) >= m
  BY <1>2, Zenon DEF Max
<1> QED BY <1>3

LEMMA MinFacts ==
  ASSUME NEW S \in SUBSET Nat, S # {}
  PROVE  Min(S) \in S /\ \A m \in S : Min(S) <= m
<1>1. \E n \in S : \A m \in S : n <= m
  BY LeastElement
<1> QED BY <1>1, Zenon DEF Min

-----------------------------------------------------------------------------
(* Remainders.                                                              *)

LEMMA ModRange ==
  ASSUME NEW n \in Nat \ {0}, NEW i \in Nat
  PROVE  i % n \in 0 .. n - 1
OBVIOUS

(* Numbers with the same remainder are a multiple apart.                    *)
LEMMA SameResidue ==
  ASSUME NEW n \in Nat \ {0}, NEW i \in Nat, NEW j \in Nat, i < j, i % n = j % n
  PROVE  j >= i + n
<1> SUFFICES ASSUME j < i + n PROVE FALSE
  OBVIOUS
<1> DEFINE p == i \div n
           q == j \div n
           r == i % n
<1>1. i = n * p + r /\ j = n * q + r /\ p \in Int /\ q \in Int /\ r \in 0 .. n - 1
  OBVIOUS
<1>2. \A d \in Int : d > 0 => n * d >= n
  OBVIOUS
<1> HIDE DEF p, q, r
<1>3. n * q - n * p = n * (q - p) /\ n * (p - q) = - (n * (q - p))
  BY <1>1
<1>4. n * (q - p) \in Int /\ n * p \in Int /\ n * q \in Int
  BY <1>1
<1>5. 0 < n * (q - p) /\ n * (q - p) < n
  BY <1>1, <1>3, <1>4
<1>6. ~ q - p > 0 /\ ~ p - q > 0
  BY <1>1, <1>2, <1>3, <1>4, <1>5
<1>7. q - p = 0
  BY <1>1, <1>6
<1> QED BY <1>5, <1>7

(* Induction over the naturals, for the set of those that have a property.  *)
LEMMA SetInduction ==
  ASSUME NEW G, 0 \in G, \A n \in Nat : n \in G => n + 1 \in G
  PROVE  Nat \subseteq G
<1> SUFFICES ASSUME Nat \ G # {} PROVE FALSE
  OBVIOUS
<1>1. PICK n \in Nat \ G : \A m \in Nat \ G : n <= m
  BY LeastElement
<1>2. n - 1 \in Nat /\ n - 1 \in G
  BY <1>1
<1> QED BY <1>2
=============================================================================
