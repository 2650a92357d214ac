--------------------------- MODULE CompilerProofs ---------------------------
(***************************************************************************)
(* Proofs about the statement machine of parser.c.                         *)
(***************************************************************************)
EXTENDS ParserInvariants

----
\* The count of the constructs of some kinds.
LEMMA CountFinite ==
  ASSUME NEW K, NEW st \in Seq(Construct)
  PROVE  IsFiniteSet(Counted(K, st)) /\ Count(K, st) = Cardinality(Counted(K, st))
         /\ Count(K, st) \in Nat
<1>1. DOMAIN st = 1 .. Len(st) /\ Len(st) \in Nat
  BY SeqFacts
<1>2. IsFiniteSet(DOMAIN st)
  BY <1>1, FS_Interval
<1>3. Counted(K, st) \in SUBSET (DOMAIN st)
  BY DEF Counted
<1>4. IsFiniteSet(Counted(K, st))
  BY <1>2, <1>3, FS_Subset
<1> QED BY <1>4, FS_CardinalityType DEF Count, Counted

LEMMA CountAppend ==
  ASSUME NEW K, NEW st \in Seq(Construct), NEW f \in Construct
  PROVE  Count(K, Append(st, f)) = IF f.kind \in K THEN Count(K, st) + 1 ELSE Count(K, st)
<1> DEFINE n == Len(st) + 1
<1>1. /\ Append(st, f) \in Seq(Construct) /\ DOMAIN Append(st, f) = 1 .. n
      /\ \A i \in 1 .. Len(st) : Append(st, f)[i] = st[i]
      /\ Append(st, f)[n] = f /\ Len(st) \in Nat /\ DOMAIN st = 1 .. Len(st)
  BY AppendFacts, SeqFacts
<1>2. n \notin Counted(K, st)
  BY <1>1 DEF Counted
<1>3. Counted(K, Append(st, f)) = IF f.kind \in K THEN Counted(K, st) \cup {n} ELSE Counted(K, st)
  BY <1>1 DEF Counted
<1>4. IsFiniteSet(Counted(K, st)) /\ Count(K, st) = Cardinality(Counted(K, st))
  BY CountFinite
<1>5. Cardinality(Counted(K, st) \cup {n}) = Cardinality(Counted(K, st)) + 1
  BY <1>2, <1>4, FS_AddElement
<1>6. Count(K, Append(st, f)) = Cardinality(Counted(K, Append(st, f)))
  BY <1>1, CountFinite
<1> QED BY <1>3, <1>4, <1>5, <1>6

LEMMA CountFront ==
  ASSUME NEW K, NEW st \in Seq(Construct), st # <<>>
  PROVE  Count(K, Front(st)) = IF Last(st).kind \in K THEN Count(K, st) - 1 ELSE Count(K, st)
<1>1. Front(st) \in Seq(Construct) /\ Last(st) \in Construct
  BY FrontFacts
<1>2. Count(K, Front(st)) \in Nat
  BY <1>1, CountFinite
<1>3. Count(K, st) = IF Last(st).kind \in K THEN Count(K, Front(st)) + 1 ELSE Count(K, Front(st))
  <2>1. Count(K, Append(Front(st), Last(st)))
          = IF Last(st).kind \in K THEN Count(K, Front(st)) + 1 ELSE Count(K, Front(st))
    BY <1>1, CountAppend
  <2>2. st = Append(Front(st), Last(st))
    BY AppendLast
  <2> QED BY <2>1, <2>2, Zenon
<1> QED BY <1>2, <1>3

LEMMA CountNone ==
  ASSUME NEW K, NEW st \in Seq(Construct), \A i \in DOMAIN st : st[i].kind \notin K
  PROVE  Count(K, st) = 0
<1>1. Counted(K, st) = {}
  BY DEF Counted
<1> QED BY <1>1, CountFinite, FS_EmptySet

\* The constructs around one of a kind are fewer than all.
LEMMA CountAround ==
  ASSUME NEW K, NEW st \in Seq(Construct), NEW i \in DOMAIN st
  PROVE  /\ Count(K, Prefix(st, i - 1)) \in Nat
         /\ Count(K, Prefix(st, i - 1)) <= Count(K, st)
         /\ st[i].kind \in K => Count(K, Prefix(st, i - 1)) + 1 <= Count(K, st)
<1>1. DOMAIN st = 1 .. Len(st) /\ Len(st) \in Nat /\ i - 1 \in 0 .. Len(st)
  BY SeqFacts
<1>2. /\ Prefix(st, i - 1) \in Seq(Construct) /\ DOMAIN Prefix(st, i - 1) = 1 .. i - 1
      /\ \A j \in 1 .. i - 1 : Prefix(st, i - 1)[j] = st[j]
  BY <1>1, PrefixFacts DEF Prefix
<1> DEFINE P == Counted(K, Prefix(st, i - 1))
           A == Counted(K, st)
<1>3. P \in SUBSET A /\ i \notin P
  BY <1>1, <1>2 DEF Counted
<1>4. /\ IsFiniteSet(A) /\ Cardinality(A) = Count(K, st)
      /\ IsFiniteSet(P) /\ Cardinality(P) = Count(K, Prefix(st, i - 1))
      /\ Cardinality(P) \in Nat /\ Cardinality(A) \in Nat
  BY <1>2, CountFinite
<1>5. Cardinality(P) <= Cardinality(A)
  BY <1>3, <1>4, FS_Subset
<1>6. ASSUME st[i].kind \in K PROVE Cardinality(P) + 1 <= Cardinality(A)
  <2>1. P \cup {i} \in SUBSET A
    BY <1>3, <1>6 DEF Counted
  <2>2. Cardinality(P \cup {i}) = Cardinality(P) + 1
    BY <1>3, <1>4, FS_AddElement
  <2> HIDE DEF P, A
  <2>3. Cardinality(P \cup {i}) <= Cardinality(A)
    BY <2>1, <1>4, FS_Subset
  <2> QED BY <2>2, <2>3
<1> QED BY <1>4, <1>5, <1>6

----
\* The floor of the innermost function.

LEMMA FloorNone ==
  ASSUME NEW st, \A i \in DOMAIN st : st[i].kind \notin Functions
  PROVE  FloorOf(st) = 0
BY DEF FloorOf

LEMMA FloorAt ==
  ASSUME NEW st \in Seq(Construct), NEW k \in DOMAIN st, st[k].kind \in Functions,
         \A j \in DOMAIN st : st[j].kind \in Functions => j <= k
  PROVE  FloorOf(st) = Count(Loops, Prefix(st, k - 1))
<1> DEFINE fs == {i \in DOMAIN st : st[i].kind \in Functions}
           c == CHOOSE i \in fs : \A j \in fs : j <= i
<1>1. DOMAIN st = 1 .. Len(st) /\ Len(st) \in Nat
  BY SeqFacts
<1>2. k \in fs /\ \A j \in fs : j <= k
  OBVIOUS
<1>3. c \in fs /\ \A j \in fs : j <= c
  BY <1>2
<1>4. c = k
  BY <1>1, <1>2, <1>3
<1> QED BY <1>2, <1>4 DEF FloorOf, Prefix

LEMMA InnermostFunction ==
  ASSUME NEW st \in Seq(Construct), \E i \in DOMAIN st : st[i].kind \in Functions
  PROVE  \E k \in DOMAIN st : /\ st[k].kind \in Functions
                              /\ \A j \in DOMAIN st : st[j].kind \in Functions => j <= k
<1> DEFINE fs == {i \in DOMAIN st : st[i].kind \in Functions}
<1>1. DOMAIN st = 1 .. Len(st) /\ Len(st) \in Nat
  BY SeqFacts
<1>2. fs \in SUBSET Nat /\ fs # {} /\ \A j \in fs : j <= Len(st)
  BY <1>1
<1>3. \E k \in fs : \A j \in fs : j <= k
  BY <1>1, <1>2, GreatestElement
<1> QED BY <1>3

LEMMA FloorAppend ==
  ASSUME NEW st \in Seq(Construct), NEW f \in Construct
  PROVE  FloorOf(Append(st, f)) = IF f.kind \in Functions THEN Count(Loops, st) ELSE FloorOf(st)
<1> DEFINE n == Len(st) + 1
           ast == Append(st, f)
<1>1. /\ ast \in Seq(Construct) /\ DOMAIN ast = 1 .. n
      /\ \A i \in 1 .. Len(st) : ast[i] = st[i]
      /\ ast[n] = f /\ Len(st) \in Nat /\ DOMAIN st = 1 .. Len(st)
  BY AppendFacts, SeqFacts
<1>2. \A i \in 1 .. n : i <= n /\ (i # n => i \in 1 .. Len(st))
  BY <1>1
<1>3. \A m \in 0 .. Len(st) : Prefix(ast, m) = Prefix(st, m)
  BY PrefixAppend
<1> HIDE DEF ast
<1>4. CASE f.kind \in Functions
  <2>1. n \in DOMAIN ast /\ n - 1 = Len(st) /\ Len(st) \in 0 .. Len(st)
    BY <1>1
  <2>2. FloorOf(ast) = Count(Loops, Prefix(ast, n - 1))
    BY <1>1, <1>2, <1>4, <2>1, FloorAt
  <2> QED BY <2>1, <2>2, <1>3, <1>4, PrefixWhole DEF ast
<1>5. CASE f.kind \notin Functions /\ \A i \in DOMAIN st : st[i].kind \notin Functions
  <2>1. \A i \in DOMAIN ast : ast[i].kind \notin Functions
    BY <1>1, <1>2, <1>5
  <2>2. FloorOf(ast) = 0 /\ FloorOf(st) = 0
    BY <2>1, <1>5, FloorNone
  <2> QED BY <1>5, <2>2 DEF ast
<1>6. CASE f.kind \notin Functions /\ \E i \in DOMAIN st : st[i].kind \in Functions
  <2>1. PICK k \in DOMAIN st : /\ st[k].kind \in Functions
                               /\ \A j \in DOMAIN st : st[j].kind \in Functions => j <= k
    BY <1>6, InnermostFunction
  <2>2. FloorOf(st) = Count(Loops, Prefix(st, k - 1))
    BY <2>1, FloorAt
  <2>3. k \in DOMAIN ast /\ ast[k] = st[k] /\ k - 1 \in 0 .. Len(st)
    BY <1>1
  <2>4. \A j \in DOMAIN ast : ast[j].kind \in Functions => j <= k
    BY <1>1, <1>2, <1>6, <2>1
  <2>5. FloorOf(ast) = Count(Loops, Prefix(ast, k - 1))
    BY <1>1, <2>1, <2>3, <2>4, FloorAt
  <2> QED BY <2>2, <2>3, <2>5, <1>3, <1>6 DEF ast
<1> QED BY <1>4, <1>5, <1>6

LEMMA FloorFront ==
  ASSUME NEW st \in Seq(Construct), st # <<>>, Last(st).kind \notin Functions
  PROVE  FloorOf(Front(st)) = FloorOf(st)
<1>1. Front(st) \in Seq(Construct) /\ Last(st) \in Construct
  BY FrontFacts
<1> QED BY <1>1, AppendLast, FloorAppend

LEMMA FloorBound ==
  ASSUME NEW st \in Seq(Construct)
  PROVE  FloorOf(st) \in 0 .. Count(Loops, st)
<1>1. Count(Loops, st) \in Nat
  BY CountFinite
<1>2. CASE \A i \in DOMAIN st : st[i].kind \notin Functions
  BY <1>1, <1>2, FloorNone
<1>3. CASE \E i \in DOMAIN st : st[i].kind \in Functions
  <2>1. PICK k \in DOMAIN st : /\ st[k].kind \in Functions
                               /\ \A j \in DOMAIN st : st[j].kind \in Functions => j <= k
    BY <1>3, InnermostFunction
  <2>2. FloorOf(st) = Count(Loops, Prefix(st, k - 1))
    BY <2>1, FloorAt
  <2> QED BY <1>1, <2>2, CountAround
<1> QED BY <1>2, <1>3

----
\* The frames and the loop contexts of parser.c, as pure data.

\* A frame is pushed: what was said of those below stays said.
LEMMA PushBelow ==
  ASSUME NEW st \in Seq(Construct), NEW f \in Construct
  PROVE  /\ DOMAIN Append(st, f) = 1 .. Len(st) + 1 /\ DOMAIN st = 1 .. Len(st)
         /\ Len(st) \in Nat
         /\ \A i \in 1 .. Len(st) + 1 : i = Len(st) + 1 \/ i \in 1 .. Len(st)
         /\ \A i \in 1 .. Len(st) : /\ Append(st, f)[i] = st[i]
                                    /\ Prefix(Append(st, f), i - 1) = Prefix(st, i - 1)
         /\ Append(st, f)[Len(st) + 1] = f
         /\ Prefix(Append(st, f), Len(st)) = st
<1>1. /\ DOMAIN Append(st, f) = 1 .. Len(st) + 1 /\ DOMAIN st = 1 .. Len(st)
      /\ Len(st) \in Nat /\ \A i \in 1 .. Len(st) : Append(st, f)[i] = st[i]
      /\ Append(st, f)[Len(st) + 1] = f
  BY AppendFacts, SeqFacts
<1>2. \A m \in 0 .. Len(st) : Prefix(Append(st, f), m) = Prefix(st, m)
  BY PrefixAppend
<1>3. \A i \in 1 .. Len(st) : i - 1 \in 0 .. Len(st)
  BY <1>1
<1>4. Prefix(Append(st, f), Len(st)) = st
  BY <1>1, <1>2, PrefixWhole
<1> QED BY <1>1, <1>2, <1>3, <1>4

LEMMA PushPlain ==
  ASSUME NEW st \in Seq(Construct), NEW ls, NEW f \in Construct, Matches(st, ls),
         f.kind \notin Loops, f.kind \notin Functions
  PROVE  Matches(Append(st, f), ls)
<1>1. Count(Loops, Append(st, f)) = Count(Loops, st)
  BY CountAppend
<1> QED BY <1>1, PushBelow DEF Matches, LoopFrames, FunctionFrames

LEMMA PushFunction ==
  ASSUME NEW st \in Seq(Construct), NEW ls, NEW f \in Construct, Matches(st, ls),
         f.kind \in Functions, f.ctx = Len(ls), f.floor = FloorOf(st)
  PROVE  Matches(Append(st, f), ls)
<1>1. f.kind \notin Loops
  BY DEF Loops, Functions
<1>2. Count(Loops, Append(st, f)) = Count(Loops, st)
  BY <1>1, CountAppend
<1>3. Len(st) + 1 - 1 = Len(st)
  BY PushBelow
<1> QED BY <1>1, <1>2, <1>3, PushBelow DEF Matches, LoopFrames, FunctionFrames

LEMMA PushLoop ==
  ASSUME NEW st \in Seq(Construct), NEW ls \in Seq(LoopContext), NEW f \in Construct,
         NEW l \in LoopContext, Matches(st, ls),
         f.kind \in Loops, f.ctx = Len(ls) + 1, l.scope = Count(Scoped, st),
         l.iter = IF f.kind = "each" THEN 2 ELSE 0
  PROVE  Matches(Append(st, f), Append(ls, l))
<1>1. f.kind \notin Functions
  BY DEF Loops, Functions
<1>2. Count(Loops, Append(st, f)) = Count(Loops, st) + 1
  BY CountAppend
<1>3. /\ Len(st) + 1 - 1 = Len(st) /\ Len(Append(ls, l)) = Len(ls) + 1 /\ Len(ls) \in Nat
      /\ \A k \in 1 .. Len(ls) : Append(ls, l)[k] = ls[k]
      /\ Append(ls, l)[Len(ls) + 1] = l
  BY PushBelow, AppendFacts
<1>4. \A i \in DOMAIN st : st[i].kind \in Loops => st[i].ctx \in 1 .. Len(ls)
  BY CountAround DEF Matches, LoopFrames
<1>5. LoopFrames(Append(st, f), Append(ls, l))
  <2> SUFFICES ASSUME NEW i \in DOMAIN Append(st, f), Append(st, f)[i].kind \in Loops
               PROVE  /\ Append(st, f)[i].ctx = Count(Loops, Prefix(Append(st, f), i - 1)) + 1
                      /\ Append(ls, l)[Append(st, f)[i].ctx].scope
                           = Count(Scoped, Prefix(Append(st, f), i - 1))
                      /\ Append(ls, l)[Append(st, f)[i].ctx].iter
                           = IF Append(st, f)[i].kind = "each" THEN 2 ELSE 0
    BY DEF LoopFrames
  <2>1. CASE i = Len(st) + 1
    BY <2>1, <1>3, PushBelow DEF Matches
  <2>2. CASE i \in 1 .. Len(st)
    <3>1. /\ Append(st, f)[i] = st[i] /\ Prefix(Append(st, f), i - 1) = Prefix(st, i - 1)
          /\ i \in DOMAIN st
      BY <2>2, PushBelow
    <3>2. Append(ls, l)[st[i].ctx] = ls[st[i].ctx]
      BY <3>1, <1>3, <1>4
    <3> QED BY <3>1, <3>2 DEF Matches, LoopFrames
  <2> QED BY <2>1, <2>2, PushBelow
<1>6. FunctionFrames(Append(st, f))
  BY <1>1, PushBelow DEF Matches, FunctionFrames
<1> QED BY <1>2, <1>3, <1>5, <1>6 DEF Matches

\* A frame is popped.
LEMMA PopBelow ==
  ASSUME NEW st \in Seq(Construct), st # <<>>
  PROVE  /\ Front(st) \in Seq(Construct) /\ Last(st) \in Construct /\ Last(st) = st[Len(st)]
         /\ Len(st) \in Nat \ {0} /\ DOMAIN st = 1 .. Len(st)
         /\ Len(st) \in DOMAIN st /\ Prefix(st, Len(st) - 1) = Front(st)
         /\ DOMAIN Front(st) = 1 .. Len(st) - 1 /\ DOMAIN Front(st) \subseteq DOMAIN st
         /\ \A i \in DOMAIN st : i \in DOMAIN Front(st) \/ i = Len(st)
         /\ \A i \in DOMAIN Front(st) : /\ Front(st)[i] = st[i]
                                        /\ Prefix(Front(st), i - 1) = Prefix(st, i - 1)
<1>1. /\ Front(st) \in Seq(Construct) /\ Last(st) \in Construct /\ Last(st) = st[Len(st)]
      /\ Len(st) \in Nat \ {0} /\ DOMAIN Front(st) = 1 .. Len(st) - 1
      /\ \A i \in 1 .. Len(st) - 1 : Front(st)[i] = st[i]
      /\ Len(Front(st)) = Len(st) - 1
  BY FrontFacts
<1>2. st = Append(Front(st), Last(st))
  BY AppendLast
<1>3. \A i \in 1 .. Len(st) - 1 :
        Prefix(Append(Front(st), Last(st)), i - 1) = Prefix(Front(st), i - 1)
  BY <1>1, PushBelow
<1>4. Prefix(Append(Front(st), Last(st)), Len(st) - 1) = Front(st)
  BY <1>1, PushBelow
<1>5. DOMAIN st = 1 .. Len(st)
  BY SeqFacts
<1>6. /\ \A i \in 1 .. Len(st) - 1 : Prefix(Front(st), i - 1) = Prefix(st, i - 1)
      /\ Prefix(st, Len(st) - 1) = Front(st)
  BY <1>2, <1>3, <1>4, Zenon
<1> QED BY <1>1, <1>5, <1>6

LEMMA PopPlain ==
  ASSUME NEW st \in Seq(Construct), NEW ls, Matches(st, ls), st # <<>>,
         Last(st).kind \notin Loops
  PROVE  Matches(Front(st), ls)
<1>1. Count(Loops, Front(st)) = Count(Loops, st)
  BY CountFront
<1> QED BY <1>1, PopBelow DEF Matches, LoopFrames, FunctionFrames

LEMMA PopLoop ==
  ASSUME NEW st \in Seq(Construct), NEW ls \in Seq(LoopContext), Matches(st, ls), st # <<>>,
         Last(st).kind \in Loops
  PROVE  /\ Matches(Front(st), Front(ls))
         /\ Last(st).ctx = Len(ls) /\ ls # <<>>
<1>1. Count(Loops, Front(st)) = Count(Loops, st) - 1 /\ Count(Loops, Front(st)) \in Nat
  BY CountFront, PopBelow, CountFinite
<1>2. Len(ls) > 0
  BY <1>1 DEF Matches
<1>3. /\ Len(Front(ls)) = Len(ls) - 1 /\ Len(ls) \in Nat /\ ls # <<>>
      /\ \A k \in 1 .. Len(ls) - 1 : Front(ls)[k] = ls[k]
  BY <1>2, FrontFacts, SMTT(30)
<1>4. \A i \in DOMAIN Front(st) : st[i].kind \in Loops => st[i].ctx \in 1 .. Len(ls) - 1
  <2> SUFFICES ASSUME NEW i \in DOMAIN Front(st), st[i].kind \in Loops
               PROVE  st[i].ctx \in 1 .. Len(ls) - 1
    OBVIOUS
  <2>1. /\ Front(st) \in Seq(Construct) /\ Front(st)[i] = st[i] /\ i \in DOMAIN st
        /\ Prefix(Front(st), i - 1) = Prefix(st, i - 1)
    BY PopBelow
  <2>2. /\ Count(Loops, Prefix(st, i - 1)) \in Nat
        /\ Count(Loops, Prefix(st, i - 1)) + 1 <= Count(Loops, Front(st))
    BY <2>1, CountAround
  <2> QED BY <2>1, <2>2, <1>1 DEF Matches, LoopFrames
<1>5. LoopFrames(Front(st), Front(ls))
  <2> SUFFICES ASSUME NEW i \in DOMAIN Front(st), Front(st)[i].kind \in Loops
               PROVE  /\ Front(st)[i].ctx = Count(Loops, Prefix(Front(st), i - 1)) + 1
                      /\ Front(ls)[Front(st)[i].ctx].scope
                           = Count(Scoped, Prefix(Front(st), i - 1))
                      /\ Front(ls)[Front(st)[i].ctx].iter
                           = IF Front(st)[i].kind = "each" THEN 2 ELSE 0
    BY DEF LoopFrames
  <2>1. /\ Front(st)[i] = st[i] /\ Prefix(Front(st), i - 1) = Prefix(st, i - 1)
        /\ i \in DOMAIN st
    BY PopBelow
  <2>2. Front(ls)[st[i].ctx] = ls[st[i].ctx]
    BY <2>1, <1>3, <1>4
  <2> QED BY <2>1, <2>2 DEF Matches, LoopFrames
<1>6. FunctionFrames(Front(st))
  BY PopBelow DEF Matches, FunctionFrames
<1>7. Last(st).ctx = Len(ls)
  BY <1>1, PopBelow DEF Matches, LoopFrames
<1> QED BY <1>1, <1>3, <1>5, <1>6, <1>7 DEF Matches

\* The patches of a loop may change.
LEMMA SameLoops ==
  ASSUME NEW st \in Seq(Construct), NEW ls, NEW ms, Matches(st, ls), Len(ms) = Len(ls),
         \A k \in 1 .. Len(ls) : ms[k].scope = ls[k].scope /\ ms[k].iter = ls[k].iter
  PROVE  Matches(st, ms)
<1>1. \A i \in DOMAIN st : st[i].kind \in Loops => st[i].ctx \in 1 .. Len(ls)
  BY CountAround DEF Matches, LoopFrames
<1> QED BY <1>1 DEF Matches, LoopFrames

----
\* The code and its holes.

LEMMA EmitHoles ==
  ASSUME NEW c \in Seq(Word), NEW n \in Int
  PROVE  /\ Emit(c, n) \in Seq(Word) /\ HolesIn(Emit(c, n)) = HolesIn(c)
         /\ Len(c) \in Nat /\ Len(Emit(c, n)) \in Nat /\ Len(Emit(c, n)) >= Len(c)
         /\ n \in Nat => Len(Emit(c, n)) = Len(c) + n
<1> DEFINE m == IF n \in Nat THEN n ELSE 0
           w == [i \in 1 .. n |-> "word"]
<1>1. m \in Nat /\ 1 .. n = 1 .. m
  OBVIOUS
<1>2. w \in Seq(Word) /\ Len(w) = m /\ \A i \in 1 .. m : w[i] = "word"
  <2>1. w = [i \in 1 .. m |-> "word"]
    BY <1>1
  <2>2. w \in [1 .. m -> Word]
    BY <2>1 DEF Word
  <2>3. \A i \in 1 .. m : w[i] = "word"
    BY <2>1
  <2> HIDE DEF m, w
  <2>4. w \in Seq(Word) /\ Len(w) = m
    BY <1>1, <2>2, SeqOfFunction
  <2> QED BY <2>3, <2>4
<1> HIDE DEF m, w
<1>3. Len(c) \in Nat /\ DOMAIN c = 1 .. Len(c)
  BY SeqFacts
<1>4. /\ c \o w \in Seq(Word) /\ Len(c \o w) = Len(c) + m
      /\ DOMAIN (c \o w) = 1 .. Len(c) + m
      /\ \A i \in 1 .. Len(c) + m : (c \o w)[i] = IF i <= Len(c) THEN c[i] ELSE w[i - Len(c)]
  BY <1>1, <1>2, <1>3
<1>5. \A i \in 1 .. Len(c) + m : i <= Len(c) => i \in 1 .. Len(c)
  BY <1>1, <1>3
<1>6. \A i \in 1 .. Len(c) + m : ~(i <= Len(c)) => w[i - Len(c)] # "hole"
  <2> SUFFICES ASSUME NEW i \in 1 .. Len(c) + m, ~(i <= Len(c)) PROVE w[i - Len(c)] # "hole"
    OBVIOUS
  <2>1. i - Len(c) \in 1 .. m
    BY <1>1, <1>3
  <2> QED BY <2>1, <1>2
<1>7. HolesIn(c \o w) = HolesIn(c)
  BY <1>1, <1>3, <1>4, <1>5, <1>6 DEF HolesIn
<1>8. Emit(c, n) = c \o w
  BY DEF Emit, w
<1> QED BY <1>1, <1>3, <1>4, <1>7, <1>8 DEF m

LEMMA JumpHoles ==
  ASSUME NEW c \in Seq(Word)
  PROVE  /\ EmitJump(c) \in Seq(Word) /\ Len(c) \in Nat /\ Len(EmitJump(c)) = Len(c) + 2
         /\ HolesIn(EmitJump(c)) = HolesIn(c) \cup {Len(c) + 2}
<1> DEFINE e == Emit(c, 1)
<1>1. e \in Seq(Word) /\ HolesIn(e) = HolesIn(c) /\ Len(e) = Len(c) + 1 /\ Len(c) \in Nat
  BY EmitHoles
<1>2. EmitJump(c) = Append(e, "hole") /\ "hole" \in Word
  BY DEF EmitJump, Word
<1> HIDE DEF e
<1>3. /\ Append(e, "hole") \in Seq(Word) /\ DOMAIN Append(e, "hole") = 1 .. Len(c) + 2
      /\ DOMAIN e = 1 .. Len(c) + 1 /\ Len(Append(e, "hole")) = Len(c) + 2
      /\ \A i \in 1 .. Len(c) + 1 : Append(e, "hole")[i] = e[i]
      /\ Append(e, "hole")[Len(c) + 2] = "hole"
  BY <1>1, <1>2, AppendFacts, SeqFacts
<1>4. HolesIn(Append(e, "hole")) = HolesIn(e) \cup {Len(c) + 2}
  BY <1>1, <1>3 DEF HolesIn
<1> QED BY <1>1, <1>2, <1>3, <1>4

LEMMA PatchedHoles ==
  ASSUME NEW c \in Seq(Word), NEW P
  PROVE  /\ PatchWords(c, P) \in Seq(Word) /\ Len(PatchWords(c, P)) = Len(c)
         /\ HolesIn(PatchWords(c, P)) = HolesIn(c) \ P
<1>1. Len(c) \in Nat /\ DOMAIN c = 1 .. Len(c) /\ \A i \in 1 .. Len(c) : c[i] \in Word
  BY SeqFacts
<1>2. PatchWords(c, P) \in [1 .. Len(c) -> Word]
  BY <1>1 DEF PatchWords, Word
<1>3. PatchWords(c, P) \in Seq(Word) /\ Len(PatchWords(c, P)) = Len(c)
  BY <1>1, <1>2
<1>4. HolesIn(PatchWords(c, P)) = HolesIn(c) \ P
  BY <1>1 DEF HolesIn, PatchWords
<1> QED BY <1>3, <1>4

LEMMA RollbackHoles ==
  ASSUME NEW c \in Seq(Word), NEW n \in 0 .. Len(c)
  PROVE  /\ SubSeq(c, 1, n) \in Seq(Word) /\ Len(SubSeq(c, 1, n)) = n
         /\ HolesIn(SubSeq(c, 1, n)) \subseteq HolesIn(c)
<1>1. /\ SubSeq(c, 1, n) \in Seq(Word) /\ Len(SubSeq(c, 1, n)) = n
      /\ DOMAIN SubSeq(c, 1, n) = 1 .. n /\ \A i \in 1 .. n : SubSeq(c, 1, n)[i] = c[i]
  BY PrefixFacts
<1>2. \A i \in 1 .. n : i \in DOMAIN c
  BY SeqFacts
<1> QED BY <1>1, <1>2 DEF HolesIn

LEMMA SavedPush ==
  ASSUME NEW st \in Seq(Construct), NEW f \in Construct, NEW n \in Nat, NEW m \in Nat,
         SavedOrdered(st, n), f.saved = n, f.kind = "file" \/ n <= m
  PROVE  SavedOrdered(Append(st, f), m)
<1>1. Len(Append(st, f)) = Len(st) + 1
  BY AppendFacts
<1>2. \A j \in 1 .. Len(st) : j # Len(st) => j + 1 \in 1 .. Len(st)
  BY PushBelow
<1> QED BY <1>1, <1>2, PushBelow DEF SavedOrdered

LEMMA SavedPop ==
  ASSUME NEW st \in Seq(Construct), NEW n \in Nat, NEW m \in Nat, st # <<>>,
         SavedOrdered(st, n), Last(st).saved <= m
  PROVE  SavedOrdered(Front(st), m)
<1>1. Len(Front(st)) = Len(st) - 1
  BY FrontFacts
<1>2. \A j \in DOMAIN Front(st) : j # Len(st) /\ (j + 1 = Len(st) \/ j + 1 \in DOMAIN Front(st))
  BY PopBelow
<1> SUFFICES ASSUME NEW j \in DOMAIN Front(st), Front(st)[j].kind # "file"
             PROVE  Front(st)[j].saved <= IF j = Len(Front(st)) THEN m ELSE Front(st)[j + 1].saved
  BY DEF SavedOrdered
<1>3. Front(st)[j] = st[j] /\ j \in DOMAIN st /\ j # Len(st) /\ Last(st) = st[Len(st)]
  BY <1>2, PopBelow
<1>4. st[j].saved <= st[j + 1].saved
  BY <1>3 DEF SavedOrdered
<1>5. /\ st[j].saved \in Nat /\ Last(st).saved \in Nat
  <2>1. st[j] \in Construct /\ Last(st) \in Construct
    BY <1>3, SeqFacts, PopBelow
  <2> QED BY <2>1 DEF Construct
<1>6. CASE j = Len(Front(st))
  <2>1. j + 1 = Len(st)
    BY <1>1, <1>6, PopBelow
  <2> QED BY <1>3, <1>4, <1>5, <1>6, <2>1
<1>7. CASE j # Len(Front(st))
  <2>1. j + 1 \in DOMAIN Front(st)
    BY <1>1, <1>2, <1>7, PopBelow
  <2>2. Front(st)[j + 1] = st[j + 1]
    BY <2>1, PopBelow
  <2> QED BY <1>3, <1>4, <1>7, <2>2
<1> QED BY <1>6, <1>7

LEMMA SavedGrow ==
  ASSUME NEW st \in Seq(Construct), NEW n \in Nat, NEW m \in Nat,
         SavedOrdered(st, n), n <= m
  PROVE  SavedOrdered(st, m)
<1>1. \A j \in DOMAIN st : st[j].saved \in Nat
  <2>1. \A j \in DOMAIN st : st[j] \in Construct
    BY SeqFacts
  <2> QED BY <2>1 DEF Construct
<1> QED BY <1>1 DEF SavedOrdered

----
\* Every step keeps what the globals of the parser tell of the constructs.

LEMMA InitContext == Init => CompilerInv
<1> SUFFICES ASSUME Init PROVE CompilerInv
  OBVIOUS
<1>1. <<>> \in Seq(Construct) /\ <<>> \in Seq(Word) /\ <<>> \in Seq(LoopContext)
      /\ DOMAIN <<>> = {} /\ Len(<<>>) = 0
  OBVIOUS
<1>2. /\ Count(Loops, <<>>) = 0 /\ Count(Scoped, <<>>) = 0 /\ Count(Functions, <<>>) = 0
      /\ FloorOf(<<>>) = 0
  BY <1>1, CountNone, FloorNone
<1>3. 0 \in 0 .. LoopMax
  BY CompilerAssumption
<1>4. TypeOK
  <2>1. 0 \in 0 .. 0 /\ 0 \in Nat /\ {} \subseteq {"statement", "inside"}
    OBVIOUS
  <2>2. \A i \in DOMAIN loop_stack : Len(loop_stack[i].patches) <= BreakMax
    BY <1>1 DEF Init
  <2> QED BY <1>1, <1>3, <2>1, <2>2 DEF Init, TypeOK, loop_depth
<1>5. Matches(<<>>, <<>>) /\ SavedOrdered(<<>>, 0) /\ FilesSaved(<<>>)
  BY <1>1, <1>2 DEF Matches, LoopFrames, FunctionFrames, SavedOrdered, FilesSaved
<1> QED BY <1>1, <1>2, <1>4, <1>5 DEF Init, CompilerInv

\* What the end of a statement does to the code and the flags.
LEMMA Ended ==
  ASSUME TypeOK, NEW c \in Seq(Word), NEW start \in 0 .. Len(c), NEW err \in BOOLEAN,
         NEW stack, EndStatement(start, c, err, stack)
  PROVE  /\ code' \in Seq(Word) /\ start <= Len(code') /\ Len(code') \in Nat
         /\ HolesIn(code') \subseteq HolesIn(c)
         /\ frames' = stack /\ eof' = eof
         /\ parse_had_error' \in BOOLEAN /\ any_error' \in BOOLEAN
         /\ reported' \subseteq {"statement", "inside"}
<1>1. /\ SubSeq(c, 1, start) \in Seq(Word) /\ Len(SubSeq(c, 1, start)) = start
      /\ HolesIn(SubSeq(c, 1, start)) \subseteq HolesIn(c)
  BY RollbackHoles
<1>2. Len(c) \in Nat /\ start <= Len(c) /\ start \in Nat /\ start <= start
  BY SeqFacts
<1>3. code' = SubSeq(c, 1, start) \/ code' = c
  BY DEF EndStatement
<1>4. code' \in Seq(Word) /\ start <= Len(code') /\ Len(code') \in Nat
      /\ HolesIn(code') \subseteq HolesIn(c)
  <2>1. CASE code' = SubSeq(c, 1, start)
    BY <2>1, <1>1, <1>2, Zenon
  <2>2. CASE code' = c
    BY <2>2, <1>1, <1>2, Zenon
  <2> QED BY <2>1, <2>2, <1>3
<1>5. Where(stack) \in {"statement", "inside"}
  BY DEF Where
<1> QED BY <1>4, <1>5 DEF EndStatement, TypeOK

\* A statement that is compiled or refused whole.
LEMMA WholeEnded ==
  ASSUME TypeOK, NEW c \in Seq(Word), Len(code) <= Len(c), NEW err \in BOOLEAN, Whole(c, err)
  PROVE  /\ code' \in Seq(Word) /\ Len(code) <= Len(code') /\ Len(code') \in Nat
         /\ Len(code) \in Nat /\ HolesIn(code') \subseteq HolesIn(c)
         /\ frames' = frames /\ eof' = eof
         /\ parse_had_error' \in BOOLEAN /\ any_error' \in BOOLEAN
         /\ reported' \subseteq {"statement", "inside"}
<1>1. Len(code) \in 0 .. Len(c)
  BY SeqFacts DEF TypeOK
<1>2. EndStatement(Len(code), c, err, frames)
  BY DEF Whole
<1> QED BY <1>1, <1>2, Ended

LEMMA WholeKeeps ==
  ASSUME CompilerInv, NEW c \in Seq(Word), Len(code) <= Len(c), NEW err \in BOOLEAN,
         Whole(c, err), UNCHANGED context
  PROVE  CompilerInv'
<1>1. TypeOK
  BY DEF CompilerInv
<1>2. /\ code' \in Seq(Word) /\ Len(code) <= Len(code') /\ Len(code') \in Nat
      /\ Len(code) \in Nat /\ frames' = frames /\ eof' = eof
      /\ parse_had_error' \in BOOLEAN /\ any_error' \in BOOLEAN
      /\ reported' \subseteq {"statement", "inside"}
  BY <1>1, WholeEnded
<1>3. SavedOrdered(frames, Len(code'))
  BY <1>1, <1>2, SavedGrow DEF CompilerInv, TypeOK
<1> QED BY <1>2, <1>3 DEF CompilerInv, TypeOK, context, loop_depth

\* The frame of a construct that opens.
LEMMA FrameTypes ==
  ASSUME TypeOK, NEW kind \in Kind, NEW hole \in Nat
  PROVE  /\ Frame(kind, hole) \in Construct
         /\ Frame(kind, hole).kind = kind /\ Frame(kind, hole).saved = Len(code)
         /\ Frame(kind, hole).hole = hole /\ Frame(kind, hole).ctx = loop_depth
         /\ Frame(kind, hole).floor = loop_floor
         /\ Frame(kind, hole).outer = <<>> /\ Frame(kind, hole).any = FALSE
<1>1. Len(code) \in Nat /\ loop_depth \in 0 .. LoopMax /\ loop_floor \in 0 .. LoopMax
  BY SeqFacts, CompilerAssumption DEF TypeOK
<1>2. <<>> \in Seq(Word)
  OBVIOUS
<1> QED BY <1>1, <1>2 DEF Frame, Construct

\* A construct opens around what follows.
LEMMA Opened ==
  ASSUME CompilerInv, NEW f \in Construct, NEW c \in Seq(Word), Len(code) <= Len(c),
         NEW err \in BOOLEAN, Open(f, c, err), f.saved = Len(code), f.kind # "file"
  PROVE  /\ code' = c /\ frames' = Append(frames, f) /\ frames' \in Seq(Construct)
         /\ frames \in Seq(Construct)
         /\ SavedOrdered(frames', Len(code')) /\ FilesSaved(frames')
         /\ parse_had_error' \in BOOLEAN /\ any_error' \in BOOLEAN /\ eof' \in BOOLEAN
         /\ reported' \subseteq {"statement", "inside"}
<1>1. frames \in Seq(Construct) /\ Len(code) \in Nat /\ Len(c) \in Nat
  BY SeqFacts DEF CompilerInv, TypeOK
<1>2. code' = c /\ frames' = Append(frames, f)
  BY DEF Open
<1>3. frames' \in Seq(Construct)
  BY <1>1, <1>2, AppendFacts
<1>4. SavedOrdered(frames', Len(code'))
  BY <1>1, <1>2, SavedPush DEF CompilerInv
<1>5. FilesSaved(frames')
  BY <1>1, <1>2, PushBelow DEF CompilerInv, FilesSaved
<1> QED BY <1>1, <1>2, <1>3, <1>4, <1>5 DEF Open, CompilerInv, TypeOK

LEMMA OpenIfKeeps ==
  ASSUME CompilerInv, NEW err \in BOOLEAN, OpenIf(err)
  PROVE  CompilerInv'
<1> DEFINE f == Frame("if", Len(code) + 2)
           c == Emit(EmitJump(code), 1)
<1>1. TypeOK /\ code \in Seq(Word) /\ "if" \in Kind
  BY DEF CompilerInv, TypeOK, Kind, Scoped
<1>2. c \in Seq(Word) /\ Len(code) <= Len(c)
  BY <1>1, JumpHoles, EmitHoles
<1>3. f \in Construct /\ f.kind = "if" /\ f.saved = Len(code)
  <2>1. Len(code) + 2 \in Nat
    BY <1>1, SeqFacts
  <2> QED BY <1>1, <2>1, FrameTypes
<1> HIDE DEF f, c
<1>4. Open(f, c, err) /\ loop_stack' = loop_stack /\ loop_floor' = loop_floor
      /\ function_depth' = function_depth /\ compile_scope_depth' = compile_scope_depth + 1
  BY DEF OpenIf, f, c
<1>5. /\ code' = c /\ frames' = Append(frames, f) /\ frames' \in Seq(Construct)
      /\ frames \in Seq(Construct)
      /\ SavedOrdered(frames', Len(code')) /\ FilesSaved(frames')
      /\ parse_had_error' \in BOOLEAN /\ any_error' \in BOOLEAN /\ eof' \in BOOLEAN
      /\ reported' \subseteq {"statement", "inside"}
  BY <1>2, <1>3, <1>4, Opened
<1>6. f.kind \notin Loops /\ f.kind \notin Functions /\ f.kind \in Scoped
  BY <1>3 DEF Loops, Functions, Scoped
<1>7. Matches(frames', loop_stack')
  BY <1>3, <1>4, <1>5, <1>6, PushPlain DEF CompilerInv
<1>8. /\ Count(Scoped, frames') = Count(Scoped, frames) + 1
      /\ Count(Functions, frames') = Count(Functions, frames)
      /\ FloorOf(frames') = FloorOf(frames)
  BY <1>3, <1>5, <1>6, CountAppend, FloorAppend
<1> QED BY <1>2, <1>4, <1>5, <1>7, <1>8 DEF CompilerInv, TypeOK, loop_depth

LEMMA OpenFunctionKeeps ==
  ASSUME CompilerInv, NEW kind \in Functions, NEW err \in BOOLEAN, OpenFunction(kind, err)
  PROVE  CompilerInv'
<1> DEFINE nested == kind = "function" /\ function_depth > 0
           g == Frame(kind, Len(code) + 2)
           f == [g EXCEPT !.nested = nested]
           c == Emit(EmitJump(code), 1)
<1>1. TypeOK /\ code \in Seq(Word) /\ kind \in Kind /\ nested \in BOOLEAN
  BY DEF CompilerInv, TypeOK, Kind, Scoped, Functions
<1>2. c \in Seq(Word) /\ Len(code) <= Len(c)
  BY <1>1, JumpHoles, EmitHoles
<1>3. /\ g \in Construct /\ g.kind = kind /\ g.saved = Len(code)
      /\ g.ctx = loop_depth /\ g.floor = loop_floor
  <2>1. Len(code) + 2 \in Nat
    BY <1>1, SeqFacts
  <2>2. \A hole \in Nat :
          /\ Frame(kind, hole) \in Construct /\ Frame(kind, hole).kind = kind
          /\ Frame(kind, hole).saved = Len(code)
          /\ Frame(kind, hole).ctx = loop_depth /\ Frame(kind, hole).floor = loop_floor
    BY <1>1, FrameTypes, ZenonT(30)
  <2> QED BY <2>1, <2>2
<1>4. /\ f \in Construct /\ f.kind = kind /\ f.saved = Len(code)
      /\ f.ctx = loop_depth /\ f.floor = loop_floor
  <2> HIDE DEF g, nested
  <2> QED BY <1>1, <1>3 DEF Construct
<1>5. /\ Open(f, c, err \/ nested) /\ loop_stack' = loop_stack /\ loop_floor' = loop_depth
      /\ function_depth' = function_depth + 1 /\ compile_scope_depth' = compile_scope_depth + 1
  BY DEF OpenFunction
<1>6. (err \/ nested) \in BOOLEAN
  OBVIOUS
<1> HIDE DEF f, c, g, nested
<1>7. f.kind \notin Loops /\ f.kind \in Functions /\ f.kind \in Scoped /\ f.kind # "file"
  BY <1>4 DEF Loops, Functions, Scoped
<1>8. /\ code' = c /\ frames' = Append(frames, f) /\ frames' \in Seq(Construct)
      /\ frames \in Seq(Construct)
      /\ SavedOrdered(frames', Len(code')) /\ FilesSaved(frames')
      /\ parse_had_error' \in BOOLEAN /\ any_error' \in BOOLEAN /\ eof' \in BOOLEAN
      /\ reported' \subseteq {"statement", "inside"}
  BY <1>2, <1>4, <1>5, <1>6, <1>7, Opened
<1>9. Matches(frames', loop_stack')
  BY <1>4, <1>5, <1>7, <1>8, PushFunction DEF CompilerInv, loop_depth
<1>10. /\ Count(Scoped, frames') = Count(Scoped, frames) + 1
       /\ Count(Functions, frames') = Count(Functions, frames) + 1
       /\ FloorOf(frames') = Count(Loops, frames)
  BY <1>4, <1>7, <1>8, CountAppend, FloorAppend
<1>11. loop_floor' = FloorOf(frames') /\ loop_floor' \in 0 .. loop_depth'
  BY <1>5, <1>10, SeqFacts DEF CompilerInv, TypeOK, Matches, loop_depth
<1> QED BY <1>2, <1>5, <1>8, <1>9, <1>10, <1>11, SMTT(30) DEF CompilerInv, TypeOK, loop_depth

LEMMA OpenLoopKeeps ==
  ASSUME CompilerInv, NEW kind \in Loops, OpenLoop(kind)
  PROVE  CompilerInv'
<1> DEFINE g == Frame(kind, Len(code) + 2)
           f == [g EXCEPT !.ctx = loop_depth + 1]
           e == EmitJump(code)
           c == Emit(e, IF kind = "each" THEN 1 ELSE 0)
           l == Loop(IF kind = "each" THEN 2 ELSE 0)
<1>1. TypeOK /\ code \in Seq(Word) /\ kind \in Kind
  BY DEF CompilerInv, TypeOK, Kind, Scoped, Loops
<1>2. c \in Seq(Word) /\ Len(code) <= Len(c)
  <2>1. e \in Seq(Word) /\ Len(e) = Len(code) + 2 /\ Len(code) \in Nat
    BY <1>1, JumpHoles
  <2>2. (IF kind = "each" THEN 1 ELSE 0) \in Int
    OBVIOUS
  <2> HIDE DEF e
  <2>3. c \in Seq(Word) /\ Len(c) >= Len(e) /\ Len(c) \in Nat
    BY <2>1, <2>2, EmitHoles
  <2> QED BY <2>1, <2>3
<1>3. /\ g \in Construct /\ g.kind = kind /\ g.saved = Len(code)
  <2>1. Len(code) + 2 \in Nat
    BY <1>1, SeqFacts
  <2> QED BY <1>1, <2>1, FrameTypes
<1>4. loop_depth \in Nat /\ loop_depth < LoopMax /\ LoopMax \in Nat
  BY <1>1, CompilerAssumption DEF OpenLoop, TypeOK
<1>5. /\ f \in Construct /\ f.kind = kind /\ f.saved = Len(code) /\ f.ctx = loop_depth + 1
  <2>1. loop_depth + 1 \in 0 .. LoopMax
    BY <1>4
  <2> HIDE DEF g
  <2> QED BY <1>3, <2>1 DEF Construct
<1>6. /\ l \in LoopContext /\ l.scope = compile_scope_depth /\ l.patches = <<>>
      /\ l.iter = IF kind = "each" THEN 2 ELSE 0
  <2>1. compile_scope_depth \in Nat /\ <<>> \in Seq(Patch)
    BY <1>1 DEF TypeOK
  <2> QED BY <2>1 DEF Loop, LoopContext
<1>7. /\ Open(f, c, FALSE) /\ loop_stack' = Append(loop_stack, l) /\ loop_floor' = loop_floor
      /\ function_depth' = function_depth
      /\ compile_scope_depth' = compile_scope_depth + (IF kind = "each" THEN 1 ELSE 0)
  BY DEF OpenLoop
<1> HIDE DEF f, c, g, l
<1>8. /\ f.kind \in Loops /\ f.kind \notin Functions /\ f.kind # "file"
      /\ f.kind \in Scoped <=> kind = "each"
  BY <1>5 DEF Loops, Functions, Scoped
<1>9. /\ code' = c /\ frames' = Append(frames, f) /\ frames' \in Seq(Construct)
      /\ frames \in Seq(Construct)
      /\ SavedOrdered(frames', Len(code')) /\ FilesSaved(frames')
      /\ parse_had_error' \in BOOLEAN /\ any_error' \in BOOLEAN /\ eof' \in BOOLEAN
      /\ reported' \subseteq {"statement", "inside"}
  BY <1>2, <1>5, <1>7, <1>8, Opened
<1>10. loop_stack \in Seq(LoopContext)
  BY <1>1 DEF TypeOK
<1>11. Matches(frames', loop_stack')
  BY <1>5, <1>6, <1>7, <1>8, <1>9, <1>10, PushLoop DEF CompilerInv, loop_depth
<1>12. /\ Count(Scoped, frames') = Count(Scoped, frames) + (IF kind = "each" THEN 1 ELSE 0)
       /\ Count(Functions, frames') = Count(Functions, frames)
       /\ FloorOf(frames') = FloorOf(frames)
  <2>1. Count(Scoped, frames) \in Nat
    BY <1>9, CountFinite
  <2> QED BY <1>5, <1>8, <1>9, <2>1, CountAppend, FloorAppend
<1>13. /\ loop_stack' \in Seq(LoopContext) /\ loop_depth' = loop_depth + 1
       /\ DOMAIN loop_stack' = 1 .. loop_depth + 1 /\ DOMAIN loop_stack = 1 .. loop_depth
       /\ \A i \in 1 .. loop_depth : loop_stack'[i] = loop_stack[i]
       /\ loop_stack'[loop_depth + 1] = l
  BY <1>6, <1>7, <1>10, AppendFacts, SeqFacts DEF loop_depth
<1>14. \A i \in DOMAIN loop_stack' : Len(loop_stack'[i].patches) <= BreakMax
  <2>1. \A i \in 1 .. loop_depth + 1 : i = loop_depth + 1 \/ i \in 1 .. loop_depth
    BY <1>4
  <2>2. Len(l.patches) <= BreakMax
    BY <1>6, CompilerAssumption
  <2> QED BY <1>1, <1>13, <2>1, <2>2 DEF TypeOK
<1>15. loop_depth' \in 0 .. LoopMax /\ loop_floor' \in 0 .. loop_depth'
  BY <1>1, <1>4, <1>7, <1>13 DEF TypeOK
<1>16. compile_scope_depth' \in Nat
  BY <1>1, <1>7 DEF TypeOK
<1> QED BY <1>1, <1>2, <1>7, <1>9, <1>11, <1>12, <1>13, <1>14, <1>15, <1>16
     DEF CompilerInv, TypeOK

\* A construct ends: its statement is over in what is left of the frames.
LEMMA Popped ==
  ASSUME CompilerInv, frames # <<>>, NEW c \in Seq(Word), Len(code) <= Len(c),
         NEW err \in BOOLEAN, EndStatement(Top.saved, c, err, Front(frames)), Top.kind # "file"
  PROVE  /\ code' \in Seq(Word) /\ HolesIn(code') \subseteq HolesIn(c)
         /\ frames' = Front(frames) /\ frames' \in Seq(Construct) /\ frames \in Seq(Construct)
         /\ Top \in Construct /\ Top = Last(frames)
         /\ SavedOrdered(frames', Len(code')) /\ FilesSaved(frames')
         /\ parse_had_error' \in BOOLEAN /\ any_error' \in BOOLEAN /\ eof' \in BOOLEAN
         /\ reported' \subseteq {"statement", "inside"}
<1>1. TypeOK /\ frames \in Seq(Construct) /\ Len(code) \in Nat /\ Len(c) \in Nat
  BY SeqFacts DEF CompilerInv, TypeOK
<1>2. Top \in Construct /\ Top = Last(frames) /\ Front(frames) \in Seq(Construct)
      /\ Len(frames) \in DOMAIN frames /\ Top = frames[Len(frames)]
  BY <1>1, PopBelow DEF Top
<1>3. Top.saved \in Nat /\ Top.saved <= Len(code)
  <2>1. Top.saved \in Nat
    BY <1>2 DEF Construct
  <2> QED BY <1>2, <2>1 DEF CompilerInv, SavedOrdered
<1>4. Top.saved \in 0 .. Len(c)
  BY <1>1, <1>3
<1>5. /\ code' \in Seq(Word) /\ Top.saved <= Len(code') /\ Len(code') \in Nat
      /\ HolesIn(code') \subseteq HolesIn(c) /\ frames' = Front(frames) /\ eof' = eof
      /\ parse_had_error' \in BOOLEAN /\ any_error' \in BOOLEAN
      /\ reported' \subseteq {"statement", "inside"}
  BY <1>1, <1>4, Ended
<1>6. SavedOrdered(frames', Len(code'))
  BY <1>1, <1>2, <1>5, SavedPop DEF CompilerInv
<1>7. FilesSaved(frames')
  BY <1>1, <1>5, PopBelow DEF CompilerInv, FilesSaved
<1> QED BY <1>1, <1>2, <1>5, <1>6, <1>7 DEF TypeOK

LEMMA CloseIfKeeps == CompilerInv /\ CloseIf => CompilerInv'
<1> SUFFICES ASSUME CompilerInv, CloseIf PROVE CompilerInv'
  OBVIOUS
<1> DEFINE e == Emit(code, 1)
           c == PatchWords(e, {Top.hole})
<1>1. /\ frames # <<>> /\ Top.kind \in {"if", "else"} /\ parse_had_error \in BOOLEAN
      /\ code \in Seq(Word)
  BY DEF CloseIf, InBody, CompilerInv, TypeOK
<1>2. c \in Seq(Word) /\ Len(code) <= Len(c)
  BY <1>1, EmitHoles, PatchedHoles
<1>3. /\ EndStatement(Top.saved, c, parse_had_error, Front(frames))
      /\ loop_stack' = loop_stack /\ loop_floor' = loop_floor
      /\ function_depth' = function_depth /\ compile_scope_depth' = compile_scope_depth - 1
  BY DEF CloseIf
<1> HIDE DEF c, e
<1>4. Top.kind # "file" /\ Top.kind \notin Loops /\ Top.kind \notin Functions /\ Top.kind \in Scoped
  BY <1>1 DEF Loops, Functions, Scoped
<1>5. /\ code' \in Seq(Word)
      /\ frames' = Front(frames) /\ frames' \in Seq(Construct) /\ frames \in Seq(Construct)
      /\ Top \in Construct /\ Top = Last(frames)
      /\ SavedOrdered(frames', Len(code')) /\ FilesSaved(frames')
      /\ parse_had_error' \in BOOLEAN /\ any_error' \in BOOLEAN /\ eof' \in BOOLEAN
      /\ reported' \subseteq {"statement", "inside"}
  BY <1>1, <1>2, <1>3, <1>4, Popped
<1>6. Matches(frames', loop_stack')
  BY <1>1, <1>3, <1>4, <1>5, PopPlain DEF CompilerInv
<1>7. /\ Count(Scoped, frames') = Count(Scoped, frames) - 1 /\ Count(Scoped, frames') \in Nat
      /\ Count(Functions, frames') = Count(Functions, frames)
      /\ FloorOf(frames') = FloorOf(frames)
  BY <1>1, <1>4, <1>5, CountFront, CountFinite, FloorFront
<1> QED BY <1>3, <1>5, <1>6, <1>7 DEF CompilerInv, TypeOK, loop_depth

\* What the frame of the innermost construct saved, when it is a function.
LEMMA FunctionTop ==
  ASSUME NEW st \in Seq(Construct), NEW ls \in Seq(LoopContext), Matches(st, ls), st # <<>>,
         Last(st).kind \in Functions
  PROVE  SubSeq(ls, 1, Last(st).ctx) = ls /\ Last(st).floor = FloorOf(Front(st))
<1>1. Last(st).ctx = Count(Loops, Front(st)) /\ Last(st).floor = FloorOf(Front(st))
  BY PopBelow DEF Matches, FunctionFrames
<1>2. Last(st).kind \notin Loops
  BY DEF Loops, Functions
<1>3. Count(Loops, Front(st)) = Len(ls)
  BY <1>2, CountFront DEF Matches
<1> QED BY <1>1, <1>3, PrefixWhole DEF Prefix

LEMMA CloseFunctionKeeps ==
  ASSUME CompilerInv, NEW err \in BOOLEAN, CloseFunction(err)
  PROVE  CompilerInv'
<1> DEFINE e == Emit(code, 2)
           d == PatchWords(e, {Top.hole})
           c == Emit(d, 2)
           bad == parse_had_error \/ Top.nested \/ err
<1>1. /\ frames # <<>> /\ Top.kind \in Functions /\ parse_had_error \in BOOLEAN
      /\ code \in Seq(Word) /\ frames \in Seq(Construct) /\ loop_stack \in Seq(LoopContext)
  BY DEF CloseFunction, InBody, CompilerInv, TypeOK
<1>2. c \in Seq(Word) /\ Len(code) <= Len(c)
  <2>1. e \in Seq(Word) /\ Len(e) = Len(code) + 2 /\ Len(code) \in Nat
    BY <1>1, EmitHoles
  <2> HIDE DEF e
  <2>2. d \in Seq(Word) /\ Len(d) = Len(e)
    BY <2>1, PatchedHoles
  <2> HIDE DEF d
  <2>3. c \in Seq(Word) /\ Len(c) = Len(d) + 2
    BY <2>2, EmitHoles
  <2> QED BY <2>1, <2>2, <2>3
<1>3. Top \in Construct /\ Top = Last(frames) /\ bad \in BOOLEAN
  <2>1. Top \in Construct /\ Top = Last(frames)
    BY <1>1, PopBelow DEF Top
  <2> QED BY <2>1, <1>1 DEF Construct
<1>4. /\ EndStatement(Top.saved, c, bad, Front(frames))
      /\ loop_stack' = SubSeq(loop_stack, 1, Top.ctx) /\ loop_floor' = Top.floor
      /\ function_depth' = function_depth - 1 /\ compile_scope_depth' = compile_scope_depth - 1
  BY DEF CloseFunction
<1> HIDE DEF e, d, c, bad
<1>5. Top.kind # "file" /\ Top.kind \notin Loops /\ Top.kind \in Scoped
  BY <1>1 DEF Loops, Functions, Scoped
<1>6. /\ code' \in Seq(Word)
      /\ frames' = Front(frames) /\ frames' \in Seq(Construct)
      /\ SavedOrdered(frames', Len(code')) /\ FilesSaved(frames')
      /\ parse_had_error' \in BOOLEAN /\ any_error' \in BOOLEAN /\ eof' \in BOOLEAN
      /\ reported' \subseteq {"statement", "inside"}
  BY <1>1, <1>2, <1>3, <1>4, <1>5, Popped
<1>7. loop_stack' = loop_stack /\ loop_floor' = FloorOf(frames')
  BY <1>1, <1>3, <1>4, <1>6, FunctionTop DEF CompilerInv
<1>8. Matches(frames', loop_stack')
  BY <1>1, <1>3, <1>5, <1>6, <1>7, PopPlain DEF CompilerInv
<1>9. /\ Count(Scoped, frames') = Count(Scoped, frames) - 1 /\ Count(Scoped, frames') \in Nat
      /\ Count(Functions, frames') = Count(Functions, frames) - 1
      /\ Count(Functions, frames') \in Nat
      /\ FloorOf(frames') \in 0 .. Count(Loops, frames')
  BY <1>1, <1>3, <1>5, <1>6, CountFront, CountFinite, FloorBound
<1> QED BY <1>1, <1>4, <1>6, <1>7, <1>8, <1>9 DEF CompilerInv, TypeOK, Matches, loop_depth

LEMMA CloseLoopKeeps == CompilerInv /\ CloseLoop => CompilerInv'
<1> SUFFICES ASSUME CompilerInv, CloseLoop PROVE CompilerInv'
  OBVIOUS
<1> DEFINE slots == IF Top.kind = "each" THEN 1 ELSE 0
           b == Emit(code, slots)
           e == Emit(b, 2)
           c == PatchWords(e, {Top.hole} \cup BreakHoles(loop_stack[Top.ctx]))
<1>1. /\ frames # <<>> /\ Top.kind \in Loops /\ parse_had_error \in BOOLEAN
      /\ code \in Seq(Word) /\ frames \in Seq(Construct) /\ loop_stack \in Seq(LoopContext)
  BY DEF CloseLoop, InBody, CompilerInv, TypeOK
<1>2. c \in Seq(Word) /\ Len(code) <= Len(c)
  <2>1. slots \in Int
    OBVIOUS
  <2>2. b \in Seq(Word) /\ Len(b) >= Len(code) /\ Len(b) \in Nat /\ Len(code) \in Nat
    BY <1>1, <2>1, EmitHoles
  <2> HIDE DEF b
  <2>3. e \in Seq(Word) /\ Len(e) >= Len(b) /\ Len(e) \in Nat
    BY <2>2, EmitHoles
  <2> HIDE DEF e
  <2>4. c \in Seq(Word) /\ Len(c) = Len(e)
    BY <2>3, PatchedHoles
  <2> QED BY <2>2, <2>3, <2>4
<1>3. /\ EndStatement(Top.saved, c, parse_had_error, Front(frames))
      /\ loop_stack' = Front(loop_stack) /\ loop_floor' = loop_floor
      /\ function_depth' = function_depth
      /\ compile_scope_depth' = compile_scope_depth - (IF Top.kind = "each" THEN 1 ELSE 0)
  BY DEF CloseLoop
<1> HIDE DEF c, e, b, slots
<1>4. /\ Top.kind # "file" /\ Top.kind \notin Functions
      /\ Top.kind \in Scoped <=> Top.kind = "each"
  BY <1>1 DEF Loops, Functions, Scoped
<1>5. /\ code' \in Seq(Word)
      /\ frames' = Front(frames) /\ frames' \in Seq(Construct) /\ frames \in Seq(Construct)
      /\ Top \in Construct /\ Top = Last(frames)
      /\ SavedOrdered(frames', Len(code')) /\ FilesSaved(frames')
      /\ parse_had_error' \in BOOLEAN /\ any_error' \in BOOLEAN /\ eof' \in BOOLEAN
      /\ reported' \subseteq {"statement", "inside"}
  BY <1>1, <1>2, <1>3, <1>4, Popped
<1>6. Matches(frames', loop_stack') /\ loop_stack # <<>>
  BY <1>1, <1>3, <1>5, PopLoop DEF CompilerInv
<1>7. /\ Count(Scoped, frames') = Count(Scoped, frames) - (IF Top.kind = "each" THEN 1 ELSE 0)
      /\ Count(Functions, frames') = Count(Functions, frames)
      /\ FloorOf(frames') = FloorOf(frames)
      /\ FloorOf(frames') \in 0 .. Count(Loops, frames')
      /\ Count(Scoped, frames') \in Nat
  <2>1. Count(Scoped, frames) \in Nat
    BY <1>1, CountFinite
  <2> QED BY <1>1, <1>4, <1>5, <2>1, CountFront, CountFinite, FloorFront, FloorBound
<1>8. /\ loop_stack' \in Seq(LoopContext) /\ loop_depth' = loop_depth - 1 /\ loop_depth \in Nat \ {0}
      /\ DOMAIN loop_stack' = 1 .. loop_depth - 1 /\ DOMAIN loop_stack = 1 .. loop_depth
      /\ \A i \in 1 .. loop_depth - 1 : loop_stack'[i] = loop_stack[i]
  BY <1>1, <1>3, <1>6, FrontFacts, SeqFacts DEF loop_depth
<1>9. \A i \in DOMAIN loop_stack' : Len(loop_stack'[i].patches) <= BreakMax
  BY <1>8 DEF CompilerInv, TypeOK
<1>10. loop_depth' \in 0 .. LoopMax /\ loop_floor' \in 0 .. loop_depth'
  BY <1>3, <1>6, <1>7, <1>8, CompilerAssumption, SMTT(30)
     DEF CompilerInv, TypeOK, Matches, loop_depth
<1> QED BY <1>3, <1>5, <1>6, <1>7, <1>8, <1>9, <1>10 DEF CompilerInv, TypeOK

LEMMA ElseKeeps ==
  ASSUME CompilerInv, NEW err \in BOOLEAN, Else(err)
  PROVE  CompilerInv'
<1> DEFINE c == EmitJump(Emit(code, 1))
           d == Emit(PatchWords(c, {Top.hole}), 1)
           f == [Top EXCEPT !.kind = "else", !.hole = Len(c)]
           st == Front(frames)
<1>1. /\ frames # <<>> /\ Top.kind = "if" /\ parse_had_error \in BOOLEAN /\ any_error \in BOOLEAN
      /\ code \in Seq(Word) /\ frames \in Seq(Construct) /\ loop_stack \in Seq(LoopContext)
      /\ eof \in BOOLEAN /\ reported \subseteq {"statement", "inside"}
  BY DEF Else, InBody, CompilerInv, TypeOK
<1>2. /\ c \in Seq(Word) /\ d \in Seq(Word) /\ Len(code) <= Len(d) /\ Len(c) \in Nat
      /\ Len(code) \in Nat /\ Len(d) \in Nat
  <2>1. Emit(code, 1) \in Seq(Word) /\ Len(Emit(code, 1)) = Len(code) + 1 /\ Len(code) \in Nat
    BY <1>1, EmitHoles
  <2>2. c \in Seq(Word) /\ Len(c) = Len(code) + 3
    BY <2>1, JumpHoles
  <2> HIDE DEF c
  <2>3. PatchWords(c, {Top.hole}) \in Seq(Word) /\ Len(PatchWords(c, {Top.hole})) = Len(c)
    BY <2>2, PatchedHoles
  <2>4. d \in Seq(Word) /\ Len(d) = Len(c) + 1
    BY <2>3, EmitHoles
  <2> QED BY <2>1, <2>2, <2>4
<1>3. Top \in Construct /\ Top = Last(frames) /\ Top = frames[Len(frames)] /\ st \in Seq(Construct)
      /\ Len(frames) \in DOMAIN frames
  BY <1>1, PopBelow DEF Top
<1>4. /\ f \in Construct /\ f.kind = "else" /\ f.saved = Top.saved
  <2> HIDE DEF c
  <2>1. "else" \in Kind
    BY DEF Kind, Scoped
  <2> QED BY <1>2, <1>3, <2>1 DEF Construct
<1>5. /\ code' = d /\ frames' = Append(st, f)
      /\ parse_had_error' = (parse_had_error \/ err)
      /\ reported' \subseteq {"statement", "inside"}
      /\ UNCHANGED <<context, any_error, eof>>
  BY <1>1 DEF Else
<1>6. Top.saved \in Nat /\ Top.saved <= Len(code)
  <2>1. Top.saved \in Nat
    BY <1>3 DEF Construct
  <2> QED BY <1>1, <1>3, <2>1 DEF CompilerInv, SavedOrdered
<1> HIDE DEF f, d, c
<1>7. SavedOrdered(frames', Len(code'))
  <2>1. SavedOrdered(st, Top.saved)
    <3>1. Last(frames).saved <= Top.saved /\ SavedOrdered(frames, Len(code))
      BY <1>3, <1>6 DEF CompilerInv
    <3> QED BY <1>1, <1>2, <1>6, <3>1, SavedPop
  <2>2. Top.saved <= Len(d)
    BY <1>2, <1>6
  <2> HIDE DEF st
  <2> QED BY <1>2, <1>3, <1>4, <1>5, <1>6, <2>1, <2>2, SavedPush
<1>8. FilesSaved(frames')
  <2>1. FilesSaved(st)
    BY <1>1, PopBelow, SMTT(30) DEF CompilerInv, FilesSaved
  <2> HIDE DEF st
  <2> QED BY <1>3, <1>4, <1>5, <2>1, PushBelow DEF FilesSaved
<1>9. /\ Top.kind \notin Loops /\ Top.kind \notin Functions /\ Top.kind \in Scoped
      /\ f.kind \notin Loops /\ f.kind \notin Functions /\ f.kind \in Scoped
  BY <1>1, <1>4 DEF Loops, Functions, Scoped
<1>10. Matches(frames', loop_stack)
  <2>1. Matches(st, loop_stack)
    BY <1>1, <1>3, <1>9, PopPlain DEF CompilerInv
  <2> HIDE DEF st
  <2> QED BY <1>3, <1>4, <1>5, <1>9, <2>1, PushPlain
<1>11. /\ Count(Scoped, frames') = Count(Scoped, frames)
       /\ Count(Functions, frames') = Count(Functions, frames)
       /\ FloorOf(frames') = FloorOf(frames) /\ frames' \in Seq(Construct)
  <2>1. /\ Count(Scoped, st) = Count(Scoped, frames) - 1 /\ Count(Scoped, frames) \in Nat
        /\ Count(Functions, st) = Count(Functions, frames)
        /\ FloorOf(st) = FloorOf(frames)
    BY <1>1, <1>3, <1>9, CountFront, CountFinite, FloorFront
  <2> HIDE DEF st
  <2>2. /\ Count(Scoped, Append(st, f)) = Count(Scoped, st) + 1
        /\ Count(Functions, Append(st, f)) = Count(Functions, st)
        /\ FloorOf(Append(st, f)) = FloorOf(st) /\ Append(st, f) \in Seq(Construct)
    BY <1>3, <1>4, <1>9, CountAppend, FloorAppend, AppendFacts
  <2> QED BY <1>5, <2>1, <2>2
<1>12. (parse_had_error \/ err) \in BOOLEAN
  BY <1>1
<1> HIDE DEF st
<1> QED BY <1>1, <1>2, <1>5, <1>7, <1>8, <1>10, <1>11, <1>12
     DEF CompilerInv, TypeOK, context, loop_depth

LEMMA BreakKeeps == CompilerInv /\ Break => CompilerInv'
<1> SUFFICES ASSUME CompilerInv, Break PROVE CompilerInv'
  OBVIOUS
<1> DEFINE l == loop_stack[loop_depth]
           a == Emit(code, compile_scope_depth - l.scope)
           b == Emit(a, l.iter)
           c == EmitJump(b)
           q == [file |-> File, pos |-> Len(c)]
<1>1. /\ code \in Seq(Word) /\ frames \in Seq(Construct) /\ loop_stack \in Seq(LoopContext)
      /\ TypeOK /\ loop_floor \in 0 .. loop_depth /\ loop_depth \in Nat
      /\ compile_scope_depth \in Nat
  BY SeqFacts DEF CompilerInv, TypeOK, loop_depth
<1>2. loop_depth \in DOMAIN loop_stack /\ l \in LoopContext /\ DOMAIN loop_stack = 1 .. loop_depth
  BY <1>1, SeqFacts DEF Break, loop_depth
<1>3. l.scope \in Nat /\ l.iter \in Nat /\ l.patches \in Seq(Patch)
  BY <1>2 DEF LoopContext
<1>4. c \in Seq(Word) /\ Len(code) <= Len(c) /\ Len(c) \in Nat
  <2>1. compile_scope_depth - l.scope \in Int /\ l.iter \in Int
    BY <1>1, <1>3
  <2>2. a \in Seq(Word) /\ Len(a) >= Len(code) /\ Len(a) \in Nat /\ Len(code) \in Nat
    BY <1>1, <2>1, EmitHoles
  <2> HIDE DEF a
  <2>3. b \in Seq(Word) /\ Len(b) >= Len(a) /\ Len(b) \in Nat
    BY <2>1, <2>2, EmitHoles
  <2> HIDE DEF b
  <2>4. c \in Seq(Word) /\ Len(c) = Len(b) + 2
    BY <2>3, JumpHoles
  <2> QED BY <2>2, <2>3, <2>4
<1>5. q \in Patch
  <2>1. File \in Nat
    <3>1. {i \in DOMAIN frames : frames[i].kind = "file"} = Counted({"file"}, frames)
      BY DEF Counted
    <3> QED BY <1>1, <3>1, CountFinite DEF File
  <2> HIDE DEF c
  <2> QED BY <1>4, <2>1 DEF Patch
<1>6. /\ Len(l.patches) < BreakMax
      /\ loop_stack' = [loop_stack EXCEPT ![loop_depth].patches = Append(@, q)]
      /\ Whole(c, FALSE)
      /\ UNCHANGED <<loop_floor, compile_scope_depth, function_depth>>
  BY DEF Break
<1> HIDE DEF c, q, a, b
<1>7. /\ loop_stack' \in Seq(LoopContext) /\ Len(loop_stack') = loop_depth
      /\ \A k \in 1 .. loop_depth : /\ loop_stack'[k].scope = loop_stack[k].scope
                                    /\ loop_stack'[k].iter = loop_stack[k].iter
                                    /\ Len(loop_stack'[k].patches) <= BreakMax
  <2>1. /\ Append(l.patches, q) \in Seq(Patch) /\ Len(Append(l.patches, q)) <= BreakMax
    BY <1>3, <1>5, <1>6, AppendFacts, CompilerAssumption
  <2>2. [l EXCEPT !.patches = Append(@, q)] \in LoopContext
    BY <1>2, <2>1 DEF LoopContext
  <2>3. /\ \A k \in 1 .. loop_depth : loop_stack[k] \in LoopContext
        /\ loop_stack \in [1 .. loop_depth -> LoopContext]
    BY <1>1, SeqFacts DEF loop_depth
  <2>4. loop_stack' = [loop_stack EXCEPT ![loop_depth] = [l EXCEPT !.patches = Append(@, q)]]
    BY <1>6
  <2>5. loop_stack' \in [1 .. loop_depth -> LoopContext]
    BY <2>2, <2>3, <2>4
  <2>6. loop_stack' \in Seq(LoopContext) /\ Len(loop_stack') = loop_depth
    BY <1>1, <2>5, SeqOfFunction
  <2>7. ASSUME NEW k \in 1 .. loop_depth
        PROVE  /\ loop_stack'[k].scope = loop_stack[k].scope
               /\ loop_stack'[k].iter = loop_stack[k].iter
               /\ Len(loop_stack'[k].patches) <= BreakMax
    <3>1. CASE k = loop_depth
      <4>1. loop_stack'[k] = [l EXCEPT !.patches = Append(@, q)]
        BY <1>2, <2>3, <2>4, <3>1
      <4>2. l \in [scope : Nat, iter : Nat, patches : Seq(Patch)]
        BY <1>2 DEF LoopContext
      <4> QED BY <2>1, <3>1, <4>1, <4>2
    <3>2. CASE k # loop_depth
      <4>1. loop_stack'[k] = loop_stack[k]
        BY <2>3, <2>4, <3>2
      <4>2. Len(loop_stack[k].patches) <= BreakMax
        BY <1>1, <1>2 DEF TypeOK
      <4> QED BY <4>1, <4>2
    <3> QED BY <3>1, <3>2
  <2> QED BY <2>6, <2>7
<1>8. /\ code' \in Seq(Word) /\ Len(code) <= Len(code') /\ Len(code') \in Nat
      /\ Len(code) \in Nat /\ frames' = frames /\ eof' = eof
      /\ parse_had_error' \in BOOLEAN /\ any_error' \in BOOLEAN
      /\ reported' \subseteq {"statement", "inside"}
  BY <1>1, <1>4, <1>6, WholeEnded
<1>9. SavedOrdered(frames', Len(code'))
  BY <1>1, <1>8, SavedGrow DEF CompilerInv
<1>10. Matches(frames', loop_stack')
  BY <1>1, <1>7, <1>8, SameLoops DEF CompilerInv, loop_depth
<1>11. loop_depth' = loop_depth /\ DOMAIN loop_stack' = 1 .. loop_depth
  BY <1>7, SeqFacts DEF loop_depth
<1> QED BY <1>1, <1>6, <1>7, <1>8, <1>9, <1>10, <1>11 DEF CompilerInv, TypeOK

LEMMA ImportKeeps == CompilerInv /\ Import => CompilerInv'
<1> SUFFICES ASSUME CompilerInv, Import PROVE CompilerInv'
  OBVIOUS
<1> DEFINE g == Frame("file", 0)
           f == [g EXCEPT !.outer = code, !.any = any_error]
<1>1. /\ code \in Seq(Word) /\ frames \in Seq(Construct) /\ any_error \in BOOLEAN /\ TypeOK
      /\ Len(code) \in Nat /\ "file" \in Kind
  BY SeqFacts DEF CompilerInv, TypeOK, Kind
<1>2. g \in Construct /\ g.kind = "file" /\ g.saved = Len(code)
  <2>1. 0 \in Nat
    OBVIOUS
  <2> QED BY <1>1, <2>1, FrameTypes
<1>3. f \in Construct /\ f.kind = "file" /\ f.saved = Len(code) /\ f.outer = code
  <2> HIDE DEF g
  <2> QED BY <1>1, <1>2 DEF Construct
<1>4. /\ frames' = Append(frames, f) /\ code' = <<>> /\ any_error' = FALSE
      /\ parse_had_error' = FALSE /\ UNCHANGED <<context, reported, eof>>
  BY DEF Import
<1> HIDE DEF f, g
<1>5. f.kind \notin Loops /\ f.kind \notin Functions /\ f.kind \notin Scoped
  BY <1>3 DEF Loops, Functions, Scoped
<1>6. <<>> \in Seq(Word) /\ Len(<<>>) = 0
  OBVIOUS
<1>7. frames' \in Seq(Construct) /\ SavedOrdered(frames', Len(code'))
  BY <1>1, <1>3, <1>4, <1>6, AppendFacts, SavedPush DEF CompilerInv
<1>8. FilesSaved(frames')
  BY <1>1, <1>3, <1>4, PushBelow DEF CompilerInv, FilesSaved
<1>9. Matches(frames', loop_stack)
  BY <1>1, <1>3, <1>4, <1>5, PushPlain DEF CompilerInv
<1>10. /\ Count(Scoped, frames') = Count(Scoped, frames)
       /\ Count(Functions, frames') = Count(Functions, frames)
       /\ FloorOf(frames') = FloorOf(frames)
  BY <1>1, <1>3, <1>4, <1>5, CountAppend, FloorAppend
<1> QED BY <1>1, <1>4, <1>6, <1>7, <1>8, <1>9, <1>10 DEF CompilerInv, TypeOK, context, loop_depth

LEMMA EndImportKeeps ==
  ASSUME CompilerInv, NEW err \in BOOLEAN, EndImport(err)
  PROVE  CompilerInv'
<1> DEFINE failed == any_error \/ err
           st == Front(frames)
<1>1. /\ frames # <<>> /\ Top.kind = "file" /\ any_error \in BOOLEAN /\ Len(code) \in Nat
      /\ code \in Seq(Word) /\ frames \in Seq(Construct) /\ eof \in BOOLEAN
      /\ reported \subseteq {"statement", "inside"} /\ TypeOK
  BY SeqFacts DEF EndImport, InBody, CompilerInv, TypeOK
<1>2. /\ Top \in Construct /\ Top = Last(frames) /\ Top = frames[Len(frames)]
      /\ st \in Seq(Construct) /\ Len(frames) \in DOMAIN frames
  BY <1>1, PopBelow DEF Top
<1>3. Top.outer \in Seq(Word) /\ Top.any \in BOOLEAN /\ Top.saved = Len(Top.outer)
      /\ Len(Top.outer) \in Nat
  <2>1. Top.outer \in Seq(Word) /\ Top.any \in BOOLEAN
    BY <1>2 DEF Construct
  <2>2. Top.saved = Len(Top.outer)
    BY <1>1, <1>2 DEF CompilerInv, FilesSaved
  <2> QED BY <2>1, <2>2, SeqFacts
<1>4. /\ code' = Top.outer /\ frames' = st /\ parse_had_error' = failed
      /\ any_error' = (Top.any \/ (failed /\ InParse(st)))
      /\ reported' = reported \cup (IF failed THEN {Where(st)} ELSE {})
      /\ UNCHANGED <<context, eof>>
  BY DEF EndImport
<1>5. Where(st) \in {"statement", "inside"} /\ InParse(st) \in BOOLEAN
  BY DEF Where, InParse
<1>6. SavedOrdered(frames', Len(code'))
  <2>1. Last(frames).saved <= Len(Top.outer) /\ SavedOrdered(frames, Len(code))
    BY <1>2, <1>3 DEF CompilerInv
  <2> QED BY <1>1, <1>3, <1>4, <2>1, SavedPop
<1>7. FilesSaved(frames')
  BY <1>1, <1>4, PopBelow DEF CompilerInv, FilesSaved
<1>8. Top.kind \notin Loops /\ Top.kind \notin Functions /\ Top.kind \notin Scoped
  BY <1>1 DEF Loops, Functions, Scoped
<1>9. Matches(frames', loop_stack)
  BY <1>1, <1>2, <1>4, <1>8, PopPlain DEF CompilerInv
<1>10. /\ Count(Scoped, frames') = Count(Scoped, frames)
       /\ Count(Functions, frames') = Count(Functions, frames)
       /\ FloorOf(frames') = FloorOf(frames)
  BY <1>1, <1>2, <1>4, <1>8, CountFront, FloorFront
<1>11. failed \in BOOLEAN /\ any_error' \in BOOLEAN /\ reported' \subseteq {"statement", "inside"}
  BY <1>1, <1>3, <1>4, <1>5
<1> HIDE DEF st, failed
<1> QED BY <1>1, <1>2, <1>3, <1>4, <1>6, <1>7, <1>9, <1>10, <1>11
     DEF CompilerInv, TypeOK, context, loop_depth

LEMMA FlagsKeep ==
  ASSUME CompilerInv, EndOfFile \/ Done \/ UNCHANGED vars
  PROVE  CompilerInv'
<1>1. CASE EndOfFile
  BY <1>1 DEF EndOfFile, CompilerInv, TypeOK, context, loop_depth
<1>2. CASE UNCHANGED vars
  BY <1>2 DEF vars, CompilerInv, TypeOK, context, loop_depth
<1> QED BY <1>1, <1>2 DEF Done

\* The statements without a body.
LEMMA StatementKeeps ==
  ASSUME CompilerInv, NEW err \in BOOLEAN,
         \/ Simple(err) \/ Return \/ Continue \/ BreakRefused \/ ImportRefused
         \/ LoopRefused(err) /\ "postfixFault" \notin Source
  PROVE  CompilerInv'
<1>1. /\ code \in Seq(Word) /\ Len(code) \in Nat /\ compile_scope_depth \in Nat
      /\ Len(code) <= Len(code) /\ function_depth \in Nat
  BY SeqFacts DEF CompilerInv, TypeOK
<1>2. \A n \in Int : Emit(code, n) \in Seq(Word) /\ Len(code) <= Len(Emit(code, n))
  BY <1>1, EmitHoles
<1>3. CASE Simple(err)
  BY <1>2, <1>3, WholeKeeps DEF Simple
<1>4. CASE Return
  <2> DEFINE bad == function_depth = 0
  <2>1. bad \in BOOLEAN /\ Whole(Emit(code, 2), bad) /\ UNCHANGED context
    BY <1>4 DEF Return
  <2>2. Emit(code, 2) \in Seq(Word) /\ Len(code) <= Len(Emit(code, 2))
    BY <1>2
  <2> HIDE DEF bad
  <2> QED BY <2>1, <2>2, WholeKeeps
<1>5. CASE Continue
  <2> DEFINE a == Emit(code, compile_scope_depth - loop_stack[loop_depth].scope)
  <2>1. compile_scope_depth - loop_stack[loop_depth].scope \in Int
    <3>1. loop_depth \in 1 .. Len(loop_stack) /\ loop_stack \in Seq(LoopContext)
      BY <1>5, SeqFacts DEF Continue, CompilerInv, TypeOK, loop_depth
    <3>2. loop_stack[loop_depth] \in LoopContext
      BY <3>1, SeqFacts
    <3> QED BY <1>1, <3>2 DEF LoopContext
  <2>2. a \in Seq(Word) /\ Len(code) <= Len(a) /\ Len(a) \in Nat
    BY <1>1, <2>1, EmitHoles
  <2>3. Whole(Emit(a, 2), FALSE) /\ UNCHANGED context
    BY <1>5 DEF Continue
  <2> HIDE DEF a
  <2>4. Emit(a, 2) \in Seq(Word) /\ Len(code) <= Len(Emit(a, 2))
    BY <1>1, <2>2, EmitHoles
  <2> QED BY <2>3, <2>4, WholeKeeps
<1>6. CASE BreakRefused
  BY <1>1, <1>6, WholeKeeps DEF BreakRefused
<1>7. CASE ImportRefused
  BY <1>1, <1>7, WholeKeeps DEF ImportRefused
<1>8. CASE LoopRefused(err) /\ "postfixFault" \notin Source
  BY <1>1, <1>8, WholeKeeps DEF LoopRefused, context
<1> QED BY <1>3, <1>4, <1>5, <1>6, <1>7, <1>8

LEMMA StepKeeps ==
  ASSUME "postfixFault" \notin Source, CompilerInv, [Next]_vars
  PROVE  CompilerInv'
<1>1. CASE UNCHANGED vars
  BY <1>1, FlagsKeep
<1>2. ASSUME Return \/ Break \/ Continue \/ BreakRefused \/ CloseIf \/ CloseLoop \/ Import
             \/ ImportRefused \/ EndOfFile \/ Done
      PROVE  CompilerInv'
  BY <1>2, StatementKeeps, BreakKeeps, CloseIfKeeps, CloseLoopKeeps, ImportKeeps, FlagsKeep
<1>3. ASSUME NEW kind \in Loops, OpenLoop(kind) PROVE CompilerInv'
  BY <1>3, OpenLoopKeeps
<1>4. ASSUME NEW err \in BOOLEAN,
             Simple(err) \/ OpenIf(err) \/ Else(err) \/ LoopRefused(err) \/ CloseFunction(err)
               \/ EndImport(err)
      PROVE  CompilerInv'
  BY <1>4, StatementKeeps, OpenIfKeeps, ElseKeeps, CloseFunctionKeeps, EndImportKeeps
<1>5. ASSUME NEW err \in BOOLEAN, NEW kind \in Functions, OpenFunction(kind, err)
      PROVE  CompilerInv'
  BY <1>5, OpenFunctionKeeps
<1> QED BY <1>1, <1>2, <1>3, <1>4, <1>5 DEF Next

\* In a text without the malformed while condition that leaves its context
\* behind, what parse_compound, parse_for and parse_function saved and
\* restored is always what the open constructs require.
THEOREM CompilerInvariant ==
  ASSUME "postfixFault" \notin Source
  PROVE  Spec => []CompilerInv
<1>1. CompilerInv /\ [Next]_vars => CompilerInv'
  BY StepKeeps
<1> QED BY <1>1, InitContext, PTL DEF Spec

LEMMA InvContext == CompilerInv => ContextMatches
<1> SUFFICES ASSUME CompilerInv PROVE ContextMatches
  OBVIOUS
<1>1. \A i \in DOMAIN frames : Below(i) = Prefix(frames, i - 1)
  BY DEF Below, Prefix
<1> QED BY <1>1 DEF CompilerInv, ContextMatches, Matches, LoopFrames, loop_depth

\* The globals the parser emits scope pops, breaks and returns from tell
\* the constructs that are open, whatever was rolled back (parse_break,
\* parse_continue, finish_loop, parse_function_body).
THEOREM ContextFollows ==
  ASSUME "postfixFault" \notin Source
  PROVE  Spec => []ContextMatches
BY CompilerInvariant, InvContext, PTL

\* The parser's state has its types, so no loop stack or patch list grows
\* beyond its array.
THEOREM CompilerTypes ==
  ASSUME "postfixFault" \notin Source
  PROVE  Spec => []TypeOK
<1>1. CompilerInv => TypeOK
  BY DEF CompilerInv
<1> QED BY <1>1, CompilerInvariant, PTL

----
\* Files and holes.  Where files are imported at top level only, the
\* frames are those of the files being read, outermost first, and then the
\* constructs of the innermost one.

LEMMA AllFiles ==
  ASSUME NEW st \in Seq(Construct), FilesFirst(st), InParse(st)
  PROVE  \A i \in DOMAIN st : st[i].kind = "file"
<1>1. CASE st = <<>>
  BY <1>1
<1>2. CASE st # <<>>
  <2>1. /\ Last(st) = st[Len(st)] /\ Len(st) \in DOMAIN st /\ DOMAIN st = 1 .. Len(st)
        /\ Len(st) \in Nat \ {0}
    BY <1>2, PopBelow
  <2>2. st[Len(st)].kind = "file"
    BY <1>2, <2>1 DEF InParse
  <2> QED BY <2>1, <2>2 DEF FilesFirst
<1> QED BY <1>1, <1>2

LEMMA AllFilesNoLoops ==
  ASSUME NEW st \in Seq(Construct), NEW ls \in Seq(LoopContext), Matches(st, ls),
         \A i \in DOMAIN st : st[i].kind = "file"
  PROVE  ls = <<>>
<1>1. Count(Loops, st) = 0
  BY CountNone DEF Loops
<1>2. Len(ls) = 0
  BY <1>1 DEF Matches
<1> QED BY <1>2, SeqFacts

LEMMA FilesPush ==
  ASSUME NEW st \in Seq(Construct), NEW f \in Construct, FilesFirst(st), OuterDone(st),
         f.kind # "file" \/ (InParse(st) /\ HolesIn(f.outer) = {})
  PROVE  FilesFirst(Append(st, f)) /\ OuterDone(Append(st, f))
<1>1. CASE f.kind # "file"
  <2>1. \A i, j \in 1 .. Len(st) + 1 : i <= j /\ j \in 1 .. Len(st) => i \in 1 .. Len(st)
    BY PushBelow
  <2>2. ASSUME NEW i \in DOMAIN Append(st, f), NEW j \in DOMAIN Append(st, f), i <= j,
               Append(st, f)[j].kind = "file"
        PROVE  Append(st, f)[i].kind = "file"
    <3>1. j \in 1 .. Len(st) /\ i \in 1 .. Len(st)
      BY <1>1, <2>1, <2>2, PushBelow
    <3>2. Append(st, f)[i] = st[i] /\ Append(st, f)[j] = st[j] /\ DOMAIN st = 1 .. Len(st)
      BY <3>1, PushBelow
    <3> QED BY <2>2, <3>1, <3>2 DEF FilesFirst
  <2>3. OuterDone(Append(st, f))
    <3> SUFFICES ASSUME NEW i \in DOMAIN Append(st, f), Append(st, f)[i].kind = "file"
                 PROVE  HolesIn(Append(st, f)[i].outer) = {}
      BY DEF OuterDone
    <3>1. i \in 1 .. Len(st) /\ DOMAIN st = 1 .. Len(st)
      BY <1>1, PushBelow
    <3>2. Append(st, f)[i] = st[i]
      BY <3>1, PushBelow
    <3> QED BY <3>1, <3>2 DEF OuterDone
  <2> QED BY <2>2, <2>3 DEF FilesFirst
<1>2. CASE f.kind = "file" /\ InParse(st) /\ HolesIn(f.outer) = {}
  <2>1. \A i \in DOMAIN st : st[i].kind = "file"
    BY <1>2, AllFiles
  <2>2. \A i \in DOMAIN Append(st, f) : Append(st, f)[i].kind = "file"
    BY <1>2, <2>1, PushBelow
  <2>3. FilesFirst(Append(st, f))
    BY <2>2 DEF FilesFirst
  <2>4. OuterDone(Append(st, f))
    <3> SUFFICES ASSUME NEW i \in DOMAIN Append(st, f), Append(st, f)[i].kind = "file"
                 PROVE  HolesIn(Append(st, f)[i].outer) = {}
      BY DEF OuterDone
    <3>1. CASE i = Len(st) + 1
      BY <1>2, <3>1, PushBelow
    <3>2. CASE i \in 1 .. Len(st)
      <4>1. Append(st, f)[i] = st[i] /\ i \in DOMAIN st
        BY <3>2, PushBelow
      <4> QED BY <4>1 DEF OuterDone
    <3> QED BY <3>1, <3>2, PushBelow
  <2> QED BY <2>3, <2>4
<1> QED BY <1>1, <1>2

LEMMA FilesPop ==
  ASSUME NEW st \in Seq(Construct), st # <<>>, FilesFirst(st), OuterDone(st)
  PROVE  FilesFirst(Front(st)) /\ OuterDone(Front(st))
BY PopBelow DEF FilesFirst, OuterDone

LEMMA HolePush ==
  ASSUME NEW st \in Seq(Construct), NEW f \in Construct, NEW ls, NEW h,
         HoldsHole(st, ls, h) \/ (f.kind # "file" /\ f.hole = h)
  PROVE  HoldsHole(Append(st, f), ls, h)
<1>1. \A i \in 1 .. Len(st) : i \in 1 .. Len(st) + 1
  BY PushBelow
<1>2. Len(st) + 1 \in 1 .. Len(st) + 1
  BY PushBelow
<1> QED BY <1>1, <1>2, PushBelow DEF HoldsHole

LEMMA HolePop ==
  ASSUME NEW st \in Seq(Construct), st # <<>>, NEW ls, NEW h, HoldsHole(st, ls, h),
         h # Last(st).hole
  PROVE  HoldsHole(Front(st), ls, h)
BY PopBelow DEF HoldsHole

LEMMA HolePushLoop ==
  ASSUME NEW st, NEW ls \in Seq(LoopContext), NEW l \in LoopContext, NEW h,
         HoldsHole(st, ls, h)
  PROVE  HoldsHole(st, Append(ls, l), h)
<1>1. /\ DOMAIN Append(ls, l) = 1 .. Len(ls) + 1 /\ DOMAIN ls = 1 .. Len(ls)
      /\ \A k \in 1 .. Len(ls) : Append(ls, l)[k] = ls[k] /\ k \in 1 .. Len(ls) + 1
  BY AppendFacts, SeqFacts
<1> QED BY <1>1 DEF HoldsHole

LEMMA HolePopLoop ==
  ASSUME NEW st, NEW ls \in Seq(LoopContext), ls # <<>>, NEW h, HoldsHole(st, ls, h),
         h \notin BreakHoles(ls[Len(ls)])
  PROVE  HoldsHole(st, Front(ls), h)
<1>1. /\ DOMAIN Front(ls) = 1 .. Len(ls) - 1 /\ DOMAIN ls = 1 .. Len(ls) /\ Len(ls) \in Nat \ {0}
      /\ \A k \in 1 .. Len(ls) - 1 : Front(ls)[k] = ls[k]
      /\ \A k \in 1 .. Len(ls) : k = Len(ls) \/ k \in 1 .. Len(ls) - 1
  BY FrontFacts, SeqFacts
<1>2. \A n \in DOMAIN ls[Len(ls)].patches : ls[Len(ls)].patches[n].pos # h
  BY DEF BreakHoles, ToSet
<1> QED BY <1>1, <1>2 DEF HoldsHole

LEMMA InitFiles == Init => FilesInv
<1> SUFFICES ASSUME Init PROVE FilesInv
  OBVIOUS
<1>1. DOMAIN <<>> = {} /\ HolesIn(<<>>) = {}
  BY DEF HolesIn
<1> QED BY <1>1
     DEF Init, FilesInv, FilesFirst, OuterDone, PatchesHere, Accounted, FailureKnown

\* A step after which no file frame has changed and a new failure is known.
LEMMA FailureKeeps ==
  ASSUME FilesInv, ~eof, any_error => any_error',
         \A i \in DOMAIN frames : frames[i].kind = "file" =>
           i \in DOMAIN frames' /\ frames'[i] = frames[i],
         "statement" \in reported' => "statement" \in reported \/ any_error'
  PROVE  FailureKnown'
BY DEF FilesInv, FailureKnown

\* A statement that is compiled or refused whole.
LEMMA WholeFiles ==
  ASSUME CompilerInv, FilesInv, ~eof,
         NEW c \in Seq(Word), Len(code) <= Len(c), NEW err \in BOOLEAN, Whole(c, err),
         PatchesHere(loop_stack', frames), Accounted(c, frames, loop_stack')
  PROVE  FilesInv'
<1>1. /\ HolesIn(code') \subseteq HolesIn(c) /\ frames' = frames /\ eof' = eof
  BY WholeEnded DEF CompilerInv
<1>2. FailureKnown'
  <2>1. "statement" \in reported' => "statement" \in reported \/ any_error'
    BY DEF Whole, EndStatement, Where
  <2>2. any_error => any_error'
    BY DEF Whole, EndStatement
  <2> QED BY <1>1, <2>1, <2>2, FailureKeeps
<1> QED BY <1>1, <1>2 DEF FilesInv, Accounted

LEMMA OpenFiles ==
  ASSUME CompilerInv, FilesInv, ~eof, NEW f \in Construct, NEW c \in Seq(Word),
         NEW err \in BOOLEAN, Open(f, c, err), f.kind # "file",
         HolesIn(c) = HolesIn(code) \cup {f.hole},
         \/ loop_stack' = loop_stack
         \/ \E l \in LoopContext : loop_stack' = Append(loop_stack, l) /\ l.patches = <<>>
  PROVE  FilesInv'
<1>1. /\ frames \in Seq(Construct) /\ loop_stack \in Seq(LoopContext)
      /\ code' = c /\ frames' = Append(frames, f) /\ any_error' = any_error /\ eof' = eof
      /\ "statement" \in reported' => "statement" \in reported
  BY DEF CompilerInv, TypeOK, Open
<1>2. FilesFirst(frames') /\ OuterDone(frames')
  BY <1>1, FilesPush DEF FilesInv
<1>3. FailureKnown'
  <2>1. \A i \in DOMAIN frames : i \in DOMAIN frames' /\ frames'[i] = frames[i]
    BY <1>1, PushBelow
  <2> QED BY <1>1, <2>1, FailureKeeps
<1>4. Count({"file"}, frames') = Count({"file"}, frames)
  BY <1>1, CountAppend
<1>5. PatchesHere(loop_stack', frames')
  <2>1. CASE loop_stack' = loop_stack
    BY <1>4, <2>1 DEF FilesInv, PatchesHere
  <2>2. CASE \E l \in LoopContext : loop_stack' = Append(loop_stack, l) /\ l.patches = <<>>
    <3>1. PICK l \in LoopContext : loop_stack' = Append(loop_stack, l) /\ l.patches = <<>>
      BY <2>2
    <3>2. /\ DOMAIN loop_stack' = 1 .. Len(loop_stack) + 1
          /\ DOMAIN loop_stack = 1 .. Len(loop_stack) /\ Len(loop_stack) \in Nat
          /\ \A k \in 1 .. Len(loop_stack) : loop_stack'[k] = loop_stack[k]
          /\ loop_stack'[Len(loop_stack) + 1] = l
      BY <1>1, <3>1, AppendFacts, SeqFacts
    <3>3. \A k \in 1 .. Len(loop_stack) + 1 : k = Len(loop_stack) + 1 \/ k \in 1 .. Len(loop_stack)
      BY <3>2
    <3> SUFFICES ASSUME NEW k \in DOMAIN loop_stack', NEW n \in DOMAIN loop_stack'[k].patches
                 PROVE  loop_stack'[k].patches[n].file = Count({"file"}, frames')
      BY DEF PatchesHere
    <3>4. k # Len(loop_stack) + 1
      <4>1. DOMAIN <<>> = {}
        OBVIOUS
      <4>2. ASSUME k = Len(loop_stack) + 1 PROVE n \in DOMAIN <<>>
        BY <4>2, <3>1, <3>2
      <4> QED BY <4>1, <4>2
    <3>5. k \in DOMAIN loop_stack /\ loop_stack'[k] = loop_stack[k]
      BY <3>2, <3>3, <3>4
    <3> QED BY <1>4, <3>5 DEF FilesInv, PatchesHere
  <2> QED BY <2>1, <2>2
<1>6. Accounted(code', frames', loop_stack')
  <2> SUFFICES ASSUME NEW h \in HolesIn(c) PROVE HoldsHole(frames', loop_stack', h)
    BY <1>1 DEF Accounted
  <2>1. HoldsHole(frames', loop_stack, h)
    BY <1>1, HolePush DEF FilesInv, Accounted
  <2> QED BY <1>1, <2>1, HolePushLoop
<1> QED BY <1>1, <1>2, <1>3, <1>5, <1>6 DEF FilesInv

\* A construct ends and its hole is patched.
LEMMA PoppedFiles ==
  ASSUME CompilerInv, FilesInv, ~eof, frames # <<>>, Top.kind # "file",
         NEW c \in Seq(Word), Len(code) <= Len(c), NEW err \in BOOLEAN,
         EndStatement(Top.saved, c, err, Front(frames)),
         NEW P, HolesIn(c) = HolesIn(code) \ ({Top.hole} \cup P),
         \/ loop_stack' = loop_stack
         \/ /\ loop_stack # <<>> /\ loop_stack' = Front(loop_stack)
            /\ P = BreakHoles(loop_stack[Len(loop_stack)])
  PROVE  FilesInv'
<1>1. /\ HolesIn(code') \subseteq HolesIn(c)
      /\ frames' = Front(frames) /\ frames \in Seq(Construct) /\ Top = Last(frames)
      /\ loop_stack \in Seq(LoopContext)
  BY Popped DEF CompilerInv, TypeOK
<1>2. FilesFirst(frames') /\ OuterDone(frames')
  BY <1>1, FilesPop DEF FilesInv
<1>3. FailureKnown' /\ eof' = eof
  <2>1. \A i \in DOMAIN frames : frames[i].kind = "file" =>
          i \in DOMAIN frames' /\ frames'[i] = frames[i]
    BY <1>1, PopBelow
  <2>2. "statement" \in reported' => "statement" \in reported \/ any_error'
    BY DEF EndStatement, Where
  <2>3. (any_error => any_error') /\ eof' = eof
    BY DEF EndStatement
  <2> QED BY <2>1, <2>2, <2>3, FailureKeeps
<1>4. Count({"file"}, frames') = Count({"file"}, frames)
  BY <1>1, CountFront
<1>5. PatchesHere(loop_stack', frames')
  <2>1. CASE loop_stack' = loop_stack
    BY <1>4, <2>1 DEF FilesInv, PatchesHere
  <2>2. CASE loop_stack # <<>> /\ loop_stack' = Front(loop_stack)
    <3>1. /\ DOMAIN loop_stack' = 1 .. Len(loop_stack) - 1
          /\ DOMAIN loop_stack = 1 .. Len(loop_stack) /\ Len(loop_stack) \in Nat
          /\ \A k \in 1 .. Len(loop_stack) - 1 : loop_stack'[k] = loop_stack[k]
      <4>1. /\ DOMAIN Front(loop_stack) = 1 .. Len(loop_stack) - 1
            /\ Len(loop_stack) \in Nat \ {0}
            /\ \A k \in 1 .. Len(loop_stack) - 1 : Front(loop_stack)[k] = loop_stack[k]
        BY <1>1, <2>2, FrontFacts, SMTT(30)
      <4>2. DOMAIN loop_stack = 1 .. Len(loop_stack)
        BY <1>1, SeqFacts
      <4> QED BY <2>2, <4>1, <4>2
    <3>2. \A k \in 1 .. Len(loop_stack) - 1 : k \in 1 .. Len(loop_stack)
      BY <3>1
    <3> QED BY <1>4, <3>1, <3>2 DEF FilesInv, PatchesHere
  <2> QED BY <2>1, <2>2
<1>6. Accounted(code', frames', loop_stack')
  <2> SUFFICES ASSUME NEW h \in HolesIn(c) PROVE HoldsHole(frames', loop_stack', h)
    BY <1>1 DEF Accounted
  <2>1. HoldsHole(frames', loop_stack, h)
    BY <1>1, HolePop DEF FilesInv, Accounted
  <2> QED BY <1>1, <2>1, HolePopLoop
<1> QED BY <1>1, <1>2, <1>3, <1>5, <1>6 DEF FilesInv

LEMMA StatementFiles ==
  ASSUME CompilerInv, FilesInv, NEW err \in BOOLEAN,
         \/ Simple(err) \/ Return \/ Continue \/ BreakRefused \/ ImportRefused
         \/ LoopRefused(err) /\ "postfixFault" \notin Source
  PROVE  FilesInv'
<1>1. /\ code \in Seq(Word) /\ Len(code) \in Nat /\ compile_scope_depth \in Nat
      /\ Len(code) <= Len(code) /\ function_depth \in Nat
  BY SeqFacts DEF CompilerInv, TypeOK
<1>2. \A n \in Int : /\ Emit(code, n) \in Seq(Word) /\ Len(code) <= Len(Emit(code, n))
                     /\ HolesIn(Emit(code, n)) = HolesIn(code)
  BY <1>1, EmitHoles
<1>3. \A c : HolesIn(c) = HolesIn(code) =>
        PatchesHere(loop_stack, frames) /\ Accounted(c, frames, loop_stack)
  BY DEF FilesInv, Accounted
<1>4. ASSUME NEW c \in Seq(Word), Len(code) <= Len(c), HolesIn(c) = HolesIn(code), AtStatement,
             NEW bad \in BOOLEAN, Whole(c, bad), UNCHANGED context
      PROVE  FilesInv'
  <2>1. loop_stack' = loop_stack /\ ~eof
    BY <1>4 DEF context, AtStatement
  <2> QED BY <1>3, <1>4, <2>1, WholeFiles
<1>5. CASE Simple(err)
  BY <1>2, <1>4, <1>5 DEF Simple
<1>6. CASE Return
  <2> DEFINE bad == function_depth = 0
  <2>1. bad \in BOOLEAN /\ Whole(Emit(code, 2), bad) /\ UNCHANGED context /\ AtStatement
    BY <1>6 DEF Return
  <2>2. /\ Emit(code, 2) \in Seq(Word) /\ Len(code) <= Len(Emit(code, 2))
        /\ HolesIn(Emit(code, 2)) = HolesIn(code)
    BY <1>2
  <2> HIDE DEF bad
  <2> QED BY <1>4, <2>1, <2>2
<1>7. CASE Continue
  <2> DEFINE a == Emit(code, compile_scope_depth - loop_stack[loop_depth].scope)
  <2>1. compile_scope_depth - loop_stack[loop_depth].scope \in Int
    <3>1. loop_depth \in 1 .. Len(loop_stack) /\ loop_stack \in Seq(LoopContext)
      BY <1>7, SeqFacts DEF Continue, CompilerInv, TypeOK, loop_depth
    <3>2. loop_stack[loop_depth] \in LoopContext
      BY <3>1, SeqFacts
    <3> QED BY <1>1, <3>2 DEF LoopContext
  <2>2. a \in Seq(Word) /\ Len(code) <= Len(a) /\ Len(a) \in Nat /\ HolesIn(a) = HolesIn(code)
    BY <1>1, <2>1, EmitHoles
  <2>3. Whole(Emit(a, 2), FALSE) /\ UNCHANGED context /\ AtStatement
    BY <1>7 DEF Continue
  <2> HIDE DEF a
  <2>4. /\ Emit(a, 2) \in Seq(Word) /\ Len(code) <= Len(Emit(a, 2))
        /\ HolesIn(Emit(a, 2)) = HolesIn(code)
    BY <1>1, <2>2, EmitHoles
  <2> QED BY <1>4, <2>3, <2>4
<1>8. CASE BreakRefused
  BY <1>1, <1>4, <1>8 DEF BreakRefused
<1>9. CASE ImportRefused
  BY <1>1, <1>4, <1>9 DEF ImportRefused
<1>10. CASE LoopRefused(err) /\ "postfixFault" \notin Source
  BY <1>1, <1>4, <1>10 DEF LoopRefused, context
<1> QED BY <1>5, <1>6, <1>7, <1>8, <1>9, <1>10

LEMMA BreakFiles == CompilerInv /\ FilesInv /\ Break => FilesInv'
<1> SUFFICES ASSUME CompilerInv, FilesInv, Break PROVE FilesInv'
  OBVIOUS
<1> DEFINE l == loop_stack[loop_depth]
           a == Emit(code, compile_scope_depth - l.scope)
           b == Emit(a, l.iter)
           c == EmitJump(b)
           q == [file |-> File, pos |-> Len(c)]
<1>1. /\ code \in Seq(Word) /\ frames \in Seq(Construct) /\ loop_stack \in Seq(LoopContext)
      /\ TypeOK /\ loop_floor \in 0 .. loop_depth /\ loop_depth \in Nat
      /\ compile_scope_depth \in Nat
  BY SeqFacts DEF CompilerInv, TypeOK, loop_depth
<1>2. loop_depth \in DOMAIN loop_stack /\ l \in LoopContext /\ DOMAIN loop_stack = 1 .. loop_depth
  BY <1>1, SeqFacts DEF Break, loop_depth
<1>3. l.scope \in Nat /\ l.iter \in Nat /\ l.patches \in Seq(Patch)
  BY <1>2 DEF LoopContext
<1>4. /\ c \in Seq(Word) /\ Len(code) <= Len(c) /\ Len(c) \in Nat
      /\ HolesIn(c) = HolesIn(code) \cup {Len(c)}
  <2>1. compile_scope_depth - l.scope \in Int /\ l.iter \in Int
    BY <1>1, <1>3
  <2>2. a \in Seq(Word) /\ Len(a) >= Len(code) /\ Len(a) \in Nat /\ Len(code) \in Nat
        /\ HolesIn(a) = HolesIn(code)
    BY <1>1, <2>1, EmitHoles
  <2> HIDE DEF a
  <2>3. b \in Seq(Word) /\ Len(b) >= Len(a) /\ Len(b) \in Nat /\ HolesIn(b) = HolesIn(a)
    BY <2>1, <2>2, EmitHoles
  <2> HIDE DEF b
  <2>4. c \in Seq(Word) /\ Len(c) = Len(b) + 2 /\ HolesIn(c) = HolesIn(b) \cup {Len(b) + 2}
    BY <2>3, JumpHoles
  <2> QED BY <2>2, <2>3, <2>4
<1>5. q \in Patch /\ q.file = Count({"file"}, frames) /\ q.pos = Len(c)
  <2>1. {i \in DOMAIN frames : frames[i].kind = "file"} = Counted({"file"}, frames)
    BY DEF Counted
  <2>2. File \in Nat /\ File = Count({"file"}, frames)
    BY <1>1, <2>1, CountFinite DEF File
  <2> HIDE DEF c
  <2> QED BY <1>4, <2>2 DEF Patch
<1>6. /\ loop_stack' = [loop_stack EXCEPT ![loop_depth].patches = Append(@, q)]
      /\ Whole(c, FALSE) /\ ~eof
  BY DEF Break, AtStatement
<1> HIDE DEF c, q, a, b
<1>7. /\ DOMAIN loop_stack' = DOMAIN loop_stack
      /\ \A k \in DOMAIN loop_stack : k # loop_depth => loop_stack'[k] = loop_stack[k]
      /\ loop_stack'[loop_depth].patches = Append(l.patches, q)
  BY <1>2, <1>6 DEF LoopContext
<1>8. /\ DOMAIN l.patches = 1 .. Len(l.patches) /\ Len(l.patches) \in Nat
      /\ DOMAIN Append(l.patches, q) = 1 .. Len(l.patches) + 1
      /\ \A n \in 1 .. Len(l.patches) : Append(l.patches, q)[n] = l.patches[n]
      /\ Append(l.patches, q)[Len(l.patches) + 1] = q
  BY <1>3, <1>5, AppendFacts, SeqFacts
<1>9. \A n \in 1 .. Len(l.patches) + 1 : n = Len(l.patches) + 1 \/ n \in 1 .. Len(l.patches)
  BY <1>8
<1>10. PatchesHere(loop_stack', frames)
  <2> SUFFICES ASSUME NEW k \in DOMAIN loop_stack', NEW n \in DOMAIN loop_stack'[k].patches
               PROVE  loop_stack'[k].patches[n].file = Count({"file"}, frames)
    BY DEF PatchesHere
  <2>1. CASE k # loop_depth
    BY <1>7, <2>1 DEF FilesInv, PatchesHere
  <2>2. CASE k = loop_depth /\ n = Len(l.patches) + 1
    BY <1>5, <1>7, <1>8, <2>2
  <2>3. CASE k = loop_depth /\ n \in 1 .. Len(l.patches)
    BY <1>2, <1>7, <1>8, <2>3 DEF FilesInv, PatchesHere
  <2> QED BY <1>7, <1>8, <1>9, <2>1, <2>2, <2>3
<1>11. Accounted(c, frames, loop_stack')
  <2> SUFFICES ASSUME NEW h \in HolesIn(code) \cup {Len(c)}
               PROVE  HoldsHole(frames, loop_stack', h)
    BY <1>4 DEF Accounted
  <2>1. CASE h = Len(c)
    <3>1. Len(l.patches) + 1 \in DOMAIN loop_stack'[loop_depth].patches
      BY <1>7, <1>8
    <3> QED BY <1>2, <1>5, <1>7, <1>8, <2>1, <3>1 DEF HoldsHole
  <2>2. CASE h \in HolesIn(code)
    <3>1. HoldsHole(frames, loop_stack, h)
      BY <2>2 DEF FilesInv, Accounted
    <3>2. CASE \E i \in DOMAIN frames : frames[i].kind # "file" /\ frames[i].hole = h
      BY <3>2 DEF HoldsHole
    <3>3. CASE \E k \in DOMAIN loop_stack : \E n \in DOMAIN loop_stack[k].patches :
                 loop_stack[k].patches[n].pos = h
      <4>0. PICK k \in DOMAIN loop_stack : \E n \in DOMAIN loop_stack[k].patches :
                   loop_stack[k].patches[n].pos = h
        BY <3>3
      <4>1. PICK n \in DOMAIN loop_stack[k].patches : loop_stack[k].patches[n].pos = h
        BY <4>0
      <4>2. n \in DOMAIN loop_stack'[k].patches /\ loop_stack'[k].patches[n] = loop_stack[k].patches[n]
        <5>1. CASE k = loop_depth
          <6>1. n \in 1 .. Len(l.patches) /\ n \in 1 .. Len(l.patches) + 1
            BY <1>8, <4>1, <5>1
          <6> QED BY <1>7, <1>8, <5>1, <6>1
        <5>2. CASE k # loop_depth
          BY <1>7, <4>1, <5>2
        <5> QED BY <5>1, <5>2
      <4> QED BY <1>7, <4>1, <4>2 DEF HoldsHole
    <3> QED BY <3>1, <3>2, <3>3 DEF HoldsHole
  <2> QED BY <2>1, <2>2
<1> QED BY <1>4, <1>6, <1>10, <1>11, WholeFiles

LEMMA OpenStepsFiles ==
  ASSUME CompilerInv, FilesInv, NEW err \in BOOLEAN,
         \/ OpenIf(err)
         \/ \E kind \in Functions : OpenFunction(kind, err)
         \/ \E kind \in Loops : OpenLoop(kind)
  PROVE  FilesInv'
<1>1. /\ code \in Seq(Word) /\ Len(code) + 2 \in Nat /\ TypeOK /\ function_depth \in Nat
      /\ compile_scope_depth \in Nat
  BY SeqFacts DEF CompilerInv, TypeOK
<1> DEFINE e == EmitJump(code)
<1>2. /\ \A n \in Int : Emit(e, n) \in Seq(Word) /\ HolesIn(Emit(e, n)) = HolesIn(e)
      /\ HolesIn(e) = HolesIn(code) \cup {Len(code) + 2}
  BY <1>1, JumpHoles, EmitHoles
<1>3. \A kind \in Kind : /\ Frame(kind, Len(code) + 2) \in Construct
                         /\ Frame(kind, Len(code) + 2).kind = kind
                         /\ Frame(kind, Len(code) + 2).hole = Len(code) + 2
  BY <1>1, FrameTypes
<1>4. CASE OpenIf(err)
  <2> DEFINE f == Frame("if", Len(code) + 2)
             c == Emit(e, 1)
  <2>1. /\ Open(f, c, err) /\ loop_stack' = loop_stack /\ ~eof
    BY <1>4 DEF OpenIf, AtStatement
  <2>2. f \in Construct /\ f.kind # "file" /\ f.hole = Len(code) + 2
    BY <1>3 DEF Kind, Scoped
  <2>3. c \in Seq(Word) /\ HolesIn(c) = HolesIn(code) \cup {Len(code) + 2}
    BY <1>2
  <2> HIDE DEF f, c
  <2> QED BY <2>1, <2>2, <2>3, OpenFiles
<1>5. ASSUME NEW kind \in Functions, OpenFunction(kind, err) PROVE FilesInv'
  <2> DEFINE nested == kind = "function" /\ function_depth > 0
             g == Frame(kind, Len(code) + 2)
             f == [g EXCEPT !.nested = nested]
             c == Emit(e, 1)
             bad == err \/ nested
  <2>1. /\ Open(f, c, bad) /\ loop_stack' = loop_stack /\ ~eof /\ bad \in BOOLEAN
        /\ nested \in BOOLEAN
    BY <1>5 DEF OpenFunction, AtStatement
  <2>2. g \in Construct /\ g.kind = kind /\ kind # "file" /\ g.hole = Len(code) + 2
    BY <1>3 DEF Kind, Scoped, Functions
  <2>3. f \in Construct /\ f.kind # "file" /\ f.hole = Len(code) + 2
    <3> HIDE DEF g, nested
    <3> QED BY <2>1, <2>2 DEF Construct
  <2>4. c \in Seq(Word) /\ HolesIn(c) = HolesIn(code) \cup {Len(code) + 2}
    BY <1>2
  <2> HIDE DEF f, c, g, nested, bad
  <2> QED BY <2>1, <2>3, <2>4, OpenFiles
<1>6. ASSUME NEW kind \in Loops, OpenLoop(kind) PROVE FilesInv'
  <2> DEFINE g == Frame(kind, Len(code) + 2)
             f == [g EXCEPT !.ctx = loop_depth + 1]
             slots == IF kind = "each" THEN 1 ELSE 0
             c == Emit(e, slots)
             l == Loop(IF kind = "each" THEN 2 ELSE 0)
  <2>1. /\ Open(f, c, FALSE) /\ loop_stack' = Append(loop_stack, l) /\ ~eof
        /\ loop_depth < LoopMax
    BY <1>6 DEF OpenLoop, AtStatement
  <2>2. g \in Construct /\ g.kind = kind /\ kind # "file" /\ g.hole = Len(code) + 2
    BY <1>3 DEF Kind, Loops
  <2>3. f \in Construct /\ f.kind # "file" /\ f.hole = Len(code) + 2
    <3>1. loop_depth + 1 \in 0 .. LoopMax
      BY <1>1, <2>1, CompilerAssumption, SMTT(30) DEF TypeOK
    <3> HIDE DEF g
    <3> QED BY <2>2, <3>1 DEF Construct
  <2>4. c \in Seq(Word) /\ HolesIn(c) = HolesIn(code) \cup {Len(code) + 2}
    <3>1. slots \in Int
      OBVIOUS
    <3> HIDE DEF slots
    <3> QED BY <1>2, <3>1
  <2>5. l \in LoopContext /\ l.patches = <<>>
    <3>1. <<>> \in Seq(Patch)
      OBVIOUS
    <3> QED BY <1>1, <3>1 DEF Loop, LoopContext
  <2> HIDE DEF f, c, g, l
  <2> QED BY <2>1, <2>3, <2>4, <2>5, OpenFiles
<1> QED BY <1>4, <1>5, <1>6

LEMMA CloseStepsFiles ==
  ASSUME CompilerInv, FilesInv, NEW err \in BOOLEAN,
         CloseIf \/ CloseLoop \/ CloseFunction(err)
  PROVE  FilesInv'
<1>1. /\ code \in Seq(Word) /\ TypeOK /\ frames \in Seq(Construct)
      /\ loop_stack \in Seq(LoopContext) /\ parse_had_error \in BOOLEAN
  BY DEF CompilerInv, TypeOK
<1>2. \A n \in Int, c \in Seq(Word) :
        /\ Emit(c, n) \in Seq(Word) /\ HolesIn(Emit(c, n)) = HolesIn(c)
        /\ Len(c) <= Len(Emit(c, n)) /\ Len(c) \in Nat /\ Len(Emit(c, n)) \in Nat
  BY EmitHoles
<1>3. \A P : \A c \in Seq(Word) :
        /\ PatchWords(c, P) \in Seq(Word) /\ HolesIn(PatchWords(c, P)) = HolesIn(c) \ P
        /\ Len(PatchWords(c, P)) = Len(c)
  BY PatchedHoles
<1>4. CASE CloseIf
  <2> DEFINE e == Emit(code, 1)
             c == PatchWords(e, {Top.hole})
  <2>1. /\ EndStatement(Top.saved, c, parse_had_error, Front(frames)) /\ ~eof /\ frames # <<>>
        /\ loop_stack' = loop_stack /\ Top.kind # "file"
    BY <1>4 DEF CloseIf, InBody
  <2>2. c \in Seq(Word) /\ Len(code) <= Len(c) /\ HolesIn(c) = HolesIn(code) \ ({Top.hole} \cup {})
    BY <1>1, <1>2, <1>3
  <2> HIDE DEF c
  <2> QED BY <1>1, <2>1, <2>2, PoppedFiles
<1>5. CASE CloseFunction(err)
  <2> DEFINE e == Emit(code, 2)
             d == PatchWords(e, {Top.hole})
             c == Emit(d, 2)
             bad == parse_had_error \/ Top.nested \/ err
  <2>1. /\ EndStatement(Top.saved, c, bad, Front(frames)) /\ ~eof /\ frames # <<>>
        /\ loop_stack' = SubSeq(loop_stack, 1, Top.ctx) /\ Top.kind \in Functions
    BY <1>5 DEF CloseFunction, InBody
  <2>2. c \in Seq(Word) /\ Len(code) <= Len(c) /\ HolesIn(c) = HolesIn(code) \ ({Top.hole} \cup {})
    <3>1. e \in Seq(Word) /\ HolesIn(e) = HolesIn(code) /\ Len(code) <= Len(e)
          /\ Len(code) \in Nat /\ Len(e) \in Nat
      BY <1>1, <1>2
    <3> HIDE DEF e
    <3>2. d \in Seq(Word) /\ HolesIn(d) = HolesIn(e) \ {Top.hole} /\ Len(d) = Len(e)
      BY <3>1, <1>3
    <3> HIDE DEF d
    <3>3. c \in Seq(Word) /\ HolesIn(c) = HolesIn(d) /\ Len(d) <= Len(c) /\ Len(c) \in Nat
      BY <3>2, <1>2
    <3> QED BY <3>1, <3>2, <3>3
  <2>3. bad \in BOOLEAN /\ Top = Last(frames)
    <3>1. Top \in Construct /\ Top = Last(frames)
      BY <1>1, <2>1, PopBelow DEF Top
    <3> QED BY <1>1, <3>1 DEF Construct
  <2>4. loop_stack' = loop_stack /\ Top.kind # "file"
    <3>1. SubSeq(loop_stack, 1, Top.ctx) = loop_stack
      BY <1>1, <2>1, <2>3, FunctionTop DEF CompilerInv
    <3> QED BY <2>1, <3>1 DEF Functions
  <2> HIDE DEF c, bad
  <2> QED BY <2>1, <2>2, <2>3, <2>4, PoppedFiles
<1>6. CASE CloseLoop
  <2> DEFINE slots == IF Top.kind = "each" THEN 1 ELSE 0
             b == Emit(code, slots)
             e == Emit(b, 2)
             P == BreakHoles(loop_stack[Top.ctx])
             c == PatchWords(e, {Top.hole} \cup P)
  <2>1. /\ EndStatement(Top.saved, c, parse_had_error, Front(frames)) /\ ~eof /\ frames # <<>>
        /\ loop_stack' = Front(loop_stack) /\ Top.kind \in Loops
    BY <1>6 DEF CloseLoop, InBody
  <2>2. c \in Seq(Word) /\ Len(code) <= Len(c) /\ HolesIn(c) = HolesIn(code) \ ({Top.hole} \cup P)
    <3>1. slots \in Int
      OBVIOUS
    <3>2. b \in Seq(Word) /\ HolesIn(b) = HolesIn(code) /\ Len(code) <= Len(b)
          /\ Len(code) \in Nat /\ Len(b) \in Nat
      BY <1>1, <1>2, <3>1
    <3> HIDE DEF b
    <3>3. e \in Seq(Word) /\ HolesIn(e) = HolesIn(b) /\ Len(b) <= Len(e) /\ Len(e) \in Nat
      BY <1>2, <3>2
    <3> HIDE DEF e, P
    <3>4. c \in Seq(Word) /\ HolesIn(c) = HolesIn(e) \ ({Top.hole} \cup P) /\ Len(c) = Len(e)
      BY <1>3, <3>3
    <3> HIDE DEF c
    <3>5. HolesIn(c) = HolesIn(code) \ ({Top.hole} \cup P)
      BY <3>2, <3>3, <3>4
    <3> QED BY <3>2, <3>3, <3>4, <3>5
  <2>3. Top = Last(frames) /\ Top.kind # "file"
    BY <2>1 DEF Top, Loops
  <2>4. loop_stack # <<>> /\ P = BreakHoles(loop_stack[Len(loop_stack)])
    BY <1>1, <2>1, <2>3, PopLoop DEF CompilerInv
  <2> HIDE DEF c, P
  <2> QED BY <1>1, <2>1, <2>2, <2>3, <2>4, PoppedFiles
<1> QED BY <1>4, <1>5, <1>6

LEMMA ElseFiles ==
  ASSUME CompilerInv, FilesInv, NEW err \in BOOLEAN, Else(err)
  PROVE  FilesInv'
<1> DEFINE a == Emit(code, 1)
           c == EmitJump(a)
           p == PatchWords(c, {Top.hole})
           d == Emit(p, 1)
           f == [Top EXCEPT !.kind = "else", !.hole = Len(c)]
           st == Front(frames)
<1>1. /\ frames # <<>> /\ Top.kind = "if"
      /\ code \in Seq(Word) /\ frames \in Seq(Construct) /\ loop_stack \in Seq(LoopContext)
  BY DEF Else, InBody, CompilerInv, TypeOK
<1>2. Len(c) \in Nat /\ HolesIn(d) = (HolesIn(code) \cup {Len(c)}) \ {Top.hole}
  <2>1. a \in Seq(Word) /\ HolesIn(a) = HolesIn(code)
    BY <1>1, EmitHoles
  <2> HIDE DEF a
  <2>2. c \in Seq(Word) /\ Len(c) = Len(a) + 2 /\ HolesIn(c) = HolesIn(a) \cup {Len(a) + 2}
        /\ Len(a) \in Nat
    BY <2>1, JumpHoles
  <2> HIDE DEF c
  <2>3. p \in Seq(Word) /\ HolesIn(p) = HolesIn(c) \ {Top.hole}
    BY <2>2, PatchedHoles
  <2> HIDE DEF p
  <2>4. HolesIn(d) = HolesIn(p)
    BY <2>3, EmitHoles
  <2> QED BY <2>1, <2>2, <2>3, <2>4
<1>3. Top \in Construct /\ Top = Last(frames) /\ st \in Seq(Construct)
  BY <1>1, PopBelow DEF Top
<1>4. f \in Construct /\ f.kind = "else" /\ f.hole = Len(c)
  <2> HIDE DEF c
  <2>1. "else" \in Kind
    BY DEF Kind, Scoped
  <2> QED BY <1>2, <1>3, <2>1 DEF Construct
<1>5. /\ code' = d /\ frames' = Append(st, f) /\ loop_stack' = loop_stack
      /\ "statement" \in reported' => "statement" \in reported
      /\ any_error' = any_error /\ eof' = eof /\ ~eof
  BY DEF Else, InBody, context
<1> HIDE DEF f, d, c
<1>6. FilesFirst(frames') /\ OuterDone(frames')
  <2>1. FilesFirst(st) /\ OuterDone(st)
    BY <1>1, FilesPop DEF FilesInv
  <2> HIDE DEF st
  <2> QED BY <1>3, <1>4, <1>5, <2>1, FilesPush
<1>7. Count({"file"}, frames') = Count({"file"}, frames)
  <2>1. Count({"file"}, st) = Count({"file"}, frames)
    BY <1>1, <1>3, CountFront
  <2> HIDE DEF st
  <2> QED BY <1>3, <1>4, <1>5, <2>1, CountAppend
<1>8. Accounted(code', frames', loop_stack')
  <2> SUFFICES ASSUME NEW h \in HolesIn(d) PROVE HoldsHole(Append(st, f), loop_stack, h)
    BY <1>5 DEF Accounted
  <2>1. CASE h = Len(c)
    <3> HIDE DEF st
    <3> QED BY <1>3, <1>4, <2>1, HolePush
  <2>2. CASE h \in HolesIn(code) /\ h # Top.hole
    <3>1. HoldsHole(st, loop_stack, h)
      BY <1>1, <1>3, <2>2, HolePop DEF FilesInv, Accounted
    <3> HIDE DEF st
    <3> QED BY <1>3, <1>4, <3>1, HolePush
  <2> QED BY <1>2, <2>1, <2>2
<1>9. FailureKnown'
  <2>1. \A i \in DOMAIN frames : frames[i].kind = "file" =>
          i \in DOMAIN frames' /\ frames'[i] = frames[i]
    <3> SUFFICES ASSUME NEW i \in DOMAIN frames, frames[i].kind = "file"
                 PROVE  i \in DOMAIN frames' /\ frames'[i] = frames[i]
      OBVIOUS
    <3>1. i \in DOMAIN st /\ st[i] = frames[i]
      BY <1>1, <1>3, PopBelow
    <3> HIDE DEF st
    <3>2. i \in 1 .. Len(st) /\ i \in 1 .. Len(st) + 1
      BY <1>3, <1>4, <3>1, PushBelow
    <3> QED BY <1>3, <1>4, <1>5, <3>1, <3>2, PushBelow
  <2> QED BY <1>5, <2>1, FailureKeeps
<1> QED BY <1>5, <1>6, <1>7, <1>8, <1>9 DEF FilesInv, PatchesHere

LEMMA ImportFiles ==
  ASSUME "loopImport" \notin Source, CompilerInv, FilesInv, Import
  PROVE  FilesInv'
<1> DEFINE g == Frame("file", 0)
           f == [g EXCEPT !.outer = code, !.any = any_error]
<1>1. /\ code \in Seq(Word) /\ frames \in Seq(Construct) /\ any_error \in BOOLEAN /\ TypeOK
      /\ loop_stack \in Seq(LoopContext) /\ 0 \in Nat /\ "file" \in Kind
  BY DEF CompilerInv, TypeOK, Kind
<1>2. g \in Construct /\ g.kind = "file"
  BY <1>1, FrameTypes
<1>3. f \in Construct /\ f.kind = "file" /\ f.outer = code /\ f.any = any_error
  <2> HIDE DEF g
  <2> QED BY <1>1, <1>2 DEF Construct
<1>4. /\ frames' = Append(frames, f) /\ code' = <<>> /\ any_error' = FALSE /\ ~eof
      /\ loop_stack' = loop_stack /\ reported' = reported /\ eof' = eof /\ InParse(frames)
  BY DEF Import, AtStatement, context
<1> HIDE DEF f, g
<1>5. \A i \in DOMAIN frames : frames[i].kind = "file"
  BY <1>1, <1>4, AllFiles DEF FilesInv
<1>6. loop_stack = <<>>
  BY <1>1, <1>5, AllFilesNoLoops DEF CompilerInv
<1>7. HolesIn(code) = {}
  BY <1>5, <1>6 DEF FilesInv, Accounted, HoldsHole
<1>8. FilesFirst(frames') /\ OuterDone(frames')
  BY <1>1, <1>3, <1>4, <1>7, FilesPush DEF FilesInv
<1>9. PatchesHere(loop_stack', frames')
  BY <1>4, <1>6 DEF PatchesHere
<1>10. Accounted(code', frames', loop_stack')
  BY <1>4 DEF Accounted, HolesIn
<1>11. FailureKnown'
  <2> SUFFICES ASSUME "statement" \in reported
               PROVE  \E i \in DOMAIN frames' : frames'[i].kind = "file" /\ frames'[i].any
    BY <1>4 DEF FailureKnown
  <2>1. CASE any_error
    <3>1. Len(frames) + 1 \in DOMAIN frames'
      BY <1>1, <1>3, <1>4, PushBelow
    <3> QED BY <1>1, <1>3, <1>4, <2>1, <3>1, PushBelow
  <2>2. CASE \E i \in DOMAIN frames : frames[i].kind = "file" /\ frames[i].any
    <3>1. \A i \in DOMAIN frames : i \in DOMAIN frames' /\ frames'[i] = frames[i]
      BY <1>1, <1>3, <1>4, PushBelow
    <3> QED BY <2>2, <3>1
  <2> QED BY <1>4, <2>1, <2>2 DEF FilesInv, FailureKnown
<1> QED BY <1>4, <1>8, <1>9, <1>10, <1>11 DEF FilesInv

LEMMA EndImportFiles ==
  ASSUME CompilerInv, FilesInv, NEW err \in BOOLEAN, EndImport(err)
  PROVE  FilesInv'
<1> DEFINE failed == any_error \/ err
           st == Front(frames)
<1>1. /\ frames # <<>> /\ Top.kind = "file" /\ frames \in Seq(Construct)
      /\ loop_stack \in Seq(LoopContext) /\ ~eof
  BY DEF EndImport, InBody, CompilerInv, TypeOK
<1>2. /\ Top = Last(frames) /\ Top = frames[Len(frames)]
      /\ st \in Seq(Construct) /\ Len(frames) \in DOMAIN frames
  BY <1>1, PopBelow DEF Top
<1>3. \A i \in DOMAIN frames : frames[i].kind = "file"
  BY <1>1, <1>2, AllFiles DEF FilesInv, InParse
<1>4. loop_stack = <<>>
  BY <1>1, <1>3, AllFilesNoLoops DEF CompilerInv
<1>5. /\ code' = Top.outer /\ frames' = st /\ loop_stack' = loop_stack
      /\ any_error' = (Top.any \/ (failed /\ InParse(st)))
      /\ reported' = reported \cup (IF failed THEN {Where(st)} ELSE {}) /\ eof' = eof
  BY DEF EndImport, context
<1>6. InParse(st)
  <2>1. \A i \in DOMAIN st : st[i].kind = "file"
    BY <1>1, <1>3, PopBelow
  <2> HIDE DEF st
  <2>2. st # <<>> => Last(st) = st[Len(st)] /\ Len(st) \in DOMAIN st
    BY <1>2, PopBelow
  <2> QED BY <2>1, <2>2 DEF InParse
<1>7. HolesIn(code') = {}
  BY <1>1, <1>2, <1>5 DEF FilesInv, OuterDone
<1>8. FilesFirst(frames') /\ OuterDone(frames')
  BY <1>1, <1>5, FilesPop DEF FilesInv
<1>9. PatchesHere(loop_stack', frames') /\ Accounted(code', frames', loop_stack')
  BY <1>4, <1>5, <1>7 DEF PatchesHere, Accounted
<1>10. FailureKnown'
  <2> SUFFICES ASSUME "statement" \in reported', ~any_error'
               PROVE  \E i \in DOMAIN st : st[i].kind = "file" /\ st[i].any
    BY <1>5 DEF FailureKnown
  <2>1. ~Top.any /\ ~failed
    BY <1>5, <1>6
  <2>2. "statement" \in reported /\ ~any_error
    BY <1>5, <2>1
  <2>3. \E i \in DOMAIN frames : frames[i].kind = "file" /\ frames[i].any
    BY <1>1, <2>2 DEF FilesInv, FailureKnown
  <2>4. \A i \in DOMAIN frames : i # Len(frames) => i \in DOMAIN st /\ st[i] = frames[i]
    BY <1>1, PopBelow
  <2> HIDE DEF st, failed
  <2> QED BY <1>2, <2>1, <2>3, <2>4
<1> QED BY <1>1, <1>5, <1>8, <1>9, <1>10 DEF FilesInv

LEMMA FlagsFiles ==
  ASSUME FilesInv, EndOfFile \/ UNCHANGED vars
  PROVE  FilesInv'
<1>1. CASE EndOfFile
  <2>1. /\ frames' = <<>> /\ frames = <<>> /\ eof' = TRUE /\ ~eof
        /\ parse_had_error' = (parse_had_error \/ any_error)
        /\ UNCHANGED <<code, loop_stack, reported>> /\ any_error' = any_error
    BY <1>1 DEF EndOfFile, context
  <2>2. FailureKnown'
    BY <2>1 DEF FilesInv, FailureKnown
  <2> QED BY <2>1, <2>2 DEF FilesInv
<1>2. CASE UNCHANGED vars
  BY <1>2 DEF vars, context, FilesInv, FailureKnown
<1> QED BY <1>1, <1>2

LEMMA FilesStep ==
  ASSUME "postfixFault" \notin Source, "loopImport" \notin Source, CompilerInv, FilesInv,
         [Next]_vars
  PROVE  FilesInv'
<1>1. CASE Done \/ EndOfFile \/ UNCHANGED vars
  BY <1>1, FlagsFiles DEF Done
<1>2. ASSUME Return \/ Break \/ Continue \/ BreakRefused \/ CloseIf \/ CloseLoop \/ Import
             \/ ImportRefused
      PROVE  FilesInv'
  BY <1>2, StatementFiles, BreakFiles, CloseStepsFiles, ImportFiles
<1>3. ASSUME NEW kind \in Loops, OpenLoop(kind) PROVE FilesInv'
  BY <1>3, OpenStepsFiles
<1>4. ASSUME NEW err \in BOOLEAN,
             Simple(err) \/ OpenIf(err) \/ Else(err) \/ LoopRefused(err) \/ CloseFunction(err)
               \/ EndImport(err)
      PROVE  FilesInv'
  BY <1>4, StatementFiles, OpenStepsFiles, ElseFiles, CloseStepsFiles, EndImportFiles
<1>5. ASSUME NEW err \in BOOLEAN, NEW kind \in Functions, OpenFunction(kind, err)
      PROVE  FilesInv'
  BY <1>5, OpenStepsFiles
<1> QED BY <1>1, <1>2, <1>3, <1>4, <1>5 DEF Next

\* Where files are imported at the top level of files only, the parser's
\* holes belong to open constructs, and its failures are known.
THEOREM FilesInvariant ==
  ASSUME "postfixFault" \notin Source, "loopImport" \notin Source
  PROVE  Spec => [](CompilerInv /\ FilesInv)
<1>1. CompilerInv /\ FilesInv /\ [Next]_vars => CompilerInv' /\ FilesInv'
  BY StepKeeps, FilesStep
<1> QED BY <1>1, InitContext, InitFiles, PTL DEF Spec

LEMMA InvHoles == CompilerInv /\ FilesInv => HolesAccounted
<1> SUFFICES ASSUME CompilerInv, FilesInv PROVE HolesAccounted
  OBVIOUS
<1>1. frames \in Seq(Construct)
  BY DEF CompilerInv, TypeOK
<1>2. File = Count({"file"}, frames)
  BY DEF File, Count
<1>3. ASSUME NEW i \in DOMAIN frames, frames[i].kind # "file"
      PROVE  Count({"file"}, Below(i)) = File
  <2>1. i \in 1 .. Len(frames) /\ DOMAIN frames = 1 .. Len(frames) /\ Len(frames) \in Nat
        /\ i - 1 \in 0 .. Len(frames)
    BY <1>1, SeqFacts
  <2>2. /\ DOMAIN Below(i) = 1 .. i - 1 /\ \A j \in 1 .. i - 1 : Below(i)[j] = frames[j]
    BY <1>1, <2>1, PrefixFacts DEF Below
  <2>3. \A j \in DOMAIN frames : frames[j].kind = "file" => j \in 1 .. i - 1
    BY <1>3, <2>1 DEF FilesInv, FilesFirst
  <2>4. {j \in DOMAIN Below(i) : Below(i)[j].kind \in {"file"}}
          = {j \in DOMAIN frames : frames[j].kind = "file"}
    BY <2>1, <2>2, <2>3
  <2> QED BY <2>4 DEF Count, File
<1>4. ASSUME NEW h \in Holes
      PROVE  h \in {frames[i].hole : i \in {j \in DOMAIN frames :
                               frames[j].kind # "file" /\ Count({"file"}, Below(j)) = File}}
                   \cup {p.pos : p \in {q \in OpenPatches : q.file = File}}
  <2>1. HoldsHole(frames, loop_stack, h)
    BY DEF Holes, HolesIn, FilesInv, Accounted
  <2>2. CASE \E i \in DOMAIN frames : frames[i].kind # "file" /\ frames[i].hole = h
    BY <1>3, <2>2
  <2>3. CASE \E k \in DOMAIN loop_stack : \E n \in DOMAIN loop_stack[k].patches :
               loop_stack[k].patches[n].pos = h
    <3>1. PICK k \in DOMAIN loop_stack : \E n \in DOMAIN loop_stack[k].patches :
               loop_stack[k].patches[n].pos = h
      BY <2>3
    <3>2. PICK n \in DOMAIN loop_stack[k].patches : loop_stack[k].patches[n].pos = h
      BY <3>1
    <3>3. loop_stack[k].patches[n] \in OpenPatches
      BY DEF OpenPatches, ToSet
    <3>4. loop_stack[k].patches[n].file = File
      BY <1>2 DEF FilesInv, PatchesHere
    <3> QED BY <3>2, <3>3, <3>4
  <2> QED BY <2>1, <2>2, <2>3 DEF HoldsHole
<1> QED BY <1>4 DEF HolesAccounted

\* No jump is forgotten: every placeholder in the code of the open file
\* will be patched by a construct or a break that is still open, whatever
\* was rolled back (finish_loop, parse_if, parse_function_body).
THEOREM NoHoleForgotten ==
  ASSUME "postfixFault" \notin Source, "loopImport" \notin Source
  PROVE  Spec => []HolesAccounted
BY FilesInvariant, InvHoles, PTL

\* When parse() returns for the outermost file, a statement it rolled back,
\* there or in a file imported on the way, has failed the parse.
THEOREM FailuresReported ==
  ASSUME "postfixFault" \notin Source, "loopImport" \notin Source
  PROVE  Spec => []FailedStatementsReported
<1>1. FilesInv => FailedStatementsReported
  BY DEF FilesInv, FailureKnown, FailedStatementsReported
<1> QED BY <1>1, FilesInvariant, PTL

----
\* Bytecode: what the parser writes.  First its record, field by field.

LEMMA EmitFields ==
  ASSUME NEW s, DOMAIN s = Fields, NEW op, NEW words, NEW arg, NEW meant
  PROVE  LET t == chunk_emit(s, op, words, arg, meant) IN
         /\ DOMAIN t = Fields /\ Kept(s, t, {"code", "count"})
         /\ t.count = s.count + words
         /\ DOMAIN t.code = DOMAIN s.code \cup {s.count}
         /\ t.code[s.count] = Instruction(s, op, words, arg, meant)
         /\ \A o \in DOMAIN s.code : o # s.count => t.code[o] = s.code[o]
BY DEF chunk_emit, Fields, Kept, Instruction

LEMMA AddsSelf == ASSUME NEW s, Sound(s) PROVE Adds(s, s)
BY DEF Adds, Sound, CodeShape, Shape, Kept, SameBelow, Longer

LEMMA AddsTransitive ==
  ASSUME NEW s, NEW t, NEW u, Sound(s), Adds(s, t), Adds(t, u)
  PROVE  Adds(s, u)
<1> USE DEF Adds
<1>1. /\ Sound(u) /\ (s.failed => u.failed)
      /\ Kept(s, u, {"code", "count", "lastCall", "locals", "captured", "outer", "params", "failed"})
  BY DEF Kept
<1>2. s.count \in Nat /\ t.count \in Nat /\ u.count \in Nat /\ s.count <= u.count
  BY DEF Sound, Shape
<1>3. SameBelow(s, u, s.count)
  BY <1>2 DEF SameBelow
<1>4. Longer(s.captured, u.captured)
  <2>1. s.captured \in Seq(Name) /\ t.captured \in Seq(Name) /\ u.captured \in Seq(Name)
    BY DEF Sound, Shape
  <2> QED BY <2>1 DEF Longer
<1>5. ASSUME NEW o \in DOMAIN u.code, o >= s.count PROVE NewOk(s, u, o)
  <2>1. t.line = s.line /\ t.body = s.body /\ t.capturing = s.capturing
    BY DEF Kept, Fields
  <2>2. CASE o >= t.count
    BY <2>1, <2>2 DEF NewOk
  <2>3. CASE o < t.count
    <3>1. o \in Nat
      BY DEF Sound, CodeShape
    <3>2. o \in DOMAIN t.code /\ u.code[o] = t.code[o]
      BY <3>1, <2>3, <1>2 DEF SameBelow
    <3>3. NewOk(s, t, o)
      BY <3>2, <1>5
    <3>4. t.code[o].op = "TAIL_CALL" => o + 4 \in DOMAIN u.code /\ u.code[o + 4].op = "RETURN"
      <4>1. HAVE t.code[o].op = "TAIL_CALL"
      <4>2. o + 4 \in DOMAIN t.code /\ t.code[o + 4].op = "RETURN"
        BY <3>3, <4>1 DEF NewOk
      <4>3. o + 4 \in Nat /\ o + 4 < t.count
        BY <4>2, <1>2 DEF Sound, CodeShape
      <4> QED BY <4>2, <4>3 DEF SameBelow
    <3>5. SlotOf(t, t.code[o]) => SlotOf(u, t.code[o])
      <4>1. t.captured \in Seq(Name) /\ u.captured \in Seq(Name)
        BY DEF Sound, Shape
      <4> QED BY <4>1 DEF SlotOf, Longer
    <3> QED BY <3>2, <3>3, <3>4, <3>5 DEF NewOk
  <2> QED BY <2>2, <2>3, <1>2 DEF Sound, CodeShape
<1> QED BY <1>1, <1>2, <1>3, <1>4, <1>5

LEMMA EmitSound ==
  ASSUME NEW s, Sound(s), NEW op, NEW words \in Nat \ {0}, NEW arg, NEW meant,
         op \in Calls => words = 4 /\ meant = Callee
  PROVE  Sound(chunk_emit(s, op, words, arg, meant))
<1> DEFINE t == chunk_emit(s, op, words, arg, meant)
<1>0. DOMAIN s = Fields
  BY DEF Sound, Shape
<1>1. /\ DOMAIN t = Fields /\ Kept(s, t, {"code", "count"})
      /\ t.count = s.count + words
      /\ DOMAIN t.code = DOMAIN s.code \cup {s.count}
      /\ t.code[s.count] = Instruction(s, op, words, arg, meant)
      /\ \A o \in DOMAIN s.code : o # s.count => t.code[o] = s.code[o]
  BY <1>0, EmitFields
<1> HIDE DEF t
<1>2. s.count \in Nat /\ \A o \in DOMAIN s.code : o \in Nat /\ o < s.count
  BY DEF Sound, Shape, CodeShape
<1>3. /\ t.lastCall = s.lastCall /\ t.line = s.line /\ t.body = s.body
      /\ t.capturing = s.capturing /\ t.failed = s.failed /\ t.locals = s.locals /\ t.outer = s.outer
      /\ t.captured = s.captured /\ t.params = s.params /\ t.depth = s.depth
  BY <1>1 DEF Kept, Fields
<1>4. Shape(t)
  BY <1>1, <1>2, <1>3 DEF Sound, Shape
<1>5. \A o \in DOMAIN s.code : t.code[o] = s.code[o] /\ o \in DOMAIN t.code
  BY <1>1, <1>2
<1>i. /\ t.code[s.count].op = op /\ t.code[s.count].words = words /\ t.code[s.count].line = s.line
      /\ t.code[s.count].body = s.body /\ t.code[s.count].meant = meant
      /\ DOMAIN t.code[s.count] = {"op", "words", "arg", "meant", "line", "body"}
  BY <1>1 DEF Instruction
<1>6. CodeShape(t)
  <2> SUFFICES ASSUME NEW o \in DOMAIN t.code
               PROVE  /\ o \in Nat /\ DOMAIN t.code[o] = {"op", "words", "arg", "meant", "line", "body"}
                      /\ t.code[o].words \in Nat /\ t.code[o].words >= 1 /\ o + t.code[o].words <= t.count
                      /\ t.code[o].line \in Nat /\ t.code[o].body \in Nat /\ t.code[o].body <= o
                      /\ t.code[o].op \in Calls => t.code[o].words = 4 /\ t.code[o].meant = Callee
    BY DEF CodeShape
  <2>1. CASE o = s.count
    <3>1. s.line \in Nat /\ s.body \in Nat /\ s.body <= s.count
      BY DEF Sound, Shape
    <3> QED BY <2>1, <3>1, <1>1, <1>2, <1>i
  <2>2. CASE o \in DOMAIN s.code
    <3>1. /\ DOMAIN s.code[o] = {"op", "words", "arg", "meant", "line", "body"}
          /\ s.code[o].words \in Nat /\ s.code[o].words >= 1 /\ o + s.code[o].words <= s.count
          /\ s.code[o].line \in Nat /\ s.code[o].body \in Nat /\ s.code[o].body <= o
          /\ s.code[o].op \in Calls => s.code[o].words = 4 /\ s.code[o].meant = Callee
      BY <2>2 DEF Sound, CodeShape
    <3>2. o \in Nat /\ t.code[o] = s.code[o] /\ t.count >= s.count /\ t.count \in Nat
      BY <2>2, <1>1, <1>2, <1>5
    <3>3. o + t.code[o].words <= t.count
      BY <1>2, <3>1, <3>2
    <3> QED BY <3>1, <3>2, <3>3
  <2> QED BY <2>1, <2>2, <1>1
<1>7. Tiled(t)
  <2>1. ASSUME NEW x \in Nat, x < t.count
        PROVE  \E o \in DOMAIN t.code : o <= x /\ x < o + t.code[o].words
    <3>1. CASE x < s.count
      BY <3>1, <1>5 DEF Sound, Tiled
    <3>2. CASE x >= s.count
      <4>1. s.count \in DOMAIN t.code /\ s.count <= x /\ x < s.count + t.code[s.count].words
        BY <3>2, <2>1, <1>1, <1>2, <1>i
      <4> QED BY <4>1
    <3> QED BY <3>1, <3>2, <1>2
  <2>2. ASSUME NEW o \in DOMAIN t.code, NEW p \in DOMAIN t.code, o < p
        PROVE  o + t.code[o].words <= p
    <3>1. CASE p = s.count
      <4>1. o \in DOMAIN s.code
        BY <3>1, <2>2, <1>1, <1>2
      <4> QED BY <3>1, <4>1, <1>5 DEF Sound, CodeShape
    <3>2. CASE p \in DOMAIN s.code
      <4>1. o \in DOMAIN s.code
        BY <3>2, <2>2, <1>1, <1>2
      <4> QED BY <3>2, <4>1, <2>2, <1>5 DEF Sound, Tiled
    <3> QED BY <3>1, <3>2, <1>1
  <2> QED BY <2>1, <2>2 DEF Tiled
<1>8. CallKnown(t)
  BY <1>3, <1>5 DEF Sound, CallKnown
<1> QED BY <1>4, <1>6, <1>7, <1>8 DEF Sound, t

LEMMA EmitAdds ==
  ASSUME NEW s, Sound(s), NEW op, NEW words \in Nat \ {0}, NEW arg, NEW meant,
         op \in Calls => words = 4 /\ meant = Callee,
         op \notin {"PUSH_FUNCTION", "MAKE_CLOSURE", "TAIL_CALL"},
         op = "COMPOUND" => IsWhole(Instruction(s, op, words, arg, meant)),
         op \in Upvalue => s.capturing /\ (s.failed \/ (arg \in DOMAIN s.captured /\ s.captured[arg] = meant))
  PROVE  Adds(s, chunk_emit(s, op, words, arg, meant))
<1> DEFINE t == chunk_emit(s, op, words, arg, meant)
<1>0. DOMAIN s = Fields
  BY DEF Sound, Shape
<1>1. /\ DOMAIN t = Fields /\ Kept(s, t, {"code", "count"})
      /\ t.count = s.count + words
      /\ DOMAIN t.code = DOMAIN s.code \cup {s.count}
      /\ t.code[s.count] = Instruction(s, op, words, arg, meant)
      /\ \A o \in DOMAIN s.code : o # s.count => t.code[o] = s.code[o]
  BY <1>0, EmitFields
<1>s. Sound(t)
  BY EmitSound
<1> HIDE DEF t
<1>2. s.count \in Nat /\ \A o \in DOMAIN s.code : o \in Nat /\ o < s.count
  BY DEF Sound, Shape, CodeShape
<1>3. t.failed = s.failed /\ t.captured = s.captured /\ s.captured \in Seq(Name)
  BY <1>1 DEF Kept, Fields, Sound, Shape
<1>4. Kept(s, t, {"code", "count", "lastCall", "locals", "captured", "outer", "params", "failed"})
  BY <1>1 DEF Kept
<1>5. SameBelow(s, t, s.count) /\ s.count <= t.count
  BY <1>1, <1>2 DEF SameBelow
<1>6. Longer(s.captured, t.captured)
  BY <1>3 DEF Longer
<1>7. ASSUME NEW o \in DOMAIN t.code, o >= s.count PROVE NewOk(s, t, o)
  <2>1. o = s.count
    BY <1>1, <1>2, <1>7
  <2>2. /\ t.code[o] = Instruction(s, op, words, arg, meant) /\ t.code[o].op = op
        /\ t.code[o].line = s.line /\ t.code[o].body = s.body /\ t.code[o].arg = arg /\ t.code[o].meant = meant
    BY <2>1, <1>1 DEF Instruction
  <2> QED BY <2>2, <1>3 DEF NewOk, SlotOf
<1> QED BY <1>s, <1>3, <1>4, <1>5, <1>6, <1>7 DEF Adds, t

----
\* Changes of the parser's names only.

LEMMA NamesSelf == ASSUME NEW s, Sound(s) PROVE Names(s, s)
BY DEF Names, Kept, Longer, Sound, Shape

LEMMA NamesAdd ==
  ASSUME NEW s, NEW t, Sound(s), Names(s, t)
  PROVE  Adds(s, t) /\ t.code = s.code /\ t.count = s.count /\ t.lastCall = s.lastCall /\ t.capturing = s.capturing
<1>1. /\ t.code = s.code /\ t.count = s.count /\ t.lastCall = s.lastCall /\ t.line = s.line
      /\ t.body = s.body /\ t.capturing = s.capturing /\ t.depth = s.depth
  BY DEF Names, Kept, Fields
<1>2. Shape(t)
  BY <1>1 DEF Names, Sound, Shape
<1>3. CodeShape(t)
  BY <1>1 DEF Sound, CodeShape
<1>4. Tiled(t)
  BY <1>1 DEF Sound, Tiled
<1>5. CallKnown(t)
  BY <1>1 DEF Sound, CallKnown
<1>6. Sound(t)
  BY <1>2, <1>3, <1>4, <1>5 DEF Sound
<1>7. Kept(s, t, {"code", "count", "lastCall", "locals", "captured", "outer", "params", "failed"})
  BY DEF Names, Kept
<1>8. s.count <= t.count /\ \A o \in DOMAIN t.code : ~ o >= s.count
  BY <1>1 DEF Sound, Shape, CodeShape
<1>9. SameBelow(s, t, s.count)
  BY <1>1 DEF SameBelow
<1> QED BY <1>1, <1>6, <1>7, <1>8, <1>9 DEF Adds, Names

LEMMA ClassifyNames ==
  ASSUME NEW s, Sound(s), NEW n \in Name, NEW asWrite
  PROVE  LET t == capture_classify(s, n, asWrite) IN
         /\ Names(s, t) /\ t.params = s.params /\ t.outer = s.outer
         /\ MustCapture(s, n, asWrite) => t.failed \/ IsCaptured(t, n)
<1> DEFINE t == capture_classify(s, n, asWrite)
<1>1. /\ DOMAIN s = Fields /\ s.failed \in BOOLEAN /\ s.locals \subseteq Name /\ s.outer \subseteq Name
      /\ s.captured \in Seq(Name) /\ s.params \in Seq(Name) /\ Len(s.captured) <= CaptureMax
      /\ CaptureMax \in Nat
  BY BytecodeAssumption DEF Sound, Shape
<1>2. CASE n \in s.locals \/ IsCaptured(s, n)
  <2>1. t = s
    BY <1>2 DEF capture_classify
  <2> QED BY <1>1, <1>2, <2>1 DEF Names, Kept, Longer, MustCapture
<1>3. CASE ~ (n \in s.locals \/ IsCaptured(s, n)) /\ ~ MustCapture(s, n, asWrite)
  <2>1. t = s \/ t = [s EXCEPT !.locals = @ \cup {n}]
    BY <1>3 DEF capture_classify
  <2> QED BY <1>1, <1>3, <2>1 DEF Names, Kept, Longer, Fields
<1>4. CASE ~ (n \in s.locals \/ IsCaptured(s, n)) /\ MustCapture(s, n, asWrite) /\ Len(s.captured) < CaptureMax
  <2>1. t = [s EXCEPT !.captured = Append(@, n)]
    BY <1>4 DEF capture_classify
  <2>2. /\ DOMAIN t = Fields /\ t.captured = Append(s.captured, n) /\ Kept(s, t, {"captured"})
    BY <2>1, <1>1 DEF Kept, Fields
  <2> HIDE DEF t
  <2>3. /\ t.captured \in Seq(Name) /\ Len(t.captured) = Len(s.captured) + 1
        /\ Longer(s.captured, t.captured) /\ t.captured[Len(t.captured)] = n /\ Len(s.captured) \in Nat
        /\ DOMAIN t.captured = 1 .. Len(s.captured) + 1
    BY <2>2, <1>1, AppendFacts, SeqFacts DEF Longer
  <2>4. IsCaptured(t, n)
    BY <2>3 DEF IsCaptured, Contains
  <2>5. /\ t.failed = s.failed /\ t.locals = s.locals /\ t.outer = s.outer /\ t.params = s.params
    BY <2>2 DEF Kept, Fields
  <2>6. Kept(s, t, {"locals", "captured", "outer", "params", "failed"})
    BY <2>2 DEF Kept
  <2> QED BY <2>2, <2>3, <2>4, <2>5, <2>6, <1>1, <1>4 DEF Names, t
<1>5. CASE ~ (n \in s.locals \/ IsCaptured(s, n)) /\ MustCapture(s, n, asWrite) /\ ~ Len(s.captured) < CaptureMax
  <2>1. t = [s EXCEPT !.failed = TRUE]
    BY <1>5 DEF capture_classify
  <2> QED BY <1>1, <2>1 DEF Names, Kept, Longer, Fields
<1> QED BY <1>2, <1>3, <1>4, <1>5

LEMMA CaptureSlot ==
  ASSUME NEW s, Sound(s), NEW n, IsCaptured(s, n)
  PROVE  capture_slot(s, n) \in DOMAIN s.captured /\ s.captured[capture_slot(s, n)] = n
<1> DEFINE I == {i \in 1 .. Len(s.captured) : s.captured[i] = n}
<1>0. s.captured \in Seq(Name)
  BY DEF Sound, Shape
<1>1. Len(s.captured) \in Nat /\ DOMAIN s.captured = 1 .. Len(s.captured)
  BY <1>0, SeqFacts
<1>2. I # {} /\ I \in SUBSET Nat
  BY <1>1, <1>0 DEF IsCaptured, Contains
<1>3. Min(I) \in I
  BY <1>2, MinFacts
<1>4. capture_slot(s, n) = Min(I)
  BY <1>2 DEF capture_slot, SelectInSeq
<1> QED BY <1>1, <1>3, <1>4

LEMMA PlainAdds ==
  ASSUME NEW s, Sound(s), NEW op \in Plain, NEW words \in Nat \ {0}, NEW arg, NEW meant
  PROVE  Adds(s, chunk_emit(s, op, words, arg, meant))
<1>1. op \notin Calls \cup Upvalue \cup {"PUSH_FUNCTION", "MAKE_CLOSURE", "TAIL_CALL", "COMPOUND"}
  BY DEF Plain, Calls, Upvalue
<1> QED BY <1>1, EmitAdds

LEMMA EmitAt ==
  ASSUME NEW s, Sound(s), NEW op, NEW words, NEW arg, NEW meant
  PROVE  LET t == chunk_emit(s, op, words, arg, meant) IN
         /\ At(t, s.count, op, meant) /\ t.count = s.count + words
         /\ Kept(s, t, {"code", "count"})
<1> DEFINE t == chunk_emit(s, op, words, arg, meant)
<1>1. DOMAIN s = Fields
  BY DEF Sound, Shape
<1>2. /\ Kept(s, t, {"code", "count"}) /\ t.count = s.count + words
      /\ DOMAIN t.code = DOMAIN s.code \cup {s.count}
      /\ t.code[s.count] = Instruction(s, op, words, arg, meant)
  BY <1>1, EmitFields
<1> HIDE DEF t
<1>3. t.code[s.count].op = op /\ t.code[s.count].meant = meant
  BY <1>2 DEF Instruction
<1> QED BY <1>2, <1>3 DEF At, t

LEMMA LoadAdds ==
  ASSUME NEW s, Sound(s), NEW n \in Name
  PROVE  LoadFacts(s, emit_load(s, n), n)
<1> DEFINE t == IF s.capturing THEN capture_classify(s, n, FALSE) ELSE s
           u == emit_load(s, n)
<1>1. /\ Names(s, t) /\ t.params = s.params /\ t.outer = s.outer
      /\ s.capturing /\ MustCapture(s, n, FALSE) => t.failed \/ IsCaptured(t, n)
  <2>1. CASE s.capturing
    BY <2>1, ClassifyNames
  <2>2. CASE ~ s.capturing
    <3>1. t = s
      BY <2>2
    <3> HIDE DEF t
    <3> QED BY <2>2, <3>1, NamesSelf
  <2> QED BY <2>1, <2>2
<1>2. \/ s.capturing /\ MustCapture(s, n, FALSE) /\ u = chunk_emit(t, "LOAD_UPVALUE", 2, capture_slot(t, n), n)
      \/ u = chunk_emit(t, "LOAD_LOCAL", 2, current_param_slot(s, n), n)
      \/ u = chunk_emit(t, "LOAD", 3, n, n)
  BY DEF emit_load
<1> HIDE DEF t, u
<1>3. /\ Adds(s, t) /\ Sound(t) /\ t.count = s.count /\ t.lastCall = s.lastCall
      /\ t.capturing = s.capturing
  BY <1>1, NamesAdd DEF Adds
<1>4. CASE s.capturing /\ MustCapture(s, n, FALSE) /\ u = chunk_emit(t, "LOAD_UPVALUE", 2, capture_slot(t, n), n)
  <2>1. t.failed \/ (capture_slot(t, n) \in DOMAIN t.captured /\ t.captured[capture_slot(t, n)] = n)
    BY <1>1, <1>3, <1>4, CaptureSlot
  <2>2. "LOAD_UPVALUE" \notin Calls \cup {"PUSH_FUNCTION", "MAKE_CLOSURE", "TAIL_CALL", "COMPOUND"}
    BY DEF Calls
  <2>3. Adds(t, u)
    <3>1. 2 \in Nat \ {0}
      OBVIOUS
    <3> QED BY <1>3, <1>4, <2>1, <2>2, <3>1, EmitAdds
  <2>4. At(u, s.count, "LOAD_UPVALUE", n) /\ u.count = s.count + 2 /\ Kept(t, u, {"code", "count"})
    BY <1>3, <1>4, EmitAt
  <2>5. Kept(s, u, {"code", "count", "locals", "captured", "failed"})
    BY <2>4, <1>1 DEF Kept, Names
  <2>6. Adds(s, u)
    BY <1>3, <2>3, AddsTransitive
  <2> QED BY <2>4, <2>5, <2>6 DEF LoadFacts, u
<1>5. ASSUME NEW op \in Plain, NEW w \in Nat \ {0}, NEW arg, u = chunk_emit(t, op, w, arg, n)
      PROVE  Adds(s, u) /\ At(u, s.count, op, n) /\ u.count = s.count + w
               /\ Kept(s, u, {"code", "count", "locals", "captured", "failed"})
  <2>1. Adds(t, u)
    BY <1>3, <1>5, PlainAdds
  <2>2. At(u, s.count, op, n) /\ u.count = s.count + w /\ Kept(t, u, {"code", "count"})
    BY <1>3, <1>5, EmitAt
  <2>3. Kept(s, u, {"code", "count", "locals", "captured", "failed"})
    BY <2>2, <1>1 DEF Kept, Names
  <2> QED BY <1>3, <2>1, <2>2, <2>3, AddsTransitive
<1>6. {"LOAD_LOCAL", "LOAD"} \subseteq Plain /\ 2 \in Nat \ {0} /\ 3 \in Nat \ {0}
  BY DEF Plain
<1>7. CASE u = chunk_emit(t, "LOAD_LOCAL", 2, current_param_slot(s, n), n)
  <2>1. /\ Adds(s, u) /\ At(u, s.count, "LOAD_LOCAL", n) /\ u.count = s.count + 2
        /\ Kept(s, u, {"code", "count", "locals", "captured", "failed"})
    BY <1>5, <1>6, <1>7
  <2> QED BY <2>1 DEF LoadFacts, u
<1>8. CASE u = chunk_emit(t, "LOAD", 3, n, n)
  <2>1. /\ Adds(s, u) /\ At(u, s.count, "LOAD", n) /\ u.count = s.count + 3
        /\ Kept(s, u, {"code", "count", "locals", "captured", "failed"})
    BY <1>5, <1>6, <1>8
  <2> QED BY <2>1 DEF LoadFacts, u
<1> QED BY <1>2, <1>4, <1>7, <1>8 DEF u

LEMMA OuterAdds ==
  ASSUME NEW s, Sound(s), NEW n \in Name
  PROVE  LET t == outer_locals_add(s, n) IN
         /\ Names(s, t) /\ Kept(s, t, {"outer"}) /\ s.outer \subseteq t.outer
<1>1. /\ DOMAIN s = Fields /\ s.failed \in BOOLEAN /\ s.locals \subseteq Name /\ s.outer \subseteq Name
      /\ s.captured \in Seq(Name) /\ s.params \in Seq(Name) /\ Len(s.captured) <= CaptureMax
  BY DEF Sound, Shape
<1>2. Longer(s.captured, s.captured)
  BY <1>1 DEF Longer
<1>3. CASE s.depth = 1 /\ Room(s.outer)
  <2> DEFINE t == [s EXCEPT !.outer = @ \cup {n}]
  <2>1. outer_locals_add(s, n) = t
    BY <1>3 DEF outer_locals_add
  <2>2. DOMAIN t = Fields /\ t.outer = s.outer \cup {n} /\ Kept(s, t, {"outer"})
    BY <1>1 DEF Fields, Kept
  <2> HIDE DEF t
  <2>3. t.failed = s.failed /\ t.locals = s.locals /\ t.captured = s.captured /\ t.params = s.params
    BY <2>2 DEF Kept, Fields
  <2>4. Kept(s, t, {"locals", "captured", "outer", "params", "failed"})
    BY <2>2 DEF Kept
  <2> QED BY <1>1, <1>2, <2>1, <2>2, <2>3, <2>4 DEF Names
<1>4. CASE ~ (s.depth = 1 /\ Room(s.outer))
  <2>1. outer_locals_add(s, n) = s
    BY <1>4 DEF outer_locals_add
  <2> QED BY <1>1, <1>2, <2>1 DEF Names, Kept
<1> QED BY <1>3, <1>4

LEMMA StoreAdds ==
  ASSUME NEW s, Sound(s), NEW n \in Name
  PROVE  LET u == emit_store(s, n) IN
         /\ Adds(s, u) /\ u.count > s.count /\ Kept(s, u, {"code", "count", "locals", "captured", "outer", "failed"})
<1> DEFINE o == outer_locals_add(s, n)
           t == IF s.capturing THEN capture_classify(o, n, TRUE) ELSE o
           u == emit_store(s, n)
<1>1. Names(s, o) /\ Kept(s, o, {"outer"})
  BY OuterAdds
<1>2. Adds(s, o) /\ Sound(o) /\ o.count = s.count /\ o.capturing = s.capturing
  BY <1>1, NamesAdd DEF Adds
<1>3. \/ s.capturing /\ MustCapture(o, n, TRUE) /\ u = chunk_emit(t, "STORE_UPVALUE", 2, capture_slot(t, n), n)
      \/ u = chunk_emit(t, "DEFINE", 2, n, n)
      \/ u = chunk_emit(t, "STORE_LOCAL", 2, current_param_slot(s, n), n)
      \/ u = chunk_emit(t, "STORE", 3, n, n)
  BY DEF emit_store
<1> HIDE DEF o
<1>4. /\ Names(o, t) /\ t.params = o.params /\ t.outer = o.outer
      /\ s.capturing /\ MustCapture(o, n, TRUE) => t.failed \/ IsCaptured(t, n)
  <2>1. CASE s.capturing
    BY <1>2, <2>1, ClassifyNames
  <2>2. CASE ~ s.capturing
    <3>1. t = o
      BY <2>2
    <3> HIDE DEF t
    <3> QED BY <1>2, <2>2, <3>1, NamesSelf
  <2> QED BY <2>1, <2>2
<1> HIDE DEF t, u
<1>5. Adds(o, t) /\ Sound(t) /\ t.count = o.count /\ t.capturing = o.capturing
  BY <1>2, <1>4, NamesAdd DEF Adds
<1>6. Adds(s, t)
  BY <1>2, <1>5, AddsTransitive
<1>7. Kept(s, t, {"locals", "captured", "outer", "failed"})
  <2>1. o.params = s.params
    BY <1>1 DEF Kept, Fields
  <2> QED BY <1>1, <1>4, <2>1 DEF Kept, Names
<1>8. ASSUME NEW op, NEW w \in Nat \ {0}, NEW arg, u = chunk_emit(t, op, w, arg, n), Adds(t, u)
      PROVE  /\ Adds(s, u) /\ u.count > s.count
             /\ Kept(s, u, {"code", "count", "locals", "captured", "outer", "failed"})
  <2>1. u.count = t.count + w /\ Kept(t, u, {"code", "count"})
    BY <1>5, <1>8, EmitAt
  <2>2. t.count \in Nat
    BY <1>5 DEF Sound, Shape
  <2>3. u.count > s.count
    BY <2>1, <2>2, <1>2, <1>5
  <2>4. Kept(s, u, {"code", "count", "locals", "captured", "outer", "failed"})
    BY <2>1, <1>7 DEF Kept
  <2> QED BY <2>3, <2>4, <1>6, <1>8, AddsTransitive
<1>9. CASE s.capturing /\ MustCapture(o, n, TRUE) /\ u = chunk_emit(t, "STORE_UPVALUE", 2, capture_slot(t, n), n)
  <2>1. t.failed \/ (capture_slot(t, n) \in DOMAIN t.captured /\ t.captured[capture_slot(t, n)] = n)
    BY <1>4, <1>5, <1>9, CaptureSlot
  <2>2. "STORE_UPVALUE" \notin Calls \cup {"PUSH_FUNCTION", "MAKE_CLOSURE", "TAIL_CALL", "COMPOUND"}
    BY DEF Calls
  <2>3. Adds(t, u)
    <3>1. 2 \in Nat \ {0}
      OBVIOUS
    <3> QED BY <1>2, <1>5, <1>9, <2>1, <2>2, <3>1, EmitAdds
  <2>4. 2 \in Nat \ {0}
    OBVIOUS
  <2> QED BY <1>8, <1>9, <2>3, <2>4 DEF u
<1>10. {"DEFINE", "STORE_LOCAL", "STORE"} \subseteq Plain /\ 2 \in Nat \ {0} /\ 3 \in Nat \ {0}
  BY DEF Plain
<1>11. CASE u = chunk_emit(t, "DEFINE", 2, n, n)
  <2>1. Adds(t, u)
    BY <1>5, <1>10, <1>11, PlainAdds
  <2> QED BY <1>8, <1>10, <1>11, <2>1 DEF u
<1>12. CASE u = chunk_emit(t, "STORE_LOCAL", 2, current_param_slot(s, n), n)
  <2>1. Adds(t, u)
    BY <1>5, <1>10, <1>12, PlainAdds
  <2> QED BY <1>8, <1>10, <1>12, <2>1 DEF u
<1>13. CASE u = chunk_emit(t, "STORE", 3, n, n)
  <2>1. Adds(t, u)
    BY <1>5, <1>10, <1>13, PlainAdds
  <2> QED BY <1>8, <1>10, <1>13, <2>1 DEF u
<1> QED BY <1>3, <1>9, <1>11, <1>12, <1>13 DEF u

LEMMA ParamAdds ==
  ASSUME NEW s, Sound(s), NEW n \in Name
  PROVE  LET u == emit_define_param(s, n) IN
         Adds(s, u) /\ u.count > s.count /\ Kept(s, u, {"code", "count", "locals", "outer", "params"})
<1> DEFINE o == outer_locals_add(s, n)
           t == IF s.capturing /\ ~ IsCaptured(o, n) /\ Room(o.locals) THEN [o EXCEPT !.locals = @ \cup {n}] ELSE o
           v == [t EXCEPT !.params = Append(@, n)]
           u == emit_define_param(s, n)
<1>1. u = chunk_emit(v, "DEFINE_LOCAL", 3, Len(s.params) + 1, n)
  BY DEF emit_define_param
<1>2. Names(s, o) /\ Kept(s, o, {"outer"})
  BY OuterAdds
<1>3. Adds(s, o) /\ Sound(o) /\ o.count = s.count
  BY <1>2, NamesAdd DEF Adds
<1> HIDE DEF o
<1>4. Names(o, t)
  <2>1. CASE t = o
    <3> HIDE DEF t
    <3> QED BY <1>3, <2>1, NamesSelf
  <2>2. CASE t = [o EXCEPT !.locals = @ \cup {n}]
    <3> HIDE DEF t
    <3>1. /\ DOMAIN o = Fields /\ o.failed \in BOOLEAN /\ o.locals \subseteq Name /\ o.outer \subseteq Name
          /\ o.captured \in Seq(Name) /\ o.params \in Seq(Name) /\ Len(o.captured) <= CaptureMax
      BY <1>3 DEF Sound, Shape
    <3>2. DOMAIN t = Fields /\ t.locals = o.locals \cup {n} /\ Kept(o, t, {"locals"})
      BY <2>2, <3>1 DEF Fields, Kept
    <3>3. /\ t.failed = o.failed /\ t.outer = o.outer /\ t.captured = o.captured /\ t.params = o.params
          /\ Kept(o, t, {"locals", "captured", "outer", "params", "failed"})
      BY <3>2 DEF Kept, Fields
    <3> QED BY <3>1, <3>2, <3>3 DEF Names, Longer
  <2> QED BY <2>1, <2>2
<1>5. Adds(o, t) /\ Sound(t) /\ t.count = o.count
  <2>1. Sound(o)
    BY <1>3
  <2>2. Adds(o, t) /\ t.count = o.count
    BY <1>4, <2>1, NamesAdd
  <2> QED BY <2>2 DEF Adds
<1>k. Kept(o, t, {"locals"})
  <2>1. DOMAIN o = Fields
    BY <1>3 DEF Sound, Shape
  <2> QED BY <2>1 DEF Kept, Fields
<1> HIDE DEF t
<1>6. Names(t, v)
  <2>1. /\ DOMAIN t = Fields /\ t.failed \in BOOLEAN /\ t.locals \subseteq Name /\ t.outer \subseteq Name
        /\ t.captured \in Seq(Name) /\ t.params \in Seq(Name) /\ Len(t.captured) <= CaptureMax
    BY <1>5 DEF Sound, Shape
  <2>2. DOMAIN v = Fields /\ v.params = Append(t.params, n) /\ Kept(t, v, {"params"})
    BY <2>1 DEF Fields, Kept
  <2> HIDE DEF v
  <2>3. /\ v.failed = t.failed /\ v.outer = t.outer /\ v.captured = t.captured /\ v.locals = t.locals
        /\ Kept(t, v, {"locals", "captured", "outer", "params", "failed"})
    BY <2>2 DEF Kept, Fields
  <2>4. v.params \in Seq(Name)
    BY <2>1, <2>2, AppendFacts
  <2> QED BY <2>1, <2>2, <2>3, <2>4 DEF Names, Longer
<1>7. Adds(t, v) /\ Sound(v) /\ v.count = t.count
  BY <1>5, <1>6, NamesAdd DEF Adds
<1>l. Kept(t, v, {"params"})
  <2>1. DOMAIN t = Fields
    BY <1>5 DEF Sound, Shape
  <2> QED BY <2>1 DEF Kept, Fields
<1> HIDE DEF v
<1>8. "DEFINE_LOCAL" \in Plain /\ 3 \in Nat \ {0}
  BY DEF Plain
<1> HIDE DEF u
<1>9. Adds(v, u)
  BY <1>1, <1>7, <1>8, PlainAdds
<1>10. u.count = v.count + 3 /\ Kept(v, u, {"code", "count"})
  BY <1>1, <1>7, EmitAt
<1>m. Kept(s, u, {"code", "count", "locals", "outer", "params"})
  BY <1>2, <1>k, <1>l, <1>10 DEF Kept
<1>11. v.count \in Nat
  BY <1>7 DEF Sound, Shape
<1>12. u.count > s.count
  BY <1>3, <1>5, <1>7, <1>10, <1>11
<1>13. Adds(s, t)
  BY <1>3, <1>5, AddsTransitive
<1>14. Adds(s, v)
  BY <1>7, <1>13, AddsTransitive
<1> QED BY <1>9, <1>12, <1>14, <1>m, AddsTransitive DEF u

LEMMA CallAdds ==
  ASSUME NEW s, Sound(s)
  PROVE  LET u == parse_call_args(s) IN
         /\ Adds(s, u) /\ At(u, s.count, "CALL", Callee) /\ u.count = s.count + 4 /\ u.lastCall = u.count
         /\ Kept(s, u, {"code", "count", "lastCall"})
<1> DEFINE t == chunk_emit(s, "CALL", 4, Callee, Callee)
           u == [t EXCEPT !.lastCall = t.count]
<1>0. parse_call_args(s) = u
  BY DEF parse_call_args
<1>1. 4 \in Nat \ {0} /\ "CALL" \notin Upvalue /\ "CALL" # "COMPOUND" /\ "CALL" \notin {"PUSH_FUNCTION", "MAKE_CLOSURE", "TAIL_CALL"}
  BY DEF Upvalue
<1>2. Adds(s, t)
  BY <1>1, EmitAdds
<1>3. At(t, s.count, "CALL", Callee) /\ t.count = s.count + 4 /\ Kept(s, t, {"code", "count"})
  BY EmitAt
<1> HIDE DEF t
<1>4. Sound(t) /\ s.count \in Nat
  BY <1>2 DEF Adds, Sound, Shape
<1>5. DOMAIN u = Fields /\ u.lastCall = t.count /\ Kept(t, u, {"lastCall"})
  BY <1>4 DEF Sound, Shape, Fields, Kept
<1> HIDE DEF u
<1>6. /\ u.code = t.code /\ u.count = t.count /\ u.failed = t.failed /\ u.captured = t.captured
      /\ u.locals = t.locals /\ u.outer = t.outer /\ u.params = t.params /\ u.depth = t.depth
      /\ u.line = t.line /\ u.body = t.body /\ u.capturing = t.capturing
  BY <1>5 DEF Kept, Fields
<1>7. Shape(u)
  BY <1>3, <1>4, <1>5, <1>6 DEF Sound, Shape
<1>8. CodeShape(u)
  BY <1>4, <1>6 DEF Sound, CodeShape
<1>9. Tiled(u)
  BY <1>4, <1>6 DEF Sound, Tiled
<1>10. CallKnown(u)
  <2>1. u.lastCall = s.count + 4 /\ u.lastCall - 4 = s.count /\ u.lastCall >= 4
    BY <1>3, <1>4, <1>5
  <2> QED BY <2>1, <1>3, <1>6 DEF CallKnown, At, Calls
<1>11. Sound(u)
  BY <1>7, <1>8, <1>9, <1>10 DEF Sound
<1>12. Kept(s, u, {"code", "count", "lastCall"})
  BY <1>3, <1>5 DEF Kept
<1>13. Kept(s, u, {"code", "count", "lastCall", "locals", "captured", "outer", "params", "failed"})
  BY <1>12 DEF Kept
<1>14. SameBelow(s, u, s.count) /\ s.count <= u.count
  BY <1>2, <1>6 DEF Adds, SameBelow
<1>15. Longer(s.captured, u.captured) /\ (s.failed => u.failed)
  BY <1>2, <1>6 DEF Adds
<1>16. \A o \in DOMAIN u.code : o >= s.count => NewOk(s, u, o)
  BY <1>2, <1>6 DEF Adds, NewOk, SlotOf
<1>17. Adds(s, u)
  BY <1>11, <1>13, <1>14, <1>15, <1>16 DEF Adds
<1>18. At(u, s.count, "CALL", Callee) /\ u.count = s.count + 4 /\ u.lastCall = u.count
  BY <1>3, <1>5, <1>6 DEF At
<1> QED BY <1>0, <1>12, <1>17, <1>18

LEMMA LastCallBound ==
  ASSUME NEW s, Sound(s) PROVE s.lastCall \in Nat /\ s.count \in Nat /\ s.lastCall <= s.count
<1>1. s.lastCall \in Nat /\ s.count \in Nat
  BY DEF Sound, Shape
<1>2. CASE s.lastCall # 0
  <2>1. /\ s.lastCall - 4 \in DOMAIN s.code /\ s.code[s.lastCall - 4].op \in Calls
    BY <1>2 DEF Sound, CallKnown
  <2>2. s.lastCall - 4 + 4 <= s.count
    BY <2>1 DEF Sound, CodeShape
  <2> QED BY <1>1, <2>2
<1> QED BY <1>1, <1>2

LEMMA UnaryAdds ==
  ASSUME NEW s, Sound(s), NEW e, Expr(e)
  PROVE  UnaryFacts(s, parse_unary(s, e), e)
<1> DEFINE t == CASE e.form = "literal" -> chunk_emit(s, "PUSH", 2, 0, 0)
                  [] e.form = "name"    -> emit_load(s, e.name)
                  [] e.form = "call"    -> parse_call_args(s)
           u == parse_unary(s, e)
           kept == {"code", "count", "lastCall", "locals", "captured", "failed"}
<1>0. s.count \in Nat /\ s.lastCall \in Nat /\ s.lastCall <= s.count
  BY LastCallBound
<1>1. u = IF e.negated THEN chunk_emit(t, "NEGATE", 1, 0, 0) ELSE t
  BY DEF parse_unary
<1>2. e.form \in {"literal", "name", "call"} /\ e.negated \in BOOLEAN
  BY DEF Expr, Expression
<1>3. /\ Adds(s, t) /\ Kept(s, t, kept) /\ t.count > s.count /\ t.lastCall <= t.count
      /\ \/ e.form = "literal" /\ At(t, s.count, "PUSH", 0) /\ t.count = s.count + 2 /\ t.lastCall = s.lastCall
         \/ /\ e.form = "name" /\ t.lastCall = s.lastCall
            /\ \/ At(t, s.count, "LOAD_UPVALUE", e.name) /\ t.count = s.count + 2
               \/ At(t, s.count, "LOAD_LOCAL", e.name) /\ t.count = s.count + 2
               \/ At(t, s.count, "LOAD", e.name) /\ t.count = s.count + 3
         \/ e.form = "call" /\ At(t, s.count, "CALL", Callee) /\ t.count = s.count + 4 /\ t.lastCall = s.count + 4
  <2>1. CASE e.form = "literal"
    <3>1. t = chunk_emit(s, "PUSH", 2, 0, 0)
      BY <2>1
    <3> HIDE DEF t
    <3>2. "PUSH" \in Plain /\ 2 \in Nat \ {0}
      BY DEF Plain
    <3>3. Adds(s, t)
      BY <3>1, <3>2, PlainAdds
    <3>4. At(t, s.count, "PUSH", 0) /\ t.count = s.count + 2 /\ Kept(s, t, {"code", "count"})
      BY <3>1, EmitAt
    <3>5. t.lastCall = s.lastCall /\ Kept(s, t, kept)
      BY <3>4 DEF Kept, Fields
    <3> QED BY <1>0, <2>1, <3>3, <3>4, <3>5
  <2>2. CASE e.form = "name"
    <3>1. t = emit_load(s, e.name) /\ e.name \in Name
      BY <2>2 DEF Expr
    <3> HIDE DEF t
    <3>2. LoadFacts(s, t, e.name)
      BY <3>1, LoadAdds
    <3>3. t.lastCall = s.lastCall /\ Kept(s, t, kept)
      BY <3>2 DEF LoadFacts, Kept, Fields
    <3> QED BY <1>0, <2>2, <3>2, <3>3 DEF LoadFacts
  <2>3. CASE e.form = "call"
    <3>1. t = parse_call_args(s)
      BY <2>3
    <3> HIDE DEF t
    <3>2. /\ Adds(s, t) /\ At(t, s.count, "CALL", Callee) /\ t.count = s.count + 4 /\ t.lastCall = t.count
          /\ Kept(s, t, {"code", "count", "lastCall"})
      BY <3>1, CallAdds
    <3>3. Kept(s, t, kept)
      BY <3>2 DEF Kept
    <3> QED BY <1>0, <2>3, <3>2, <3>3
  <2> QED BY <1>2, <2>1, <2>2, <2>3
<1> HIDE DEF t, u
<1>4. CASE ~ e.negated
  <2>1. u = t
    BY <1>1, <1>4
  <2> QED BY <1>0, <1>3, <1>4, <2>1 DEF UnaryFacts, u
<1>5. CASE e.negated
  <2>1. u = chunk_emit(t, "NEGATE", 1, 0, 0) /\ Sound(t)
    BY <1>1, <1>3, <1>5 DEF Adds
  <2>2. "NEGATE" \in Plain /\ 1 \in Nat \ {0}
    BY DEF Plain
  <2>3. Adds(t, u)
    BY <2>1, <2>2, PlainAdds
  <2>4. u.count = t.count + 1 /\ Kept(t, u, {"code", "count"})
    BY <2>1, EmitAt
  <2>5. Adds(s, u)
    BY <1>3, <2>3, AddsTransitive
  <2>6. u.lastCall = t.lastCall /\ Kept(s, u, kept)
    BY <2>4, <1>3 DEF Kept, Fields
  <2>7. t.count \in Nat /\ t.lastCall \in Nat
    BY <2>1 DEF Sound, Shape
  <2>8. \A op, n : At(t, s.count, op, n) => At(u, s.count, op, n)
    BY <1>0, <1>3, <2>3 DEF At, Adds, SameBelow
  <2> QED BY <1>0, <1>3, <1>5, <2>4, <2>5, <2>6, <2>7, <2>8 DEF UnaryFacts, u
<1> QED BY <1>2, <1>4, <1>5

LEMMA TruncatedFields ==
  ASSUME NEW t, DOMAIN t = Fields, NEW c
  PROVE  LET u == Truncated(t, c) IN
         /\ DOMAIN u = Fields /\ Kept(t, u, {"code", "count"}) /\ u.count = c
         /\ DOMAIN u.code = {q \in DOMAIN t.code : q < c}
         /\ \A o \in DOMAIN u.code : u.code[o] = t.code[o]
BY DEF Truncated, Fields, Kept

LEMMA TruncatedSound ==
  ASSUME NEW t, Sound(t), NEW c \in Nat, c <= t.count, Boundary(t, c), t.body <= c,
         t.lastCall # 0 => t.lastCall - 4 < c
  PROVE  Sound(Truncated(t, c))
<1> DEFINE u == Truncated(t, c)
<1>1. /\ DOMAIN u = Fields /\ Kept(t, u, {"code", "count"}) /\ u.count = c
      /\ DOMAIN u.code = {q \in DOMAIN t.code : q < c}
      /\ \A o \in DOMAIN u.code : u.code[o] = t.code[o]
  <2>1. DOMAIN t = Fields
    BY DEF Sound, Shape
  <2> QED BY <2>1, TruncatedFields
<1> HIDE DEF u
<1>2. /\ u.failed = t.failed /\ u.captured = t.captured /\ u.lastCall = t.lastCall
      /\ u.locals = t.locals /\ u.outer = t.outer /\ u.params = t.params /\ u.depth = t.depth
      /\ u.line = t.line /\ u.body = t.body /\ u.capturing = t.capturing
  BY <1>1 DEF Kept, Fields
<1>3. Shape(u)
  BY <1>1, <1>2 DEF Sound, Shape
<1>4. CodeShape(u)
  BY <1>1 DEF Sound, CodeShape, Boundary
<1>5. Tiled(u)
  <2>0. t.count \in Nat /\ \A o \in DOMAIN t.code : o \in Nat
    BY DEF Sound, Shape, CodeShape
  <2>1. ASSUME NEW x \in Nat, x < u.count
        PROVE  \E o \in DOMAIN u.code : o <= x /\ x < o + u.code[o].words
    <3>1. x < t.count
      BY <2>0, <2>1, <1>1
    <3>2. PICK o \in DOMAIN t.code : o <= x /\ x < o + t.code[o].words
      BY <3>1 DEF Sound, Tiled
    <3>3. o < c
      BY <2>0, <2>1, <3>2, <1>1
    <3> QED BY <3>2, <3>3, <1>1
  <2> QED BY <2>1, <1>1 DEF Sound, Tiled
<1>6. CallKnown(u)
  <2> SUFFICES ASSUME u.lastCall # 0
               PROVE  /\ u.lastCall >= 4 /\ u.lastCall - 4 \in DOMAIN u.code
                      /\ u.code[u.lastCall - 4].op \in Calls
    BY DEF CallKnown
  <2>1. /\ t.lastCall >= 4 /\ t.lastCall - 4 \in DOMAIN t.code
        /\ t.code[t.lastCall - 4].op \in Calls /\ t.lastCall - 4 < c
    BY <1>2 DEF Sound, CallKnown
  <2> QED BY <2>1, <1>1, <1>2
<1> QED BY <1>3, <1>4, <1>5, <1>6 DEF Sound, u

LEMMA PatchedFields ==
  ASSUME NEW t, Sound(t), t.count - 4 \in DOMAIN t.code
  PROVE  LET p == Patched(t)
             at == t.count - 4
         IN  /\ DOMAIN p = Fields /\ Kept(t, p, {"code"}) /\ DOMAIN p.code = DOMAIN t.code
             /\ \A o \in DOMAIN t.code : o # at => p.code[o] = t.code[o]
             /\ DOMAIN p.code[at] = DOMAIN t.code[at]
             /\ p.code[at].op = "TAIL_CALL" /\ p.code[at].words = t.code[at].words
             /\ p.code[at].line = t.code[at].line /\ p.code[at].body = t.code[at].body
             /\ p.code[at].meant = t.code[at].meant
<1> DEFINE p == Patched(t)
           at == t.count - 4
           q == [t.code[at] EXCEPT !.op = "TAIL_CALL"]
<1>1. DOMAIN t = Fields /\ DOMAIN t.code[at] = {"op", "words", "arg", "meant", "line", "body"}
  BY DEF Sound, Shape, CodeShape
<1>2. p = [t EXCEPT !.code = [o \in DOMAIN @ \cup {at} |-> IF o = at THEN q ELSE @[o]]]
  BY DEF Patched
<1>3. /\ q.op = "TAIL_CALL" /\ q.words = t.code[at].words /\ q.line = t.code[at].line
      /\ q.body = t.code[at].body /\ q.meant = t.code[at].meant /\ DOMAIN q = DOMAIN t.code[at]
  BY <1>1
<1> HIDE DEF q, p
<1>4. at \in DOMAIN t.code
  OBVIOUS
<1> HIDE DEF at
<1>5. /\ DOMAIN p = Fields /\ Kept(t, p, {"code"})
      /\ p.code = [o \in DOMAIN t.code \cup {at} |-> IF o = at THEN q ELSE t.code[o]]
  BY <1>1, <1>2 DEF Fields, Kept
<1>6. /\ DOMAIN p.code = DOMAIN t.code /\ p.code[at] = q
      /\ \A o \in DOMAIN t.code : o # at => p.code[o] = t.code[o]
  BY <1>4, <1>5
<1> QED BY <1>3, <1>5, <1>6 DEF p, at

LEMMA ReturnAdds ==
  ASSUME NEW s, Sound(s), NEW e, Expr(e)
  PROVE  LET u == parse_return(s, e) IN Adds(s, u) /\ u.count > s.count
<1> DEFINE t == parse_unary(s, e)
           p == IF IsBareCall(s, t) THEN Patched(t) ELSE t
           u == parse_return(s, e)
<1>0. s.count \in Nat /\ s.lastCall \in Nat /\ s.lastCall <= s.count
  BY LastCallBound
<1>1. UnaryFacts(s, t, e)
  BY UnaryAdds
<1>2. u = chunk_emit(p, "RETURN", 1, 0, 0)
  BY DEF parse_return
<1>3. "RETURN" \in Plain /\ 1 \in Nat \ {0} /\ "RETURN" \notin Calls
  BY DEF Plain, Calls
<1> HIDE DEF u
<1>4. CASE ~ IsBareCall(s, t)
  <2>1. p = t
    BY <1>4
  <2> HIDE DEF p, t
  <2>2. Adds(s, t) /\ Sound(t) /\ t.count > s.count /\ t.count \in Nat
    BY <1>1 DEF UnaryFacts, Adds, Sound, Shape
  <2>3. Adds(t, u) /\ u.count = t.count + 1
    BY <1>2, <1>3, <2>1, <2>2, PlainAdds, EmitAt
  <2>4. Adds(s, u)
    BY <2>2, <2>3, AddsTransitive
  <2> QED BY <1>0, <2>2, <2>3, <2>4 DEF u
<1>5. CASE IsBareCall(s, t)
  <2>1. p = Patched(t)
    BY <1>5
  <2>2. t.lastCall = t.count
    BY <1>5 DEF IsBareCall
  <2> HIDE DEF p, t
  <2>3. At(t, s.count, "CALL", Callee) /\ t.count = s.count + 4
    BY <1>0, <1>1, <2>2 DEF UnaryFacts
  <2>4. Adds(s, t) /\ Sound(t) /\ t.count \in Nat /\ t.count - 4 = s.count
    <3>1. Adds(s, t)
      BY <1>1 DEF UnaryFacts
    <3>2. Sound(t)
      BY <3>1 DEF Adds
    <3> QED BY <1>0, <2>3, <3>1, <3>2
  <2>5. t.count - 4 \in DOMAIN t.code
    BY <2>3, <2>4 DEF At
  <2>6. /\ DOMAIN p = Fields /\ Kept(t, p, {"code"}) /\ DOMAIN p.code = DOMAIN t.code
        /\ \A o \in DOMAIN t.code : o # s.count => p.code[o] = t.code[o]
        /\ DOMAIN p.code[s.count] = DOMAIN t.code[s.count]
        /\ p.code[s.count].op = "TAIL_CALL" /\ p.code[s.count].words = t.code[s.count].words
        /\ p.code[s.count].line = t.code[s.count].line /\ p.code[s.count].body = t.code[s.count].body
        /\ p.code[s.count].meant = t.code[s.count].meant
    BY <2>1, <2>4, <2>5, PatchedFields
  <2>7. /\ p.count = t.count /\ p.lastCall = t.lastCall /\ p.line = t.line /\ p.body = t.body
        /\ p.capturing = t.capturing /\ p.failed = t.failed /\ p.locals = t.locals /\ p.outer = t.outer
        /\ p.captured = t.captured /\ p.params = t.params /\ p.depth = t.depth
    BY <2>6 DEF Kept, Fields
  <2>8. Shape(p)
    BY <2>4, <2>6, <2>7 DEF Sound, Shape
  <2>9. \A o \in DOMAIN t.code : /\ DOMAIN p.code[o] = DOMAIN t.code[o] /\ p.code[o].words = t.code[o].words
                                 /\ p.code[o].line = t.code[o].line /\ p.code[o].body = t.code[o].body
                                 /\ p.code[o].meant = t.code[o].meant
                                 /\ (p.code[o].op \in Calls) <=> (t.code[o].op \in Calls)
    BY <2>3, <2>6 DEF At, Calls
  <2>10. CodeShape(p)
    BY <2>4, <2>6, <2>7, <2>9 DEF Sound, CodeShape
  <2>11. Tiled(p)
    BY <2>4, <2>6, <2>7, <2>9 DEF Sound, Tiled
  <2>12. CallKnown(p)
    BY <2>4, <2>6, <2>7, <2>9 DEF Sound, CallKnown
  <2>13. Sound(p)
    BY <2>8, <2>10, <2>11, <2>12 DEF Sound
  <2>14. Adds(p, u) /\ At(u, p.count, "RETURN", 0) /\ u.count = p.count + 1
    BY <1>2, <1>3, <2>13, PlainAdds, EmitAt
  <2>15. Sound(u) /\ Kept(p, u, {"code", "count", "lastCall", "locals", "captured", "outer", "params", "failed"})
    BY <2>14 DEF Adds
  <2>16. Kept(s, u, {"code", "count", "lastCall", "locals", "captured", "outer", "params", "failed"})
    BY <2>4, <2>6, <2>15 DEF Kept, Adds
  <2>17. \A o \in DOMAIN u.code : o \in Nat /\ (o < p.count => o \in DOMAIN p.code /\ u.code[o] = p.code[o])
    BY <2>14, <2>15 DEF Adds, SameBelow, Sound, CodeShape
  <2>18. SameBelow(s, u, s.count)
    <3> SUFFICES ASSUME NEW o \in Nat, o < s.count
                 PROVE  /\ (o \in DOMAIN u.code) <=> (o \in DOMAIN s.code)
                        /\ o \in DOMAIN s.code => u.code[o] = s.code[o]
      BY DEF SameBelow
    <3>1. /\ (o \in DOMAIN t.code) <=> (o \in DOMAIN s.code)
          /\ o \in DOMAIN s.code => t.code[o] = s.code[o]
      BY <2>4 DEF Adds, SameBelow
    <3>2. o < p.count /\ o # s.count
      BY <1>0, <2>3, <2>7
    <3>3. /\ (o \in DOMAIN u.code) <=> (o \in DOMAIN p.code)
          /\ o \in DOMAIN p.code => u.code[o] = p.code[o]
      BY <2>14, <3>2 DEF Adds, SameBelow
    <3> QED BY <3>1, <3>2, <3>3, <2>6
  <2>19. Longer(s.captured, u.captured)
    <3>1. /\ Longer(s.captured, t.captured) /\ Longer(p.captured, u.captured) /\ p.captured = t.captured
      BY <2>4, <2>7, <2>14 DEF Adds
    <3>2. s.captured \in Seq(Name) /\ t.captured \in Seq(Name) /\ u.captured \in Seq(Name)
      BY <2>4, <2>15 DEF Sound, Shape
    <3> QED BY <3>1, <3>2 DEF Longer
  <2>20. s.failed => u.failed
    BY <2>4, <2>7, <2>14 DEF Adds
  <2>21. ASSUME NEW o \in DOMAIN u.code, o >= s.count PROVE NewOk(s, u, o)
    <3>0. t.line = s.line /\ t.body = s.body /\ p.line = s.line /\ p.body = s.body /\ p.capturing = s.capturing
      BY <2>4, <2>7 DEF Adds, Kept, Fields
    <3>1. CASE o >= p.count
      <4>1. NewOk(p, u, o)
        BY <2>14, <3>1 DEF Adds
      <4> QED BY <3>0, <4>1 DEF NewOk
    <3>2. CASE o < p.count
      <4>1. o \in DOMAIN t.code /\ u.code[o] = p.code[o]
        BY <2>6, <2>17, <3>2
      <4>2. o = s.count
        <5>1. s.count \in DOMAIN t.code /\ t.code[s.count].words = 4 /\ o \in Nat
          BY <2>3, <2>4, <4>1 DEF At, Sound, CodeShape, Calls
        <5>2. s.count < o => s.count + 4 <= o
          BY <4>1, <5>1, <2>4 DEF Sound, Tiled
        <5> QED BY <1>0, <5>1, <5>2, <2>21, <2>3, <2>7, <3>2
      <4>3. u.code[o].op = "TAIL_CALL" /\ u.code[o].line = t.code[o].line /\ u.code[o].body = t.code[o].body
        BY <4>1, <4>2, <2>6
      <4>4. t.code[o].line = s.line /\ t.code[o].body = s.body
        BY <2>4, <4>1, <2>21 DEF Adds, NewOk
      <4>5. o + 4 \in DOMAIN u.code /\ u.code[o + 4].op = "RETURN"
        BY <2>3, <2>7, <2>14, <4>2 DEF At
      <4> QED BY <4>3, <4>4, <4>5 DEF NewOk, Upvalue
    <3>3. o \in Nat /\ p.count \in Nat
      BY <2>17, <2>4, <2>7
    <3> QED BY <3>1, <3>2, <3>3
  <2>22. s.count <= u.count /\ u.count > s.count
    BY <1>0, <2>3, <2>7, <2>14
  <2> QED BY <2>15, <2>16, <2>18, <2>19, <2>20, <2>21, <2>22 DEF Adds, u
<1> QED BY <1>4, <1>5

LEMMA CompoundAdds ==
  ASSUME NEW s, Sound(s), NEW n \in Name, NEW e, Expr(e)
  PROVE  LET u == parse_compound_assignment(s, n, e) IN Adds(s, u) /\ u.count > s.count
<1> DEFINE l == emit_load(s, n)
           r == parse_unary(l, e)
           lhs == classify_operand(r, s.count, l.count)
           rhs == classify_operand(r, l.count, r.count)
           w(operand) == IF operand = "name" THEN 2 ELSE 1
           tr == Truncated(r, s.count)
           arg == [of |-> n, op |-> r.code[l.count].op, with |-> r.code[l.count].meant]
           a == chunk_emit(r, "ADD", 1, 0, 0)
           u == parse_compound_assignment(s, n, e)
<1>0. s.count \in Nat /\ s.lastCall \in Nat /\ s.lastCall <= s.count
  BY LastCallBound
<1>1. LoadFacts(s, l, n)
  BY LoadAdds
<1>2. Adds(s, l) /\ Sound(l) /\ l.count \in Nat /\ l.count > s.count
  <2>1. Adds(s, l)
    BY <1>1 DEF LoadFacts
  <2>2. Sound(l)
    BY <2>1 DEF Adds
  <2> HIDE DEF l
  <2>3. l.count = s.count + 2 \/ l.count = s.count + 3
    BY <1>1 DEF LoadFacts
  <2> QED BY <1>0, <2>1, <2>2, <2>3
<1>3. UnaryFacts(l, r, e)
  BY <1>2, UnaryAdds
<1>4. Adds(l, r) /\ Sound(r) /\ r.count \in Nat /\ r.count > l.count
  <2>1. Adds(l, r)
    BY <1>3 DEF UnaryFacts
  <2> HIDE DEF l, r
  <2> QED BY <1>3, <2>1 DEF UnaryFacts, Adds, Sound, Shape
<1>5. Adds(s, r)
  BY <1>2, <1>4, AddsTransitive
<1>6. CASE lhs \in {"local", "name"} /\ rhs # "none"
  <2>1. u = chunk_emit(tr, "COMPOUND", 2 + w(lhs) + w(rhs), arg, e)
    BY <1>6, Zenon DEF parse_compound_assignment
  <2>2. \/ rhs = "local" /\ r.count - l.count = 2 /\ r.code[l.count].op = "LOAD_LOCAL"
        \/ rhs = "name" /\ r.count - l.count = 3 /\ r.code[l.count].op = "LOAD"
        \/ rhs = "literal" /\ r.count - l.count = 2 /\ r.code[l.count].op = "PUSH"
    <3> HIDE DEF r, l
    <3> QED BY <1>6 DEF classify_operand
  <2>3. 2 + w(lhs) + w(rhs) \in Nat \ {0}
    OBVIOUS
  <2> DEFINE words == 2 + w(lhs) + w(rhs)
  <2> HIDE DEF words, lhs, rhs, u, l, r
  <2>4. l.lastCall = s.lastCall
    BY <1>1 DEF LoadFacts, Kept, Fields
  <2>5. /\ ~ e.negated /\ r.lastCall = s.lastCall
        /\ IF e.form = "literal" THEN r.code[l.count].op = "PUSH"
           ELSE e.form = "name" /\ r.code[l.count].op \in {"LOAD", "LOAD_LOCAL"} /\ r.code[l.count].meant = e.name
    BY <1>2, <1>3, <1>4, <2>2, <2>4 DEF UnaryFacts, At
  <2>6. /\ DOMAIN tr = Fields /\ Kept(r, tr, {"code", "count"}) /\ tr.count = s.count
        /\ DOMAIN tr.code = {q \in DOMAIN r.code : q < s.count}
        /\ \A o \in DOMAIN tr.code : tr.code[o] = r.code[o]
    <3>1. DOMAIN r = Fields
      BY <1>4 DEF Sound, Shape
    <3> QED BY <3>1, TruncatedFields
  <2>7. Boundary(r, s.count)
    <3> SUFFICES ASSUME NEW o \in DOMAIN r.code, o < s.count PROVE o + r.code[o].words <= s.count
      BY DEF Boundary
    <3>1. o \in Nat
      BY <1>4 DEF Sound, CodeShape
    <3>2. o \in DOMAIN s.code /\ r.code[o] = s.code[o]
      BY <3>1, <1>5 DEF Adds, SameBelow
    <3> QED BY <3>2 DEF Sound, CodeShape
  <2>8. r.body <= s.count /\ (r.lastCall # 0 => r.lastCall - 4 < s.count)
    <3>1. r.body = s.body
      BY <1>5 DEF Adds, Kept, Fields
    <3> QED BY <1>0, <2>5, <3>1 DEF Sound, Shape
  <2>9. Sound(tr)
    BY <1>0, <1>2, <1>4, <2>7, <2>8, TruncatedSound
  <2> HIDE DEF tr
  <2>10. Adds(s, tr)
    <3>1. Kept(s, tr, {"code", "count", "lastCall", "locals", "captured", "outer", "params", "failed"})
      BY <2>6, <1>5 DEF Adds, Kept
    <3>2. s.count <= tr.count /\ \A o \in DOMAIN tr.code : ~ o >= s.count
      <4>1. \A o \in DOMAIN r.code : o \in Nat
        BY <1>4 DEF Sound, CodeShape
      <4> QED BY <1>0, <2>6, <4>1
    <3>3. SameBelow(s, tr, s.count)
      BY <1>5, <2>6 DEF Adds, SameBelow
    <3>4. tr.captured = r.captured /\ tr.failed = r.failed
      BY <2>6 DEF Kept, Fields
    <3> QED BY <1>5, <2>9, <3>1, <3>2, <3>3, <3>4 DEF Adds
  <2>11. IsWhole(Instruction(tr, "COMPOUND", words, arg, e))
    <3>1. /\ Instruction(tr, "COMPOUND", words, arg, e).meant = e
          /\ Instruction(tr, "COMPOUND", words, arg, e).arg = arg
      BY DEF Instruction
    <3>2. arg.op = r.code[l.count].op /\ arg.with = r.code[l.count].meant
      OBVIOUS
    <3> HIDE DEF arg
    <3> QED BY <3>1, <3>2, <2>5 DEF IsWhole
  <2> HIDE DEF arg
  <2>12. "COMPOUND" \notin Calls /\ "COMPOUND" \notin {"PUSH_FUNCTION", "MAKE_CLOSURE", "TAIL_CALL"} /\ "COMPOUND" \notin Upvalue
    BY DEF Calls, Upvalue
  <2>13. u = chunk_emit(tr, "COMPOUND", words, arg, e) /\ words \in Nat \ {0}
    BY <2>1, <2>3 DEF words
  <2>14. Adds(tr, u)
    BY <2>9, <2>11, <2>12, <2>13, EmitAdds
  <2>15. u.count = s.count + words
    BY <2>6, <2>9, <2>13, EmitAt
  <2>16. Adds(s, u)
    BY <2>10, <2>14, AddsTransitive
  <2> QED BY <1>0, <2>13, <2>15, <2>16 DEF u
<1>7. CASE ~ (lhs \in {"local", "name"} /\ rhs # "none")
  <2>1. u = emit_store(a, n)
    BY <1>7, Zenon DEF parse_compound_assignment
  <2> HIDE DEF lhs, rhs, l, r, u
  <2>2. "ADD" \in Plain /\ 1 \in Nat \ {0}
    BY DEF Plain
  <2>3. Adds(r, a) /\ a.count = r.count + 1
    BY <1>4, <2>2, PlainAdds, EmitAt
  <2> HIDE DEF a
  <2>4. Sound(a)
    BY <2>3 DEF Adds
  <2>5. Adds(a, u) /\ u.count > a.count
    BY <2>1, <2>4, StoreAdds
  <2>6. Adds(s, a)
    BY <1>5, <2>3, AddsTransitive
  <2>7. Adds(s, u)
    BY <2>5, <2>6, AddsTransitive
  <2>8. u.count \in Nat /\ a.count \in Nat
    BY <2>4, <2>7 DEF Adds, Sound, Shape
  <2>9. u.count > s.count
    BY <1>0, <1>2, <1>4, <2>3, <2>5, <2>8
  <2> QED BY <2>7, <2>9 DEF u
<1> QED BY <1>6, <1>7

----
\* The invariant, in the middle of a statement or block that began at the
\* offset c when there were m line marks.

LEMMA MarkFacts ==
  ASSUME NEW marks \in Seq(Mark)
  PROVE  \A i \in DOMAIN marks : marks[i].at \in Nat /\ marks[i].line \in Nat
<1>1. DOMAIN marks = 1 .. Len(marks) /\ \A i \in 1 .. Len(marks) : marks[i] \in Mark
  BY SeqFacts
<1> QED BY <1>1 DEF Mark

LEMMA AddsFrames ==
  ASSUME NEW s, NEW t, NEW fs, NEW c, Sound(s), Adds(s, t), FramesOk(s, fs, c)
  PROVE  FramesOk(t, fs, c)
<1>1. t.body = s.body
  BY DEF Adds, Kept, Fields
<1>2. s.count \in Nat /\ t.count \in Nat /\ s.count <= t.count /\ c \in Nat /\ c <= s.count
  BY DEF Adds, Sound, Shape, FramesOk
<1>3. ASSUME NEW b \in Nat, b <= s.count, Boundary(s, b) PROVE Boundary(t, b)
  <2> SUFFICES ASSUME NEW o \in DOMAIN t.code, o < b PROVE o + t.code[o].words <= b
    BY DEF Boundary
  <2>1. o \in Nat
    BY DEF Adds, Sound, CodeShape
  <2>2. o \in DOMAIN s.code /\ t.code[o] = s.code[o]
    BY <1>2, <1>3, <2>1 DEF Adds, SameBelow
  <2> QED BY <1>3, <2>2 DEF Boundary
<1>4. \A j \in DOMAIN fs : fs[j].count \in Nat /\ fs[j].count <= s.count
  <2> SUFFICES ASSUME NEW j \in DOMAIN fs PROVE fs[j].count \in Nat /\ fs[j].count <= s.count
    OBVIOUS
  <2>1. FrameOk(fs[j]) /\ fs[j].count <= c
    BY DEF FramesOk
  <2>2. fs[j].count \in Nat
    BY <2>1 DEF FrameOk, FrameSet
  <2> QED BY <1>2, <2>1, <2>2
<1>5. \A j \in DOMAIN fs : Boundary(t, fs[j].count)
  BY <1>3, <1>4 DEF FramesOk
<1>6. Boundary(t, c) /\ c <= t.count
  BY <1>2, <1>3 DEF FramesOk
<1> QED BY <1>1, <1>2, <1>5, <1>6 DEF FramesOk

LEMMA AddsMid ==
  ASSUME NEW s, NEW t, NEW fs, NEW c, NEW m, Mid(s, fs, c, m), Marking(s), Adds(s, t)
  PROVE  Mid(t, fs, c, m) /\ Marking(t)
<1>0. Sound(s) /\ Sound(t)
  BY DEF Mid, Adds
<1>1. /\ t.body = s.body /\ t.marks = s.marks /\ t.functions = s.functions /\ t.line = s.line
      /\ s.body \in Nat /\ t.lost = s.lost
  BY <1>0 DEF Adds, Kept, Fields, Sound, Shape
<1>2. s.count \in Nat /\ t.count \in Nat /\ s.count <= t.count /\ c \in Nat /\ c <= s.count
  BY DEF Mid, Adds, Sound, Shape, FramesOk
<1>3. \A o \in DOMAIN s.code : /\ o \in Nat /\ o < s.count /\ o \in DOMAIN t.code /\ t.code[o] = s.code[o]
  <2> TAKE o \in DOMAIN s.code
  <2>1. o \in Nat /\ o < s.count
    BY <1>0, <1>2 DEF Sound, CodeShape
  <2> QED BY <2>1 DEF Adds, SameBelow
<1>4. \A o \in DOMAIN t.code : /\ o \in Nat
                               /\ o < s.count => o \in DOMAIN s.code /\ t.code[o] = s.code[o]
                               /\ o >= s.count => NewOk(s, t, o)
  <2> TAKE o \in DOMAIN t.code
  <2>1. o \in Nat
    BY <1>0, <1>2 DEF Sound, CodeShape
  <2> QED BY <2>1 DEF Adds, SameBelow
<1>5. FramesOk(t, fs, c)
  BY <1>0, AddsFrames DEF Mid
<1>6. MarksOk(t, fs, c, m)
  BY <1>1 DEF Mid, MarksOk, IsBase
<1>7. Marking(t)
  <2>1. s.marks \in Seq(Mark)
    BY DEF Mid, MarksOk
  <2>2. \A i \in DOMAIN s.marks : s.marks[i].at \in Nat
    BY <2>1, MarkFacts
  <2> QED BY <1>1, <1>2, <2>2 DEF Marking
<1>8. LinesOk(t)
  <2> SUFFICES ASSUME NEW o \in DOMAIN t.code, t.code[o].line # 0 PROVE MarkedAt(t, o, t.code[o].line)
    BY DEF LinesOk
  <2>1. CASE o < s.count
    BY <2>1, <1>1, <1>4 DEF Mid, LinesOk, MarkedAt
  <2>2. CASE o >= s.count
    <3>1. t.code[o].line = s.line
      BY <2>2, <1>4 DEF NewOk
    <3>2. s.marks # <<>> /\ s.marks[Len(s.marks)].line = s.line
      BY <3>1 DEF Marking
    <3>3. s.marks \in Seq(Mark) /\ Len(s.marks) \in Nat /\ DOMAIN s.marks = 1 .. Len(s.marks) /\ Len(s.marks) > 0
      BY <3>2, SeqFacts DEF Mid, MarksOk
    <3>4. Len(s.marks) \in DOMAIN s.marks /\ ~ \E j \in DOMAIN s.marks : j > Len(s.marks)
      BY <3>3
    <3>5. s.marks[Len(s.marks)].at \in Nat
      BY <3>3, <3>4, MarkFacts
    <3>6. s.marks[Len(s.marks)].at <= o
      BY <1>2, <1>4, <2>2, <3>4, <3>5 DEF Marking
    <3> QED BY <1>1, <3>1, <3>2, <3>4, <3>6 DEF MarkedAt
  <2> QED BY <1>2, <1>4, <2>1, <2>2
<1>9. TailsOk(t, fs, c)
  <2> SUFFICES ASSUME NEW o \in DOMAIN t.code, t.code[o].op = "TAIL_CALL"
               PROVE  /\ o + 4 \in DOMAIN t.code /\ t.code[o + 4].op = "RETURN"
                      /\ o < c => o + 4 < c
                      /\ \A j \in DOMAIN fs : o < fs[j].count => o + 4 < fs[j].count
    BY DEF TailsOk
  <2>1. CASE o < s.count
    BY <2>1, <1>3, <1>4 DEF Mid, TailsOk
  <2>2. CASE o >= s.count
    <3>1. o + 4 \in DOMAIN t.code /\ t.code[o + 4].op = "RETURN"
      BY <2>2, <1>4 DEF NewOk
    <3>2. \A j \in DOMAIN fs : fs[j].count <= c /\ fs[j].count \in Nat
      BY DEF Mid, FramesOk, FrameOk, FrameSet
    <3> QED BY <1>2, <1>4, <2>2, <3>1, <3>2
  <2> QED BY <1>2, <1>4, <2>1, <2>2
<1>10. FusedOk(t)
  BY <1>2, <1>4 DEF Mid, FusedOk, NewOk
<1>11. FunctionsOk(t, fs)
  <2>1. \A g \in t.functions : Loaded(s, fs, g) => Loaded(t, fs, g)
    BY <1>1, <1>3 DEF Loaded, OpenBody
  <2>2. \A o \in DOMAIN t.code : ConstantOk(t, t.code[o])
    BY <1>1, <1>2, <1>4 DEF Mid, FunctionsOk, NewOk, ConstantOk
  <2> QED BY <1>1, <2>1, <2>2 DEF Mid, FunctionsOk
<1>12. ClosuresOk(t, fs)
  <2> SUFFICES ASSUME NEW q \in DOMAIN t.code, t.code[q].op = "MAKE_CLOSURE"
               PROVE  /\ t.code[q].meant \in Seq(Name)
                      /\ t.code[q].arg.at \in Nat /\ t.code[q].arg.at <= q /\ ~ OpenBody(t, fs, t.code[q].arg.at)
                      /\ \A o \in DOMAIN t.code :
                           t.code[o].op \in Upvalue /\ t.code[o].body = t.code[q].arg.at =>
                             /\ t.code[o].arg \in DOMAIN t.code[q].meant
                             /\ t.code[q].meant[t.code[o].arg] = t.code[o].meant
    BY DEF ClosuresOk
  <2>1. q \in DOMAIN s.code /\ t.code[q] = s.code[q]
    BY <1>2, <1>4 DEF NewOk
  <2>2. /\ s.code[q].meant \in Seq(Name)
        /\ s.code[q].arg.at \in Nat /\ s.code[q].arg.at <= q /\ ~ OpenBody(s, fs, s.code[q].arg.at)
        /\ \A o \in DOMAIN s.code :
             s.code[o].op \in Upvalue /\ s.code[o].body = s.code[q].arg.at =>
               /\ s.code[o].arg \in DOMAIN s.code[q].meant
               /\ s.code[q].meant[s.code[o].arg] = s.code[o].meant
    BY <2>1 DEF Mid, ClosuresOk
  <2>3. ~ OpenBody(t, fs, t.code[q].arg.at)
    BY <1>1, <2>1, <2>2 DEF OpenBody
  <2>4. ASSUME NEW o \in DOMAIN t.code, t.code[o].op \in Upvalue, t.code[o].body = t.code[q].arg.at
        PROVE  o \in DOMAIN s.code /\ t.code[o] = s.code[o]
    <3>1. CASE o < s.count
      BY <3>1, <1>4
    <3>2. CASE o >= s.count
      <4>1. t.code[o].body = s.body
        BY <3>2, <1>4 DEF NewOk
      <4> QED BY <4>1, <2>1, <2>2, <2>4 DEF OpenBody
    <3> QED BY <3>1, <3>2, <1>2, <1>4
  <2> QED BY <2>1, <2>2, <2>3, <2>4
<1>13. SlotsOk(t, fs, c)
  <2> SUFFICES ASSUME NEW o \in DOMAIN t.code, t.code[o].op \in Upvalue
               PROVE  /\ t.code[o].body = t.body => (o >= c /\ t.failed) \/ SlotOf(t, t.code[o])
                      /\ \A j \in DOMAIN fs : fs[j].kind # "if" /\ t.code[o].body = fs[j].body => SlotOf(fs[j], t.code[o])
    BY DEF SlotsOk
  <2>1. CASE o < s.count
    <3>1. o \in DOMAIN s.code /\ t.code[o] = s.code[o]
      BY <2>1, <1>4
    <3>2. /\ s.code[o].body = s.body => (o >= c /\ s.failed) \/ SlotOf(s, s.code[o])
          /\ \A j \in DOMAIN fs : fs[j].kind # "if" /\ s.code[o].body = fs[j].body => SlotOf(fs[j], s.code[o])
      BY <3>1 DEF Mid, SlotsOk
    <3>3. SlotOf(s, s.code[o]) => SlotOf(t, s.code[o])
      <4>1. s.captured \in Seq(Name) /\ t.captured \in Seq(Name) /\ Longer(s.captured, t.captured)
        BY <1>0 DEF Adds, Sound, Shape
      <4> QED BY <4>1 DEF SlotOf, Longer
    <3>4. s.failed => t.failed
      BY DEF Adds
    <3> QED BY <1>1, <3>1, <3>2, <3>3, <3>4
  <2>2. CASE o >= s.count
    <3>1. t.code[o].body = s.body /\ (t.failed \/ SlotOf(t, t.code[o]))
      BY <2>2, <1>4 DEF NewOk
    <3>2. \A j \in DOMAIN fs : fs[j].kind # "if" => fs[j].body < s.body /\ fs[j].body \in Nat
      BY DEF Mid, FramesOk, FrameOk, FrameSet
    <3>3. o >= c
      BY <1>2, <1>4, <2>2
    <3> QED BY <1>1, <3>1, <3>2, <3>3
  <2> QED BY <1>2, <1>4, <2>1, <2>2
<1> QED BY <1>0, <1>5, <1>6, <1>7, <1>8, <1>9, <1>10, <1>11, <1>12, <1>13 DEF Mid

LEMMA CommitMid ==
  ASSUME NEW t, NEW fs, NEW c, NEW m, Mid(t, fs, c, m), ~ t.failed,
         \A i \in DOMAIN t.marks : t.marks[i].at < t.count
  PROVE  Mid(t, fs, t.count, Len(t.marks))
<1>1. t.count \in Nat /\ c \in Nat /\ c <= t.count /\ t.body \in Nat /\ t.body <= c
  BY DEF Mid, Sound, Shape, FramesOk
<1>2. \A o \in DOMAIN t.code : o \in Nat /\ o < t.count /\ t.code[o].words >= 1 /\ o + t.code[o].words <= t.count
  BY DEF Mid, Sound, Shape, CodeShape
<1>3. FramesOk(t, fs, t.count)
  <2>1. \A j \in DOMAIN fs : fs[j].count \in Nat /\ fs[j].count <= c
    BY DEF Mid, FramesOk, FrameOk, FrameSet
  <2>2. Boundary(t, t.count)
    BY <1>2 DEF Boundary
  <2>3. \A j \in DOMAIN fs : fs[j].count <= t.count
    BY <1>1, <2>1
  <2>4. t.body <= t.count
    BY <1>1
  <2> QED BY <1>1, <2>2, <2>3, <2>4 DEF Mid, FramesOk
<1>4. MarksOk(t, fs, t.count, Len(t.marks))
  <2>1. t.marks \in Seq(Mark)
    BY DEF Mid, MarksOk
  <2>2. Len(t.marks) \in Nat /\ DOMAIN t.marks = 1 .. Len(t.marks)
    BY <2>1, SeqFacts
  <2>3. IsBase(t, t.count, Len(t.marks))
    BY <2>2 DEF IsBase
  <2> QED BY <2>3 DEF Mid, MarksOk
<1>5. TailsOk(t, fs, t.count)
  <2> SUFFICES ASSUME NEW o \in DOMAIN t.code, t.code[o].op = "TAIL_CALL"
               PROVE  /\ o + 4 \in DOMAIN t.code /\ t.code[o + 4].op = "RETURN"
                      /\ o < t.count => o + 4 < t.count
                      /\ \A j \in DOMAIN fs : o < fs[j].count => o + 4 < fs[j].count
    BY DEF TailsOk
  <2>1. /\ o + 4 \in DOMAIN t.code /\ t.code[o + 4].op = "RETURN"
        /\ \A j \in DOMAIN fs : o < fs[j].count => o + 4 < fs[j].count
    BY DEF Mid, TailsOk
  <2> QED BY <1>2, <2>1
<1>6. SlotsOk(t, fs, t.count)
  BY DEF Mid, SlotsOk
<1> QED BY <1>3, <1>4, <1>5, <1>6 DEF Mid

LEMMA RollbackFields ==
  ASSUME NEW t, Sound(t), t.failed, NEW c, NEW m \in Nat, t.marks \in Seq(Mark), m <= Len(t.marks)
  PROVE  RollbackFacts(t, RolledBack(t, c, m), c, m)
<1> DEFINE v == [t EXCEPT !.marks = SubSeq(@, 1, m), !.lost = LostWith(t, c)]
           u == Truncated(v, c)
<1>1. RolledBack(t, c, m) = u
  BY DEF RolledBack
<1>2. DOMAIN v = Fields /\ Kept(t, v, {"marks", "lost"}) /\ v.marks = SubSeq(t.marks, 1, m) /\ v.lost = LostWith(t, c)
  BY DEF Sound, Shape, Fields, Kept
<1> HIDE DEF v
<1>3. v.code = t.code
  BY <1>2 DEF Kept, Fields
<1>4. m \in 0 .. Len(t.marks)
  <2>1. Len(t.marks) \in Nat
    BY SeqFacts
  <2> QED BY <2>1
<1>5. /\ v.marks \in Seq(Mark) /\ Len(v.marks) = m /\ DOMAIN v.marks = 1 .. m
      /\ \A i \in 1 .. m : v.marks[i] = t.marks[i]
  BY <1>2, <1>4, PrefixFacts
<1>6. /\ DOMAIN u = Fields /\ Kept(v, u, {"code", "count"}) /\ u.count = c
      /\ DOMAIN u.code = {q \in DOMAIN v.code : q < c}
      /\ \A o \in DOMAIN u.code : u.code[o] = v.code[o]
  BY <1>2, TruncatedFields
<1> HIDE DEF u
<1>7. u.marks = v.marks /\ u.lost = v.lost
  BY <1>6 DEF Kept, Fields
<1>8. Kept(t, u, {"code", "count", "marks", "lost"})
  BY <1>2, <1>6 DEF Kept
<1> QED BY <1>1, <1>2, <1>3, <1>5, <1>6, <1>7, <1>8 DEF RollbackFacts

LEMMA SurvivableDefines ==
  ASSUME NEW t, NEW c, t.failed, Survivable(t, c), "define" \notin Lost
  PROVE  \A o \in DOMAIN t.code : o >= c => t.code[o].op # "DEFINE"
<1> DEFINE ops == {t.code[o].op : o \in {q \in DOMAIN t.code : q >= c}}
<1>1. Discarded(t, c) \subseteq Lost
  BY DEF Survivable
<1>2. Discarded(t, c) = UNION {IF ops \cap Calls = {} THEN {} ELSE {"call"},
                              IF "DEFINE" \in ops THEN {"define"} ELSE {},
                              IF "PUSH_FUNCTION" \in ops THEN {"function"} ELSE {}}
  BY DEF Discarded, Calls
<1>3. \A o \in DOMAIN t.code : o >= c => t.code[o].op \in ops
  OBVIOUS
<1> HIDE DEF ops
<1>4. "DEFINE" \notin ops
  BY <1>1, <1>2
<1> QED BY <1>3, <1>4

\* A base further down in the code has fewer marks.
LEMMA BaseBelow ==
  ASSUME NEW s, NEW fs, NEW c, NEW m, FramesOk(s, fs, c), MarksOk(s, fs, c, m), NEW j \in DOMAIN fs
  PROVE  fs[j].marks <= m
<1>1. s.marks \in Seq(Mark) /\ IsBase(s, fs[j].count, fs[j].marks) /\ IsBase(s, c, m)
  BY DEF MarksOk
<1>2. /\ Len(s.marks) \in Nat /\ DOMAIN s.marks = 1 .. Len(s.marks) /\ m \in Nat /\ c \in Nat
      /\ fs[j].marks \in Nat /\ fs[j].count \in Nat /\ fs[j].count <= c
  BY <1>1, SeqFacts DEF IsBase, FramesOk, FrameOk, FrameSet
<1>3. CASE fs[j].marks = 0
  BY <1>2, <1>3
<1>4. CASE fs[j].marks # 0
  <2> DEFINE i == fs[j].marks
  <2>1. i \in DOMAIN s.marks /\ i <= i
    BY <1>1, <1>2, <1>4 DEF IsBase
  <2>2. s.marks[i].at < fs[j].count /\ s.marks[i].at \in Nat
    BY <1>1, <2>1, MarkFacts DEF IsBase
  <2>3. s.marks[i].at < c
    BY <1>2, <2>2
  <2> QED BY <1>1, <2>1, <2>3 DEF IsBase
<1> QED BY <1>3, <1>4

LEMMA FailedMid ==
  ASSUME NEW t, NEW fs, NEW c, NEW m, Mid(t, fs, c, m), t.failed, RolledBack(t, c, m).lost.calls = {}
  PROVE  Mid(RolledBack(t, c, m), fs, c, m)
<1> DEFINE u == RolledBack(t, c, m)
<1>1. /\ t.marks \in Seq(Mark) /\ m \in Nat /\ m <= Len(t.marks) /\ Sound(t)
      /\ \A i \in DOMAIN t.marks : i <= m <=> t.marks[i].at < c
  BY DEF Mid, MarksOk, IsBase
<1>2. RollbackFacts(t, u, c, m)
  BY <1>1, RollbackFields
<1>3. u = Truncated([t EXCEPT !.marks = SubSeq(@, 1, m), !.lost = LostWith(t, c)], c) /\ u.lost.calls = {}
  BY DEF RolledBack
<1> HIDE DEF u
<1>4. /\ DOMAIN u = Fields /\ u.count = c /\ u.marks \in Seq(Mark) /\ Len(u.marks) = m /\ DOMAIN u.marks = 1 .. m
      /\ \A i \in 1 .. m : u.marks[i] = t.marks[i]
      /\ \A o \in DOMAIN u.code : o \in DOMAIN t.code /\ o < c /\ u.code[o] = t.code[o]
      /\ \A o \in DOMAIN t.code : o < c => o \in DOMAIN u.code
  BY <1>2 DEF RollbackFacts
<1>5. /\ u.body = t.body /\ u.functions = t.functions /\ u.failed = t.failed /\ u.captured = t.captured
      /\ u.lastCall = t.lastCall /\ u.line = t.line /\ u.depth = t.depth /\ u.capturing = t.capturing
      /\ u.locals = t.locals /\ u.outer = t.outer /\ u.params = t.params
  BY <1>2 DEF RollbackFacts, Kept, Fields
<1>6. c \in Nat /\ c <= t.count /\ t.body <= c /\ Boundary(t, c) /\ t.count \in Nat
  BY <1>1 DEF Mid, FramesOk, Sound, Shape
<1>l. u.lost = LostWith(t, c)
  BY <1>2 DEF RollbackFacts
<1>7. \A o \in DOMAIN t.code : o \in Nat /\ (o >= c => t.code[o].op \notin Calls)
  <2>1. \A o \in DOMAIN t.code : o >= c => t.code[o].op \notin Calls
    <3>1. SUFFICES ASSUME NEW o \in DOMAIN t.code, o >= c, t.code[o].op \in Calls PROVE FALSE
      OBVIOUS
    <3>2. o \in Gone(t, c, {"CALL", "TAIL_CALL"})
      BY <3>1 DEF Gone, Calls
    <3>3. o + 4 \in LostWith(t, c).calls
      BY <3>2 DEF LostWith
    <3> QED BY <1>3, <1>l, <3>3
  <2> QED BY <1>1, <2>1 DEF Sound, CodeShape
<1>8. t.lastCall # 0 => t.lastCall - 4 < c
  <2>1. HAVE t.lastCall # 0
  <2>2. t.lastCall - 4 \in DOMAIN t.code /\ t.code[t.lastCall - 4].op \in Calls
    BY <1>1, <2>1 DEF Sound, CallKnown
  <2>3. t.lastCall - 4 \in Nat /\ ~ t.lastCall - 4 >= c
    BY <1>7, <2>2
  <2> QED BY <1>6, <2>3
<1>9. Sound(u)
  <2> DEFINE v == [t EXCEPT !.marks = SubSeq(@, 1, m), !.lost = LostWith(t, c)]
  <2>1. DOMAIN v = Fields /\ Kept(t, v, {"marks", "lost"})
    BY <1>1 DEF Sound, Shape, Fields, Kept
  <2>0. u = Truncated(v, c)
    BY <1>3
  <2> HIDE DEF v
  <2>2. /\ v.code = t.code /\ v.count = t.count /\ v.body = t.body /\ v.failed = t.failed /\ v.captured = t.captured
        /\ v.lastCall = t.lastCall /\ v.line = t.line /\ v.depth = t.depth /\ v.capturing = t.capturing
        /\ v.locals = t.locals /\ v.outer = t.outer /\ v.params = t.params
    BY <2>1 DEF Kept, Fields
  <2>3. Sound(v) /\ Boundary(v, c)
    BY <1>1, <1>6, <2>1, <2>2 DEF Sound, Shape, CodeShape, Tiled, CallKnown, Boundary
  <2> QED BY <1>6, <1>8, <2>0, <2>2, <2>3, TruncatedSound
<1>10. \A j \in DOMAIN fs : FrameOk(fs[j]) /\ fs[j].count \in Nat /\ fs[j].marks \in Nat /\ fs[j].count <= c
  BY DEF Mid, FramesOk, FrameOk, FrameSet
<1>11. FramesOk(u, fs, c)
  BY <1>4, <1>5, <1>6, <1>10 DEF Mid, FramesOk, Boundary
<1>12. MarksOk(u, fs, c, m)
  <2>1. Len(t.marks) \in Nat /\ DOMAIN t.marks = 1 .. Len(t.marks)
    BY <1>1, SeqFacts
  <2>2. \A i \in DOMAIN u.marks : i \in DOMAIN t.marks /\ u.marks[i] = t.marks[i] /\ i <= m
    BY <1>1, <1>4, <2>1
  <2>3. \A i, j \in DOMAIN u.marks : i < j => u.marks[i].at < u.marks[j].at
    BY <2>2 DEF Mid, MarksOk
  <2>4. IsBase(u, c, m)
    BY <1>1, <1>4, <2>2 DEF IsBase
  <2>5. ASSUME NEW j \in DOMAIN fs PROVE IsBase(u, fs[j].count, fs[j].marks)
    <3>1. IsBase(t, fs[j].count, fs[j].marks)
      BY DEF Mid, MarksOk
    <3>2. fs[j].marks <= m
      BY BaseBelow DEF Mid
    <3> QED BY <1>4, <2>2, <3>1, <3>2 DEF IsBase
  <2> QED BY <1>4, <2>3, <2>4, <2>5 DEF MarksOk
<1>13. LinesOk(u)
  <2> SUFFICES ASSUME NEW o \in DOMAIN u.code, u.code[o].line # 0 PROVE MarkedAt(u, o, u.code[o].line)
    BY DEF LinesOk
  <2>1. o \in DOMAIN t.code /\ o < c /\ u.code[o] = t.code[o] /\ o \in Nat
    BY <1>4, <1>7
  <2>2. PICK i \in DOMAIN t.marks : /\ t.marks[i].at <= o /\ t.marks[i].line = u.code[o].line
                                    /\ \A j \in DOMAIN t.marks : j > i => t.marks[j].at > o
    BY <2>1 DEF Mid, LinesOk, MarkedAt
  <2>3. Len(t.marks) \in Nat /\ DOMAIN t.marks = 1 .. Len(t.marks) /\ t.marks[i].at \in Nat
    BY <1>1, SeqFacts, MarkFacts
  <2>4. t.marks[i].at < c
    BY <1>6, <2>1, <2>2, <2>3
  <2>5. i \in 1 .. m
    BY <1>1, <2>3, <2>4
  <2>6. \A j \in 1 .. m : j \in DOMAIN t.marks
    BY <1>1, <2>3
  <2> QED BY <1>4, <2>2, <2>5, <2>6 DEF MarkedAt
<1>14. TailsOk(u, fs, c)
  <2> SUFFICES ASSUME NEW o \in DOMAIN u.code, u.code[o].op = "TAIL_CALL"
               PROVE  /\ o + 4 \in DOMAIN u.code /\ u.code[o + 4].op = "RETURN"
                      /\ o < c => o + 4 < c
                      /\ \A j \in DOMAIN fs : o < fs[j].count => o + 4 < fs[j].count
    BY DEF TailsOk
  <2>1. o \in DOMAIN t.code /\ o < c /\ t.code[o].op = "TAIL_CALL"
    BY <1>4
  <2>2. /\ o + 4 \in DOMAIN t.code /\ t.code[o + 4].op = "RETURN" /\ o + 4 < c
        /\ \A j \in DOMAIN fs : o < fs[j].count => o + 4 < fs[j].count
    BY <2>1 DEF Mid, TailsOk
  <2> QED BY <1>4, <2>2
<1>15. FusedOk(u)
  BY <1>4 DEF Mid, FusedOk
<1>16. FunctionsOk(u, fs)
  <2>1. /\ t.lost.functions \subseteq u.lost.functions
        /\ \A o \in DOMAIN t.code : o >= c /\ t.code[o].op = "PUSH_FUNCTION" => t.code[o].arg \in u.lost.functions
    BY <1>l DEF LostWith, Gone
  <2>2. \A o \in DOMAIN u.code : ConstantOk(u, u.code[o])
    BY <1>4, <2>1 DEF Mid, FunctionsOk, ConstantOk
  <2>3. ASSUME NEW g \in u.functions, g \notin u.lost.functions PROVE Loaded(u, fs, g)
    <3>1. Loaded(t, fs, g)
      BY <1>5, <2>1, <2>3 DEF Mid, FunctionsOk
    <3>2. PICK o \in DOMAIN t.code : t.code[o].op = "PUSH_FUNCTION" /\ t.code[o].arg = g /\ g.at < o
      BY <3>1 DEF Loaded
    <3>3. o \in DOMAIN u.code /\ u.code[o] = t.code[o]
      BY <1>4, <1>6, <1>7, <2>1, <2>3, <3>2
    <3> QED BY <1>5, <3>1, <3>2, <3>3 DEF OpenBody, Loaded
  <2> QED BY <2>2, <2>3 DEF FunctionsOk
<1>17. ClosuresOk(u, fs)
  <2>1. \A b : OpenBody(u, fs, b) <=> OpenBody(t, fs, b)
    BY <1>5 DEF OpenBody
  <2> QED BY <1>4, <2>1 DEF Mid, ClosuresOk
<1>18. SlotsOk(u, fs, c)
  <2> SUFFICES ASSUME NEW o \in DOMAIN u.code, u.code[o].op \in Upvalue
               PROVE  /\ u.code[o].body = u.body => SlotOf(u, u.code[o])
                      /\ \A j \in DOMAIN fs : fs[j].kind # "if" /\ u.code[o].body = fs[j].body => SlotOf(fs[j], u.code[o])
    BY DEF SlotsOk
  <2>1. o \in DOMAIN t.code /\ o < c /\ u.code[o] = t.code[o] /\ o \in Nat
    BY <1>4, <1>7
  <2>2. ~ o >= c
    BY <2>1, <1>6
  <2>3. /\ t.code[o].body = t.body => SlotOf(t, t.code[o])
        /\ \A j \in DOMAIN fs : fs[j].kind # "if" /\ t.code[o].body = fs[j].body => SlotOf(fs[j], t.code[o])
    BY <2>1, <2>2 DEF Mid, SlotsOk
  <2> QED BY <1>5, <2>1, <2>3 DEF SlotOf
<1> QED BY <1>9, <1>11, <1>12, <1>13, <1>14, <1>15, <1>16, <1>17, <1>18 DEF Mid, u

LEMMA RollbackSettles ==
  ASSUME NEW t, NEW fs, NEW c, NEW m, Mid(t, fs, c, m), RolledBack(t, c, m).lost.calls = {},
         \A i \in DOMAIN t.marks : t.marks[i].at < t.count
  PROVE  Settled(RolledBack(t, c, m), fs)
<1>1. t.failed \in BOOLEAN /\ t.marks \in Seq(Mark) /\ m \in Nat /\ m <= Len(t.marks) /\ Sound(t)
  BY DEF Mid, Sound, Shape, MarksOk, IsBase
<1>2. CASE t.failed
  <2>1. Mid(RolledBack(t, c, m), fs, c, m)
    BY <1>2, FailedMid
  <2>2. RolledBack(t, c, m).count = c /\ Len(RolledBack(t, c, m).marks) = m
    BY <1>1, <1>2, RollbackFields DEF RollbackFacts
  <2> QED BY <2>1, <2>2 DEF Settled
<1>3. CASE ~ t.failed
  <2>1. RolledBack(t, c, m) = t
    BY <1>3 DEF RolledBack
  <2> QED BY <1>3, <2>1, CommitMid DEF Settled
<1> QED BY <1>1, <1>2, <1>3

\* A change of the parser's names and flags leaves its code sound.
LEMMA SoundSame ==
  ASSUME NEW s, NEW t, Sound(s), Shape(t), t.code = s.code, t.count = s.count, t.lastCall = s.lastCall
  PROVE  Sound(t)
BY DEF Sound, CodeShape, Tiled, CallKnown

LEMMA BegunFields ==
  ASSUME Settled(parser, open), line \in Nat
  PROVE  /\ DOMAIN Begun = Fields /\ Kept(parser, Begun, {"failed", "line", "marks"})
         /\ ~ Begun.failed /\ Begun.failed \in BOOLEAN /\ Begun.line = line + 1
         /\ Begun.marks = Append(parser.marks, [at |-> parser.count, line |-> line + 1])
<1> DEFINE p == [parser EXCEPT !.failed = FALSE, !.line = line + 1]
           e == [at |-> parser.count, line |-> line + 1]
<1>1. /\ parser.marks \in Seq(Mark) /\ Sound(parser) /\ parser.count \in Nat
      /\ \A i \in DOMAIN parser.marks : parser.marks[i].at < parser.count
  <2>1. parser.marks \in Seq(Mark) /\ Sound(parser) /\ parser.count \in Nat
    BY DEF Settled, Mid, MarksOk, Sound, Shape
  <2>2. \A i \in DOMAIN parser.marks : i <= Len(parser.marks) <=> parser.marks[i].at < parser.count
    BY DEF Settled, Mid, MarksOk, IsBase
  <2>3. \A i \in DOMAIN parser.marks : i <= Len(parser.marks)
    BY <2>1, SeqFacts
  <2> QED BY <2>1, <2>2, <2>3
<1>2. /\ DOMAIN p = Fields /\ Kept(parser, p, {"failed", "line"}) /\ p.failed = FALSE /\ p.line = line + 1
  BY <1>1 DEF Sound, Shape, Fields, Kept
<1> HIDE DEF p
<1>3. p.marks = parser.marks
  BY <1>2 DEF Kept, Fields
<1>4. ~ (p.marks # <<>> /\ Last(p.marks).at >= parser.count)
  <2> SUFFICES ASSUME p.marks # <<>> PROVE ~ Last(p.marks).at >= parser.count
    OBVIOUS
  <2>1. Len(parser.marks) \in DOMAIN parser.marks /\ Last(p.marks) = parser.marks[Len(parser.marks)]
    BY <1>1, <1>3, SeqFacts DEF Last
  <2>2. parser.marks[Len(parser.marks)].at \in Nat
    BY <1>1, <2>1, MarkFacts
  <2> QED BY <1>1, <2>1, <2>2
<1>5. Begun = [p EXCEPT !.marks = Append(@, [at |-> parser.count, line |-> p.line])]
  BY <1>4 DEF Begun, Marked, p
<1>6. DOMAIN Begun = Fields /\ Kept(p, Begun, {"marks"}) /\ Begun.marks = Append(parser.marks, e)
  BY <1>2, <1>3, <1>5 DEF Fields, Kept
<1>7. Kept(parser, Begun, {"failed", "line", "marks"})
  BY <1>2, <1>6 DEF Kept
<1>8. Begun.failed = FALSE /\ Begun.line = line + 1
  BY <1>2, <1>6 DEF Kept, Fields
<1> QED BY <1>6, <1>7, <1>8

LEMMA BegunMid ==
  ASSUME Settled(parser, open), line \in Nat
  PROVE  /\ Mid(Begun, open, parser.count, Len(parser.marks)) /\ Marking(Begun) /\ Sound(Begun)
         /\ \A i \in DOMAIN Begun.marks : Begun.marks[i].at <= parser.count
<1> DEFINE b == Begun
           e == [at |-> parser.count, line |-> line + 1]
           n == Len(parser.marks)
<1>1. /\ DOMAIN b = Fields /\ Kept(parser, b, {"failed", "line", "marks"})
      /\ ~ b.failed /\ b.failed \in BOOLEAN /\ b.line = line + 1 /\ b.marks = Append(parser.marks, e)
  BY BegunFields
<1>2. /\ parser.marks \in Seq(Mark) /\ Sound(parser) /\ parser.count \in Nat /\ e \in Mark
      /\ \A i, j \in DOMAIN parser.marks : i < j => parser.marks[i].at < parser.marks[j].at
      /\ \A i \in DOMAIN parser.marks : i <= n <=> parser.marks[i].at < parser.count
  BY DEF Settled, Mid, MarksOk, IsBase, Sound, Shape, Mark
<1>m. Mid(parser, open, parser.count, n)
  BY DEF Settled
<1>3. /\ b.marks \in Seq(Mark) /\ n \in Nat /\ Len(b.marks) = n + 1 /\ DOMAIN b.marks = 1 .. n + 1
      /\ DOMAIN parser.marks = 1 .. n
      /\ \A i \in 1 .. n : b.marks[i] = parser.marks[i]
      /\ b.marks[n + 1] = e /\ b.marks[n + 1].at = parser.count /\ b.marks[n + 1].line = line + 1
  <2>1. e.at = parser.count /\ e.line = line + 1
    OBVIOUS
  <2> HIDE DEF e, b
  <2>2. n \in Nat /\ DOMAIN parser.marks = 1 .. n
    BY <1>2, SeqFacts
  <2> QED BY <1>1, <1>2, <2>1, <2>2, AppendFacts
<1> HIDE DEF b, e, n
<1>4. \A i \in 1 .. n : parser.marks[i].at \in Nat /\ parser.marks[i].at < parser.count
  BY <1>2, <1>3, MarkFacts
<1>5. /\ b.code = parser.code /\ b.count = parser.count /\ b.body = parser.body /\ b.functions = parser.functions
      /\ b.captured = parser.captured /\ b.lastCall = parser.lastCall /\ b.depth = parser.depth
      /\ b.capturing = parser.capturing /\ b.locals = parser.locals /\ b.outer = parser.outer
      /\ b.params = parser.params /\ b.lost = parser.lost
  BY <1>1 DEF Kept, Fields
<1>6. Sound(b)
  <2>1. Shape(b)
    BY <1>1, <1>2, <1>5 DEF Sound, Shape
  <2> QED BY <1>2, <1>5, <2>1, SoundSame
<1>7. FramesOk(b, open, parser.count)
  <2>1. FramesOk(parser, open, parser.count)
    BY <1>m DEF Mid
  <2> QED BY <1>5, <2>1 DEF FramesOk, Boundary
<1>8. MarksOk(b, open, parser.count, n)
  <2>1. \A i, j \in DOMAIN b.marks : i < j => b.marks[i].at < b.marks[j].at
    BY <1>2, <1>3, <1>4
  <2>2. IsBase(b, parser.count, n)
    BY <1>2, <1>3, <1>4 DEF IsBase
  <2>3. ASSUME NEW j \in DOMAIN open PROVE IsBase(b, open[j].count, open[j].marks)
    <3>1. /\ open[j].marks \in Nat /\ open[j].marks <= n
          /\ \A i \in DOMAIN parser.marks : i <= open[j].marks <=> parser.marks[i].at < open[j].count
      BY <1>m DEF Mid, MarksOk, IsBase, n
    <3>2. open[j].count \in Nat /\ open[j].count <= parser.count
      BY <1>m DEF Mid, FramesOk, FrameOk, FrameSet
    <3> QED BY <1>2, <1>3, <1>4, <3>1, <3>2 DEF IsBase
  <2> QED BY <1>3, <2>1, <2>2, <2>3 DEF MarksOk
<1>9. LinesOk(b)
  <2> SUFFICES ASSUME NEW o \in DOMAIN b.code, b.code[o].line # 0 PROVE MarkedAt(b, o, b.code[o].line)
    BY DEF LinesOk
  <2>1. PICK i \in DOMAIN parser.marks : /\ parser.marks[i].at <= o /\ parser.marks[i].line = b.code[o].line
                                         /\ \A j \in DOMAIN parser.marks : j > i => parser.marks[j].at > o
    BY <1>5, <1>m DEF Mid, LinesOk, MarkedAt
  <2>2. o \in Nat /\ o < parser.count
    BY <1>2, <1>5 DEF Sound, CodeShape
  <2>3. i \in 1 .. n /\ i \in DOMAIN b.marks /\ b.marks[i] = parser.marks[i]
    BY <1>3, <2>1
  <2>4. \A j \in DOMAIN b.marks : j > i => b.marks[j].at > o
    BY <1>2, <1>3, <2>1, <2>2
  <2> QED BY <2>1, <2>3, <2>4 DEF MarkedAt
<1>10. TailsOk(b, open, parser.count) /\ FusedOk(b)
  BY <1>5, <1>m DEF Mid, TailsOk, FusedOk
<1>11. FunctionsOk(b, open)
  <2>1. FunctionsOk(parser, open)
    BY <1>m DEF Mid
  <2> QED BY <1>5, <2>1 DEF FunctionsOk, Loaded, ConstantOk, OpenBody
<1>12. ClosuresOk(b, open)
  <2>1. ClosuresOk(parser, open)
    BY <1>m DEF Mid
  <2> QED BY <1>5, <2>1 DEF ClosuresOk, OpenBody
<1>13. SlotsOk(b, open, parser.count)
  <2>1. SlotsOk(parser, open, parser.count)
    BY <1>m DEF Mid
  <2>2. \A o \in DOMAIN parser.code : ~ o >= parser.count
    BY <1>2 DEF Sound, CodeShape
  <2> QED BY <1>5, <2>1, <2>2 DEF SlotsOk, SlotOf
<1>14. Marking(b)
  <2>1. \A i \in DOMAIN b.marks : b.marks[i].at <= b.count
    BY <1>2, <1>3, <1>4, <1>5
  <2>2. b.marks # <<>> /\ b.marks[Len(b.marks)].line = b.line
    BY <1>1, <1>3
  <2> QED BY <2>1, <2>2 DEF Marking
<1>15. \A i \in DOMAIN b.marks : b.marks[i].at <= parser.count
  BY <1>5, <1>14 DEF Marking
<1> QED BY <1>6, <1>7, <1>8, <1>9, <1>10, <1>11, <1>12, <1>13, <1>14, <1>15 DEF Mid, b, n

\* A statement of one line.
LEMMA StatementSettles ==
  ASSUME Settled(parser, open), line \in Nat, NEW t, Adds(Begun, t), t.count > Begun.count,
         RolledBack(t, parser.count, Len(parser.marks)).lost.calls = {}
  PROVE  Settled(RolledBack(t, parser.count, Len(parser.marks)), open)
<1>1. /\ Mid(Begun, open, parser.count, Len(parser.marks)) /\ Marking(Begun) /\ Sound(Begun)
      /\ \A i \in DOMAIN Begun.marks : Begun.marks[i].at <= parser.count
  BY BegunMid
<1>2. Mid(t, open, parser.count, Len(parser.marks)) /\ Marking(t)
  BY <1>1, AddsMid
<1>3. Begun.count = parser.count
  BY BegunFields DEF Kept, Fields
<1>4. t.marks = Begun.marks /\ t.count \in Nat /\ parser.count \in Nat
  BY <1>1, <1>3 DEF Adds, Kept, Fields, Sound, Shape
<1>5. t.marks \in Seq(Mark)
  BY <1>2 DEF Mid, MarksOk
<1>6. \A i \in DOMAIN t.marks : t.marks[i].at < t.count
  BY <1>1, <1>3, <1>4, <1>5, MarkFacts
<1> QED BY <1>2, <1>6, RollbackSettles

LEMMA FailedAdds ==
  ASSUME NEW s, Sound(s)
  PROVE  Adds(s, Failed(s)) /\ Failed(s).count = s.count
<1> DEFINE t == Failed(s)
<1>1. DOMAIN s = Fields /\ s.captured \in Seq(Name)
  BY DEF Sound, Shape
<1>2. DOMAIN t = Fields /\ Kept(s, t, {"failed"}) /\ t.failed = TRUE
  BY <1>1 DEF Failed, Fields, Kept
<1> HIDE DEF t
<1>3. Names(s, t)
  <2>1. t.locals = s.locals /\ t.outer = s.outer /\ t.captured = s.captured /\ t.params = s.params
    BY <1>2 DEF Kept, Fields
  <2>2. Kept(s, t, {"locals", "captured", "outer", "params", "failed"})
    BY <1>2 DEF Kept
  <2>3. Longer(s.captured, t.captured)
    BY <1>1, <2>1 DEF Longer
  <2>4. s.locals \subseteq Name /\ s.outer \subseteq Name /\ s.params \in Seq(Name) /\ Len(s.captured) <= CaptureMax
    BY DEF Sound, Shape
  <2> QED BY <1>1, <1>2, <2>1, <2>2, <2>3, <2>4 DEF Names
<1> QED BY <1>3, NamesAdd DEF t

LEMMA PlainKeeps ==
  ASSUME NEW s, Sound(s), NEW op \in Plain, NEW words \in Nat \ {0}, NEW arg, NEW meant
  PROVE  LET t == chunk_emit(s, op, words, arg, meant) IN
         /\ Adds(s, t) /\ Sound(t) /\ Kept(s, t, {"code", "count"})
         /\ t.count = s.count + words /\ t.count > s.count /\ t.count \in Nat
<1> DEFINE t == chunk_emit(s, op, words, arg, meant)
<1>1. Adds(s, t) /\ t.count = s.count + words /\ Kept(s, t, {"code", "count"})
  BY PlainAdds, EmitAt
<1> HIDE DEF t
<1>2. Sound(t) /\ s.count \in Nat
  BY <1>1 DEF Adds, Sound, Shape
<1> QED BY <1>1, <1>2 DEF t

LEMMA TextFacts ==
  ASSUME NEW kind, NEW l \in Lines(kind)
  PROVE  /\ kind \in {"function", "closure"} => l.with \in Signature
         /\ kind \notin {"function", "closure"} => Expr(l.with)
         /\ kind \in {"assign", "assign!", "compound", "item", "closure"} => l.name \in Name
<1>1. l \in Text /\ l.kind = kind
  BY DEF Lines
<1> QED BY <1>1, BytecodeAssumption DEF Expr

LEMMA OneLineAdds ==
  ASSUME Sound(Begun), OneLine
  PROVE  \E t : Adds(Begun, t) /\ t.count > Begun.count /\ Statement(t)
<1> DEFINE b == Begun
<1>0. Sound(b) /\ b.count \in Nat
  BY DEF Sound, Shape
<1>p. {"POP", "PUSH", "INDEX_SET"} \subseteq Plain /\ 1 \in Nat \ {0} /\ 2 \in Nat \ {0}
  BY DEF Plain
<1>u. ASSUME NEW e, Expr(e) PROVE LET t == parse_unary(b, e) IN Adds(b, t) /\ Sound(t) /\ t.count > b.count /\ t.count \in Nat
  <2>1. UnaryFacts(b, parse_unary(b, e), e)
    BY <1>0, <1>u, UnaryAdds
  <2>2. Adds(b, parse_unary(b, e)) /\ parse_unary(b, e).count > b.count
    BY <2>1 DEF UnaryFacts
  <2> QED BY <2>2 DEF Adds, Sound, Shape
<1>s. ASSUME NEW e, Expr(e), NEW n \in Name
      PROVE  LET t == emit_store(parse_unary(b, e), n) IN Adds(b, t) /\ Sound(t) /\ t.count > b.count
  <2> DEFINE r == parse_unary(b, e)
             t == emit_store(r, n)
  <2>1. Adds(b, r) /\ Sound(r) /\ r.count > b.count /\ r.count \in Nat
    BY <1>s, <1>u
  <2> HIDE DEF r
  <2>2. Adds(r, t) /\ t.count > r.count
    BY <2>1, StoreAdds
  <2> HIDE DEF t
  <2>3. Adds(b, t)
    BY <1>0, <2>1, <2>2, AddsTransitive
  <2>4. Sound(t) /\ t.count \in Nat
    BY <2>3 DEF Adds, Sound, Shape
  <2> QED BY <1>0, <2>1, <2>2, <2>3, <2>4 DEF t, r
<1>f. ASSUME NEW t, Adds(b, t), t.count > b.count PROVE Adds(b, Failed(t)) /\ Failed(t).count > b.count
  <2>1. Sound(t)
    BY <1>f DEF Adds
  <2>2. Adds(t, Failed(t)) /\ Failed(t).count = t.count
    BY <2>1, FailedAdds
  <2> QED BY <1>0, <1>f, <2>2, AddsTransitive
<1>1. CASE Assign
  <2>1. PICK l \in Lines("assign") : Statement(emit_store(parse_unary(b, l.with), l.name))
    BY <1>1 DEF Assign
  <2>2. Expr(l.with) /\ l.name \in Name
    BY TextFacts
  <2> QED BY <2>1, <2>2, <1>s
<1>2. CASE Compound
  <2>1. PICK l \in Lines("compound") : Statement(parse_compound_assignment(b, l.name, l.with))
    BY <1>2 DEF Compound
  <2>2. Expr(l.with) /\ l.name \in Name
    BY TextFacts
  <2> QED BY <1>0, <2>1, <2>2, CompoundAdds
<1>3. CASE CallStatement
  <2> DEFINE r == parse_call_args(b)
             t == chunk_emit(r, "POP", 1, 0, 0)
  <2>1. Statement(t)
    BY <1>3 DEF CallStatement
  <2>2. Adds(b, r) /\ r.count = b.count + 4
    BY <1>0, CallAdds
  <2> HIDE DEF r
  <2>3. Sound(r)
    BY <2>2 DEF Adds
  <2>4. Adds(r, t) /\ t.count = r.count + 1
    BY <1>p, <2>3, PlainKeeps
  <2> HIDE DEF t
  <2>5. Adds(b, t) /\ t.count > b.count
    BY <1>0, <2>2, <2>4, AddsTransitive
  <2> QED BY <2>1, <2>5
<1>4. CASE SetItem
  <2>1. PICK l \in Lines("item") :
          Statement(chunk_emit(chunk_emit(chunk_emit(emit_load(b, l.name), "PUSH", 2, 0, 0), "PUSH", 2, 0, 0), "INDEX_SET", 1, 0, 0))
    BY <1>4 DEF SetItem
  <2>2. l.name \in Name
    BY TextFacts
  <2> DEFINE r == emit_load(b, l.name)
             r1 == chunk_emit(r, "PUSH", 2, 0, 0)
             r2 == chunk_emit(r1, "PUSH", 2, 0, 0)
             t == chunk_emit(r2, "INDEX_SET", 1, 0, 0)
  <2>3. LoadFacts(b, r, l.name)
    BY <1>0, <2>2, LoadAdds
  <2>4. Adds(b, r) /\ Sound(r) /\ r.count \in Nat /\ r.count >= b.count
    BY <2>3 DEF LoadFacts, Adds, Sound, Shape
  <2> HIDE DEF r
  <2>5. Adds(r, r1) /\ Sound(r1) /\ r1.count = r.count + 2
    BY <1>p, <2>4, PlainKeeps
  <2> HIDE DEF r1
  <2>6. Adds(r1, r2) /\ Sound(r2) /\ r2.count = r1.count + 2
    BY <1>p, <2>5, PlainKeeps
  <2> HIDE DEF r2
  <2>7. Adds(r2, t) /\ t.count = r2.count + 1
    BY <1>p, <2>6, PlainKeeps
  <2>8. Statement(t)
    BY <2>1 DEF r, r1, r2
  <2> HIDE DEF t
  <2>9. Adds(b, r1)
    BY <1>0, <2>4, <2>5, AddsTransitive
  <2>10. Adds(b, r2)
    BY <1>0, <2>6, <2>9, AddsTransitive
  <2>11. Adds(b, t)
    BY <1>0, <2>7, <2>10, AddsTransitive
  <2>12. t.count > b.count
    BY <1>0, <2>4, <2>5, <2>6, <2>7
  <2> QED BY <2>8, <2>11, <2>12
<1>5. CASE ReturnStatement
  <2>1. PICK l \in Lines("return") : Statement(parse_return(b, l.with))
    BY <1>5 DEF ReturnStatement
  <2>2. Expr(l.with)
    BY TextFacts
  <2> QED BY <1>0, <2>1, <2>2, ReturnAdds
<1>6. CASE ExpressionFails
  <2>1. PICK l \in Lines("expression!") : Statement(Failed(parse_unary(b, l.with)))
    BY <1>6 DEF ExpressionFails
  <2>2. Expr(l.with)
    BY TextFacts
  <2> QED BY <2>1, <2>2, <1>u, <1>f
<1>7. CASE AssignFails
  <2>1. PICK l \in Lines("assign!") : Statement(Failed(emit_store(parse_unary(b, l.with), l.name)))
    BY <1>7 DEF AssignFails
  <2>2. Expr(l.with) /\ l.name \in Name
    BY TextFacts
  <2> QED BY <2>1, <2>2, <1>s, <1>f
<1> QED BY <1>1, <1>2, <1>3, <1>4, <1>5, <1>6, <1>7 DEF OneLine

LEMMA ParamStatesExist ==
  ASSUME NEW b, NEW params, NEW n \in Nat
  PROVE  \E w : ParamStates(w, b, params, n, n)
<1> DEFINE step(w, k) == IF k = 0 THEN b ELSE emit_define_param(w[k - 1], params[n + 1 - k])
           G == {m \in Nat : \E w : ParamStates(w, b, params, n, m)}
<1>0. ASSUME NEW w, NEW m \in Nat PROVE ParamStates(w, b, params, n, m) <=> w = [k \in 0 .. m |-> step(w, k)]
  BY Zenon DEF ParamStates
<1>1. 0 \in G
  <2> DEFINE w == [k \in 0 .. 0 |-> b]
  <2>1. w = [k \in 0 .. 0 |-> step(w, k)]
    OBVIOUS
  <2>2. ParamStates(w, b, params, n, 0)
    BY <1>0, <2>1
  <2> HIDE DEF w
  <2> QED BY <2>2
<1>2. ASSUME NEW m \in Nat, m \in G PROVE m + 1 \in G
  <2>0. PICK w : ParamStates(w, b, params, n, m)
    BY <1>2
  <2>1. w = [k \in 0 .. m |-> step(w, k)]
    BY <1>0, <2>0
  <2> DEFINE v == [k \in 0 .. m + 1 |-> IF k = m + 1 THEN step(w, m + 1) ELSE w[k]]
  <2>2. ASSUME NEW k \in 0 .. m + 1 PROVE v[k] = step(v, k)
    <3>1. CASE k = 0
      BY <2>1, <3>1
    <3>2. CASE k # 0 /\ k # m + 1
      <4>1. k - 1 \in 0 .. m + 1 /\ k - 1 # m + 1 /\ k \in 0 .. m
        BY <3>2
      <4>2. v[k] = w[k] /\ v[k - 1] = w[k - 1]
        BY <4>1, <3>2
      <4>3. w[k] = step(w, k)
        BY <2>1, <4>1
      <4> QED BY <3>2, <4>2, <4>3
    <3>3. CASE k = m + 1
      <4>1. k - 1 \in 0 .. m + 1 /\ k - 1 # m + 1
        BY <3>3
      <4>2. v[k] = step(w, m + 1) /\ v[k - 1] = w[k - 1]
        BY <4>1, <3>3
      <4> QED BY <3>3, <4>2
    <3> QED BY <3>1, <3>2, <3>3
  <2>3. v = [k \in 0 .. m + 1 |-> step(v, k)]
    BY <2>2
  <2>4. m + 1 \in Nat
    OBVIOUS
  <2>5. ParamStates(v, b, params, n, m + 1)
    BY <1>0, <2>3, <2>4
  <2> HIDE DEF v
  <2> QED BY <2>4, <2>5
<1>3. n \in G
  <2> HIDE DEF G
  <2> QED BY <1>1, <1>2, SetInduction
<1> QED BY <1>3

LEMMA EnterFunctionStates ==
  ASSUME NEW s, NEW sig, Len(sig.params) \in Nat
  PROVE  \E w : /\ ParamStates(w, chunk_emit(Entered(s), "PUSH_SCOPE", 1, s.body, s.capturing), sig.params,
                               Len(sig.params), Len(sig.params))
                /\ EnterFunction(s, sig) = w[Len(sig.params)]
<1> DEFINE b == Entered(s)
           c == chunk_emit(b, "PUSH_SCOPE", 1, s.body, s.capturing)
           w0 == CHOOSE w : ParamStates(w, c, sig.params, Len(sig.params), Len(sig.params))
<1>1. EnterFunction(s, sig) = w0[Len(sig.params)]
  BY Zenon DEF EnterFunction, Entered, ParamStates
<1>2. \E w : ParamStates(w, c, sig.params, Len(sig.params), Len(sig.params))
  BY ParamStatesExist
<1>3. ParamStates(w0, c, sig.params, Len(sig.params), Len(sig.params))
  BY <1>2, Zenon
<1> QED BY <1>1, <1>3

LEMMA ParamsAdd ==
  ASSUME NEW b, Sound(b), NEW params, NEW n \in Nat, \A i \in 1 .. n : params[i] \in Name,
         NEW w, ParamStates(w, b, params, n, n)
  PROVE  Adds(b, w[n]) /\ w[n].failed = b.failed
<1> DEFINE G == {k \in Nat : k <= n => Adds(b, w[k]) /\ w[k].failed = b.failed}
<1>1. /\ w[0] = b
      /\ \A k \in 1 .. n : w[k] = emit_define_param(w[k - 1], params[n + 1 - k])
  BY DEF ParamStates
<1>2. 0 \in G
  BY <1>1, AddsSelf
<1>3. ASSUME NEW k \in Nat, k \in G PROVE k + 1 \in G
  <2> SUFFICES ASSUME k + 1 <= n PROVE Adds(b, w[k + 1]) /\ w[k + 1].failed = b.failed
    OBVIOUS
  <2>1. k + 1 \in 1 .. n /\ n + 1 - (k + 1) \in 1 .. n /\ k <= n /\ (k + 1) - 1 = k
    OBVIOUS
  <2>2. Adds(b, w[k]) /\ w[k].failed = b.failed
    BY <1>3, <2>1
  <2>3. w[k + 1] = emit_define_param(w[k], params[n + 1 - (k + 1)]) /\ params[n + 1 - (k + 1)] \in Name
    BY <1>1, <2>1
  <2>4. Sound(w[k])
    BY <2>2 DEF Adds
  <2>5. Adds(w[k], w[k + 1]) /\ Kept(w[k], w[k + 1], {"code", "count", "locals", "outer", "params"})
    BY <2>3, <2>4, ParamAdds
  <2>6. w[k + 1].failed = w[k].failed
    BY <2>5 DEF Kept, Fields
  <2> QED BY <2>2, <2>5, <2>6, AddsTransitive
<1>4. n \in G
  <2> HIDE DEF G
  <2> QED BY <1>2, <1>3, SetInduction
<1> QED BY <1>4

\* Frames with one more on top.
LEMMA PushedFrames ==
  ASSUME NEW fs \in Seq(FrameSet), NEW f \in FrameSet
  PROVE  /\ Append(fs, f) \in Seq(FrameSet) /\ Len(Append(fs, f)) = Len(fs) + 1 /\ Len(fs) \in Nat
         /\ DOMAIN fs = 1 .. Len(fs) /\ DOMAIN Append(fs, f) = 1 .. Len(fs) + 1
         /\ Append(fs, f)[Len(fs) + 1] = f /\ \A j \in DOMAIN fs : Append(fs, f)[j] = fs[j]
BY AppendFacts, SeqFacts

\* An if-block begins where the code of its header is written.
LEMMA PushIf ==
  ASSUME NEW s, NEW fs \in Seq(FrameSet), NEW c, NEW m, Mid(s, fs, c, m),
         NEW f, FrameOk(f), f.kind = "if", f.count = c, f.marks = m, f.body = s.body
  PROVE  Mid(s, Append(fs, f), c, m)
<1> DEFINE gs == Append(fs, f)
           n == Len(fs)
<1>1. f \in FrameSet
  BY DEF FrameOk
<1>2. /\ gs \in Seq(FrameSet) /\ Len(gs) = n + 1 /\ n \in Nat /\ DOMAIN fs = 1 .. n /\ DOMAIN gs = 1 .. n + 1
      /\ gs[n + 1] = f /\ \A j \in DOMAIN fs : gs[j] = fs[j]
  BY <1>1, PushedFrames
<1> HIDE DEF gs, n
<1>3. /\ \A j \in DOMAIN gs : j = n + 1 \/ (j \in DOMAIN fs /\ j < n + 1)
      /\ \A j \in DOMAIN fs : j \in DOMAIN gs /\ j + 1 \in DOMAIN gs /\ (j < n => j + 1 \in DOMAIN fs)
  BY <1>2
<1>4. c \in Nat /\ c <= s.count /\ s.body <= c /\ Boundary(s, c)
  BY DEF Mid, FramesOk
<1>5. FramesOk(s, gs, c)
  <2>1. ASSUME NEW j \in DOMAIN gs
        PROVE  /\ FrameOk(gs[j]) /\ gs[j].count <= c /\ gs[j].body <= gs[j].count /\ Boundary(s, gs[j].count)
               /\ gs[j].body <= s.body /\ (gs[j].kind # "if" => gs[j].body < s.body)
               /\ gs[j].kind = "if" => (IF j = Len(gs) THEN s.body ELSE gs[j + 1].body) = gs[j].body
    <3>1. CASE j = n + 1
      <4>1. s.body \in Nat
        BY DEF Mid, Sound, Shape
      <4> QED BY <1>2, <1>4, <3>1, <4>1
    <3>2. CASE j \in DOMAIN fs
      <4>1. /\ FrameOk(fs[j]) /\ fs[j].count <= c /\ fs[j].body <= fs[j].count /\ Boundary(s, fs[j].count)
            /\ fs[j].body <= s.body /\ (fs[j].kind # "if" => fs[j].body < s.body)
            /\ fs[j].kind = "if" => (IF j = n THEN s.body ELSE fs[j + 1].body) = fs[j].body
        BY <3>2 DEF Mid, FramesOk, n
      <4>2. j # Len(gs) /\ gs[j] = fs[j] /\ (j = n => gs[j + 1].body = s.body) /\ (j # n => gs[j + 1] = fs[j + 1])
        BY <1>2, <3>2
      <4> QED BY <4>1, <4>2
    <3> QED BY <1>3, <3>1, <3>2
  <2>2. ASSUME NEW j \in DOMAIN gs, NEW k \in DOMAIN gs, j < k
        PROVE  /\ gs[j].count <= gs[k].count /\ gs[j].marks <= gs[k].marks /\ gs[j].body <= gs[k].body
               /\ gs[j].kind # "if" => gs[j].body < gs[k].body
    <3>1. j \in DOMAIN fs /\ gs[j] = fs[j]
      BY <1>2, <2>2
    <3>2. CASE k \in DOMAIN fs
      BY <1>2, <2>2, <3>1, <3>2 DEF Mid, FramesOk
    <3>3. CASE k = n + 1
      <4>1. fs[j].count <= c /\ fs[j].body <= s.body /\ (fs[j].kind # "if" => fs[j].body < s.body)
        BY <3>1 DEF Mid, FramesOk
      <4>2. fs[j].marks <= m
        BY <3>1, BaseBelow DEF Mid
      <4> QED BY <1>2, <3>1, <3>3, <4>1, <4>2
    <3> QED BY <1>3, <3>2, <3>3
  <2> QED BY <1>4, <2>1, <2>2 DEF FramesOk
<1>6. MarksOk(s, gs, c, m)
  BY <1>2, <1>3 DEF Mid, MarksOk
<1>7. TailsOk(s, gs, c)
  <2> SUFFICES ASSUME NEW o \in DOMAIN s.code, s.code[o].op = "TAIL_CALL"
               PROVE  /\ o + 4 \in DOMAIN s.code /\ s.code[o + 4].op = "RETURN"
                      /\ o < c => o + 4 < c
                      /\ \A j \in DOMAIN gs : o < gs[j].count => o + 4 < gs[j].count
    BY DEF TailsOk
  <2>1. /\ o + 4 \in DOMAIN s.code /\ s.code[o + 4].op = "RETURN"
        /\ o < c => o + 4 < c
        /\ \A j \in DOMAIN fs : o < fs[j].count => o + 4 < fs[j].count
    BY DEF Mid, TailsOk
  <2> QED BY <1>2, <1>3, <2>1
<1>8. \A b : OpenBody(s, gs, b) <=> OpenBody(s, fs, b)
  BY <1>2, <1>3 DEF OpenBody
<1>9. FunctionsOk(s, gs)
  BY <1>8 DEF Mid, FunctionsOk, Loaded
<1>10. ClosuresOk(s, gs)
  BY <1>8 DEF Mid, ClosuresOk
<1>11. SlotsOk(s, gs, c)
  BY <1>2, <1>3 DEF Mid, SlotsOk
<1> QED BY <1>5, <1>6, <1>7, <1>9, <1>10, <1>11 DEF Mid, gs

\* A function begins after the jump over it: its body starts a new base.
LEMMA EnterMid ==
  ASSUME NEW t, NEW fs \in Seq(FrameSet), NEW c, NEW m, Mid(t, fs, c, m), ~ t.failed, c < t.count,
         \A i \in DOMAIN t.marks : t.marks[i].at < t.count,
         NEW f, FrameOk(f), f.kind # "if", f.count = c, f.marks = m, f.body = t.body, f.captured = t.captured,
         NEW b, Shape(b), b.code = t.code, b.count = t.count, b.marks = t.marks, b.functions = t.functions,
         b.lastCall = t.lastCall, b.body = t.count, b.lost = t.lost
  PROVE  Mid(b, Append(fs, f), b.count, Len(b.marks))
<1> DEFINE gs == Append(fs, f)
           n == Len(fs)
<1>1. f \in FrameSet
  BY DEF FrameOk
<1>2. /\ gs \in Seq(FrameSet) /\ Len(gs) = n + 1 /\ n \in Nat /\ DOMAIN fs = 1 .. n /\ DOMAIN gs = 1 .. n + 1
      /\ gs[n + 1] = f /\ \A j \in DOMAIN fs : gs[j] = fs[j]
  BY <1>1, PushedFrames
<1> HIDE DEF gs, n
<1>3. /\ \A j \in DOMAIN gs : j = n + 1 \/ (j \in DOMAIN fs /\ j < n + 1)
      /\ \A j \in DOMAIN fs : j \in DOMAIN gs /\ j + 1 \in DOMAIN gs /\ (j < n => j + 1 \in DOMAIN fs)
  BY <1>2
<1>4. /\ c \in Nat /\ t.count \in Nat /\ t.body \in Nat /\ t.body <= c /\ Boundary(t, c) /\ Sound(t)
      /\ t.marks \in Seq(Mark)
  BY DEF Mid, FramesOk, Sound, Shape, MarksOk
<1>5. Mid(t, fs, t.count, Len(t.marks))
  BY CommitMid
<1>6. \A o \in DOMAIN t.code : o \in Nat /\ o < t.count /\ t.code[o].body \in Nat /\ t.code[o].body < t.count
  BY <1>4 DEF Sound, CodeShape
<1>7. \A j \in DOMAIN fs : /\ FrameOk(fs[j]) /\ fs[j].count \in Nat /\ fs[j].body \in Nat
                           /\ fs[j].count <= c /\ fs[j].body <= t.body
                           /\ (fs[j].kind # "if" => fs[j].body < t.body)
  BY DEF Mid, FramesOk, FrameOk, FrameSet
<1>8. Sound(b)
  BY <1>4, SoundSame
<1>9. FramesOk(b, gs, t.count)
  <2>1. ASSUME NEW j \in DOMAIN gs
        PROVE  /\ FrameOk(gs[j]) /\ gs[j].count <= t.count /\ gs[j].body <= gs[j].count /\ Boundary(b, gs[j].count)
               /\ gs[j].body <= b.body /\ (gs[j].kind # "if" => gs[j].body < b.body)
               /\ gs[j].kind = "if" => (IF j = Len(gs) THEN b.body ELSE gs[j + 1].body) = gs[j].body
    <3>1. CASE j = n + 1
      BY <1>2, <1>4, <3>1 DEF Boundary
    <3>2. CASE j \in DOMAIN fs
      <4>1. /\ FrameOk(fs[j]) /\ fs[j].count <= c /\ fs[j].body <= fs[j].count /\ Boundary(t, fs[j].count)
            /\ fs[j].kind = "if" => (IF j = n THEN t.body ELSE fs[j + 1].body) = fs[j].body
        BY <3>2 DEF Mid, FramesOk, n
      <4>2. j # Len(gs) /\ gs[j] = fs[j] /\ (j = n => gs[j + 1].body = t.body) /\ (j # n => gs[j + 1] = fs[j + 1])
        BY <1>2, <3>2
      <4>3. fs[j].count <= t.count /\ fs[j].body < t.count
        BY <1>4, <1>7, <3>2
      <4>4. Boundary(b, fs[j].count)
        BY <4>1 DEF Boundary
      <4>5. fs[j].body <= b.body /\ (fs[j].kind # "if" => fs[j].body < b.body)
        BY <1>4, <1>7, <3>2, <4>3
      <4> QED BY <4>1, <4>2, <4>3, <4>4, <4>5
    <3> QED BY <1>3, <3>1, <3>2
  <2>2. ASSUME NEW j \in DOMAIN gs, NEW k \in DOMAIN gs, j < k
        PROVE  /\ gs[j].count <= gs[k].count /\ gs[j].marks <= gs[k].marks /\ gs[j].body <= gs[k].body
               /\ gs[j].kind # "if" => gs[j].body < gs[k].body
    <3>1. j \in DOMAIN fs /\ gs[j] = fs[j]
      BY <1>2, <2>2
    <3>2. CASE k \in DOMAIN fs
      BY <1>2, <2>2, <3>1, <3>2 DEF Mid, FramesOk
    <3>3. CASE k = n + 1
      <4>1. fs[j].count <= c /\ fs[j].body <= t.body /\ (fs[j].kind # "if" => fs[j].body < t.body)
        BY <1>7, <3>1
      <4>2. fs[j].marks <= m
        BY <3>1, BaseBelow DEF Mid
      <4> QED BY <1>2, <3>1, <3>3, <4>1, <4>2
    <3> QED BY <1>3, <3>2, <3>3
  <2>3. Boundary(b, t.count)
    BY <1>4 DEF Boundary, Sound, CodeShape
  <2> QED BY <1>4, <2>1, <2>2, <2>3 DEF FramesOk
<1>10. MarksOk(b, gs, t.count, Len(t.marks))
  <2>1. MarksOk(t, fs, t.count, Len(t.marks)) /\ IsBase(t, c, m)
    BY <1>5 DEF Mid, MarksOk
  <2>2. ASSUME NEW j \in DOMAIN gs PROVE IsBase(b, gs[j].count, gs[j].marks)
    BY <1>2, <1>3, <2>1 DEF MarksOk, IsBase
  <2> QED BY <2>1, <2>2 DEF MarksOk, IsBase
<1>11. LinesOk(b) /\ FusedOk(b)
  BY DEF Mid, LinesOk, MarkedAt, FusedOk
<1>12. TailsOk(b, gs, t.count)
  <2> SUFFICES ASSUME NEW o \in DOMAIN t.code, t.code[o].op = "TAIL_CALL"
               PROVE  /\ o + 4 \in DOMAIN t.code /\ t.code[o + 4].op = "RETURN"
                      /\ o < t.count => o + 4 < t.count
                      /\ \A j \in DOMAIN gs : o < gs[j].count => o + 4 < gs[j].count
    BY DEF TailsOk
  <2>1. /\ o + 4 \in DOMAIN t.code /\ t.code[o + 4].op = "RETURN"
        /\ o < c => o + 4 < c
        /\ \A j \in DOMAIN fs : o < fs[j].count => o + 4 < fs[j].count
    BY DEF Mid, TailsOk
  <2> QED BY <1>2, <1>3, <1>6, <2>1
<1>13. \A x : OpenBody(b, gs, x) => x = t.count \/ OpenBody(t, fs, x)
  BY <1>2, <1>3 DEF OpenBody
<1>14. FunctionsOk(b, gs)
  <2>1. FunctionsOk(t, fs)
    BY DEF Mid
  <2>2. ASSUME NEW g, Loaded(t, fs, g) PROVE Loaded(b, gs, g)
    <3>1. g.at # t.count
      BY <1>4, <1>6, <2>2 DEF Loaded
    <3> QED BY <1>13, <2>2, <3>1 DEF Loaded
  <2> QED BY <2>1, <2>2 DEF FunctionsOk, ConstantOk
<1>15. ClosuresOk(b, gs)
  <2>1. ClosuresOk(t, fs)
    BY DEF Mid
  <2>2. ASSUME NEW q \in DOMAIN t.code, t.code[q].op = "MAKE_CLOSURE" PROVE ~ OpenBody(b, gs, t.code[q].arg.at)
    <3>1. t.code[q].arg.at \in Nat /\ t.code[q].arg.at <= q /\ ~ OpenBody(t, fs, t.code[q].arg.at)
      BY <2>1, <2>2 DEF ClosuresOk
    <3>2. t.code[q].arg.at # t.count
      BY <1>4, <1>6, <3>1
    <3> QED BY <1>13, <3>1, <3>2
  <2> QED BY <2>1, <2>2 DEF ClosuresOk
<1>16. SlotsOk(b, gs, t.count)
  <2> SUFFICES ASSUME NEW o \in DOMAIN t.code, t.code[o].op \in Upvalue
               PROVE  /\ t.code[o].body # b.body
                      /\ \A j \in DOMAIN gs : gs[j].kind # "if" /\ t.code[o].body = gs[j].body => SlotOf(gs[j], t.code[o])
    BY DEF SlotsOk
  <2>1. /\ t.code[o].body = t.body => SlotOf(t, t.code[o])
        /\ \A j \in DOMAIN fs : fs[j].kind # "if" /\ t.code[o].body = fs[j].body => SlotOf(fs[j], t.code[o])
    BY DEF Mid, SlotsOk
  <2>2. SlotOf(t, t.code[o]) => SlotOf(f, t.code[o])
    BY DEF SlotOf
  <2> QED BY <1>2, <1>3, <1>4, <1>6, <2>1, <2>2
<1> QED BY <1>8, <1>9, <1>10, <1>11, <1>12, <1>14, <1>15, <1>16 DEF Mid, gs

LEMMA EnteredFields ==
  ASSUME NEW s, Sound(s)
  PROVE  LET t == chunk_emit(s, "JUMP", 2, 0, 0)  b == Entered(s) IN
         /\ DOMAIN b = Fields /\ Kept(s, b, EnteredKept) /\ Shape(b)
         /\ b.code = t.code /\ b.count = s.count + 2 /\ b.body = s.count + 2 /\ t.count = s.count + 2
<1> DEFINE t == chunk_emit(s, "JUMP", 2, 0, 0)
           b == Entered(s)
<1>1. DOMAIN s = Fields /\ s.count \in Nat
  BY DEF Sound, Shape
<1>2. DOMAIN t = Fields /\ Kept(s, t, {"code", "count"}) /\ t.count = s.count + 2
  BY <1>1, EmitFields
<1>3. b = [t EXCEPT !.depth = @ + 1, !.body = t.count, !.params = <<>>, !.outer = IF s.depth = 0 THEN {} ELSE @]
  BY DEF Entered
<1> HIDE DEF t, b
<1>4. /\ DOMAIN b = Fields /\ Kept(t, b, {"depth", "body", "params", "outer"})
      /\ b.depth = t.depth + 1 /\ b.body = t.count /\ b.params = <<>> /\ b.outer \in {{}, t.outer}
  BY <1>2, <1>3 DEF Fields, Kept
<1>5. Kept(s, b, EnteredKept) /\ b.code = t.code /\ b.count = t.count
  BY <1>2, <1>4 DEF Kept, Fields, EnteredKept
<1>6. /\ t.depth = s.depth /\ t.outer = s.outer /\ b.lastCall = s.lastCall /\ b.line = s.line
      /\ b.capturing = s.capturing /\ b.failed = s.failed /\ b.locals = s.locals /\ b.captured = s.captured
  BY <1>2, <1>5 DEF Kept, Fields, EnteredKept
<1>7. b.params \in Seq(Name)
  BY <1>4
<1>8. Shape(b)
  BY <1>1, <1>2, <1>4, <1>5, <1>6, <1>7 DEF Sound, Shape
<1> QED BY <1>2, <1>4, <1>5, <1>8 DEF t, b

\* The code of a function's header does not depend on what captures.
LEMMA JumpCode ==
  ASSUME NEW s, NEW u, DOMAIN s = Fields, DOMAIN u = Fields, Kept(s, u, {"capturing", "locals", "captured"})
  PROVE  chunk_emit(u, "JUMP", 2, 0, 0).code = chunk_emit(s, "JUMP", 2, 0, 0).code
<1>1. u.code = s.code /\ u.count = s.count /\ u.line = s.line /\ u.body = s.body
  BY DEF Kept, Fields
<1> DEFINE i(v) == Instruction(v, "JUMP", 2, 0, 0)
           codeOf(v) == [o \in DOMAIN v.code \cup {v.count} |-> IF o = v.count THEN i(v) ELSE v.code[o]]
<1>2. i(u) = i(s)
  BY <1>1 DEF Instruction
<1>3. chunk_emit(u, "JUMP", 2, 0, 0).code = codeOf(u) /\ chunk_emit(s, "JUMP", 2, 0, 0).code = codeOf(s)
  BY DEF chunk_emit, Fields, Instruction
<1> HIDE DEF i
<1>4. codeOf(u) = codeOf(s)
  BY <1>1, <1>2
<1> QED BY <1>3, <1>4

LEMMA FrameFacts ==
  ASSUME CodeInv, NEW kind \in {"function", "closure", "if"}, NEW name \in Name \cup {Callee},
         NEW sig \in Signature \cup {<<>>}, kind # "if" => sig \in Signature, kind = "closure" => name \in Name
  PROVE  LET f == FrameOf(kind, name, sig) IN
         /\ FrameOk(f) /\ f.kind = kind /\ f.count = parser.count /\ f.marks = Len(parser.marks)
         /\ f.body = parser.body /\ f.captured = parser.captured
<1> DEFINE f == FrameOf(kind, name, sig)
<1>1. /\ parser.count \in Nat /\ parser.depth \in Nat /\ parser.body \in Nat /\ parser.capturing \in BOOLEAN
      /\ parser.locals \subseteq Name /\ parser.captured \in Seq(Name) /\ parser.params \in Seq(Name)
      /\ Len(parser.captured) <= CaptureMax
  BY DEF CodeInv, Settled, Mid, Sound, Shape
<1>2. Len(parser.marks) \in Nat
  BY DEF CodeInv, Settled, Mid, MarksOk, IsBase
<1>3. line + 1 \in Nat
  BY DEF CodeInv
<1>4. parser.locals \in SUBSET Name
  BY <1>1
<1>5. f \in FrameSet
  BY <1>1, <1>2, <1>3, <1>4 DEF FrameOf, FrameSet
<1>6. /\ f.kind = kind /\ f.count = parser.count /\ f.marks = Len(parser.marks) /\ f.sig = sig /\ f.name = name
      /\ f.body = parser.body /\ f.captured = parser.captured
  BY DEF FrameOf
<1> QED BY <1>1, <1>5, <1>6 DEF FrameOk

LEMMA IfBeginsKeeps ==
  ASSUME CodeInv, IfBegins
  PROVE  CodeInv'
<1> DEFINE b == Begun
           s1 == chunk_emit(b, "PUSH", 2, 0, 0)
           s2 == chunk_emit(s1, "JUMP_IF_FALSE", 2, 0, 0)
           s3 == chunk_emit(s2, "PUSH_SCOPE", 1, 0, 0)
           f == FrameOf("if", Callee, <<>>)
<1>1. Settled(parser, open) /\ line \in Nat /\ open \in Seq(FrameSet)
  BY DEF CodeInv
<1>2. parser' = s3 /\ open' = Append(open, f) /\ line' = line + 1
  BY DEF IfBegins, BlockBegins
<1>3. /\ Mid(b, open, parser.count, Len(parser.marks)) /\ Marking(b) /\ Sound(b) /\ ~ b.failed
      /\ \A i \in DOMAIN b.marks : b.marks[i].at <= parser.count
  BY <1>1, BegunMid, BegunFields
<1>4. b.count = parser.count /\ b.body = parser.body /\ b.count \in Nat
  BY <1>1, <1>3, BegunFields DEF Kept, Fields, Sound, Shape
<1>p. {"PUSH", "JUMP_IF_FALSE", "PUSH_SCOPE"} \subseteq Plain /\ 1 \in Nat \ {0} /\ 2 \in Nat \ {0}
  BY DEF Plain
<1> HIDE DEF b
<1>5. Adds(b, s1) /\ Sound(s1) /\ Kept(b, s1, {"code", "count"}) /\ s1.count > b.count /\ s1.count \in Nat
  BY <1>3, <1>p, PlainKeeps
<1> HIDE DEF s1
<1>6. Adds(s1, s2) /\ Sound(s2) /\ Kept(s1, s2, {"code", "count"}) /\ s2.count > s1.count /\ s2.count \in Nat
  BY <1>5, <1>p, PlainKeeps
<1> HIDE DEF s2
<1>7. Adds(s2, s3) /\ Sound(s3) /\ Kept(s2, s3, {"code", "count"}) /\ s3.count > s2.count /\ s3.count \in Nat
  BY <1>6, <1>p, PlainKeeps
<1> HIDE DEF s3, f
<1>8. Adds(b, s2)
  BY <1>3, <1>5, <1>6, AddsTransitive
<1>9. Adds(b, s3)
  BY <1>3, <1>7, <1>8, AddsTransitive
<1>10. s3.failed = b.failed /\ s3.marks = b.marks /\ s3.body = b.body
  BY <1>5, <1>6, <1>7 DEF Kept, Fields
<1>11. Mid(s3, open, parser.count, Len(parser.marks))
  BY <1>3, <1>9, AddsMid
<1>12. /\ FrameOk(f) /\ f.kind = "if" /\ f.count = parser.count /\ f.marks = Len(parser.marks) /\ f.body = s3.body
  <2>1. "if" \in {"function", "closure", "if"} /\ <<>> \in Signature \cup {<<>>} /\ Callee \in Name \cup {Callee}
    OBVIOUS
  <2>2. /\ FrameOk(f) /\ f.kind = "if" /\ f.count = parser.count /\ f.marks = Len(parser.marks)
        /\ f.body = parser.body
    BY <2>1, FrameFacts DEF f
  <2> QED BY <1>4, <1>10, <2>2
<1>13. Mid(s3, Append(open, f), parser.count, Len(parser.marks))
  BY <1>1, <1>11, <1>12, PushIf
<1>14. \A i \in DOMAIN s3.marks : s3.marks[i].at < s3.count
  <2>1. b.marks \in Seq(Mark)
    BY <1>3 DEF Mid, MarksOk
  <2> QED BY <1>3, <1>4, <1>5, <1>6, <1>7, <1>10, <2>1, MarkFacts
<1>15. Settled(s3, Append(open, f))
  BY <1>3, <1>10, <1>13, <1>14, CommitMid DEF Settled
<1>16. Append(open, f) \in Seq(FrameSet) /\ line + 1 \in Nat
  BY <1>1, <1>12, PushedFrames DEF FrameOk
<1> QED BY <1>2, <1>15, <1>16 DEF CodeInv

\* A function begins, whatever of the parser's names it puts aside.
LEMMA FunctionEntered ==
  ASSUME CodeInv,
         NEW u, Sound(u), Kept(Begun, u, {"capturing", "locals", "captured"}), DOMAIN u = Fields,
         NEW f, FrameOk(f), f.kind # "if", f.count = parser.count, f.marks = Len(parser.marks),
         f.body = parser.body, f.captured = parser.captured, NEW sig \in Signature
  PROVE  Settled(EnterFunction(u, sig), Append(open, f))
<1> DEFINE b == Begun
           t == chunk_emit(b, "JUMP", 2, 0, 0)
           e == Entered(u)
           p == chunk_emit(e, "PUSH_SCOPE", 1, u.body, u.capturing)
           gs == Append(open, f)
<1>1. Settled(parser, open) /\ line \in Nat /\ open \in Seq(FrameSet)
  BY DEF CodeInv
<1>2. /\ Mid(b, open, parser.count, Len(parser.marks)) /\ Marking(b) /\ Sound(b) /\ ~ b.failed
      /\ \A i \in DOMAIN b.marks : b.marks[i].at <= parser.count
      /\ DOMAIN b = Fields
  BY <1>1, BegunMid, BegunFields
<1>3. b.count = parser.count /\ b.body = parser.body /\ b.count \in Nat /\ b.captured = parser.captured
  BY <1>1, <1>2, BegunFields DEF Kept, Fields, Sound, Shape
<1>p. {"JUMP", "PUSH_SCOPE"} \subseteq Plain /\ 1 \in Nat \ {0} /\ 2 \in Nat \ {0}
  BY DEF Plain
<1>4. e.code = chunk_emit(u, "JUMP", 2, 0, 0).code /\ DOMAIN e = Fields /\ Kept(u, e, EnteredKept) /\ Shape(e)
      /\ e.count = u.count + 2 /\ e.body = u.count + 2
  BY EnteredFields
<1>5. e.code = t.code
  BY <1>2, <1>4, JumpCode
<1> HIDE DEF b, e
<1>6. /\ Adds(b, t) /\ Sound(t) /\ Kept(b, t, {"code", "count"}) /\ t.count = b.count + 2
      /\ t.count > b.count /\ t.count \in Nat
  BY <1>2, <1>p, PlainKeeps
<1> HIDE DEF t
<1>7. /\ t.failed = b.failed /\ t.marks = b.marks /\ t.body = b.body /\ t.captured = b.captured /\ t.line = b.line
      /\ t.functions = b.functions /\ t.lastCall = b.lastCall /\ t.lost = b.lost
  BY <1>6 DEF Kept, Fields
<1>8. u.marks = b.marks /\ u.functions = b.functions /\ u.lastCall = b.lastCall /\ u.count = b.count
      /\ u.failed = b.failed /\ u.line = b.line /\ u.lost = b.lost
  BY DEF Kept, Fields, b
<1>9. e.marks = u.marks /\ e.functions = u.functions /\ e.lastCall = u.lastCall /\ e.failed = u.failed /\ e.line = u.line
      /\ e.lost = u.lost
  BY <1>4 DEF Kept, Fields, EnteredKept
<1>10. Mid(t, open, parser.count, Len(parser.marks)) /\ Marking(t)
  BY <1>2, <1>6, AddsMid
<1>11. b.marks \in Seq(Mark) /\ \A i \in DOMAIN t.marks : t.marks[i].at < t.count
  <2>1. b.marks \in Seq(Mark)
    BY <1>2 DEF Mid, MarksOk
  <2> QED BY <1>2, <1>3, <1>6, <1>7, <2>1, MarkFacts
<1>12. Mid(e, gs, e.count, Len(e.marks))
  <2>1. ~ t.failed /\ parser.count < t.count /\ f.body = t.body /\ f.captured = t.captured
    BY <1>2, <1>3, <1>6, <1>7
  <2>2. /\ e.count = t.count /\ e.marks = t.marks /\ e.functions = t.functions /\ e.lastCall = t.lastCall
        /\ e.body = t.count /\ e.lost = t.lost
    BY <1>4, <1>6, <1>7, <1>8, <1>9
  <2> QED BY <1>1, <1>4, <1>5, <1>10, <1>11, <2>1, <2>2, EnterMid
<1>13. Marking(e)
  <2>1. e.marks = t.marks /\ e.line = t.line /\ e.count = t.count
    BY <1>4, <1>6, <1>7, <1>8, <1>9
  <2> QED BY <1>10, <2>1 DEF Marking
<1>14. Sound(e)
  BY <1>12 DEF Mid
<1> HIDE DEF gs
<1>15. Adds(e, p) /\ Sound(p) /\ Kept(e, p, {"code", "count"}) /\ p.count > e.count /\ p.count \in Nat
  BY <1>14, <1>p, PlainKeeps
<1>16. Len(sig.params) \in Nat /\ \A i \in 1 .. Len(sig.params) : sig.params[i] \in Name
  <2>1. sig.params \in Seq(Name)
    BY DEF Signature
  <2> QED BY <2>1, SeqFacts
<1>17. PICK w : /\ ParamStates(w, p, sig.params, Len(sig.params), Len(sig.params))
                /\ EnterFunction(u, sig) = w[Len(sig.params)]
  BY <1>16, EnterFunctionStates DEF e
<1> HIDE DEF p
<1> DEFINE x == w[Len(sig.params)]
<1>18. Adds(p, x) /\ x.failed = p.failed
  BY <1>15, <1>16, <1>17, ParamsAdd
<1> HIDE DEF x
<1>19. Adds(e, x)
  BY <1>14, <1>15, <1>18, AddsTransitive
<1>20. Mid(x, gs, e.count, Len(e.marks))
  BY <1>12, <1>13, <1>19, AddsMid
<1>21. ~ x.failed
  <2>1. p.failed = e.failed
    BY <1>15 DEF Kept, Fields
  <2> QED BY <1>2, <1>8, <1>9, <1>18, <2>1
<1>22. \A i \in DOMAIN x.marks : x.marks[i].at < x.count
  <2>1. x.marks = e.marks /\ x.count \in Nat /\ x.count >= e.count
    BY <1>19 DEF Adds, Kept, Fields, Sound, Shape
  <2>2. e.marks = t.marks /\ e.count = t.count
    BY <1>4, <1>6, <1>7, <1>8, <1>9
  <2>3. t.marks \in Seq(Mark)
    BY <1>7, <1>11
  <2> QED BY <1>6, <1>11, <2>1, <2>2, <2>3, MarkFacts
<1>23. Settled(x, gs)
  BY <1>20, <1>21, <1>22, CommitMid DEF Settled
<1> QED BY <1>17, <1>23 DEF x, gs

LEMMA FunctionBeginsKeeps ==
  ASSUME CodeInv, FunctionBegins \/ ClosureBegins
  PROVE  CodeInv'
<1> DEFINE b == Begun
<1>1. Settled(parser, open) /\ line \in Nat /\ open \in Seq(FrameSet)
  BY DEF CodeInv
<1>2. Sound(b) /\ DOMAIN b = Fields
  BY <1>1, BegunMid, BegunFields
<1>3. ASSUME NEW u, NEW f, NEW sig \in Signature, Sound(u), DOMAIN u = Fields,
             Kept(b, u, {"capturing", "locals", "captured"}),
             FrameOk(f), f.kind # "if", f.count = parser.count, f.marks = Len(parser.marks),
             f.body = parser.body, f.captured = parser.captured,
             BlockBegins(EnterFunction(u, sig), f)
      PROVE  CodeInv'
  <2>1. parser' = EnterFunction(u, sig) /\ open' = Append(open, f) /\ line' = line + 1
    BY <1>3 DEF BlockBegins
  <2>2. Settled(EnterFunction(u, sig), Append(open, f))
    BY <1>3, FunctionEntered
  <2>3. f \in FrameSet
    BY <1>3 DEF FrameOk
  <2>4. Append(open, f) \in Seq(FrameSet)
    BY <1>1, <2>3, PushedFrames
  <2>5. line + 1 \in Nat
    BY <1>1
  <2> QED BY <2>1, <2>2, <2>4, <2>5 DEF CodeInv
<1>4. LET u == [b EXCEPT !.capturing = FALSE] IN
      Sound(u) /\ DOMAIN u = Fields /\ Kept(b, u, {"capturing", "locals", "captured"})
  <2> DEFINE u == [b EXCEPT !.capturing = FALSE]
  <2>1. DOMAIN u = Fields /\ Kept(b, u, {"capturing"}) /\ u.capturing = FALSE
    BY <1>2 DEF Fields, Kept
  <2> HIDE DEF u, b
  <2>2. /\ u.code = b.code /\ u.count = b.count /\ u.lastCall = b.lastCall /\ u.depth = b.depth /\ u.line = b.line
        /\ u.body = b.body /\ u.failed = b.failed /\ u.locals = b.locals /\ u.outer = b.outer
        /\ u.captured = b.captured /\ u.params = b.params
    BY <2>1 DEF Kept, Fields
  <2>3. Shape(u)
    BY <1>2, <2>1, <2>2 DEF Sound, Shape
  <2>4. Kept(b, u, {"capturing", "locals", "captured"})
    BY <2>1 DEF Kept
  <2> QED BY <1>2, <2>1, <2>2, <2>3, <2>4, SoundSame DEF u
<1>5. LET u == [b EXCEPT !.capturing = TRUE, !.locals = {}, !.captured = <<>>] IN
      Sound(u) /\ DOMAIN u = Fields /\ Kept(b, u, {"capturing", "locals", "captured"})
  <2> DEFINE u == [b EXCEPT !.capturing = TRUE, !.locals = {}, !.captured = <<>>]
  <2>1. /\ DOMAIN u = Fields /\ Kept(b, u, {"capturing", "locals", "captured"})
        /\ u.capturing = TRUE /\ u.locals = {} /\ u.captured = <<>>
    BY <1>2 DEF Fields, Kept
  <2> HIDE DEF u, b
  <2>2. /\ u.code = b.code /\ u.count = b.count /\ u.lastCall = b.lastCall /\ u.depth = b.depth /\ u.line = b.line
        /\ u.body = b.body /\ u.failed = b.failed /\ u.outer = b.outer /\ u.params = b.params
    BY <2>1 DEF Kept, Fields
  <2>3. u.captured \in Seq(Name) /\ Len(u.captured) <= CaptureMax /\ u.locals \subseteq Name /\ u.capturing \in BOOLEAN
    <3>1. CaptureMax \in Nat
      BY BytecodeAssumption
    <3>2. <<>> \in Seq(Name) /\ Len(<<>>) = 0
      OBVIOUS
    <3>3. Len(u.captured) = 0 /\ u.captured \in Seq(Name)
      BY <2>1, <3>2
    <3>4. u.locals \subseteq Name /\ u.capturing \in BOOLEAN
      BY <2>1
    <3> QED BY <3>1, <3>3, <3>4
  <2>4. Shape(u)
    BY <1>2, <2>1, <2>2, <2>3 DEF Sound, Shape
  <2> QED BY <1>2, <2>1, <2>2, <2>4, SoundSame DEF u
<1>k. {"function", "closure"} \subseteq {"function", "closure", "if"} /\ "function" # "if" /\ "closure" # "if"
      /\ Signature \subseteq Signature \cup {<<>>} /\ Callee \in Name \cup {Callee} /\ "function" # "closure"
      /\ Name \subseteq Name \cup {Callee}
  OBVIOUS
<1>6. CASE FunctionBegins
  <2>1. PICK l \in Lines("function") :
          BlockBegins(EnterFunction([b EXCEPT !.capturing = FALSE], l.with), FrameOf("function", Callee, l.with))
    BY <1>6 DEF FunctionBegins
  <2>2. l.with \in Signature
    BY TextFacts
  <2> DEFINE f == FrameOf("function", Callee, l.with)
             u == [b EXCEPT !.capturing = FALSE]
  <2>3. /\ FrameOk(f) /\ f.kind = "function" /\ f.count = parser.count /\ f.marks = Len(parser.marks)
        /\ f.body = parser.body /\ f.captured = parser.captured
    BY <1>k, <2>2, FrameFacts
  <2> HIDE DEF f, b
  <2>4. Sound(u) /\ DOMAIN u = Fields /\ Kept(b, u, {"capturing", "locals", "captured"})
    BY <1>4
  <2>5. BlockBegins(EnterFunction(u, l.with), f)
    BY <2>1 DEF f
  <2> HIDE DEF u
  <2> QED BY <1>3, <2>2, <2>3, <2>4, <2>5
<1>7. CASE ClosureBegins
  <2>1. PICK l \in Lines("closure") :
          LET s == IF parser.depth = 1 THEN [b EXCEPT !.capturing = TRUE, !.locals = {}, !.captured = <<>>]
                   ELSE [b EXCEPT !.capturing = FALSE]
          IN  BlockBegins(EnterFunction(s, l.with), FrameOf("closure", l.name, l.with))
    BY <1>7, Zenon DEF ClosureBegins
  <2>2. l.with \in Signature /\ l.name \in Name
    BY TextFacts
  <2> DEFINE f == FrameOf("closure", l.name, l.with)
             u == IF parser.depth = 1 THEN [b EXCEPT !.capturing = TRUE, !.locals = {}, !.captured = <<>>]
                  ELSE [b EXCEPT !.capturing = FALSE]
  <2>3. /\ FrameOk(f) /\ f.kind = "closure" /\ f.count = parser.count /\ f.marks = Len(parser.marks)
        /\ f.body = parser.body /\ f.captured = parser.captured
    BY <1>k, <2>2, FrameFacts
  <2> HIDE DEF f, b
  <2>4. Sound(u) /\ DOMAIN u = Fields /\ Kept(b, u, {"capturing", "locals", "captured"})
    BY <1>4, <1>5
  <2>5. BlockBegins(EnterFunction(u, l.with), f)
    BY <2>1 DEF f
  <2> HIDE DEF u
  <2> QED BY <1>3, <2>2, <2>3, <2>4, <2>5
<1> QED BY <1>6, <1>7

\* The block inside is left: what was its base is the base of what follows.
LEMMA PopMid ==
  ASSUME NEW v, NEW fs \in Seq(FrameSet), fs # <<>>, NEW c, NEW m, Mid(v, fs, c, m),
         NEW f, f = Last(fs),
         NEW x, Shape(x), x.code = v.code, x.count = v.count, x.marks = v.marks, x.functions = v.functions,
         x.lastCall = v.lastCall, x.body = f.body, x.lost = v.lost,
         IF f.kind = "if"
         THEN x.captured = v.captured /\ \A o \in DOMAIN v.code : v.code[o].op \in Upvalue => ~ o >= c
         ELSE x.captured = f.captured
  PROVE  /\ Mid(x, Front(fs), f.count, f.marks) /\ f.body <= v.body /\ v.body <= c
         /\ f.kind # "if" => ~ OpenBody(x, Front(fs), v.body)
<1> DEFINE gs == Front(fs)
           n == Len(fs)
<1>1. /\ gs \in Seq(FrameSet) /\ n \in Nat \ {0} /\ DOMAIN fs = 1 .. n /\ Len(gs) = n - 1 /\ DOMAIN gs = 1 .. n - 1
      /\ f = fs[n] /\ n \in DOMAIN fs
      /\ \A j \in DOMAIN gs : gs[j] = fs[j] /\ j \in DOMAIN fs /\ j < n /\ (j # n - 1 => j + 1 \in DOMAIN gs)
  BY FrontDomain
<1> HIDE DEF gs
<1>2. /\ FrameOk(f) /\ f.count <= c /\ f.body <= f.count /\ Boundary(v, f.count) /\ f.body <= v.body
      /\ (f.kind # "if" => f.body < v.body) /\ (f.kind = "if" => v.body = f.body)
      /\ c \in Nat /\ c <= v.count /\ v.body <= c
  BY <1>1 DEF Mid, FramesOk
<1>3. f.count \in Nat /\ f.marks \in Nat /\ f.body \in Nat /\ v.count \in Nat /\ Sound(v) /\ v.body \in Nat
  BY <1>2 DEF FrameOk, FrameSet, Mid, Sound, Shape
<1>4. \A j \in DOMAIN gs : /\ FrameOk(gs[j]) /\ gs[j].count <= f.count /\ gs[j].body <= f.body
                           /\ (gs[j].kind # "if" => gs[j].body < f.body)
                           /\ gs[j].count \in Nat /\ gs[j].body \in Nat
  BY <1>1 DEF Mid, FramesOk, FrameOk, FrameSet
<1>5. Sound(x)
  BY <1>3, SoundSame
<1>6. FramesOk(x, gs, f.count)
  <2>1. ASSUME NEW j \in DOMAIN gs
        PROVE  /\ gs[j].body <= gs[j].count /\ Boundary(x, gs[j].count)
               /\ gs[j].kind = "if" => (IF j = Len(gs) THEN x.body ELSE gs[j + 1].body) = gs[j].body
    <3>1. /\ fs[j].body <= fs[j].count /\ Boundary(v, fs[j].count)
          /\ fs[j].kind = "if" => (IF j = n THEN v.body ELSE fs[j + 1].body) = fs[j].body
      BY <1>1 DEF Mid, FramesOk
    <3>2. Boundary(x, gs[j].count)
      BY <1>1, <3>1 DEF Boundary
    <3>3. CASE j = n - 1
      <4>0. n \in Nat /\ Len(gs) = n - 1 /\ gs[j] = fs[j]
        BY <1>1
      <4> HIDE DEF n
      <4>1. j + 1 = n /\ j # n /\ gs[j] = fs[j] /\ j = Len(gs)
        BY <4>0, <3>3
      <4>2. fs[j + 1] = f
        BY <1>1, <4>1
      <4> QED BY <3>1, <3>2, <4>1, <4>2
    <3>4. CASE j # n - 1
      BY <1>1, <3>1, <3>2, <3>4
    <3> QED BY <3>3, <3>4
  <2>2. \A j, k \in DOMAIN gs :
          j < k => /\ gs[j].count <= gs[k].count /\ gs[j].marks <= gs[k].marks /\ gs[j].body <= gs[k].body
                   /\ gs[j].kind # "if" => gs[j].body < gs[k].body
    BY <1>1 DEF Mid, FramesOk
  <2>3. Boundary(x, f.count) /\ f.count <= x.count /\ x.body <= f.count
    BY <1>2, <1>3 DEF Boundary
  <2> QED BY <1>3, <1>4, <2>1, <2>2, <2>3 DEF FramesOk
<1>7. MarksOk(x, gs, f.count, f.marks)
  <2>1. MarksOk(v, fs, c, m)
    BY DEF Mid
  <2> QED BY <1>1, <2>1 DEF MarksOk, IsBase
<1>8. LinesOk(x) /\ FusedOk(x)
  BY DEF Mid, LinesOk, MarkedAt, FusedOk
<1>9. TailsOk(x, gs, f.count)
  BY <1>1 DEF Mid, TailsOk
<1>10. \A b : OpenBody(x, gs, b) => OpenBody(v, fs, b)
  BY <1>1 DEF OpenBody
<1>11. FunctionsOk(x, gs)
  <2>1. FunctionsOk(v, fs)
    BY DEF Mid
  <2> QED BY <1>10, <2>1 DEF FunctionsOk, Loaded, ConstantOk
<1>12. ClosuresOk(x, gs)
  <2>1. ClosuresOk(v, fs)
    BY DEF Mid
  <2> QED BY <1>10, <2>1 DEF ClosuresOk
<1>13. SlotsOk(x, gs, f.count)
  <2> SUFFICES ASSUME NEW o \in DOMAIN v.code, v.code[o].op \in Upvalue
               PROVE  /\ v.code[o].body = x.body => SlotOf(x, v.code[o])
                      /\ \A j \in DOMAIN gs : gs[j].kind # "if" /\ v.code[o].body = gs[j].body => SlotOf(gs[j], v.code[o])
    BY DEF SlotsOk
  <2>1. /\ v.code[o].body = v.body => (o >= c /\ v.failed) \/ SlotOf(v, v.code[o])
        /\ \A j \in DOMAIN fs : fs[j].kind # "if" /\ v.code[o].body = fs[j].body => SlotOf(fs[j], v.code[o])
    BY DEF Mid, SlotsOk
  <2>2. v.code[o].body = x.body => SlotOf(x, v.code[o])
    <3>1. CASE f.kind = "if"
      BY <1>2, <2>1, <3>1 DEF SlotOf
    <3>2. CASE f.kind # "if"
      <4>1. SlotOf(f, v.code[o]) => SlotOf(x, v.code[o])
        BY <3>2 DEF SlotOf
      <4>2. v.code[o].body = f.body => SlotOf(f, v.code[o])
        BY <1>1, <2>1, <3>2
      <4> QED BY <4>1, <4>2
    <3> QED BY <3>1, <3>2
  <2> QED BY <1>1, <2>1, <2>2
<1>14. f.kind # "if" => ~ OpenBody(x, gs, v.body)
  BY <1>2, <1>3, <1>4 DEF OpenBody
<1> QED BY <1>2, <1>5, <1>6, <1>7, <1>8, <1>9, <1>11, <1>12, <1>13, <1>14 DEF Mid, gs

\* What is written after a nested block has no line of its own.
LEMMA Unlined ==
  ASSUME CodeInv
  PROVE  LET p == [parser EXCEPT !.line = 0] IN
         /\ DOMAIN p = Fields /\ Kept(parser, p, {"line"}) /\ p.line = 0 /\ Settled(p, open) /\ Marking(p) /\ Sound(p)
         /\ \A o \in DOMAIN parser.code : ~ o >= parser.count
<1> DEFINE p == [parser EXCEPT !.line = 0]
<1>1. Settled(parser, open) /\ Sound(parser)
  BY DEF CodeInv, Settled, Mid
<1>2. DOMAIN p = Fields /\ Kept(parser, p, {"line"}) /\ p.line = 0
  BY <1>1 DEF Sound, Shape, Kept, Fields
<1> HIDE DEF p
<1>3. /\ p.code = parser.code /\ p.count = parser.count /\ p.marks = parser.marks /\ p.functions = parser.functions
      /\ p.lastCall = parser.lastCall /\ p.capturing = parser.capturing /\ p.locals = parser.locals
      /\ p.captured = parser.captured /\ p.outer = parser.outer /\ p.params = parser.params
      /\ p.depth = parser.depth /\ p.body = parser.body /\ p.failed = parser.failed /\ p.lost = parser.lost
  BY <1>2 DEF Kept, Fields
<1>4. Shape(p)
  BY <1>1, <1>2, <1>3 DEF Sound, Shape
<1>5. Sound(p)
  BY <1>1, <1>3, <1>4, SoundSame
<1>6. \A c, m : Mid(parser, open, c, m) => Mid(p, open, c, m)
  <2> SUFFICES ASSUME NEW c, NEW m, Mid(parser, open, c, m) PROVE Mid(p, open, c, m)
    OBVIOUS
  <2>1. FramesOk(p, open, c)
    BY <1>3 DEF Mid, FramesOk, Boundary
  <2>2. MarksOk(p, open, c, m)
    BY <1>3 DEF Mid, MarksOk, IsBase
  <2>3. LinesOk(p) /\ TailsOk(p, open, c) /\ FusedOk(p)
    BY <1>3 DEF Mid, LinesOk, MarkedAt, TailsOk, FusedOk
  <2>4. FunctionsOk(p, open)
    BY <1>3 DEF Mid, FunctionsOk, Loaded, ConstantOk, OpenBody
  <2>5. ClosuresOk(p, open)
    BY <1>3 DEF Mid, ClosuresOk, OpenBody
  <2>6. SlotsOk(p, open, c)
    BY <1>3 DEF Mid, SlotsOk, SlotOf
  <2> QED BY <1>5, <2>1, <2>2, <2>3, <2>4, <2>5, <2>6 DEF Mid
<1>7. Settled(p, open)
  BY <1>1, <1>3, <1>6 DEF Settled
<1>8. Marking(p)
  <2>1. parser.marks \in Seq(Mark) /\ IsBase(parser, parser.count, Len(parser.marks)) /\ parser.count \in Nat
    BY <1>1 DEF Settled, Mid, MarksOk, Sound, Shape
  <2>2. \A i \in DOMAIN parser.marks : i <= Len(parser.marks)
    BY <2>1, SeqFacts
  <2>3. \A i \in DOMAIN parser.marks : parser.marks[i].at < parser.count /\ parser.marks[i].at \in Nat
    BY <2>1, <2>2, MarkFacts DEF IsBase
  <2> QED BY <1>2, <1>3, <2>1, <2>3 DEF Marking
<1>9. \A o \in DOMAIN parser.code : ~ o >= parser.count
  BY <1>1 DEF Sound, Shape, CodeShape
<1> QED BY <1>2, <1>5, <1>7, <1>8, <1>9 DEF p

\* The end of a block, from the invariant in the middle of it.
LEMMA BlockSettles ==
  ASSUME CodeInv, NoCallLost', NEW z, BlockEnds(z), open # <<>>,
         Mid(z, Front(open), Last(open).count, Last(open).marks),
         z.marks = parser.marks, parser.count < z.count
  PROVE  CodeInv'
<1>1. /\ parser' = RolledBack(z, Last(open).count, Last(open).marks) /\ open' = Front(open) /\ line' = line
      /\ RolledBack(z, Last(open).count, Last(open).marks).lost.calls = {}
  BY DEF BlockEnds, NoCallLost
<1>2. \A i \in DOMAIN z.marks : z.marks[i].at < z.count
  <2>1. /\ parser.marks \in Seq(Mark) /\ IsBase(parser, parser.count, Len(parser.marks)) /\ parser.count \in Nat
        /\ z.count \in Nat
    BY DEF CodeInv, Settled, Mid, MarksOk, Sound, Shape
  <2>2. \A i \in DOMAIN parser.marks : i <= Len(parser.marks)
    BY <2>1, SeqFacts
  <2>3. \A i \in DOMAIN parser.marks : parser.marks[i].at < parser.count /\ parser.marks[i].at \in Nat
    BY <2>1, <2>2, MarkFacts DEF IsBase
  <2> QED BY <2>1, <2>3
<1>3. Settled(RolledBack(z, Last(open).count, Last(open).marks), Front(open))
  BY <1>1, <1>2, RollbackSettles
<1>4. Front(open) \in Seq(FrameSet)
  BY FrontDomain DEF CodeInv
<1> QED BY <1>1, <1>3, <1>4 DEF CodeInv

LEMMA IfEndsKeeps ==
  ASSUME CodeInv, IfEnds, NoCallLost'
  PROVE  CodeInv'
<1> DEFINE p == [parser EXCEPT !.line = 0]
           f == Last(open)
           z == chunk_emit(p, "POP_SCOPE", 1, f.count, 0)
<1>1. open # <<>> /\ f.kind = "if" /\ BlockEnds(z)
  BY DEF IfEnds
<1>2. /\ DOMAIN p = Fields /\ Kept(parser, p, {"line"}) /\ p.line = 0 /\ Settled(p, open) /\ Marking(p) /\ Sound(p)
      /\ \A o \in DOMAIN parser.code : ~ o >= parser.count
  BY Unlined
<1>3. open \in Seq(FrameSet)
  BY DEF CodeInv
<1> HIDE DEF p, f
<1>4. p.code = parser.code /\ p.count = parser.count /\ p.marks = parser.marks
  BY <1>2 DEF Kept, Fields
<1>5. p.body = f.body
  <2>1. Len(open) \in DOMAIN open /\ f = open[Len(open)]
    BY <1>1, <1>3, FrontDomain DEF f
  <2> QED BY <1>1, <1>2, <2>1 DEF Settled, Mid, FramesOk
<1>6. Mid(p, Front(open), f.count, f.marks)
  <2>1. Mid(p, open, p.count, Len(p.marks)) /\ Shape(p) /\ f = Last(open)
    BY <1>2 DEF Settled, Sound, f
  <2>2. \A o \in DOMAIN p.code : p.code[o].op \in Upvalue => ~ o >= p.count
    BY <1>2, <1>4
  <2> QED BY <1>1, <1>3, <1>5, <2>1, <2>2, PopMid
<1>7. "POP_SCOPE" \in Plain /\ 1 \in Nat \ {0}
  BY DEF Plain
<1>8. Adds(p, z) /\ z.count > p.count /\ z.count \in Nat /\ Kept(p, z, {"code", "count"})
  BY <1>2, <1>7, PlainKeeps
<1>b. BlockEnds(z)
  BY <1>1
<1> HIDE DEF z
<1>9. Mid(z, Front(open), f.count, f.marks)
  BY <1>2, <1>6, <1>8, AddsMid
<1>10. z.marks = parser.marks /\ parser.count < z.count
  <2>1. parser.count \in Nat
    BY DEF CodeInv, Settled, Mid, Sound, Shape
  <2> QED BY <1>4, <1>8, <2>1 DEF Kept, Fields
<1> QED BY <1>1, <1>b, <1>9, <1>10, BlockSettles DEF f

LEMMA PlainValue ==
  ASSUME NEW s, Sound(s), NEW f, NEW boxes
  PROVE  Valued(s, emit_plain_function_value(s, f), f, boxes)
<1> DEFINE same == {g \in s.functions : SameConstant(g, f)}
           value == IF same = {} THEN f ELSE CHOOSE g \in same : TRUE
           u == [s EXCEPT !.functions = @ \cup {value}]
           t == chunk_emit(u, "PUSH_FUNCTION", 2, value, f)
<1>1. emit_plain_function_value(s, f) = t
  BY Zenon DEF emit_plain_function_value
<1>2. value = f \/ (value \in s.functions /\ SameConstant(value, f))
  <2>1. CASE same = {}
    BY <2>1
  <2>2. CASE same # {}
    <3>1. value = CHOOSE g \in same : TRUE
      BY <2>2
    <3>2. value \in same
      BY <2>2, <3>1, Zenon
    <3> HIDE DEF value
    <3> QED BY <3>2
  <2> QED BY <2>1, <2>2
<1> HIDE DEF value
<1>3. DOMAIN u = Fields /\ Kept(s, u, {"functions"}) /\ u.functions = s.functions \cup {value}
  BY DEF Sound, Shape, Kept, Fields
<1> HIDE DEF u
<1>4. /\ u.code = s.code /\ u.count = s.count /\ u.lastCall = s.lastCall /\ u.capturing = s.capturing
      /\ u.locals = s.locals /\ u.captured = s.captured /\ u.outer = s.outer /\ u.params = s.params
      /\ u.depth = s.depth /\ u.body = s.body /\ u.failed = s.failed /\ u.line = s.line /\ s.count \in Nat
  BY <1>3 DEF Kept, Fields, Sound, Shape
<1>5. Sound(u)
  <2>1. Shape(u)
    BY <1>3, <1>4 DEF Sound, Shape
  <2> QED BY <1>4, <2>1, SoundSame
<1>6. "PUSH_FUNCTION" \notin Calls /\ 2 \in Nat \ {0}
  BY DEF Calls
<1>7. Sound(t)
  BY <1>5, <1>6, EmitSound
<1>8. /\ Kept(u, t, {"code", "count"}) /\ t.count = u.count + 2
      /\ DOMAIN t.code = DOMAIN u.code \cup {u.count}
      /\ t.code[u.count] = Instruction(u, "PUSH_FUNCTION", 2, value, f)
      /\ \A o \in DOMAIN u.code : o # u.count => t.code[o] = u.code[o]
  BY <1>3, EmitFields
<1> HIDE DEF t
<1>9. \A o \in DOMAIN s.code : o \in Nat /\ o < s.count
  BY <1>4 DEF Sound, CodeShape
<1>10. Kept(s, t, {"code", "count", "functions"}) /\ t.functions = s.functions \cup {value} /\ s.count < t.count
  BY <1>3, <1>4, <1>8 DEF Kept, Fields
<1>11. SameBelow(s, t, s.count)
  BY <1>4, <1>8, <1>9 DEF SameBelow
<1>12. /\ t.code[s.count].op = "PUSH_FUNCTION" /\ t.code[s.count].arg = value /\ t.code[s.count].meant = f
       /\ t.code[s.count].line = s.line /\ s.count \in DOMAIN t.code
  BY <1>4, <1>8 DEF Instruction
<1>13. ASSUME NEW o \in DOMAIN t.code, o >= s.count PROVE ValueOk(s, t.code[o], f, boxes)
  <2>1. o = s.count
    BY <1>4, <1>8, <1>9, <1>13
  <2> QED BY <2>1, <1>2, <1>12 DEF ValueOk, ValueOps
<1>14. ASSUME NEW g \in t.functions, g \notin s.functions
       PROVE  g = f /\ \E o \in DOMAIN t.code : o >= s.count /\ t.code[o].op = "PUSH_FUNCTION" /\ t.code[o].arg = f
  BY <1>2, <1>4, <1>10, <1>12, <1>14
<1> QED BY <1>1, <1>7, <1>10, <1>11, <1>13, <1>14 DEF Valued

LEMMA CapturesFields ==
  ASSUME NEW s, Sound(s)
  PROVE  LET t == emit_captures(s)
             after == {s.count + 2 * (i - 1) : i \in DOMAIN s.captured} IN
         /\ DOMAIN t = Fields /\ Kept(s, t, {"code", "count"}) /\ t.count = s.count + 2 * Len(s.captured)
         /\ DOMAIN t.code = DOMAIN s.code \cup after
         /\ \A o \in DOMAIN t.code : o \notin after => t.code[o] = s.code[o]
         /\ \A o \in after : /\ DOMAIN t.code[o] = {"op", "words", "arg", "meant", "line", "body"}
                             /\ t.code[o].op = "CAPTURE" /\ t.code[o].words = 2
                             /\ t.code[o].line = s.line /\ t.code[o].body = s.body
<1> DEFINE after == {s.count + 2 * (i - 1) : i \in DOMAIN s.captured}
           name(o) == s.captured[(o - s.count) \div 2 + 1]
           capture(o) == [op |-> "CAPTURE", words |-> 2, arg |-> name(o), meant |-> name(o),
                          line |-> s.line, body |-> s.body]
           laid == [o \in DOMAIN s.code \cup after |-> IF o \in after THEN capture(o) ELSE s.code[o]]
           t == [s EXCEPT !.code = laid, !.count = @ + 2 * Len(s.captured)]
<1>1. emit_captures(s) = t
  BY DEF emit_captures
<1>2. \A o : /\ DOMAIN capture(o) = {"op", "words", "arg", "meant", "line", "body"}
             /\ capture(o).op = "CAPTURE" /\ capture(o).words = 2
             /\ capture(o).line = s.line /\ capture(o).body = s.body
  OBVIOUS
<1> HIDE DEF capture
<1>3. /\ DOMAIN laid = DOMAIN s.code \cup after
      /\ \A o \in DOMAIN laid : o \notin after => laid[o] = s.code[o]
      /\ \A o \in after : laid[o] = capture(o)
  OBVIOUS
<1> HIDE DEF laid, after
<1>4. DOMAIN t = Fields /\ Kept(s, t, {"code", "count"}) /\ t.count = s.count + 2 * Len(s.captured) /\ t.code = laid
  BY DEF Sound, Shape, Fields, Kept
<1> HIDE DEF t
<1> QED BY <1>1, <1>2, <1>3, <1>4 DEF after

LEMMA CapturesSound ==
  ASSUME NEW s, Sound(s)
  PROVE  LET t == emit_captures(s) IN
         /\ Sound(t) /\ Kept(s, t, {"code", "count"}) /\ s.count <= t.count /\ SameBelow(s, t, s.count)
         /\ \A o \in DOMAIN t.code : o >= s.count => t.code[o].op = "CAPTURE" /\ t.code[o].line = s.line
<1> DEFINE t == emit_captures(s)
           n == Len(s.captured)
           after == {s.count + 2 * (i - 1) : i \in DOMAIN s.captured}
<1>1. /\ DOMAIN t = Fields /\ Kept(s, t, {"code", "count"}) /\ t.count = s.count + 2 * n
      /\ DOMAIN t.code = DOMAIN s.code \cup after
      /\ \A o \in DOMAIN t.code : o \notin after => t.code[o] = s.code[o]
      /\ \A o \in after : /\ DOMAIN t.code[o] = {"op", "words", "arg", "meant", "line", "body"}
                          /\ t.code[o].op = "CAPTURE" /\ t.code[o].words = 2
                          /\ t.code[o].line = s.line /\ t.code[o].body = s.body
  BY CapturesFields
<1>2. n \in Nat /\ DOMAIN s.captured = 1 .. n
  BY SeqFacts DEF Sound, Shape
<1>3. s.count \in Nat /\ s.body \in Nat /\ s.body <= s.count /\ s.line \in Nat
  BY DEF Sound, Shape
<1> HIDE DEF t, n
<1>4. after = {s.count + 2 * (i - 1) : i \in 1 .. n}
  BY <1>2
<1>5. \A o \in after : o \in Nat /\ o >= s.count /\ o + 2 <= t.count
  BY <1>1, <1>2, <1>3, <1>4
<1>6. ASSUME NEW o \in after, NEW p \in after, o < p PROVE o + 2 <= p
  <2>1. PICK i \in 1 .. n : o = s.count + 2 * (i - 1)
    BY <1>4
  <2>2. PICK j \in 1 .. n : p = s.count + 2 * (j - 1)
    BY <1>4
  <2> QED BY <1>3, <1>6, <2>1, <2>2
<1>7. ASSUME NEW x \in Nat, s.count <= x, x < t.count PROVE \E o \in after : o <= x /\ x < o + 2
  <2> DEFINE q == (x - s.count) \div 2
             o == s.count + 2 * q
  <2>1. x - s.count \in Nat /\ x - s.count < 2 * n
    BY <1>1, <1>2, <1>3, <1>7
  <2>2. q \in Nat /\ 2 * q <= x - s.count /\ x - s.count < 2 * q + 2
    BY <2>1
  <2>3. q + 1 \in 1 .. n /\ (q + 1) - 1 = q
    BY <1>2, <2>1, <2>2
  <2> HIDE DEF q
  <2>4. o \in after
    BY <1>4, <2>3
  <2>5. o <= x /\ x < o + 2
    BY <1>3, <2>2
  <2> QED BY <2>4, <2>5
<1> HIDE DEF after
<1>8. \A o \in DOMAIN s.code : /\ o \in Nat /\ o < s.count /\ o \notin after /\ o \in DOMAIN t.code
                               /\ t.code[o] = s.code[o] /\ o + s.code[o].words <= s.count
                               /\ s.code[o].words \in Nat /\ s.code[o].words >= 1
  <2> TAKE o \in DOMAIN s.code
  <2>1. /\ o \in Nat /\ o + s.code[o].words <= s.count /\ s.code[o].words \in Nat /\ s.code[o].words >= 1
    BY DEF Sound, CodeShape
  <2>2. o < s.count
    BY <1>3, <2>1
  <2>3. o \notin after
    BY <1>3, <1>5, <2>1, <2>2
  <2> QED BY <1>1, <2>1, <2>2, <2>3
<1>9. t.count \in Nat /\ s.count <= t.count
  BY <1>1, <1>2, <1>3
<1>10. \A o \in DOMAIN t.code : o \in after \/ o \in DOMAIN s.code
  BY <1>1
<1>11. Shape(t)
  <2>1. /\ t.lastCall = s.lastCall /\ t.line = s.line /\ t.body = s.body
        /\ t.capturing = s.capturing /\ t.failed = s.failed /\ t.locals = s.locals /\ t.outer = s.outer
        /\ t.captured = s.captured /\ t.params = s.params /\ t.depth = s.depth
    BY <1>1 DEF Kept, Fields
  <2> QED BY <1>1, <1>3, <1>9, <2>1 DEF Sound, Shape
<1>12. CodeShape(t)
  <2> SUFFICES ASSUME NEW o \in DOMAIN t.code
               PROVE  /\ o \in Nat /\ DOMAIN t.code[o] = {"op", "words", "arg", "meant", "line", "body"}
                      /\ t.code[o].words \in Nat /\ t.code[o].words >= 1 /\ o + t.code[o].words <= t.count
                      /\ t.code[o].line \in Nat /\ t.code[o].body \in Nat /\ t.code[o].body <= o
                      /\ t.code[o].op \in Calls => t.code[o].words = 4 /\ t.code[o].meant = Callee
    BY DEF CodeShape
  <2>1. CASE o \in after
    <3>1. o \in Nat /\ o >= s.count /\ o + 2 <= t.count
      BY <1>5, <2>1
    <3>2. t.code[o].op \notin Calls
      BY <1>1, <2>1 DEF Calls
    <3> QED BY <1>1, <1>3, <2>1, <3>1, <3>2
  <2>2. CASE o \in DOMAIN s.code
    <3>1. /\ DOMAIN s.code[o] = {"op", "words", "arg", "meant", "line", "body"}
          /\ s.code[o].line \in Nat /\ s.code[o].body \in Nat /\ s.code[o].body <= o
          /\ s.code[o].op \in Calls => s.code[o].words = 4 /\ s.code[o].meant = Callee
      BY <2>2 DEF Sound, CodeShape
    <3>2. /\ o \in Nat /\ t.code[o] = s.code[o] /\ o + s.code[o].words <= s.count
          /\ s.code[o].words \in Nat /\ s.code[o].words >= 1
      BY <1>8, <2>2
    <3>3. o + t.code[o].words <= t.count
      BY <1>3, <1>9, <3>2
    <3> QED BY <3>1, <3>2, <3>3
  <2> QED BY <1>10, <2>1, <2>2
<1>13. Tiled(t)
  <2>1. ASSUME NEW x \in Nat, x < t.count PROVE \E o \in DOMAIN t.code : o <= x /\ x < o + t.code[o].words
    <3>1. CASE x < s.count
      <4>1. PICK o \in DOMAIN s.code : o <= x /\ x < o + s.code[o].words
        BY <3>1 DEF Sound, Tiled
      <4> QED BY <1>8, <4>1
    <3>2. CASE s.count <= x
      <4>1. PICK o \in after : o <= x /\ x < o + 2
        BY <1>7, <2>1, <3>2
      <4>2. o \in DOMAIN t.code /\ t.code[o].words = 2
        BY <1>1
      <4> QED BY <4>1, <4>2
    <3> QED BY <1>3, <3>1, <3>2
  <2>2. ASSUME NEW o \in DOMAIN t.code, NEW p \in DOMAIN t.code, o < p PROVE o + t.code[o].words <= p
    <3>1. CASE o \in after /\ p \in after
      BY <1>1, <1>6, <2>2, <3>1
    <3>2. CASE o \in after /\ p \in DOMAIN s.code
      BY <1>3, <1>5, <1>8, <2>2, <3>2
    <3>3. CASE o \in DOMAIN s.code /\ p \in after
      BY <1>3, <1>5, <1>8, <3>3
    <3>4. CASE o \in DOMAIN s.code /\ p \in DOMAIN s.code
      BY <1>8, <2>2, <3>4 DEF Sound, Tiled
    <3> QED BY <1>10, <3>1, <3>2, <3>3, <3>4
  <2> QED BY <2>1, <2>2 DEF Tiled
<1>14. CallKnown(t)
  <2>1. t.lastCall = s.lastCall
    BY <1>1 DEF Kept, Fields
  <2> QED BY <1>8, <2>1 DEF Sound, CallKnown
<1>15. SameBelow(s, t, s.count)
  <2> SUFFICES ASSUME NEW o \in Nat, o < s.count
               PROVE  /\ (o \in DOMAIN t.code) <=> (o \in DOMAIN s.code)
                      /\ o \in DOMAIN s.code => t.code[o] = s.code[o]
    BY DEF SameBelow
  <2>1. o \notin after
    BY <1>3, <1>5
  <2> QED BY <1>1, <1>8, <2>1
<1>16. \A o \in DOMAIN t.code : o >= s.count => o \in after
  BY <1>3, <1>8, <1>10
<1> QED BY <1>1, <1>9, <1>11, <1>12, <1>13, <1>14, <1>15, <1>16 DEF Sound, t

LEMMA ClosureValue ==
  ASSUME NEW s, Sound(s), NEW f, f.sig \in Signature
  PROVE  Valued(s, emit_closure(s, f), f, s.captured)
<1> DEFINE u == emit_captures(s)
           words == 7 + (IF f.sig.dflt = 0 THEN 0 ELSE Len(f.sig.params))
           t == chunk_emit(u, "MAKE_CLOSURE", words, f, s.captured)
<1>1. emit_closure(s, f) = t
  BY Zenon DEF emit_closure
<1>2. words \in Nat \ {0}
  <2>1. Len(f.sig.params) \in Nat
    BY SeqFacts DEF Signature
  <2> QED BY <2>1
<1> HIDE DEF words
<1>3. /\ Sound(u) /\ Kept(s, u, {"code", "count"}) /\ s.count <= u.count /\ SameBelow(s, u, s.count)
      /\ \A o \in DOMAIN u.code : o >= s.count => u.code[o].op = "CAPTURE" /\ u.code[o].line = s.line
  BY CapturesSound
<1> HIDE DEF u
<1>4. "MAKE_CLOSURE" \notin Calls
  BY DEF Calls
<1>5. Sound(t)
  BY <1>2, <1>3, <1>4, EmitSound
<1>6. DOMAIN u = Fields /\ u.count \in Nat /\ s.count \in Nat
  BY <1>3 DEF Sound, Shape
<1>7. /\ Kept(u, t, {"code", "count"}) /\ t.count = u.count + words
      /\ DOMAIN t.code = DOMAIN u.code \cup {u.count}
      /\ t.code[u.count] = Instruction(u, "MAKE_CLOSURE", words, f, s.captured)
      /\ \A o \in DOMAIN u.code : o # u.count => t.code[o] = u.code[o]
  BY <1>6, EmitFields
<1> HIDE DEF t
<1>8. \A o \in DOMAIN u.code : o \in Nat /\ o < u.count /\ t.code[o] = u.code[o]
  <2>1. \A o \in DOMAIN u.code : o \in Nat /\ o < u.count
    BY <1>3, <1>6 DEF Sound, CodeShape
  <2> QED BY <1>6, <1>7, <2>1
<1>9. Kept(s, t, {"code", "count", "functions"}) /\ t.functions = s.functions /\ u.line = s.line
  BY <1>3, <1>7 DEF Kept, Fields
<1>10. s.count < t.count
  BY <1>2, <1>3, <1>6, <1>7
<1>11. SameBelow(s, t, s.count)
  BY <1>3, <1>6, <1>7, <1>8 DEF SameBelow
<1>12. /\ t.code[u.count].op = "MAKE_CLOSURE" /\ t.code[u.count].arg = f /\ t.code[u.count].meant = s.captured
       /\ t.code[u.count].line = s.line
  BY <1>7, <1>9 DEF Instruction
<1>13. ASSUME NEW o \in DOMAIN t.code, o >= s.count PROVE ValueOk(s, t.code[o], f, s.captured)
  <2>1. CASE o = u.count
    BY <1>12, <2>1 DEF ValueOk, ValueOps
  <2>2. CASE o \in DOMAIN u.code
    BY <1>3, <1>8, <1>13, <2>2 DEF ValueOk, ValueOps
  <2> QED BY <1>7, <2>1, <2>2
<1> QED BY <1>1, <1>5, <1>9, <1>10, <1>11, <1>13 DEF Valued

\* The value of a function may be written before or after the names of the
\* function around it are put back.
LEMMA OutsideFields ==
  ASSUME NEW s, Sound(s), NEW f, FrameOk(f)
  PROVE  LET x == Outside(s, f) IN
         /\ DOMAIN x = Fields /\ Kept(s, x, {"capturing", "locals", "captured"}) /\ Sound(x)
         /\ x.captured = f.captured /\ x.capturing = f.capturing /\ x.locals = f.locals
<1> DEFINE x == Outside(s, f)
<1>1. /\ DOMAIN x = Fields /\ Kept(s, x, {"capturing", "locals", "captured"})
      /\ x.captured = f.captured /\ x.capturing = f.capturing /\ x.locals = f.locals
  BY DEF Outside, Sound, Shape, Fields, Kept
<1> HIDE DEF x
<1>2. /\ f.capturing \in BOOLEAN /\ f.locals \subseteq Name /\ f.captured \in Seq(Name) /\ Len(f.captured) <= CaptureMax
  BY DEF FrameOk, FrameSet
<1>3. /\ x.code = s.code /\ x.count = s.count /\ x.lastCall = s.lastCall /\ x.depth = s.depth /\ x.line = s.line
      /\ x.body = s.body /\ x.failed = s.failed /\ x.outer = s.outer /\ x.params = s.params
  BY <1>1 DEF Kept, Fields
<1>4. Shape(x)
  BY <1>1, <1>2, <1>3 DEF Sound, Shape
<1> QED BY <1>1, <1>3, <1>4, SoundSame DEF x

LEMMA OutsideValued ==
  ASSUME NEW s, Sound(s), NEW t, NEW g, NEW boxes, Valued(s, t, g, boxes), NEW f, FrameOk(f)
  PROVE  Valued(Outside(s, f), Outside(t, f), g, boxes)
<1> DEFINE x == Outside(s, f)
           y == Outside(t, f)
<1>0. Sound(t)
  BY DEF Valued
<1>1. /\ DOMAIN x = Fields /\ Kept(s, x, {"capturing", "locals", "captured"})
      /\ x.captured = f.captured /\ x.capturing = f.capturing /\ x.locals = f.locals
  BY OutsideFields
<1>2. /\ Kept(t, y, {"capturing", "locals", "captured"}) /\ Sound(y)
      /\ y.captured = f.captured /\ y.capturing = f.capturing /\ y.locals = f.locals
  BY <1>0, OutsideFields
<1> HIDE DEF x, y
<1>3. Kept(s, t, {"code", "count", "functions"})
  BY DEF Valued
<1>4. /\ x.code = s.code /\ x.count = s.count /\ x.functions = s.functions /\ x.line = s.line
      /\ y.code = t.code /\ y.count = t.count /\ y.functions = t.functions
  BY <1>1, <1>2 DEF Kept, Fields
<1>5. Kept(x, y, {"code", "count", "functions"})
  <2> SUFFICES ASSUME NEW k \in Fields \ {"code", "count", "functions"} PROVE y[k] = x[k]
    BY DEF Kept
  <2>1. CASE k \in {"capturing", "locals", "captured"}
    BY <1>1, <1>2, <2>1
  <2>2. CASE k \notin {"capturing", "locals", "captured"}
    BY <1>1, <1>2, <1>3, <2>2 DEF Kept
  <2> QED BY <2>1, <2>2
<1> QED BY <1>2, <1>4, <1>5 DEF Valued, ValueOk, SameBelow, x, y

\* The function of a value is not one that is still being parsed.
LEMMA ValueMid ==
  ASSUME NEW x, NEW y, NEW gs, NEW c, NEW m, Mid(x, gs, c, m), Marking(x), x.line = 0,
         NEW f, NEW boxes \in Seq(Name), Valued(x, y, f, boxes),
         f.at \in Nat, f.at < x.count, ~ OpenBody(x, gs, f.at),
         \A g \in x.functions : g \in x.lost.functions \/ ~ SameConstant(g, f),
         \A o \in DOMAIN x.code : x.code[o].op \in Upvalue /\ x.code[o].body = f.at =>
                                    x.code[o].arg \in DOMAIN boxes /\ boxes[x.code[o].arg] = x.code[o].meant
  PROVE  Mid(y, gs, c, m) /\ Marking(y)
<1>0. Sound(x) /\ Sound(y)
  BY DEF Mid, Valued
<1>1. /\ y.body = x.body /\ y.marks = x.marks /\ y.line = x.line /\ y.captured = x.captured /\ y.failed = x.failed
      /\ x.body \in Nat /\ y.lost = x.lost
  BY <1>0 DEF Valued, Kept, Fields, Sound, Shape
<1>2. x.count \in Nat /\ y.count \in Nat /\ x.count < y.count /\ c \in Nat /\ c <= x.count
  BY DEF Mid, Valued, Sound, Shape, FramesOk
<1>3. \A o \in DOMAIN x.code : /\ o \in Nat /\ o < x.count /\ o \in DOMAIN y.code /\ y.code[o] = x.code[o]
  <2> TAKE o \in DOMAIN x.code
  <2>1. o \in Nat /\ o < x.count
    BY <1>0, <1>2 DEF Sound, CodeShape
  <2> QED BY <2>1 DEF Valued, SameBelow
<1>4. \A o \in DOMAIN y.code : /\ o \in Nat
                               /\ o < x.count => o \in DOMAIN x.code /\ y.code[o] = x.code[o]
                               /\ o >= x.count => ValueOk(x, y.code[o], f, boxes)
  <2> TAKE o \in DOMAIN y.code
  <2>1. o \in Nat
    BY <1>0, <1>2 DEF Sound, CodeShape
  <2> QED BY <2>1 DEF Valued, SameBelow
<1>5. \A o \in DOMAIN y.code : /\ (o < x.count \/ o >= x.count)
                               /\ y.code[o].op \notin ValueOps => o \in DOMAIN x.code /\ y.code[o] = x.code[o]
  BY <1>2, <1>4 DEF ValueOk
<1>k. /\ "TAIL_CALL" \notin ValueOps /\ "COMPOUND" \notin ValueOps /\ Upvalue \cap ValueOps = {}
      /\ "RETURN" \notin ValueOps
  BY DEF ValueOps, Upvalue
<1>6. FramesOk(y, gs, c)
  <2>1. ASSUME NEW b \in Nat, b <= x.count, Boundary(x, b) PROVE Boundary(y, b)
    <3> SUFFICES ASSUME NEW o \in DOMAIN y.code, o < b PROVE o + y.code[o].words <= b
      BY DEF Boundary
    <3>1. o \in DOMAIN x.code /\ y.code[o] = x.code[o]
      BY <1>2, <1>4, <2>1
    <3> QED BY <2>1, <3>1 DEF Boundary
  <2>2. \A j \in DOMAIN gs : gs[j].count \in Nat /\ gs[j].count <= x.count
    <3> SUFFICES ASSUME NEW j \in DOMAIN gs PROVE gs[j].count \in Nat /\ gs[j].count <= x.count
      OBVIOUS
    <3>1. FrameOk(gs[j]) /\ gs[j].count <= c
      BY DEF Mid, FramesOk
    <3>2. gs[j].count \in Nat
      BY <3>1 DEF FrameOk, FrameSet
    <3> QED BY <1>2, <3>1, <3>2
  <2>3. \A j \in DOMAIN gs : Boundary(y, gs[j].count)
    BY <2>1, <2>2 DEF Mid, FramesOk
  <2>4. Boundary(y, c) /\ c <= y.count
    BY <1>2, <2>1 DEF Mid, FramesOk
  <2> QED BY <1>1, <1>2, <2>3, <2>4 DEF Mid, FramesOk
<1>7. MarksOk(y, gs, c, m)
  BY <1>1 DEF Mid, MarksOk, IsBase
<1>8. Marking(y)
  <2>1. x.marks \in Seq(Mark)
    BY DEF Mid, MarksOk
  <2>2. \A i \in DOMAIN x.marks : x.marks[i].at \in Nat
    BY <2>1, MarkFacts
  <2> QED BY <1>1, <1>2, <2>2 DEF Marking
<1>9. LinesOk(y)
  <2> SUFFICES ASSUME NEW o \in DOMAIN y.code, y.code[o].line # 0 PROVE MarkedAt(y, o, y.code[o].line)
    BY DEF LinesOk
  <2>1. o \in DOMAIN x.code /\ y.code[o] = x.code[o]
    BY <1>4, <1>5 DEF ValueOk
  <2> QED BY <2>1, <1>1 DEF Mid, LinesOk, MarkedAt
<1>10. TailsOk(y, gs, c) /\ FusedOk(y)
  BY <1>3, <1>5, <1>k DEF Mid, TailsOk, FusedOk
<1>11. \A b : OpenBody(y, gs, b) <=> OpenBody(x, gs, b)
  BY <1>1 DEF OpenBody
<1>12. FunctionsOk(y, gs)
  <2>1. FunctionsOk(x, gs)
    BY DEF Mid
  <2>2. ASSUME NEW g \in y.functions, g \notin y.lost.functions PROVE Loaded(y, gs, g)
    <3>1. CASE g \in x.functions
      BY <1>1, <1>3, <1>11, <2>1, <2>2, <3>1 DEF FunctionsOk, Loaded
    <3>2. CASE g \notin x.functions
      <4>1. g = f
        BY <3>2 DEF Valued
      <4>2. PICK o \in DOMAIN y.code : o >= x.count /\ y.code[o].op = "PUSH_FUNCTION" /\ y.code[o].arg = f
        BY <3>2 DEF Valued
      <4>3. f.at < o
        BY <1>2, <1>4, <4>2
      <4> QED BY <1>11, <4>1, <4>2, <4>3 DEF Loaded
    <3> QED BY <3>1, <3>2
  <2>3. ASSUME NEW o \in DOMAIN y.code PROVE ConstantOk(y, y.code[o])
    <3>1. CASE o < x.count
      BY <1>1, <1>4, <2>1, <3>1 DEF FunctionsOk, ConstantOk
    <3>2. CASE o >= x.count
      BY <1>1, <1>4, <3>2 DEF ValueOk, ConstantOk
    <3> QED BY <1>5, <3>1, <3>2
  <2> QED BY <2>2, <2>3 DEF FunctionsOk
<1>13. ClosuresOk(y, gs)
  <2> SUFFICES ASSUME NEW q \in DOMAIN y.code, y.code[q].op = "MAKE_CLOSURE"
               PROVE  /\ y.code[q].meant \in Seq(Name)
                      /\ y.code[q].arg.at \in Nat /\ y.code[q].arg.at <= q /\ ~ OpenBody(y, gs, y.code[q].arg.at)
                      /\ \A o \in DOMAIN y.code :
                           y.code[o].op \in Upvalue /\ y.code[o].body = y.code[q].arg.at =>
                             /\ y.code[o].arg \in DOMAIN y.code[q].meant
                             /\ y.code[q].meant[y.code[o].arg] = y.code[o].meant
    BY DEF ClosuresOk
  <2>1. \A o \in DOMAIN y.code : y.code[o].op \in Upvalue => o \in DOMAIN x.code /\ y.code[o] = x.code[o]
    BY <1>5, <1>k
  <2>2. CASE q < x.count
    <3>1. q \in DOMAIN x.code /\ y.code[q] = x.code[q]
      BY <1>4, <2>2
    <3>2. /\ x.code[q].meant \in Seq(Name)
          /\ x.code[q].arg.at \in Nat /\ x.code[q].arg.at <= q /\ ~ OpenBody(x, gs, x.code[q].arg.at)
          /\ \A o \in DOMAIN x.code :
               x.code[o].op \in Upvalue /\ x.code[o].body = x.code[q].arg.at =>
                 /\ x.code[o].arg \in DOMAIN x.code[q].meant
                 /\ x.code[q].meant[x.code[o].arg] = x.code[o].meant
      BY <3>1 DEF Mid, ClosuresOk
    <3> QED BY <1>11, <2>1, <3>1, <3>2
  <2>3. CASE q >= x.count
    <3>1. y.code[q].arg = f /\ y.code[q].meant = boxes
      BY <1>4, <2>3 DEF ValueOk
    <3>2. f.at <= q
      BY <1>2, <1>4, <2>3
    <3> QED BY <1>11, <2>1, <3>1, <3>2
  <2> QED BY <1>5, <2>2, <2>3
<1>14. SlotsOk(y, gs, c)
  BY <1>1, <1>5, <1>k DEF Mid, SlotsOk, SlotOf
<1> QED BY <1>0, <1>6, <1>7, <1>8, <1>9, <1>10, <1>12, <1>13, <1>14 DEF Mid

LEMMA VoidFacts ==
  ASSUME NEW p, Sound(p)
  PROVE  LET v == Void(p) IN
         /\ Adds(p, v) /\ Sound(v) /\ Kept(p, v, {"code", "count"}) /\ v.count = p.count + 3
         /\ \A o \in DOMAIN v.code : o >= p.count => v.code[o].op \notin Upvalue
<1> DEFINE u == chunk_emit(p, "PUSH", 2, 0, 0)
           v == chunk_emit(u, "RETURN", 1, 0, 0)
<1>0. DOMAIN p = Fields /\ p.count \in Nat
  BY DEF Sound, Shape
<1>1. "PUSH" \in Plain /\ "RETURN" \in Plain /\ 1 \in Nat \ {0} /\ 2 \in Nat \ {0}
  BY DEF Plain
<1>2. Adds(p, u) /\ Sound(u) /\ Kept(p, u, {"code", "count"}) /\ u.count = p.count + 2
  BY <1>1, PlainKeeps
<1>3. /\ DOMAIN u = Fields /\ DOMAIN u.code = DOMAIN p.code \cup {p.count}
      /\ u.code[p.count] = Instruction(p, "PUSH", 2, 0, 0)
  BY <1>0, EmitFields
<1> HIDE DEF u
<1>4. Adds(u, v) /\ Sound(v) /\ Kept(u, v, {"code", "count"}) /\ v.count = u.count + 1
  BY <1>1, <1>2, PlainKeeps
<1>5. /\ DOMAIN v.code = DOMAIN u.code \cup {u.count}
      /\ v.code[u.count] = Instruction(u, "RETURN", 1, 0, 0)
      /\ \A o \in DOMAIN u.code : o # u.count => v.code[o] = u.code[o]
  BY <1>3, EmitFields
<1>v. Void(p) = v
  BY DEF Void, u
<1> HIDE DEF v
<1>6. Adds(p, v)
  BY <1>2, <1>4, AddsTransitive
<1>7. Kept(p, v, {"code", "count"})
  BY <1>2, <1>4 DEF Kept
<1>8. \A o \in DOMAIN p.code : ~ o >= p.count
  BY <1>0 DEF Sound, CodeShape
<1>9. ASSUME NEW o \in DOMAIN v.code, o >= p.count PROVE v.code[o].op \notin Upvalue
  <2>1. o = u.count \/ (o = p.count /\ o # u.count)
    BY <1>0, <1>2, <1>3, <1>5, <1>8, <1>9
  <2>2. CASE o = u.count
    BY <1>5, <2>2 DEF Instruction, Upvalue
  <2>3. CASE o = p.count /\ o # u.count
    BY <1>3, <1>5, <2>3 DEF Instruction, Upvalue
  <2> QED BY <2>1, <2>2, <2>3
<1>10. v.count = p.count + 3
  BY <1>0, <1>2, <1>4
<1> QED BY <1>v, <1>4, <1>6, <1>7, <1>9, <1>10

LEMMA BackFields ==
  ASSUME NEW s, Sound(s), NEW f, FrameOk(f), f.body <= s.count
  PROVE  LET x == Back(s, f) IN
         DOMAIN x = Fields /\ Kept(s, x, {"params", "depth", "body"}) /\ Sound(x) /\ x.body = f.body /\ x.depth = f.depth
<1> DEFINE x == Back(s, f)
<1>1. /\ DOMAIN x = Fields /\ Kept(s, x, {"params", "depth", "body"})
      /\ x.body = f.body /\ x.depth = f.depth /\ x.params = f.params
  BY DEF Back, Sound, Shape, Fields, Kept
<1> HIDE DEF x
<1>2. f.body \in Nat /\ f.depth \in Nat /\ f.params \in Seq(Name)
  BY DEF FrameOk, FrameSet
<1>3. /\ x.code = s.code /\ x.count = s.count /\ x.lastCall = s.lastCall /\ x.captured = s.captured /\ x.line = s.line
      /\ x.capturing = s.capturing /\ x.failed = s.failed /\ x.outer = s.outer /\ x.locals = s.locals
  BY <1>1 DEF Kept, Fields
<1>4. Shape(x)
  BY <1>1, <1>2, <1>3 DEF Sound, Shape
<1> QED BY <1>1, <1>3, <1>4, SoundSame DEF x

LEMMA FunctionLeft ==
  ASSUME CodeInv, open # <<>>, NEW f, f = Last(open), f.kind # "if"
  PROVE  LET p == [parser EXCEPT !.line = 0]
             s == Back(Void(p), f)
         IN  /\ Left(p, s, Outside(s, f), f, [at |-> parser.body, sig |-> f.sig], s.captured) /\ FrameOk(f)
<1> DEFINE p == [parser EXCEPT !.line = 0]
           v == Void(p)
           s == Back(v, f)
           x == Outside(s, f)
           g == [at |-> parser.body, sig |-> f.sig]
           gs == Front(open)
<1>1. /\ DOMAIN p = Fields /\ Kept(parser, p, {"line"}) /\ p.line = 0 /\ Settled(p, open) /\ Marking(p) /\ Sound(p)
      /\ \A o \in DOMAIN parser.code : ~ o >= parser.count
  BY Unlined
<1>2. open \in Seq(FrameSet) /\ Settled(parser, open)
  BY DEF CodeInv
<1> HIDE DEF p
<1>3. /\ p.code = parser.code /\ p.count = parser.count /\ p.marks = parser.marks /\ p.body = parser.body
      /\ p.captured = parser.captured /\ p.functions = parser.functions /\ p.failed = parser.failed
      /\ p.lost = parser.lost
  BY <1>1 DEF Kept, Fields
<1>4. parser.count \in Nat /\ parser.body \in Nat /\ parser.body <= parser.count /\ parser.captured \in Seq(Name)
  BY <1>2 DEF Settled, Mid, Sound, Shape
<1>5. /\ Adds(p, v) /\ Sound(v) /\ Kept(p, v, {"code", "count"}) /\ v.count = p.count + 3
      /\ \A o \in DOMAIN v.code : o >= p.count => v.code[o].op \notin Upvalue
  BY <1>1, VoidFacts
<1> HIDE DEF v
<1>6. v.body = parser.body /\ v.marks = parser.marks /\ v.functions = parser.functions /\ v.captured = parser.captured
      /\ v.line = 0 /\ v.lost = parser.lost
  BY <1>1, <1>3, <1>5 DEF Kept, Fields
<1>7. Mid(v, open, p.count, Len(p.marks)) /\ Marking(v)
  BY <1>1, <1>5, AddsMid DEF Settled
<1>8. FrameOk(f) /\ f.body <= v.count /\ f.body \in Nat /\ f \in FrameSet
  <2>1. Len(open) \in DOMAIN open /\ f = open[Len(open)]
    BY <1>2, FrontDomain
  <2>2. FrameOk(f) /\ f.body <= f.count /\ f.count <= p.count
    BY <1>7, <2>1 DEF Mid, FramesOk
  <2>3. f.body \in Nat /\ f.count \in Nat
    BY <2>2 DEF FrameOk, FrameSet
  <2> QED BY <1>3, <1>4, <1>5, <2>2, <2>3 DEF FrameOk
<1>9. DOMAIN s = Fields /\ Kept(v, s, {"params", "depth", "body"}) /\ Sound(s) /\ s.body = f.body
  BY <1>5, <1>8, BackFields
<1> HIDE DEF s
<1>10. DOMAIN x = Fields /\ Kept(s, x, {"capturing", "locals", "captured"}) /\ Sound(x) /\ x.captured = f.captured
  BY <1>8, <1>9, OutsideFields
<1> HIDE DEF x
<1>11. /\ x.code = v.code /\ x.count = v.count /\ x.marks = v.marks /\ x.functions = v.functions
       /\ x.lastCall = v.lastCall /\ x.body = f.body /\ x.line = v.line /\ s.captured = v.captured
       /\ x.lost = v.lost
  BY <1>9, <1>10 DEF Kept, Fields
<1>12. /\ Mid(x, gs, f.count, f.marks) /\ ~ OpenBody(x, gs, v.body)
  <2>1. Shape(x)
    BY <1>10 DEF Sound
  <2> QED BY <1>2, <1>7, <1>10, <1>11, <2>1, PopMid
<1>13. Marking(x)
  BY <1>6, <1>7, <1>11 DEF Marking
<1>14. g.at = parser.body /\ g.sig = f.sig /\ f.sig \in Signature
  BY <1>8 DEF FrameOk
<1>15. ASSUME NEW h \in x.functions, h \notin x.lost.functions PROVE ~ SameConstant(h, g)
  <2>1. FunctionsOk(parser, open) /\ h \in parser.functions
    BY <1>2, <1>6, <1>11 DEF Settled, Mid
  <2>2. ~ OpenBody(parser, open, h.at)
    BY <1>6, <1>11, <1>15, <2>1 DEF FunctionsOk, Loaded
  <2>3. h.at # parser.body
    BY <2>2 DEF OpenBody
  <2> QED BY <1>14, <2>3 DEF SameConstant
<1>16. ASSUME NEW o \in DOMAIN x.code, x.code[o].op \in Upvalue, x.code[o].body = g.at
       PROVE  x.code[o].arg \in DOMAIN s.captured /\ s.captured[x.code[o].arg] = x.code[o].meant
  <2>1. ~ o >= p.count
    BY <1>5, <1>11, <1>16
  <2>2. SlotOf(v, v.code[o])
    BY <1>6, <1>7, <1>11, <1>14, <1>16, <2>1 DEF Mid, SlotsOk
  <2> QED BY <1>11, <2>2 DEF SlotOf
<1>17. x.count \in Nat /\ parser.count < x.count /\ parser.body < x.count
  BY <1>3, <1>4, <1>5, <1>11
<1> HIDE DEF g
<1>18. Left(p, s, x, f, g, s.captured)
  BY <1>4, <1>6, <1>9, <1>10, <1>11, <1>12, <1>13, <1>14, <1>15, <1>16, <1>17 DEF Left
<1> QED BY <1>8, <1>18 DEF x, s, v, p, g

LEMMA ValueLeft ==
  ASSUME NEW p, NEW s, NEW x, NEW f, NEW g, NEW boxes, Left(p, s, x, f, g, boxes), NEW y, Valued(x, y, g, boxes)
  PROVE  /\ Mid(y, Front(open), f.count, f.marks) /\ Marking(y) /\ Sound(y) /\ y.count \in Nat
         /\ y.marks = parser.marks /\ parser.count < y.count
<1>1. /\ Mid(x, Front(open), f.count, f.marks) /\ Marking(x) /\ x.line = 0 /\ boxes \in Seq(Name)
      /\ g.at \in Nat /\ g.at < x.count /\ ~ OpenBody(x, Front(open), g.at)
      /\ \A h \in x.functions : h \in x.lost.functions \/ ~ SameConstant(h, g)
      /\ \A o \in DOMAIN x.code : x.code[o].op \in Upvalue /\ x.code[o].body = g.at =>
                                    x.code[o].arg \in DOMAIN boxes /\ boxes[x.code[o].arg] = x.code[o].meant
      /\ x.marks = parser.marks /\ x.count \in Nat /\ parser.count < x.count /\ parser.count \in Nat
  BY DEF Left
<1>2. Mid(y, Front(open), f.count, f.marks) /\ Marking(y)
  BY <1>1, ValueMid
<1>3. y.marks = x.marks /\ x.count < y.count /\ Sound(y)
  BY DEF Valued, Kept, Fields
<1>4. y.count \in Nat
  BY <1>3 DEF Sound, Shape
<1> QED BY <1>1, <1>2, <1>3, <1>4

LEMMA FunctionEndsKeeps ==
  ASSUME CodeInv, FunctionEnds, NoCallLost'
  PROVE  CodeInv'
<1> DEFINE f == Last(open)
           p == [parser EXCEPT !.line = 0]
           s == Back(Void(p), f)
           g == [at |-> parser.body, sig |-> f.sig]
           x == Outside(s, f)
           t == IF s.capturing /\ s.captured # <<>> THEN emit_closure(s, g) ELSE emit_plain_function_value(s, g)
<1>1. open # <<>> /\ f.kind # "if"
  BY DEF FunctionEnds
<1>2. IF f.kind = "closure" THEN BlockEnds(emit_store(Outside(t, f), f.name))
      ELSE IF s.depth > 0 THEN BlockEnds(Failed(x))
      ELSE BlockEnds(chunk_emit(emit_plain_function_value(x, g), "STORE", 3, Callee, Callee))
  BY Zenon DEF FunctionEnds, Void, Back
<1>3. Left(p, s, x, f, g, s.captured) /\ FrameOk(f)
  BY <1>1, FunctionLeft
<1> HIDE DEF p, s, g
<1>4. /\ Sound(s) /\ Sound(x) /\ g.sig \in Signature /\ x.count \in Nat /\ parser.count < x.count
      /\ x.marks = parser.marks /\ parser.count \in Nat /\ Mid(x, Front(open), f.count, f.marks) /\ Marking(x)
  BY <1>3 DEF Left
<1>5. CASE f.kind = "closure"
  <2> DEFINE y == Outside(t, f)
             z == emit_store(y, f.name)
  <2>1. Valued(s, t, g, s.captured)
    BY <1>4, ClosureValue, PlainValue
  <2> HIDE DEF t
  <2>2. Valued(x, y, g, s.captured)
    BY <1>3, <1>4, <2>1, OutsideValued
  <2>3. BlockEnds(z)
    BY <1>2, <1>5
  <2> HIDE DEF y, x
  <2>4. /\ Mid(y, Front(open), f.count, f.marks) /\ Marking(y) /\ Sound(y) /\ y.count \in Nat
        /\ y.marks = parser.marks /\ parser.count < y.count
    BY <1>3, <2>2, ValueLeft
  <2>5. f.name \in Name
    BY <1>3, <1>5 DEF FrameOk
  <2>6. Adds(y, z) /\ z.count > y.count /\ Kept(y, z, {"code", "count", "locals", "captured", "outer", "failed"})
    BY <2>4, <2>5, StoreAdds
  <2> HIDE DEF z
  <2>7. Mid(z, Front(open), f.count, f.marks)
    BY <2>4, <2>6, AddsMid
  <2>8. z.marks = parser.marks /\ parser.count < z.count
    <3>1. z.count \in Nat
      BY <2>6 DEF Adds, Sound, Shape
    <3> QED BY <1>4, <2>4, <2>6, <3>1 DEF Kept, Fields
  <2> QED BY <1>1, <2>3, <2>7, <2>8, BlockSettles
<1>6. CASE f.kind # "closure" /\ s.depth > 0
  <2> DEFINE z == Failed(x)
  <2>1. BlockEnds(z)
    BY <1>2, <1>6
  <2> HIDE DEF x
  <2>2. Adds(x, z) /\ z.count = x.count
    BY <1>4, FailedAdds
  <2> HIDE DEF z
  <2>3. Mid(z, Front(open), f.count, f.marks)
    BY <1>4, <2>2, AddsMid
  <2>4. z.marks = parser.marks /\ parser.count < z.count
    BY <1>4, <2>2 DEF Adds, Kept, Fields
  <2> QED BY <1>1, <2>1, <2>3, <2>4, BlockSettles
<1>7. CASE f.kind # "closure" /\ ~ s.depth > 0
  <2> DEFINE y == emit_plain_function_value(x, g)
             z == chunk_emit(y, "STORE", 3, Callee, Callee)
  <2>1. BlockEnds(z)
    BY <1>2, <1>7
  <2> HIDE DEF x
  <2>2. Valued(x, y, g, s.captured)
    BY <1>4, PlainValue
  <2> HIDE DEF y
  <2>3. /\ Mid(y, Front(open), f.count, f.marks) /\ Marking(y) /\ Sound(y) /\ y.count \in Nat
        /\ y.marks = parser.marks /\ parser.count < y.count
    BY <1>3, <2>2, ValueLeft
  <2>4. "STORE" \in Plain /\ 3 \in Nat \ {0}
    BY DEF Plain
  <2>5. Adds(y, z) /\ z.count > y.count /\ Kept(y, z, {"code", "count"}) /\ z.count \in Nat
    BY <2>3, <2>4, PlainKeeps
  <2> HIDE DEF z
  <2>6. Mid(z, Front(open), f.count, f.marks)
    BY <2>3, <2>5, AddsMid
  <2>7. z.marks = parser.marks /\ parser.count < z.count
    BY <1>4, <2>3, <2>5 DEF Kept, Fields
  <2> QED BY <1>1, <2>1, <2>6, <2>7, BlockSettles
<1> QED BY <1>5, <1>6, <1>7

LEMMA BytecodeStart == ASSUME BytecodeInit PROVE BytecodeInv
<1>1. /\ DOMAIN parser = Fields /\ parser.code = <<>> /\ parser.count = 0 /\ parser.marks = <<>>
      /\ parser.functions = {} /\ parser.lastCall = 0 /\ parser.capturing = FALSE /\ parser.locals = {}
      /\ parser.captured = <<>> /\ parser.outer = {} /\ parser.params = <<>> /\ parser.depth = 0
      /\ parser.body = 0 /\ parser.failed = FALSE /\ parser.line = 0
  BY DEF BytecodeInit, Fields
<1>2. open = <<>> /\ line = 0 /\ pending = <<>> /\ made = None
  BY DEF BytecodeInit
<1>3. CaptureMax \in Nat /\ \A S : <<>> \in Seq(S) /\ Len(<<>>) = 0 /\ DOMAIN <<>> = {}
  BY BytecodeAssumption
<1>4. DOMAIN parser.code = {} /\ DOMAIN parser.marks = {} /\ DOMAIN open = {} /\ Len(parser.marks) = 0
  BY <1>1, <1>2, <1>3
<1>5. Shape(parser)
  <2>1. Len(parser.captured) = 0 /\ parser.captured \in Seq(Name) /\ parser.params \in Seq(Name)
    BY <1>1, <1>3
  <2>2. parser.locals \subseteq Name /\ parser.outer \subseteq Name
    BY <1>1
  <2>3. /\ DOMAIN parser = Fields /\ parser.count \in Nat /\ parser.lastCall \in Nat /\ parser.depth \in Nat
        /\ parser.line \in Nat /\ parser.body \in Nat /\ parser.body <= parser.count
    BY <1>1
  <2>5. parser.capturing \in BOOLEAN
    BY <1>1
  <2>6. parser.failed \in BOOLEAN
    BY <1>1
  <2>4. Len(parser.captured) <= CaptureMax
    BY <1>3, <2>1
  <2> QED BY <2>1, <2>2, <2>3, <2>4, <2>5, <2>6 DEF Shape
<1>6. Sound(parser)
  BY <1>1, <1>4, <1>5 DEF Sound, CodeShape, Tiled, CallKnown
<1>7. FramesOk(parser, open, 0) /\ LinesOk(parser) /\ TailsOk(parser, open, 0) /\ FusedOk(parser)
  BY <1>1, <1>4 DEF FramesOk, Boundary, LinesOk, TailsOk, FusedOk
<1>8. MarksOk(parser, open, 0, 0)
  BY <1>1, <1>3, <1>4 DEF MarksOk, IsBase
<1>9. FunctionsOk(parser, open) /\ ClosuresOk(parser, open) /\ SlotsOk(parser, open, 0)
  BY <1>1, <1>4 DEF FunctionsOk, ClosuresOk, SlotsOk
<1>10. Settled(parser, open)
  BY <1>1, <1>4, <1>6, <1>7, <1>8, <1>9 DEF Settled, Mid
<1>11. CodeInv
  BY <1>2, <1>3, <1>10 DEF CodeInv
<1>12. made.boxes = <<>>
  BY <1>2 DEF None
<1>13. RunInv
  BY <1>2, <1>3, <1>12 DEF RunInv
<1> QED BY <1>11, <1>13 DEF BytecodeInv

LEMMA OneLineKeeps ==
  ASSUME CodeInv, OneLine, NoCallLost'
  PROVE  CodeInv'
<1>1. Settled(parser, open) /\ line \in Nat /\ open \in Seq(FrameSet)
  BY DEF CodeInv
<1>2. Sound(Begun)
  BY <1>1, BegunMid
<1>3. PICK t : Adds(Begun, t) /\ t.count > Begun.count /\ Statement(t)
  BY <1>2, OneLineAdds
<1>4. /\ line' = line + 1 /\ open' = open /\ parser' = RolledBack(t, parser.count, Len(parser.marks))
      /\ RolledBack(t, parser.count, Len(parser.marks)).lost.calls = {}
  BY <1>3 DEF Statement, NoCallLost
<1>5. Settled(RolledBack(t, parser.count, Len(parser.marks)), open)
  BY <1>1, <1>3, <1>4, StatementSettles
<1> QED BY <1>1, <1>4, <1>5 DEF CodeInv

LEMMA ParsingKeepsRun ==
  ASSUME RunInv, Parsing
  PROVE  RunInv'
<1>1. made' = None /\ pending' = pending
  <2>1. CASE OneLine
    BY <2>1, Zenon DEF OneLine, Assign, Compound, CallStatement, SetItem, ReturnStatement, ExpressionFails, AssignFails,
                Statement
  <2>2. CASE FunctionBegins \/ ClosureBegins \/ IfBegins
    BY <2>2, Zenon DEF FunctionBegins, ClosureBegins, IfBegins, BlockBegins
  <2>3. CASE IfEnds
    BY <2>3, Zenon DEF IfEnds, BlockEnds
  <2>4. CASE FunctionEnds
    BY <2>4, Zenon DEF FunctionEnds, BlockEnds
  <2> QED BY <2>1, <2>2, <2>3, <2>4 DEF Parsing
<1>2. None.boxes \in Seq(Name)
  BY DEF None
<1> QED BY <1>1, <1>2 DEF RunInv

LEMMA MakeClosureKeepsRun ==
  ASSUME BytecodeInv, RunMakeClosure
  PROVE  RunInv'
<1>1. PICK o \in Closures :
        LET names == parser.code[o].meant
            boxes == pending \o names
        IN  /\ Len(boxes) <= CaptureMax
            /\ made' = [at |-> parser.code[o].arg.at, boxes |-> SubSeq(boxes, 1, Len(names))]
            /\ pending' = <<>> /\ parser' = parser
  BY DEF RunMakeClosure
<1> DEFINE names == parser.code[o].meant
           boxes == pending \o names
<1>2. o \in DOMAIN parser.code /\ parser.code[o].op = "MAKE_CLOSURE" /\ names \in Seq(Name) /\ pending \in Seq(Name)
  BY DEF Closures, BytecodeInv, CodeInv, RunInv, Settled, Mid, ClosuresOk
<1>3. /\ made'.at = parser.code[o].arg.at /\ made'.boxes = SubSeq(boxes, 1, Len(names))
      /\ pending' = <<>> /\ parser' = parser
  BY <1>1
<1> HIDE DEF names
<1>4. boxes \in Seq(Name) /\ Len(names) \in 0 .. Len(boxes) /\ Len(names) \in Nat
  <2>1. boxes \in Seq(Name) /\ Len(boxes) = Len(pending) + Len(names)
    BY <1>2
  <2>2. Len(names) \in Nat /\ Len(pending) \in Nat
    BY <1>2, SeqFacts
  <2> HIDE DEF boxes
  <2> QED BY <2>1, <2>2
<1>5. made'.boxes \in Seq(Name)
  <2> HIDE DEF boxes
  <2> QED BY <1>3, <1>4, PrefixFacts
<1>6. ASSUME LeftMax = 0 PROVE made'.boxes = names
  <2>1. pending = <<>>
    BY <1>6 DEF BytecodeInv, RunInv
  <2>2. boxes = names
    BY <1>2, <2>1
  <2>3. SubSeq(names, 1, Len(names)) = names
    BY <1>2, PrefixWhole DEF Prefix
  <2> QED BY <1>3, <2>2, <2>3
<1>7. CaptureMax \in Nat /\ Len(<<>>) = 0 /\ <<>> \in Seq(Name)
  BY BytecodeAssumption
<1> QED BY <1>2, <1>3, <1>5, <1>6, <1>7 DEF RunInv, names

LEMMA CaptureFailsKeepsRun ==
  ASSUME BytecodeInv, RunCaptureFails
  PROVE  RunInv'
<1>1. PICK o \in Closures : \E k \in 0 .. Len(parser.code[o].meant) - 1 :
        /\ k <= LeftMax /\ Len(pending) + k <= CaptureMax
        /\ pending' = pending \o SubSeq(parser.code[o].meant, 1, k)
  BY DEF RunCaptureFails
<1> DEFINE names == parser.code[o].meant
<1>2. names \in Seq(Name) /\ pending \in Seq(Name) /\ made' = None /\ parser' = parser
  BY DEF Closures, BytecodeInv, CodeInv, RunInv, Settled, Mid, ClosuresOk, RunCaptureFails
<1>3. PICK k \in 0 .. Len(names) - 1 :
        /\ k <= LeftMax /\ Len(pending) + k <= CaptureMax
        /\ pending' = pending \o SubSeq(names, 1, k)
  BY <1>1
<1> HIDE DEF names
<1>4. Len(names) \in Nat /\ k \in 0 .. Len(names) /\ LeftMax \in Nat
  <2>1. Len(names) \in Nat
    BY <1>2, SeqFacts
  <2> QED BY <2>1, BytecodeAssumption
<1> DEFINE taken == SubSeq(names, 1, k)
<1>5. taken \in Seq(Name) /\ Len(taken) = k
  BY <1>2, <1>4, PrefixFacts
<1> HIDE DEF taken
<1>6. pending' \in Seq(Name) /\ Len(pending') = Len(pending) + k
  BY <1>2, <1>3, <1>5 DEF taken
<1>7. ASSUME LeftMax = 0 PROVE pending' = <<>>
  <2>1. pending = <<>> /\ k = 0
    BY <1>3, <1>4, <1>7 DEF BytecodeInv, RunInv
  <2>2. Len(pending') = 0
    BY <1>6, <2>1
  <2> QED BY <1>6, <2>2
<1>8. None.boxes \in Seq(Name)
  BY DEF None
<1> QED BY <1>2, <1>3, <1>6, <1>7, <1>8 DEF RunInv

LEMMA BytecodeStep ==
  ASSUME BytecodeInv, [BytecodeNext]_bytecodeVars, NoCallLost'
  PROVE  BytecodeInv'
<1>1. CASE Parsing
  <2>1. CodeInv'
    BY <1>1, OneLineKeeps, FunctionBeginsKeeps, IfBeginsKeeps, IfEndsKeeps, FunctionEndsKeeps DEF Parsing, BytecodeInv
  <2> QED BY <1>1, <2>1, ParsingKeepsRun DEF BytecodeInv
<1>2. CASE RunMakeClosure \/ RunCaptureFails
  <2>1. UNCHANGED <<parser, open, line>>
    BY <1>2 DEF RunMakeClosure, RunCaptureFails
  <2>2. CodeInv'
    BY <2>1 DEF BytecodeInv, CodeInv, Settled
  <2> QED BY <1>2, <2>2, MakeClosureKeepsRun, CaptureFailsKeepsRun DEF BytecodeInv
<1>3. CASE EndOfText \/ UNCHANGED bytecodeVars
  BY <1>3 DEF EndOfText, bytecodeVars, BytecodeInv, CodeInv, RunInv, Settled
<1> QED BY <1>1, <1>2, <1>3 DEF BytecodeNext, Parsing, OneLine

\* The inductive invariant of chunk_emit() and its callers: the words, the
\* line marks, the constants and the captured names of every open
\* construct of the text, through the rollback of parse().  It needs that
\* no failed statement has discarded a call, after which
\* last_bare_call_end is the end of something else.
THEOREM BytecodeIsSound == BytecodeSpec /\ []NoCallLost => []BytecodeInv
<1>1. BytecodeInit => BytecodeInv
  BY BytecodeStart
<1>2. BytecodeInv /\ [BytecodeNext]_bytecodeVars /\ NoCallLost' => BytecodeInv'
  BY BytecodeStep
<1> QED BY <1>1, <1>2, PTL DEF BytecodeSpec

LEMMA CodeHasTypes == ASSUME BytecodeInv PROVE BytecodeTypeOK
<1> DEFINE c == parser.code
<1>1. Sound(parser) /\ line \in Nat
  BY DEF BytecodeInv, CodeInv, Settled, Mid
<1>2. /\ parser.failed \in BOOLEAN /\ parser.capturing \in BOOLEAN /\ parser.count \in Nat
      /\ parser.lastCall \in Nat /\ parser.depth \in Nat /\ parser.body \in Nat
      /\ parser.locals \subseteq Name /\ parser.outer \subseteq Name
      /\ parser.captured \in Seq(Name) /\ parser.params \in Seq(Name) /\ Len(parser.captured) <= CaptureMax
  BY <1>1 DEF Sound, Shape
<1>3. pending \in Seq(Name) /\ made.boxes \in Seq(Name) /\ Len(pending) <= CaptureMax
  BY DEF BytecodeInv, RunInv
<1>4. \A o \in DOMAIN c : o \in Nat /\ c[o].words \in Nat /\ c[o].words >= 1 /\ o + c[o].words <= parser.count
  BY <1>1 DEF Sound, CodeShape
<1>5. UNION {o .. o + c[o].words - 1 : o \in DOMAIN c} = 0 .. parser.count - 1
  <2>1. ASSUME NEW o \in DOMAIN c, NEW y \in o .. o + c[o].words - 1 PROVE y \in 0 .. parser.count - 1
    BY <1>2, <1>4
  <2>2. ASSUME NEW y \in 0 .. parser.count - 1 PROVE \E o \in DOMAIN c : y \in o .. o + c[o].words - 1
    <3>1. y \in Nat /\ y < parser.count
      BY <1>2
    <3>2. PICK o \in DOMAIN c : o <= y /\ y < o + c[o].words
      BY <1>1, <3>1 DEF Sound, Tiled
    <3>3. y \in o .. o + c[o].words - 1
      BY <1>4, <3>1, <3>2
    <3> QED BY <3>3
  <2> QED BY <2>1, <2>2
<1>6. ASSUME NEW o \in DOMAIN c, NEW q \in (o + 1 .. o + c[o].words - 1) \cap DOMAIN c PROVE FALSE
  <2>1. o < q /\ q < o + c[o].words /\ q \in Nat /\ o \in Nat /\ c[o].words \in Nat
    BY <1>4
  <2>2. o + c[o].words <= q
    BY <1>1, <2>1 DEF Sound, Tiled
  <2> QED BY <2>1, <2>2
<1>7. {parser.count, parser.lastCall, parser.depth, parser.body, line} \subseteq Nat
  BY <1>1, <1>2
<1>8. {parser.captured, parser.params, pending, made.boxes} \subseteq Seq(Name)
  BY <1>2, <1>3
<1> QED BY <1>2, <1>3, <1>5, <1>6, <1>7, <1>8 DEF BytecodeTypeOK, written

\* The parser's globals have their types, and the instructions tile the
\* chunk: no rollback, fusion or patch cuts one in two.
THEOREM BytecodeHasTypes == BytecodeSpec /\ []NoCallLost => []BytecodeTypeOK
<1>1. BytecodeInv => BytecodeTypeOK
  BY CodeHasTypes
<1> QED BY <1>1, BytecodeIsSound, PTL

\* The last mark that is not behind an instruction is that of its line.
LEMMA MarkBefore ==
  ASSUME BytecodeInv, NEW o \in DOMAIN written, written[o].line # 0
  PROVE  LineFor(o) = written[o].line
<1> DEFINE found == {i \in DOMAIN parser.marks : parser.marks[i].at <= o}
<1>1. parser.marks \in Seq(Mark) /\ LinesOk(parser)
  BY DEF BytecodeInv, CodeInv, Settled, Mid, MarksOk
<1>2. PICK i \in DOMAIN parser.marks :
        /\ parser.marks[i].at <= o /\ parser.marks[i].line = written[o].line
        /\ \A j \in DOMAIN parser.marks : j > i => parser.marks[j].at > o
  BY <1>1 DEF LinesOk, MarkedAt, written
<1>3. \A j \in DOMAIN parser.marks : j \in Nat /\ parser.marks[j].at \in Nat
  BY <1>1, SeqFacts, MarkFacts
<1>4. o \in Nat
  BY DEF BytecodeInv, CodeInv, Settled, Mid, Sound, CodeShape, written
<1>5. i \in found /\ \A j \in found : j <= i /\ j \in Nat
  BY <1>2, <1>3, <1>4
<1>6. Max(found) = i
  <2>1. found \in SUBSET Nat /\ found # {} /\ i \in Nat
    BY <1>5
  <2> HIDE DEF found
  <2>2. Max(found) \in found /\ \A j \in found : j <= Max(found)
    BY <1>5, <2>1, MaxFacts
  <2> QED BY <1>5, <2>1, <2>2
<1>7. found # {}
  BY <1>5
<1>8. LineFor(o) = parser.marks[Max(found)].line
  BY <1>7 DEF LineFor
<1> QED BY <1>2, <1>6, <1>8

\* chunk_line_for_offset() finds the statement that wrote an instruction,
\* whatever was marked and rolled back before it.
THEOREM LinesAreOfTheirStatement == BytecodeSpec /\ []NoCallLost => []LinesNameTheirStatement
<1>1. BytecodeInv => LinesNameTheirStatement
  BY MarkBefore DEF LinesNameTheirStatement
<1> QED BY <1>1, BytecodeIsSound, PTL

\* Tail calls and fused assignments are what the text says, and a function
\* constant is the function's own or one that a discarded function with the
\* same code offset and arity has left (parse_return(), parse_assignment(),
\* chunk_add_pool()).
THEOREM RewrittenCodeIsRight == BytecodeSpec /\ []NoCallLost => []RewrittenCodeMatchesText
<1>1. BytecodeInv => RewrittenCodeMatchesText
  <2> SUFFICES ASSUME BytecodeInv PROVE RewrittenCodeMatchesText
    OBVIOUS
  <2>1. /\ Sound(parser) /\ FunctionsOk(parser, open) /\ TailsOk(parser, open, parser.count) /\ FusedOk(parser)
    BY DEF BytecodeInv, CodeInv, Settled, Mid
  <2>2. \A o \in With({"PUSH_FUNCTION"}) : written[o].arg = written[o].meant \/ StaleConstant(written[o])
    BY <2>1 DEF StaleConstant, ConstantOk, FunctionsOk, With, written
  <2>3. TailCallsAreReturnedCalls
    BY <2>1 DEF TailCallsAreReturnedCalls, IsReturnedCall, TailsOk, Sound, CodeShape, Calls, With, written
  <2>4. FusedAssignmentsAreWhole
    BY <2>1 DEF FusedAssignmentsAreWhole, FusedOk, IsWhole, With, written
  <2> QED BY <2>2, <2>3, <2>4 DEF RewrittenCodeMatchesText, TailCallsAreReturnedCalls
<1> QED BY <1>1, BytecodeIsSound, PTL

\* The boxes of a closure are those its body was compiled for, as long as
\* every OP_CAPTURE finds its name: a failed one leaves boxes behind.
THEOREM UpvaluesAreRight ==
  ASSUME LeftMax = 0
  PROVE  BytecodeSpec /\ []NoCallLost => []UpvaluesAreTheNamed
<1>1. BytecodeInv => UpvaluesAreTheNamed
  <2> SUFFICES ASSUME BytecodeInv, NEW o \in With(Upvalue), made # None, written[o].body = made.at
               PROVE  written[o].arg \in DOMAIN made.boxes /\ made.boxes[written[o].arg] = written[o].meant
    BY DEF UpvaluesAreTheNamed
  <2>1. PICK q \in DOMAIN parser.code : /\ parser.code[q].op = "MAKE_CLOSURE" /\ made.at = parser.code[q].arg.at
                                        /\ made.boxes = parser.code[q].meant
    BY DEF BytecodeInv, RunInv
  <2>2. ClosuresOk(parser, open)
    BY DEF BytecodeInv, CodeInv, Settled, Mid
  <2> QED BY <2>1, <2>2 DEF ClosuresOk, With, written
<1> QED BY <1>1, BytecodeIsSound, PTL

----
\* Bytecode: the capture rule.

LEMMA CodeBelow ==
  ASSUME NEW s, Sound(s)
  PROVE  s.count \in Nat /\ \A o \in DOMAIN s.code : o \in Nat /\ o < s.count
BY DEF Sound, Shape, CodeShape

LEMMA RoomFor ==
  ASSUME NamesTracked, NEW names, names \subseteq Name, NEW n \in Name, n \notin names
  PROVE  Room(names)
<1>1. IsFiniteSet(names) /\ Cardinality(names) <= Cardinality(Name) /\ Cardinality(names) # Cardinality(Name)
  BY FS_Subset DEF NamesTracked
<1>2. Cardinality(names) \in Nat /\ Cardinality(Name) \in Nat
  BY <1>1, FS_CardinalityType DEF NamesTracked
<1>3. LocalMax \in Nat
  BY BytecodeAssumption
<1> QED BY <1>1, <1>2, <1>3 DEF NamesTracked, Room

LEMMA CarriedNaming ==
  ASSUME NEW s, NEW t, Carried(s, t), NEW b, NoneNew(s, t, b)
  PROVE  \A o \in NamingIn(t, b) : o \in NamingIn(s, b) /\ t.code[o] = s.code[o]
BY DEF Carried, NoneNew, NamingIn

LEMMA CarriedDefined ==
  ASSUME NEW s, NEW t, Sound(s), Carried(s, t), NEW b, NEW n, NEW before, IsDefined(s, b, n, before)
  PROVE  IsDefined(t, b, n, before) /\ (before = s.count => IsDefined(t, b, n, t.count))
<1>1. PICK q \in NamingIn(s, b) : q < before /\ s.code[q].op = "DEFINE" /\ s.code[q].meant = n
  BY DEF IsDefined
<1>2. q \in DOMAIN s.code /\ q < s.count /\ s.code[q].body = b /\ q \in Nat
  BY <1>1 DEF Sound, Shape, CodeShape, NamingIn
<1>3. q \in DOMAIN t.code /\ t.code[q] = s.code[q] /\ q < t.count
  BY <1>1, <1>2 DEF Carried
<1>4. q \in NamingIn(t, b)
  BY <1>1, <1>2, <1>3 DEF NamingIn
<1> QED BY <1>1, <1>3, <1>4 DEF IsDefined

LEMMA CarriedBefore ==
  ASSUME NEW s, NEW t, Sound(s), Carried(s, t), NEW b \in DOMAIN t.code, b < s.count
  PROVE  \A q \in Before(t, b) : q \in Before(s, b) /\ t.code[q] = s.code[q]
<1>1. b \in DOMAIN s.code /\ t.code[b] = s.code[b] /\ b \in Nat /\ s.count \in Nat
  BY DEF Carried, Sound, Shape, CodeShape
<1>2. SUFFICES ASSUME NEW q \in Before(t, b) PROVE q \in Before(s, b) /\ t.code[q] = s.code[q]
  OBVIOUS
<1>3. q \in NamingIn(t, s.code[b].arg) /\ q < b /\ t.code[q].op \in Stores /\ q \in DOMAIN t.code
  BY <1>1, <1>2 DEF Before, NamingIn
<1>4. q \in DOMAIN s.code /\ t.code[q] = s.code[q]
  <2>1. CASE q < s.count
    BY <1>3, <2>1 DEF Carried
  <2>2. CASE ~ q < s.count
    BY <1>1, <1>3, <2>2 DEF Carried
  <2> QED BY <2>1, <2>2
<1> QED BY <1>3, <1>4 DEF Before, NamingIn

\* What is known of a body, and the rule for it, while other bodies are
\* written.
LEMMA CarriedKnown ==
  ASSUME NEW s, NEW t, Sound(s), Carried(s, t), NEW v, NEW excused, NEW E, Known(s, v, excused, E),
         NoneNew(s, t, v.body), v.capturing => v.body \in DOMAIN t.code,
         v.depth = 1 \/ v.capturing => s.outer \subseteq t.outer
  PROVE  Known(t, v, excused, E)
<1> DEFINE b == v.body
<1>1. \A o \in NamingIn(t, b) : o \in NamingIn(s, b) /\ t.code[o] = s.code[o]
  BY CarriedNaming
<1>2. KnownUpvalues(t, v, excused)
  BY <1>1 DEF Known, KnownUpvalues
<1>3. KnownOuter(t, v)
  BY <1>1 DEF Known, KnownOuter
<1>4. ASSUME v.capturing
      PROVE  v.depth = 2 /\ b # 0 /\ b \in DOMAIN t.code /\ KnownLocals(t, v, E) /\ OwnNames(t, b) /\ KnownBefore(t, v)
  <2>1. b \in DOMAIN s.code /\ b < s.count /\ b \in DOMAIN t.code
    BY <1>4 DEF Known, Sound, Shape, CodeShape
  <2>2. \A q \in Before(t, b) : q \in Before(s, b) /\ t.code[q] = s.code[q]
    BY <2>1, CarriedBefore
  <2>3. ASSUME NEW n, NEW before, IsDefined(s, b, n, before)
        PROVE  IsDefined(t, b, n, before) /\ (before = s.count => IsDefined(t, b, n, t.count))
    BY <2>3, CarriedDefined
  <2> HIDE DEF b
  <2>4. KnownLocals(t, v, E)
    <3>1. KnownLocals(s, v, E)
      BY <1>4 DEF Known
    <3>2. \A o \in NamingIn(t, b) : t.code[o].op \notin Upvalue => NamesOf(t.code[o]) \subseteq v.locals
      BY <1>1, <3>1 DEF KnownLocals, b
    <3>3. \A n \in v.locals \ E : Contains(v.params, n) \/ IsDefined(t, b, n, t.count)
      BY <2>3, <3>1 DEF KnownLocals, b
    <3> QED BY <3>1, <3>2, <3>3 DEF KnownLocals, b
  <2>5. OwnNames(t, b)
    <3>1. OwnNames(s, b)
      BY <1>4 DEF Known, b
    <3> QED BY <1>1, <2>2, <2>3, <3>1 DEF OwnNames
  <2>6. KnownBefore(t, v)
    <3>1. KnownBefore(s, v)
      BY <1>4 DEF Known
    <3> QED BY <1>4, <2>2, <3>1 DEF KnownBefore, b
  <2> QED BY <1>4, <2>1, <2>4, <2>5, <2>6 DEF Known, b
<1> QED BY <1>2, <1>3, <1>4 DEF Known

LEMMA CarriedRule ==
  ASSUME NEW s, NEW t, Sound(s), Carried(s, t), NEW b, NoneNew(s, t, b),
         NEW i \in NamingIn(t, b), RuleOf(s, b), b # 0 => b \in DOMAIN t.code /\ b < s.count
  PROVE  RuleOf(t, b)
<1>1. \A o \in NamingIn(t, b) : o \in NamingIn(s, b) /\ t.code[o] = s.code[o]
  BY CarriedNaming
<1>2. \A o, q \in NamingIn(t, b) :
        t.code[o].op \in Upvalue /\ t.code[o].meant \in NamesOf(t.code[q]) => t.code[q].op \in Upvalue
  BY <1>1 DEF RuleOf
<1>3. ASSUME b # 0, t.code[b].meant = TRUE PROVE OwnNames(t, b)
  <2>1. t.code[b] = s.code[b]
    BY <1>3 DEF Carried
  <2>2. OwnNames(s, b)
    BY <1>3, <2>1 DEF RuleOf
  <2>3. \A q \in Before(t, b) : q \in Before(s, b) /\ t.code[q] = s.code[q]
    BY <1>3, CarriedBefore
  <2>4. ASSUME NEW n, NEW before, IsDefined(s, b, n, before) PROVE IsDefined(t, b, n, before)
    BY <2>4, CarriedDefined
  <2> QED BY <1>1, <2>2, <2>3, <2>4 DEF OwnNames
<1> QED BY <1>2, <1>3 DEF RuleOf

\* What is known of a body implies the rule for it.
LEMMA KnownRule ==
  ASSUME NEW s, NEW v, NEW c, v.capturing \in BOOLEAN, Known(s, v, Never, {}),
         v.body # 0 => s.code[v.body].meant = v.capturing
  PROVE  RuleOf(s, v.body)
<1> DEFINE b == v.body
<1>1. ASSUME v.capturing PROVE RuleOf(s, b)
  <2>1. KnownLocals(s, v, {}) /\ OwnNames(s, b)
    BY <1>1 DEF Known
  <2>2. ASSUME NEW o \in NamingIn(s, b), NEW q \in NamingIn(s, b),
               s.code[o].op \in Upvalue, s.code[o].meant \in NamesOf(s.code[q]), s.code[q].op \notin Upvalue
        PROVE  FALSE
    <3>1. IsCaptured(v, s.code[o].meant)
      BY <2>2 DEF Known, KnownUpvalues, Never
    <3>2. s.code[o].meant \in v.locals
      BY <2>1, <2>2 DEF KnownLocals
    <3> QED BY <2>1, <3>1, <3>2 DEF KnownLocals
  <2> QED BY <2>1, <2>2 DEF RuleOf
<1>2. ASSUME ~ v.capturing PROVE RuleOf(s, b)
  <2>1. b # 0 => s.code[b].meant = FALSE
    BY <1>2
  <2>2. \A o \in NamingIn(s, b) : s.code[o].op \notin Upvalue
    BY <1>2 DEF Known, KnownUpvalues
  <2> QED BY <2>1, <2>2 DEF RuleOf
<1> QED BY <1>1, <1>2

LEMMA KnownSame ==
  ASSUME NEW s, NEW v, NEW w, NEW excused, NEW E, Known(s, v, excused, E),
         w.body = v.body, w.capturing = v.capturing, w.depth = v.depth, w.locals = v.locals,
         w.captured = v.captured, w.params = v.params
  PROVE  Known(s, w, excused, E)
<1>1. \A n : IsCaptured(w, n) <=> IsCaptured(v, n)
  BY DEF IsCaptured
<1>2. KnownUpvalues(s, w, excused) /\ KnownOuter(s, w)
  BY <1>1 DEF Known, KnownUpvalues, KnownOuter
<1>3. ASSUME v.capturing PROVE KnownLocals(s, w, E) /\ KnownBefore(s, w)
  BY <1>1, <1>3 DEF Known, KnownLocals, KnownBefore
<1> QED BY <1>2, <1>3 DEF Known

LEMMA EmitCarried ==
  ASSUME NEW s, Sound(s), NEW op, NEW words \in Nat \ {0}, NEW arg, NEW meant
  PROVE  LET t == chunk_emit(s, op, words, arg, meant) IN
         /\ Carried(s, t) /\ DOMAIN t = Fields /\ Kept(s, t, {"code", "count"})
         /\ \A b : b # s.body \/ op \notin Naming => NoneNew(s, t, b)
         /\ \A o \in DOMAIN t.code : (o \in DOMAIN s.code /\ t.code[o] = s.code[o])
                                     \/ (o = s.count /\ t.code[o] = Instruction(s, op, words, arg, meant))
         /\ s.count \in DOMAIN t.code /\ t.code[s.count] = Instruction(s, op, words, arg, meant)
         /\ \A o \in DOMAIN s.code : o \in DOMAIN t.code /\ t.code[o] = s.code[o]
<1> DEFINE t == chunk_emit(s, op, words, arg, meant)
<1>1. DOMAIN s = Fields /\ s.count \in Nat /\ \A o \in DOMAIN s.code : o \in Nat /\ o < s.count
  BY DEF Sound, Shape, CodeShape
<1>2. /\ DOMAIN t = Fields /\ Kept(s, t, {"code", "count"}) /\ t.count = s.count + words
      /\ DOMAIN t.code = DOMAIN s.code \cup {s.count}
      /\ t.code[s.count] = Instruction(s, op, words, arg, meant)
      /\ \A o \in DOMAIN s.code : o # s.count => t.code[o] = s.code[o]
  BY <1>1, EmitFields
<1> HIDE DEF t
<1>3. t.code[s.count].op = op /\ t.code[s.count].body = s.body
  BY <1>2 DEF Instruction
<1>4. Carried(s, t)
  BY <1>1, <1>2 DEF Carried
<1>5. ASSUME NEW b, b # s.body \/ op \notin Naming PROVE NoneNew(s, t, b)
  BY <1>1, <1>2, <1>3, <1>5 DEF NoneNew, NamingIn
<1>6. \A o \in DOMAIN s.code : o \in DOMAIN t.code /\ t.code[o] = s.code[o]
  BY <1>1, <1>2
<1>7. \A o \in DOMAIN t.code : (o \in DOMAIN s.code /\ t.code[o] = s.code[o])
                               \/ (o = s.count /\ t.code[o] = Instruction(s, op, words, arg, meant))
  BY <1>1, <1>2
<1>8. s.count \in DOMAIN t.code
  BY <1>2
<1> QED BY <1>2, <1>4, <1>5, <1>6, <1>7, <1>8 DEF t

\* An instruction that names no variable.
LEMMA EmitSilent ==
  ASSUME NEW s, Sound(s), NEW op, op \notin Naming, NEW words \in Nat \ {0}, NEW arg, NEW meant,
         NEW excused, NEW E, Known(s, s, excused, E)
  PROVE  LET t == chunk_emit(s, op, words, arg, meant) IN Known(t, t, excused, E) /\ t.outer = s.outer
<1> DEFINE t == chunk_emit(s, op, words, arg, meant)
<1>1. /\ Carried(s, t) /\ Kept(s, t, {"code", "count"}) /\ NoneNew(s, t, s.body)
      /\ \A o \in DOMAIN s.code : o \in DOMAIN t.code /\ t.code[o] = s.code[o]
  BY EmitCarried
<1> HIDE DEF t
<1>2. /\ t.body = s.body /\ t.capturing = s.capturing /\ t.depth = s.depth /\ t.locals = s.locals
      /\ t.captured = s.captured /\ t.params = s.params /\ t.outer = s.outer
  BY <1>1 DEF Kept, Fields
<1>3. s.capturing => s.body \in DOMAIN t.code
  BY <1>1 DEF Known
<1>4. Known(t, s, excused, E)
  BY <1>1, <1>2, <1>3, CarriedKnown
<1>5. Known(t, t, excused, E)
  BY <1>2, <1>4, KnownSame
<1> QED BY <1>2, <1>5 DEF t

LEMMA EmitKnown ==
  ASSUME NEW s, Sound(s), NEW op \in Naming, NEW words \in Nat \ {0}, NEW arg, NEW meant,
         NEW excused, NEW E, Known(s, s, excused, E), MayEmit(s, op, arg, meant, excused, E)
  PROVE  LET t == chunk_emit(s, op, words, arg, meant) IN
         Known(t, t, excused, IF op = "DEFINE" THEN E \ {meant} ELSE E) /\ t.outer = s.outer
<1> DEFINE t == chunk_emit(s, op, words, arg, meant)
           F == IF op = "DEFINE" THEN E \ {meant} ELSE E
           i == t.code[s.count]
           b == s.body
<1>1. /\ Carried(s, t) /\ Kept(s, t, {"code", "count"}) /\ s.count \in DOMAIN t.code
      /\ \A o \in DOMAIN s.code : o \in DOMAIN t.code /\ t.code[o] = s.code[o]
      /\ \A o \in DOMAIN t.code : (o \in DOMAIN s.code /\ t.code[o] = s.code[o]) \/ o = s.count
      /\ i = Instruction(s, op, words, arg, meant)
  BY EmitCarried
<1> HIDE DEF t
<1>2. /\ t.body = s.body /\ t.capturing = s.capturing /\ t.depth = s.depth /\ t.locals = s.locals
      /\ t.captured = s.captured /\ t.params = s.params /\ t.outer = s.outer
  BY <1>1 DEF Kept, Fields
<1>3. i.op = op /\ i.meant = meant /\ i.body = b /\ i.arg = arg
  BY <1>1 DEF Instruction
<1>4. NamesOf(i) = NamesOf(Instruction(s, op, 1, arg, meant))
  BY <1>3 DEF NamesOf, Instruction
<1>5. /\ \A o \in NamingIn(t, b) : (o \in NamingIn(s, b) /\ t.code[o] = s.code[o]) \/ o = s.count
      /\ s.count \in NamingIn(t, b)
  BY <1>1, <1>3 DEF NamingIn
<1>6. s.count \in Nat /\ t.count \in Nat /\ s.count < t.count /\ \A o \in DOMAIN s.code : o \in Nat /\ o < s.count
  <2>1. t.count = s.count + words
    BY EmitAt DEF t
  <2> QED BY <2>1 DEF Sound, Shape, CodeShape
<1>7. KnownUpvalues(t, s, excused)
  BY <1>3, <1>5 DEF Known, KnownUpvalues, MayEmit
<1>8. KnownOuter(t, s)
  BY <1>2, <1>3, <1>5 DEF Known, KnownOuter, MayEmit
<1>9. ASSUME s.capturing
      PROVE  s.depth = 2 /\ b # 0 /\ b \in DOMAIN t.code /\ KnownLocals(t, s, F) /\ OwnNames(t, b) /\ KnownBefore(t, s)
  <2>1. b \in DOMAIN s.code /\ b \in DOMAIN t.code /\ b < s.count /\ b # 0 /\ s.depth = 2
    BY <1>1, <1>6, <1>9 DEF Known
  <2>2. \A q \in Before(t, b) : q \in Before(s, b) /\ t.code[q] = s.code[q]
    BY <1>1, <2>1, CarriedBefore
  <2>3. ASSUME NEW n, NEW before, IsDefined(s, b, n, before)
        PROVE  IsDefined(t, b, n, before) /\ (before = s.count => IsDefined(t, b, n, t.count))
    BY <1>1, <2>3, CarriedDefined
  <2>4. KnownLocals(s, s, E) /\ OwnNames(s, b) /\ KnownBefore(s, s)
    BY <1>9 DEF Known
  <2>5. KnownLocals(t, s, F)
    <3>1. \A o \in NamingIn(t, b) : t.code[o].op \notin Upvalue => NamesOf(t.code[o]) \subseteq s.locals
      BY <1>3, <1>4, <1>5, <1>9, <2>4 DEF KnownLocals, MayEmit
    <3>2. op = "DEFINE" => IsDefined(t, b, meant, t.count)
      BY <1>3, <1>5, <1>6 DEF IsDefined
    <3>3. \A n \in s.locals \ F : Contains(s.params, n) \/ IsDefined(t, b, n, t.count)
      BY <2>3, <2>4, <3>2 DEF KnownLocals
    <3> QED BY <2>4, <3>1, <3>3 DEF KnownLocals
  <2>6. OwnNames(t, b)
    <3> SUFFICES ASSUME NEW o \in NamingIn(t, b)
                 PROVE  /\ t.code[o].op \in {"DEFINE", "STORE"} => \A q \in Before(t, b) : t.code[q].meant # t.code[o].meant
                        /\ t.code[o].op = "STORE" => IsDefined(t, b, t.code[o].meant, o)
      BY DEF OwnNames
    <3>1. CASE o \in NamingIn(s, b) /\ t.code[o] = s.code[o]
      BY <2>2, <2>3, <2>4, <3>1 DEF OwnNames
    <3>2. CASE o = s.count
      <4>1. op = "STORE" => IsDefined(s, b, meant, s.count)
        BY <1>9, <2>4 DEF MayEmit, KnownLocals
      <4>2. op = "STORE" => IsDefined(t, b, meant, s.count)
        BY <2>3, <4>1
      <4>3. op = "STORE" => \A q \in Before(s, b) : s.code[q].meant # meant
        <5>1. HAVE op = "STORE"
        <5>2. PICK d \in NamingIn(s, b) : s.code[d].op = "DEFINE" /\ s.code[d].meant = meant
          BY <4>1, <5>1 DEF IsDefined
        <5> QED BY <2>4, <5>2 DEF OwnNames
      <4>4. op = "DEFINE" => \A q \in Before(s, b) : s.code[q].meant # meant
        BY <1>9, <2>4 DEF MayEmit, KnownBefore
      <4> QED BY <1>3, <2>2, <3>2, <4>2, <4>3, <4>4
    <3> QED BY <1>5, <3>1, <3>2
  <2>7. KnownBefore(t, s)
    BY <1>2, <2>2, <2>4 DEF KnownBefore
  <2> QED BY <2>1, <2>5, <2>6, <2>7
<1>10. Known(t, s, excused, F)
  BY <1>7, <1>8, <1>9 DEF Known
<1>11. Known(t, t, excused, F)
  BY <1>2, <1>10, KnownSame
<1> QED BY <1>2, <1>11 DEF t

LEMMA SameCodeKnown ==
  ASSUME NEW s, NEW t, NEW c, NEW E, NEW F, Known(s, s, <<s.failed, c>>, E),
         DOMAIN t.code = DOMAIN s.code, \A o \in DOMAIN s.code : t.code[o] = s.code[o], t.count = s.count,
         t.body = s.body, t.capturing = s.capturing, t.depth = s.depth, s.failed => t.failed,
         s.outer \subseteq t.outer, s.locals \subseteq t.locals,
         \A m : IsCaptured(s, m) => IsCaptured(t, m),
         s.capturing => \A m \in t.locals : ~ IsCaptured(t, m),
         \A m : Contains(s.params, m) => Contains(t.params, m),
         s.capturing => \A m \in t.locals \ F : m \in s.locals \ E \/ Contains(t.params, m)
  PROVE  Known(t, t, <<t.failed, c>>, F)
<1>1. /\ t.body = s.body /\ t.capturing = s.capturing /\ t.depth = s.depth
      /\ t.count = s.count
      /\ s.failed => t.failed
  OBVIOUS
<1>2. \A b : NamingIn(t, b) = NamingIn(s, b) /\ \A o \in NamingIn(s, b) : t.code[o] = s.code[o]
  BY DEF NamingIn
<1>3. \A b \in DOMAIN s.code : Before(t, b) = Before(s, b) /\ \A q \in Before(s, b) : t.code[q] = s.code[q]
  <2> SUFFICES ASSUME NEW b \in DOMAIN s.code
               PROVE  Before(t, b) = Before(s, b) /\ \A q \in Before(s, b) : t.code[q] = s.code[q]
    OBVIOUS
  <2>1. t.code[b] = s.code[b]
    OBVIOUS
  <2>2. NamingIn(t, s.code[b].arg) = NamingIn(s, s.code[b].arg)
        /\ \A o \in NamingIn(s, s.code[b].arg) : t.code[o] = s.code[o]
    BY <1>2
  <2> QED BY <2>1, <2>2 DEF Before
<1>4. \A b, n, before : IsDefined(t, b, n, before) <=> IsDefined(s, b, n, before)
  BY <1>1, <1>2 DEF IsDefined
<1>5. KnownUpvalues(t, t, <<t.failed, c>>)
  BY <1>1, <1>2 DEF Known, KnownUpvalues
<1>6. KnownOuter(t, t)
  BY <1>1, <1>2 DEF Known, KnownOuter
<1>7. ASSUME s.capturing PROVE KnownLocals(t, t, F) /\ OwnNames(t, t.body) /\ KnownBefore(t, t)
  <2>1. KnownLocals(s, s, E) /\ OwnNames(s, s.body) /\ KnownBefore(s, s) /\ s.body \in DOMAIN s.code
    BY <1>7 DEF Known
  <2>2. KnownLocals(t, t, F)
    <3>1. \A n \in t.locals : ~ IsCaptured(t, n)
      BY <1>7
    <3>2. \A o \in NamingIn(t, t.body) : t.code[o].op \notin Upvalue => NamesOf(t.code[o]) \subseteq t.locals
      BY <1>1, <1>2, <2>1 DEF KnownLocals
    <3>3. ASSUME NEW n \in t.locals \ F PROVE Contains(t.params, n) \/ IsDefined(t, t.body, n, t.count)
      <4>1. n \in s.locals \ E \/ Contains(t.params, n)
        BY <1>7, <3>3
      <4>2. n \in s.locals \ E => Contains(s.params, n) \/ IsDefined(s, s.body, n, s.count)
        BY <2>1 DEF KnownLocals
      <4>3. Contains(s.params, n) => Contains(t.params, n)
        OBVIOUS
      <4>4. IsDefined(t, t.body, n, t.count) <=> IsDefined(s, t.body, n, t.count)
        BY <1>4
      <4>5. IsDefined(s, s.body, n, s.count) => IsDefined(t, t.body, n, t.count)
        BY <1>1, <4>4
      <4> QED BY <4>1, <4>2, <4>3, <4>5
    <3> QED BY <3>1, <3>2, <3>3 DEF KnownLocals
  <2>3. OwnNames(t, t.body)
    <3>1. /\ NamingIn(t, t.body) = NamingIn(s, s.body)
          /\ \A o \in NamingIn(s, s.body) : t.code[o] = s.code[o]
          /\ Before(t, t.body) = Before(s, s.body)
          /\ \A q \in Before(s, s.body) : t.code[q] = s.code[q]
      BY <1>1, <1>2, <1>3, <2>1
    <3>2. \A n, before : IsDefined(t, t.body, n, before) <=> IsDefined(s, s.body, n, before)
      BY <1>1, <1>4
    <3> QED BY <2>1, <3>1, <3>2 DEF OwnNames
  <2>4. KnownBefore(t, t)
    BY <1>1, <1>3, <2>1 DEF KnownBefore
  <2> QED BY <2>2, <2>3, <2>4
<1> QED BY <1>1, <1>5, <1>6, <1>7 DEF Known

LEMMA NamesKnown ==
  ASSUME NEW s, NEW t, Sound(s), Names(s, t), NEW c, NEW E, NEW F, Known(s, s, <<s.failed, c>>, E),
         s.outer \subseteq t.outer, s.locals \subseteq t.locals,
         \A m : IsCaptured(s, m) => IsCaptured(t, m),
         s.capturing => \A m \in t.locals : ~ IsCaptured(t, m),
         \A m : Contains(s.params, m) => Contains(t.params, m),
         s.capturing => \A m \in t.locals \ F : m \in s.locals \ E \/ Contains(t.params, m)
  PROVE  Known(t, t, <<t.failed, c>>, F)
<1>1. /\ t.code = s.code /\ t.body = s.body /\ t.capturing = s.capturing /\ t.depth = s.depth
      /\ t.count = s.count
      /\ s.failed => t.failed
  BY DEF Names, Kept, Fields
<1> QED BY <1>1, SameCodeKnown

LEMMA Classified ==
  ASSUME NamesTracked, NEW s, Sound(s), NEW n \in Name, NEW asWrite \in BOOLEAN
  PROVE  LET t == capture_classify(s, n, asWrite) IN
         /\ \A m : IsCaptured(s, m) => IsCaptured(t, m)
         /\ MustCapture(s, n, asWrite) =>
              n \notin s.locals /\ t.locals = s.locals /\ \A m : IsCaptured(t, m) => IsCaptured(s, m) \/ m = n
         /\ ~ MustCapture(s, n, asWrite) =>
              /\ t.captured = s.captured /\ t.failed = s.failed /\ t.locals = s.locals \cup {n}
              /\ n \notin s.locals => ~ IsCaptured(s, n) /\ asWrite /\ n \notin s.outer
<1> DEFINE t == capture_classify(s, n, asWrite)
<1>1. /\ DOMAIN s = Fields /\ s.failed \in BOOLEAN /\ s.locals \subseteq Name
      /\ s.captured \in Seq(Name)
  BY DEF Sound, Shape
<1>2. CASE n \in s.locals \/ IsCaptured(s, n)
  <2>1. t = s
    BY <1>2 DEF capture_classify
  <2>2. MustCapture(s, n, asWrite) => n \notin s.locals
    BY DEF MustCapture
  <2>3. ~ MustCapture(s, n, asWrite) => n \in s.locals
    BY <1>2 DEF MustCapture
  <2> HIDE DEF t
  <2> QED BY <2>1, <2>2, <2>3 DEF t
<1>3. CASE ~ (n \in s.locals \/ IsCaptured(s, n)) /\ ~ MustCapture(s, n, asWrite)
  <2>1. Room(s.locals)
    BY <1>1, <1>3, RoomFor
  <2>2. t = [s EXCEPT !.locals = @ \cup {n}]
    BY <1>3, <2>1 DEF capture_classify
  <2>3. t.locals = s.locals \cup {n} /\ t.captured = s.captured /\ t.failed = s.failed
    BY <1>1, <2>2 DEF Fields
  <2>4. asWrite /\ n \notin s.outer
    BY <1>3 DEF MustCapture
  <2> HIDE DEF t
  <2>5. \A m : IsCaptured(s, m) => IsCaptured(t, m)
    BY <2>3 DEF IsCaptured
  <2> QED BY <1>3, <2>3, <2>4, <2>5 DEF t
<1>4. CASE ~ (n \in s.locals \/ IsCaptured(s, n)) /\ MustCapture(s, n, asWrite) /\ Len(s.captured) < CaptureMax
  <2>1. t = [s EXCEPT !.captured = Append(@, n)]
    BY <1>4 DEF capture_classify
  <2>2. t.captured = Append(s.captured, n) /\ t.locals = s.locals
    BY <1>1, <2>1 DEF Fields
  <2> HIDE DEF t
  <2>3. /\ DOMAIN s.captured = 1 .. Len(s.captured) /\ Len(s.captured) \in Nat
        /\ DOMAIN t.captured = 1 .. Len(s.captured) + 1 /\ t.captured[Len(s.captured) + 1] = n
        /\ \A i \in 1 .. Len(s.captured) : t.captured[i] = s.captured[i]
        /\ Len(t.captured) = Len(s.captured) + 1
    BY <1>1, <2>2, AppendFacts, SeqFacts
  <2>4. \A m : IsCaptured(s, m) => IsCaptured(t, m)
    BY <2>3 DEF IsCaptured, Contains
  <2>5. \A m : IsCaptured(t, m) => IsCaptured(s, m) \/ m = n
    BY <2>3 DEF IsCaptured, Contains
  <2> QED BY <1>4, <2>2, <2>4, <2>5 DEF t
<1>5. CASE ~ (n \in s.locals \/ IsCaptured(s, n)) /\ MustCapture(s, n, asWrite) /\ ~ Len(s.captured) < CaptureMax
  <2>1. t = [s EXCEPT !.failed = TRUE]
    BY <1>5 DEF capture_classify
  <2>2. t.captured = s.captured /\ t.locals = s.locals
    BY <1>1, <2>1 DEF Fields
  <2> HIDE DEF t
  <2>3. \A m : IsCaptured(s, m) <=> IsCaptured(t, m)
    BY <2>2 DEF IsCaptured
  <2> QED BY <1>5, <2>2, <2>3 DEF t
<1> QED BY <1>2, <1>3, <1>4, <1>5

LEMMA LoadTracked ==
  ASSUME NamesTracked, NEW s, NEW c, Tracked(s, c), NEW n \in Name
  PROVE  LET u == emit_load(s, n) IN
         /\ Tracked(u, c) /\ u.outer = s.outer /\ u.locals = s.locals /\ u.params = s.params
         /\ s.capturing /\ u.code[s.count].op \in {"LOAD", "LOAD_LOCAL"} => n \in s.locals
<1> DEFINE t == IF s.capturing THEN capture_classify(s, n, FALSE) ELSE s
           u == emit_load(s, n)
<1>1. Sound(s) /\ c \in Nat /\ c <= s.count /\ s.count \in Nat /\ Known(s, s, <<s.failed, c>>, {})
  BY DEF Tracked, Sound, Shape
<1>2. /\ Names(s, t) /\ t.params = s.params /\ t.outer = s.outer
      /\ s.capturing /\ MustCapture(s, n, FALSE) => t.failed \/ IsCaptured(t, n)
  <2>1. CASE s.capturing
    BY <1>1, <2>1, ClassifyNames
  <2>2. CASE ~ s.capturing
    BY <1>1, <2>2, NamesSelf
  <2> QED BY <2>1, <2>2
<1>3. /\ t.locals = s.locals /\ \A m : IsCaptured(s, m) => IsCaptured(t, m)
      /\ s.capturing => \A m \in s.locals : ~ IsCaptured(t, m)
      /\ s.capturing /\ ~ MustCapture(s, n, FALSE) => n \in s.locals
  <2>1. CASE s.capturing
    <3>1. \A m \in s.locals : ~ IsCaptured(s, m)
      BY <1>1, <2>1 DEF Known, KnownLocals
    <3>2. /\ \A m : IsCaptured(s, m) => IsCaptured(t, m)
          /\ MustCapture(s, n, FALSE) =>
              n \notin s.locals /\ t.locals = s.locals /\ \A m : IsCaptured(t, m) => IsCaptured(s, m) \/ m = n
          /\ ~ MustCapture(s, n, FALSE) =>
              /\ t.captured = s.captured /\ t.locals = s.locals \cup {n}
              /\ n \notin s.locals => FALSE
      BY <1>1, <2>1, Classified
    <3> HIDE DEF t
    <3>3. CASE MustCapture(s, n, FALSE)
      BY <2>1, <3>1, <3>2, <3>3
    <3>4. CASE ~ MustCapture(s, n, FALSE)
      BY <2>1, <3>1, <3>2, <3>4 DEF IsCaptured
    <3> QED BY <3>3, <3>4
  <2>2. CASE ~ s.capturing
    BY <2>2
  <2> QED BY <2>1, <2>2
<1> HIDE DEF t
<1>4. Sound(t) /\ t.code = s.code /\ t.count = s.count /\ t.capturing = s.capturing
  BY <1>1, <1>2, NamesAdd DEF Adds
<1>5. Known(t, t, <<t.failed, c>>, {})
  BY <1>1, <1>2, <1>3, NamesKnown
<1>d. t.depth = s.depth
  BY <1>2 DEF Names, Kept, Fields
<1>6. ASSUME NEW op \in {"LOAD", "LOAD_LOCAL", "LOAD_UPVALUE"}, NEW words \in Nat \ {0}, NEW arg,
             u = chunk_emit(t, op, words, arg, n),
             op = "LOAD_UPVALUE" => s.capturing /\ MustCapture(s, n, FALSE),
             s.capturing /\ op # "LOAD_UPVALUE" => n \in s.locals
      PROVE  /\ Known(u, u, <<u.failed, c>>, {}) /\ u.outer = s.outer /\ u.locals = s.locals
             /\ u.params = s.params /\ u.code[s.count].op = op
  <2>1. op \in Naming /\ op # "DEFINE" /\ op # "STORE" /\ op \notin Stores /\ op # "COMPOUND"
        /\ (op \in Upvalue <=> op = "LOAD_UPVALUE")
    BY DEF Naming, NameOp, Stores, Upvalue
  <2>2. NamesOf(Instruction(t, op, 1, arg, n)) = {n}
    BY <2>1 DEF NamesOf, Instruction
  <2>3. MayEmit(t, op, arg, n, <<t.failed, c>>, {})
    BY <1>1, <1>2, <1>3, <1>4, <1>6, <2>1, <2>2 DEF MayEmit
  <2> DEFINE v == chunk_emit(t, op, words, arg, n)
  <2>4. Known(v, v, <<t.failed, c>>, {}) /\ v.outer = t.outer
    <3>1. Sound(t) /\ op \in Naming
      BY <1>4, <2>1
    <3>2. Known(v, v, <<t.failed, c>>, IF op = "DEFINE" THEN {} \ {n} ELSE {}) /\ v.outer = t.outer
      BY <1>5, <2>3, <3>1, EmitKnown
    <3> HIDE DEF v
    <3> QED BY <2>1, <3>2
  <2>5. Kept(t, v, {"code", "count"}) /\ At(v, t.count, op, n)
    BY <1>4, EmitAt
  <2> HIDE DEF v
  <2>6. v.failed = t.failed /\ v.locals = t.locals /\ v.params = t.params
    BY <2>5 DEF Kept, Fields
  <2> QED BY <1>2, <1>3, <1>4, <1>6, <2>4, <2>5, <2>6 DEF v, At
<1>n. 2 \in Nat \ {0} /\ 3 \in Nat \ {0}
  OBVIOUS
<1>7. /\ Known(u, u, <<u.failed, c>>, {}) /\ u.outer = s.outer /\ u.locals = s.locals /\ u.params = s.params
      /\ s.capturing /\ u.code[s.count].op \in {"LOAD", "LOAD_LOCAL"} => n \in s.locals
  <2>1. CASE s.capturing /\ MustCapture(s, n, FALSE)
    <3>1. u = chunk_emit(t, "LOAD_UPVALUE", 2, capture_slot(t, n), n)
      BY <2>1 DEF emit_load, t
    <3> QED BY <1>6, <1>n, <2>1, <3>1
  <2>2. CASE ~ (s.capturing /\ MustCapture(s, n, FALSE)) /\ Contains(s.params, n)
    <3>1. u = chunk_emit(t, "LOAD_LOCAL", 2, current_param_slot(s, n), n)
      BY <2>2 DEF emit_load, t
    <3> QED BY <1>3, <1>6, <1>n, <2>2, <3>1
  <2>3. CASE ~ (s.capturing /\ MustCapture(s, n, FALSE)) /\ ~ Contains(s.params, n)
    <3>1. u = chunk_emit(t, "LOAD", 3, n, n)
      BY <2>3 DEF emit_load, t
    <3> QED BY <1>3, <1>6, <1>n, <2>3, <3>1
  <2> QED BY <2>1, <2>2, <2>3
<1>8. Sound(u) /\ s.count <= u.count /\ u.count \in Nat
  BY <1>1, LoadAdds DEF LoadFacts, Adds, Sound, Shape
<1> HIDE DEF u
<1>9. Tracked(u, c)
  BY <1>1, <1>7, <1>8 DEF Tracked
<1> QED BY <1>7, <1>9 DEF u

LEMMA OuterHas ==
  ASSUME NamesTracked, NEW s, Sound(s), NEW n \in Name, s.depth = 1
  PROVE  LET o == outer_locals_add(s, n) IN n \in o.outer
<1>1. DOMAIN s = Fields /\ s.outer \subseteq Name
  BY DEF Sound, Shape
<1>2. CASE n \in s.outer
  BY <1>1, <1>2 DEF outer_locals_add, Fields
<1>3. CASE n \notin s.outer
  <2>1. Room(s.outer)
    BY <1>1, <1>3, RoomFor
  <2> QED BY <1>1, <2>1 DEF outer_locals_add, Fields
<1> QED BY <1>2, <1>3

LEMMA OuterTracked ==
  ASSUME NamesTracked, NEW s, NEW c, Tracked(s, c), NEW n \in Name
  PROVE  LET o == outer_locals_add(s, n) IN
         /\ Tracked(o, c) /\ Kept(s, o, {"outer"}) /\ s.outer \subseteq o.outer /\ Names(s, o)
         /\ s.depth = 1 => n \in o.outer
<1> DEFINE o == outer_locals_add(s, n)
<1>1. Sound(s) /\ c \in Nat /\ c <= s.count /\ Known(s, s, <<s.failed, c>>, {})
  BY DEF Tracked
<1>2. /\ Names(s, o) /\ Kept(s, o, {"outer"}) /\ s.outer \subseteq o.outer
      /\ s.depth = 1 => n \in o.outer
  BY <1>1, OuterAdds, OuterHas
<1> HIDE DEF o
<1>3. o.locals = s.locals /\ o.captured = s.captured /\ o.params = s.params /\ o.count = s.count
  BY <1>2 DEF Kept, Fields
<1>4. \A m : IsCaptured(s, m) <=> IsCaptured(o, m)
  BY <1>3 DEF IsCaptured
<1>5. s.capturing => \A m \in s.locals : ~ IsCaptured(s, m)
  BY <1>1 DEF Known, KnownLocals
<1>6. Known(o, o, <<o.failed, c>>, {})
  BY <1>1, <1>2, <1>3, <1>4, <1>5, NamesKnown
<1>7. Sound(o)
  BY <1>1, <1>2, NamesAdd DEF Adds
<1>8. Tracked(o, c)
  BY <1>1, <1>3, <1>6, <1>7 DEF Tracked
<1> QED BY <1>2, <1>8 DEF o

LEMMA StoreTracked ==
  ASSUME NamesTracked, NEW s, NEW c, Tracked(s, c), NEW n \in Name
  PROVE  LET u == emit_store(s, n) IN Tracked(u, c) /\ s.outer \subseteq u.outer
<1> DEFINE o == outer_locals_add(s, n)
           t == IF s.capturing THEN capture_classify(o, n, TRUE) ELSE o
           fresh == n \notin o.locals /\ ~ IsCaptured(o, n)
           u == emit_store(s, n)
<1>1. Sound(s) /\ c \in Nat /\ c <= s.count /\ s.count \in Nat
  BY DEF Tracked, Sound, Shape
<1>2. /\ Tracked(o, c) /\ Kept(s, o, {"outer"}) /\ s.outer \subseteq o.outer
      /\ s.depth = 1 => n \in o.outer
  BY OuterTracked
<1>u. /\ s.capturing /\ MustCapture(o, n, TRUE) => u = chunk_emit(t, "STORE_UPVALUE", 2, capture_slot(t, n), n)
      /\ ~ (s.capturing /\ MustCapture(o, n, TRUE)) =>
           /\ s.capturing /\ fresh => u = chunk_emit(t, "DEFINE", 2, n, n)
           /\ ~ (s.capturing /\ fresh) =>
                /\ Contains(s.params, n) => u = chunk_emit(t, "STORE_LOCAL", 2, current_param_slot(s, n), n)
                /\ ~ Contains(s.params, n) => u = chunk_emit(t, "STORE", 3, n, n)
  BY Zenon DEF emit_store
<1>g. u.count > s.count /\ Sound(u) /\ u.count \in Nat
  BY <1>1, StoreAdds DEF Adds, Sound, Shape
<1> HIDE DEF o, u
<1>3. /\ Sound(o) /\ o.count = s.count /\ o.params = s.params /\ o.capturing = s.capturing /\ o.depth = s.depth
      /\ o.locals = s.locals /\ o.captured = s.captured /\ Known(o, o, <<o.failed, c>>, {})
  BY <1>2 DEF Kept, Fields, Tracked
<1>4. /\ Names(o, t) /\ t.params = o.params /\ t.outer = o.outer
      /\ s.capturing /\ MustCapture(o, n, TRUE) => t.failed \/ IsCaptured(t, n)
  <2>1. CASE s.capturing
    BY <1>3, <2>1, ClassifyNames
  <2>2. CASE ~ s.capturing
    BY <1>3, <2>2, NamesSelf
  <2> QED BY <2>1, <2>2
<1>5. /\ \A m : IsCaptured(o, m) => IsCaptured(t, m)
      /\ s.capturing => \A m \in t.locals : ~ IsCaptured(t, m)
      /\ o.locals \subseteq t.locals /\ t.locals \subseteq o.locals \cup {n}
      /\ s.capturing /\ ~ MustCapture(o, n, TRUE) =>
           /\ n \in t.locals
           /\ n \notin o.locals => fresh /\ n \notin o.outer
      /\ s.capturing /\ MustCapture(o, n, TRUE) => t.locals = o.locals
  <2>1. CASE s.capturing
    <3>1. \A m \in o.locals : ~ IsCaptured(o, m)
      BY <1>3, <2>1 DEF Known, KnownLocals
    <3>2. /\ \A m : IsCaptured(o, m) => IsCaptured(t, m)
          /\ MustCapture(o, n, TRUE) =>
              n \notin o.locals /\ t.locals = o.locals /\ \A m : IsCaptured(t, m) => IsCaptured(o, m) \/ m = n
          /\ ~ MustCapture(o, n, TRUE) =>
              /\ t.captured = o.captured /\ t.locals = o.locals \cup {n}
              /\ n \notin o.locals => ~ IsCaptured(o, n) /\ n \notin o.outer
      BY <1>3, <2>1, Classified
    <3> HIDE DEF t
    <3>3. CASE MustCapture(o, n, TRUE)
      BY <2>1, <3>1, <3>2, <3>3
    <3>4. CASE ~ MustCapture(o, n, TRUE)
      BY <2>1, <3>1, <3>2, <3>4 DEF IsCaptured
    <3> QED BY <3>3, <3>4
  <2>2. CASE ~ s.capturing
    BY <2>2
  <2> QED BY <2>1, <2>2
<1> DEFINE E == IF s.capturing /\ ~ MustCapture(o, n, TRUE) /\ fresh THEN {n} ELSE {}
<1>6. s.capturing => t.locals \ E \subseteq o.locals
  BY <1>5
<1> HIDE DEF t
<1>7. Sound(t) /\ t.count = s.count /\ t.capturing = s.capturing /\ t.depth = s.depth
  BY <1>3, <1>4, NamesAdd DEF Adds, Names, Kept, Fields
<1>8. Known(t, t, <<t.failed, c>>, E)
  BY <1>3, <1>4, <1>5, <1>6, NamesKnown
<1>9. ASSUME NEW op \in {"STORE", "STORE_LOCAL", "STORE_UPVALUE", "DEFINE"}, NEW words \in Nat \ {0}, NEW arg,
             u = chunk_emit(t, op, words, arg, n), MayEmit(t, op, arg, n, <<t.failed, c>>, E),
             op # "DEFINE" => E = {}
      PROVE  Known(u, u, <<u.failed, c>>, {}) /\ u.outer = t.outer
  <2>1. op \in Naming
    BY DEF Naming, NameOp
  <2> DEFINE v == chunk_emit(t, op, words, arg, n)
             F == IF op = "DEFINE" THEN E \ {n} ELSE E
  <2>2. F = {}
    BY <1>9
  <2> HIDE DEF E
  <2>4. Known(v, v, <<t.failed, c>>, F) /\ v.outer = t.outer
    BY <1>7, <1>8, <1>9, <2>1, EmitKnown
  <2>5. Kept(t, v, {"code", "count"})
    BY <1>7, EmitAt
  <2> HIDE DEF v, F
  <2>6. v.failed = t.failed
    BY <2>5 DEF Kept, Fields
  <2> QED BY <1>9, <2>2, <2>4, <2>6 DEF v
<1>n. 2 \in Nat \ {0} /\ 3 \in Nat \ {0}
  OBVIOUS
<1>o. /\ \A op \in {"STORE", "STORE_LOCAL", "STORE_UPVALUE", "DEFINE"} :
           op # "COMPOUND" /\ (op \in Upvalue <=> op = "STORE_UPVALUE") /\ (op \in Stores <=> op \in {"STORE", "STORE_LOCAL"})
      /\ \A op \in {"STORE", "STORE_LOCAL", "DEFINE"} : \A arg : NamesOf(Instruction(t, op, 1, arg, n)) = {n}
  BY DEF Stores, Upvalue, NamesOf, Instruction
<1>10. Known(u, u, <<u.failed, c>>, {}) /\ u.outer = t.outer
  <2>1. CASE s.capturing /\ MustCapture(o, n, TRUE)
    <3>1. u = chunk_emit(t, "STORE_UPVALUE", 2, capture_slot(t, n), n)
      BY <1>u, <2>1
    <3>2. E = {}
      BY <2>1
    <3>3. MayEmit(t, "STORE_UPVALUE", capture_slot(t, n), n, <<t.failed, c>>, E)
      BY <1>1, <1>4, <1>7, <1>o, <2>1 DEF MayEmit
    <3> QED BY <1>9, <1>n, <3>1, <3>2, <3>3
  <2>2. CASE ~ (s.capturing /\ MustCapture(o, n, TRUE)) /\ s.capturing /\ fresh
    <3>1. u = chunk_emit(t, "DEFINE", 2, n, n)
      BY <1>u, <2>2
    <3>2. n \notin t.outer /\ n \in t.locals
      BY <1>4, <1>5, <2>2
    <3>3. MayEmit(t, "DEFINE", n, n, <<t.failed, c>>, E)
      BY <1>7, <1>o, <3>2 DEF MayEmit
    <3> QED BY <1>9, <1>n, <3>1, <3>3
  <2>3. CASE ~ (s.capturing /\ MustCapture(o, n, TRUE)) /\ ~ (s.capturing /\ fresh)
    <3>1. E = {}
      BY <2>3
    <3>2. s.capturing => n \in t.locals
      BY <1>5, <2>3
    <3>3. s.depth = 1 => n \in t.outer
      BY <1>2, <1>4
    <3>4. CASE Contains(s.params, n)
      <4>1. u = chunk_emit(t, "STORE_LOCAL", 2, current_param_slot(s, n), n)
        BY <1>u, <2>3, <3>4
      <4>2. MayEmit(t, "STORE_LOCAL", current_param_slot(s, n), n, <<t.failed, c>>, E)
        BY <1>7, <1>o, <3>2, <3>3 DEF MayEmit
      <4> QED BY <1>9, <1>n, <3>1, <4>1, <4>2
    <3>5. CASE ~ Contains(s.params, n)
      <4>1. u = chunk_emit(t, "STORE", 3, n, n)
        BY <1>u, <2>3, <3>5
      <4>2. MayEmit(t, "STORE", n, n, <<t.failed, c>>, E)
        BY <1>3, <1>4, <1>7, <1>o, <3>1, <3>2, <3>3, <3>5 DEF MayEmit
      <4> QED BY <1>9, <1>n, <3>1, <4>1, <4>2
    <3> QED BY <3>4, <3>5
  <2> QED BY <2>1, <2>2, <2>3
<1>11. Tracked(u, c)
  BY <1>1, <1>g, <1>10 DEF Tracked
<1> QED BY <1>2, <1>4, <1>10, <1>11 DEF u

LEMMA SilentTracked ==
  ASSUME NEW s, NEW c, Tracked(s, c), NEW op \in Silent, NEW words \in Nat \ {0}, NEW arg, NEW meant
  PROVE  LET t == chunk_emit(s, op, words, arg, meant) IN
         /\ Tracked(t, c) /\ Kept(s, t, {"code", "count"}) /\ Adds(s, t) /\ t.count = s.count + words
<1> DEFINE t == chunk_emit(s, op, words, arg, meant)
<1>1. Sound(s) /\ c \in Nat /\ c <= s.count /\ Known(s, s, <<s.failed, c>>, {})
  BY DEF Tracked
<1>2. op \in Plain /\ op \notin Naming
  BY DEF Silent, Plain, Naming, NameOp
<1>3. /\ Adds(s, t) /\ Sound(t) /\ Kept(s, t, {"code", "count"}) /\ t.count = s.count + words
      /\ t.count > s.count /\ t.count \in Nat
  BY <1>1, <1>2, PlainKeeps
<1>4. Known(t, t, <<s.failed, c>>, {})
  BY <1>1, <1>2, EmitSilent
<1> HIDE DEF t
<1>5. t.failed = s.failed
  BY <1>3 DEF Kept, Fields
<1>6. Tracked(t, c)
  BY <1>1, <1>3, <1>4, <1>5 DEF Tracked, Sound, Shape
<1> QED BY <1>3, <1>6 DEF t

LEMMA FailedTracked ==
  ASSUME NEW s, NEW c, Tracked(s, c)
  PROVE  LET t == Failed(s) IN Tracked(t, c) /\ t.outer = s.outer
<1> DEFINE t == Failed(s)
<1>1. Sound(s) /\ c \in Nat /\ c <= s.count /\ Known(s, s, <<s.failed, c>>, {}) /\ DOMAIN s = Fields
  BY DEF Tracked, Sound, Shape
<1>2. Kept(s, t, {"failed"}) /\ t.failed = TRUE
  BY <1>1 DEF Failed, Kept, Fields
<1>3. Sound(t)
  BY <1>1, FailedAdds DEF Adds
<1> HIDE DEF t
<1>4. /\ t.code = s.code /\ t.body = s.body /\ t.capturing = s.capturing /\ t.depth = s.depth /\ t.count = s.count
      /\ t.locals = s.locals /\ t.captured = s.captured /\ t.params = s.params /\ t.outer = s.outer
  BY <1>2 DEF Kept, Fields
<1>5. \A m : IsCaptured(s, m) <=> IsCaptured(t, m)
  BY <1>4 DEF IsCaptured
<1>6. s.capturing => \A m \in s.locals : ~ IsCaptured(s, m)
  BY <1>1 DEF Known, KnownLocals
<1>7. Known(t, t, <<t.failed, c>>, {})
  BY <1>1, <1>2, <1>4, <1>5, <1>6, SameCodeKnown
<1>8. Tracked(t, c)
  BY <1>1, <1>3, <1>4, <1>7 DEF Tracked
<1> QED BY <1>4, <1>8 DEF t

LEMMA CallTracked ==
  ASSUME NEW s, NEW c, Tracked(s, c)
  PROVE  LET u == parse_call_args(s) IN Tracked(u, c) /\ Kept(s, u, {"code", "count", "lastCall"})
<1> DEFINE t == chunk_emit(s, "CALL", 4, Callee, Callee)
           u == [t EXCEPT !.lastCall = t.count]
<1>0. parse_call_args(s) = u
  BY DEF parse_call_args
<1>1. Sound(s) /\ c \in Nat /\ c <= s.count /\ Known(s, s, <<s.failed, c>>, {}) /\ DOMAIN s = Fields
  BY DEF Tracked, Sound, Shape
<1>2. "CALL" \notin Naming /\ 4 \in Nat \ {0}
  BY DEF Naming, NameOp
<1>3. Known(t, t, <<s.failed, c>>, {})
  BY <1>1, <1>2, EmitSilent
<1>4. DOMAIN t = Fields /\ Kept(s, t, {"code", "count"})
  BY <1>1, EmitFields
<1> HIDE DEF t
<1>5. Kept(t, u, {"lastCall"})
  BY <1>4 DEF Kept, Fields
<1>6. Sound(u) /\ s.count <= u.count /\ Kept(s, u, {"code", "count", "lastCall"})
  BY <1>0, <1>1, CallAdds DEF Adds
<1> HIDE DEF u
<1>7. /\ u.code = t.code /\ u.body = t.body /\ u.capturing = t.capturing /\ u.depth = t.depth /\ u.count = t.count
      /\ u.locals = t.locals /\ u.captured = t.captured /\ u.params = t.params /\ u.outer = t.outer
      /\ u.failed = t.failed /\ t.failed = s.failed
  BY <1>4, <1>5 DEF Kept, Fields
<1>8. \A m : IsCaptured(t, m) <=> IsCaptured(u, m)
  BY <1>7 DEF IsCaptured
<1>9. t.capturing => \A m \in t.locals : ~ IsCaptured(t, m)
  BY <1>3 DEF Known, KnownLocals
<1>10. Known(u, u, <<u.failed, c>>, {})
  BY <1>3, <1>7, <1>8, <1>9, SameCodeKnown
<1>11. Tracked(u, c)
  BY <1>1, <1>6, <1>10 DEF Tracked, Sound, Shape
<1> QED BY <1>0, <1>6, <1>11

LEMMA UnaryTracked ==
  ASSUME NamesTracked, NEW s, NEW c, Tracked(s, c), NEW e, Expr(e)
  PROVE  LET u == parse_unary(s, e) IN
         Tracked(u, c) /\ u.outer = s.outer /\ u.locals = s.locals /\ u.params = s.params
<1> DEFINE t == CASE e.form = "literal" -> chunk_emit(s, "PUSH", 2, 0, 0)
                  [] e.form = "name"    -> emit_load(s, e.name)
                  [] e.form = "call"    -> parse_call_args(s)
           u == parse_unary(s, e)
<1>1. e.form \in {"literal", "name", "call"} /\ (e.form = "name" => e.name \in Name)
  BY DEF Expr, Expression
<1>2. {"PUSH", "NEGATE"} \subseteq Silent /\ 1 \in Nat \ {0} /\ 2 \in Nat \ {0}
  BY DEF Silent
<1>3. Tracked(t, c) /\ t.outer = s.outer /\ t.locals = s.locals /\ t.params = s.params
  <2>1. CASE e.form = "literal"
    <3> DEFINE v == chunk_emit(s, "PUSH", 2, 0, 0)
    <3>1. t = v
      BY <2>1
    <3>2. Tracked(v, c) /\ Kept(s, v, {"code", "count"})
      BY <1>2, SilentTracked
    <3> HIDE DEF v, t
    <3> QED BY <3>1, <3>2 DEF Kept, Fields
  <2>2. CASE e.form = "name"
    <3> DEFINE v == emit_load(s, e.name)
    <3>1. t = v
      BY <2>2
    <3>2. Tracked(v, c) /\ v.outer = s.outer /\ v.locals = s.locals /\ v.params = s.params
      BY <1>1, <2>2, LoadTracked
    <3> HIDE DEF v, t
    <3> QED BY <3>1, <3>2
  <2>3. CASE e.form = "call"
    <3> DEFINE v == parse_call_args(s)
    <3>1. t = v
      BY <2>3
    <3>2. Tracked(v, c) /\ Kept(s, v, {"code", "count", "lastCall"})
      BY CallTracked
    <3> HIDE DEF v, t
    <3> QED BY <3>1, <3>2 DEF Kept, Fields
  <2> QED BY <1>1, <2>1, <2>2, <2>3
<1>4. u = IF e.negated THEN chunk_emit(t, "NEGATE", 1, 0, 0) ELSE t
  BY DEF parse_unary
<1> HIDE DEF t, u
<1>5. CASE e.negated
  <2> DEFINE v == chunk_emit(t, "NEGATE", 1, 0, 0)
  <2>1. Tracked(v, c) /\ Kept(t, v, {"code", "count"})
    BY <1>2, <1>3, SilentTracked
  <2>2. u = v
    BY <1>4, <1>5
  <2> HIDE DEF v
  <2> QED BY <1>3, <2>1, <2>2 DEF Kept, Fields, u
<1>6. CASE ~ e.negated
  BY <1>3, <1>4, <1>6 DEF u
<1> QED BY <1>5, <1>6

LEMMA ParamTracked ==
  ASSUME NamesTracked, NEW s, NEW c, Tracked(s, c), NEW n \in Name, s.capturing => s.captured = <<>>
  PROVE  LET u == emit_define_param(s, n) IN Tracked(u, c) /\ s.outer \subseteq u.outer
<1> DEFINE o == outer_locals_add(s, n)
           t == IF s.capturing /\ ~ IsCaptured(o, n) /\ Room(o.locals) THEN [o EXCEPT !.locals = @ \cup {n}] ELSE o
           v == [t EXCEPT !.params = Append(@, n)]
           u == emit_define_param(s, n)
           w == Len(s.params) + 1
<1>1. Sound(s) /\ c \in Nat /\ c <= s.count /\ s.count \in Nat
  BY DEF Tracked, Sound, Shape
<1>2. /\ Tracked(o, c) /\ Kept(s, o, {"outer"}) /\ s.outer \subseteq o.outer /\ Names(s, o)
      /\ s.depth = 1 => n \in o.outer
  BY OuterTracked
<1>3. u = chunk_emit(v, "DEFINE_LOCAL", 3, w, n)
  BY DEF emit_define_param
<1>4. Sound(u) /\ s.count <= u.count /\ u.count \in Nat
  BY <1>1, ParamAdds DEF Adds, Sound, Shape
<1> HIDE DEF o, u
<1>5. /\ Sound(o) /\ o.count = s.count /\ o.params = s.params /\ o.capturing = s.capturing /\ o.depth = s.depth
      /\ o.locals = s.locals /\ o.captured = s.captured /\ Known(o, o, <<o.failed, c>>, {})
      /\ DOMAIN o = Fields /\ o.locals \subseteq Name /\ o.params \in Seq(Name) /\ o.captured \in Seq(Name)
      /\ o.outer \subseteq Name /\ o.failed \in BOOLEAN /\ Len(o.captured) <= CaptureMax
  BY <1>2 DEF Kept, Fields, Tracked, Sound, Shape
<1>6. s.capturing => \A m : ~ IsCaptured(o, m)
  BY <1>5 DEF IsCaptured, Contains
<1>7. /\ DOMAIN t = Fields /\ Kept(o, t, {"locals"}) /\ o.locals \subseteq t.locals /\ t.locals \subseteq o.locals \cup {n}
      /\ s.capturing => n \in t.locals
  <2>1. CASE s.capturing /\ Room(o.locals)
    <3>1. t = [o EXCEPT !.locals = @ \cup {n}]
      BY <1>6, <2>1
    <3> QED BY <1>5, <3>1 DEF Kept, Fields
  <2>2. CASE ~ (s.capturing /\ Room(o.locals))
    <3>1. t = o
      BY <2>2
    <3>2. s.capturing => n \in o.locals
      BY <1>5, <2>2, RoomFor
    <3> HIDE DEF t
    <3> QED BY <1>5, <3>1, <3>2 DEF Kept
  <2> QED BY <2>1, <2>2
<1> HIDE DEF t
<1>8. DOMAIN v = Fields /\ Kept(t, v, {"params"}) /\ v.params = Append(t.params, n)
  BY <1>7 DEF Kept, Fields
<1> HIDE DEF v
<1>9. /\ v.outer = o.outer /\ v.captured = o.captured /\ v.failed = o.failed /\ v.capturing = o.capturing
      /\ v.locals = t.locals /\ v.params = Append(o.params, n) /\ v.depth = o.depth /\ v.count = o.count
      /\ v.code = o.code /\ v.body = o.body
  BY <1>7, <1>8 DEF Kept, Fields
<1>10. Kept(o, v, {"locals", "captured", "outer", "params", "failed"})
  BY <1>7, <1>8 DEF Kept, Fields
<1>11. /\ v.params \in Seq(Name) /\ Contains(v.params, n)
       /\ \A m : Contains(o.params, m) => Contains(v.params, m)
  <2>1. /\ Len(o.params) \in Nat /\ DOMAIN o.params = 1 .. Len(o.params)
        /\ v.params \in Seq(Name) /\ Len(v.params) = Len(o.params) + 1 /\ v.params[Len(o.params) + 1] = n
        /\ \A i \in 1 .. Len(o.params) : v.params[i] = o.params[i]
    BY <1>5, <1>9, AppendFacts, SeqFacts
  <2> QED BY <2>1 DEF Contains
<1>12. Longer(o.captured, v.captured)
  BY <1>5, <1>9 DEF Longer
<1>13. Names(o, v)
  BY <1>5, <1>7, <1>8, <1>9, <1>10, <1>11, <1>12 DEF Names
<1>14. \A m : IsCaptured(o, m) <=> IsCaptured(v, m)
  BY <1>9 DEF IsCaptured
<1>15. Known(v, v, <<v.failed, c>>, {})
  <2>1. o.outer \subseteq v.outer /\ o.locals \subseteq v.locals /\ \A m : IsCaptured(o, m) => IsCaptured(v, m)
    BY <1>7, <1>9, <1>14
  <2>2. o.capturing => \A m \in v.locals : ~ IsCaptured(v, m)
    BY <1>5, <1>6, <1>14
  <2>3. \A m \in v.locals \ {} : m \in o.locals \ {} \/ Contains(v.params, m)
    BY <1>7, <1>9, <1>11
  <2> QED BY <1>5, <1>11, <1>13, <2>1, <2>2, <2>3, NamesKnown
<1>16. Sound(v)
  BY <1>5, <1>13, NamesAdd DEF Adds
<1>17. /\ "DEFINE_LOCAL" \in Naming /\ "DEFINE_LOCAL" \notin Upvalue /\ 3 \in Nat \ {0}
       /\ NamesOf(Instruction(v, "DEFINE_LOCAL", 1, w, n)) = {n}
  BY DEF Naming, NameOp, Upvalue, NamesOf, Instruction
<1>18. MayEmit(v, "DEFINE_LOCAL", w, n, <<v.failed, c>>, {})
  BY <1>2, <1>5, <1>7, <1>9, <1>17 DEF MayEmit
<1> HIDE DEF w
<1>19. Known(u, u, <<v.failed, c>>, {}) /\ u.outer = v.outer
  <2> SUFFICES ASSUME NEW op, op = "DEFINE_LOCAL" PROVE Known(u, u, <<v.failed, c>>, {}) /\ u.outer = v.outer
    OBVIOUS
  <2> DEFINE z == chunk_emit(v, op, 3, w, n)
  <2>1. MayEmit(v, op, w, n, <<v.failed, c>>, {}) /\ op \in Naming /\ op # "DEFINE"
    BY <1>17, <1>18
  <2>2. Known(z, z, <<v.failed, c>>, IF op = "DEFINE" THEN {} \ {n} ELSE {}) /\ z.outer = v.outer
    BY <1>15, <1>16, <1>17, <2>1, EmitKnown
  <2>3. u = z
    BY <1>3
  <2> HIDE DEF z
  <2> QED BY <2>1, <2>2, <2>3
<1>20. u.failed = v.failed
  <2>1. Kept(v, u, {"code", "count"})
    BY <1>3, <1>16, EmitAt
  <2> QED BY <2>1 DEF Kept, Fields
<1>21. Tracked(u, c)
  BY <1>1, <1>4, <1>19, <1>20 DEF Tracked
<1> QED BY <1>2, <1>9, <1>19, <1>21 DEF u

LEMMA ReturnTracked ==
  ASSUME NamesTracked, NEW s, NEW c, Tracked(s, c), NEW e, Expr(e)
  PROVE  LET u == parse_return(s, e) IN Tracked(u, c) /\ s.outer \subseteq u.outer
<1> DEFINE t == parse_unary(s, e)
           p == IF IsBareCall(s, t) THEN Patched(t) ELSE t
           u == parse_return(s, e)
<1>0. /\ s.count \in Nat /\ s.lastCall \in Nat /\ s.lastCall <= s.count
      /\ Sound(s) /\ c \in Nat /\ c <= s.count /\ Known(s, s, <<s.failed, c>>, {})
  BY LastCallBound DEF Tracked
<1>1. UnaryFacts(s, t, e)
  BY <1>0, UnaryAdds
<1>2. u = chunk_emit(p, "RETURN", 1, 0, 0)
  BY DEF parse_return
<1>3. "RETURN" \in Silent /\ 1 \in Nat \ {0} /\ "RETURN" \notin Naming
  BY DEF Silent, Naming, NameOp
<1>4. Tracked(t, c) /\ t.outer = s.outer
  BY UnaryTracked
<1> HIDE DEF u
<1>5. CASE ~ IsBareCall(s, t)
  <2>1. p = t
    BY <1>5
  <2> HIDE DEF p, t
  <2>2. Tracked(u, c) /\ Kept(t, u, {"code", "count"})
    BY <1>2, <1>3, <1>4, <2>1, SilentTracked
  <2>3. u.outer = t.outer
    BY <2>2 DEF Kept, Fields
  <2> QED BY <1>4, <2>2, <2>3 DEF u
<1>6. CASE IsBareCall(s, t)
  <2>1. p = Patched(t)
    BY <1>6
  <2>2. t.lastCall = t.count
    BY <1>6 DEF IsBareCall
  <2>3. e.form = "call" /\ ~ e.negated
    <3> HIDE DEF t
    <3> QED BY <1>0, <1>1, <2>2 DEF UnaryFacts
  <2>4. t = parse_call_args(s)
    BY <2>3 DEF parse_unary
  <2> HIDE DEF p, t
  <2>5. /\ Adds(s, t) /\ At(t, s.count, "CALL", Callee) /\ t.count = s.count + 4
        /\ Kept(s, t, {"code", "count", "lastCall"})
    BY <1>0, <2>4, CallAdds
  <2>6. Sound(t) /\ t.count \in Nat /\ t.count - 4 = s.count /\ t.count - 4 \in DOMAIN t.code
    BY <1>0, <2>5 DEF Adds, At
  <2>7. /\ DOMAIN p = Fields /\ Kept(t, p, {"code"}) /\ DOMAIN p.code = DOMAIN t.code
        /\ \A o \in DOMAIN t.code : o # s.count => p.code[o] = t.code[o]
        /\ DOMAIN p.code[s.count] = DOMAIN t.code[s.count]
        /\ p.code[s.count].op = "TAIL_CALL" /\ p.code[s.count].words = t.code[s.count].words
        /\ p.code[s.count].line = t.code[s.count].line /\ p.code[s.count].body = t.code[s.count].body
        /\ p.code[s.count].meant = t.code[s.count].meant
    BY <2>1, <2>6, PatchedFields
  <2>8. /\ p.count = t.count /\ p.lastCall = t.lastCall /\ p.line = t.line /\ p.body = t.body
        /\ p.capturing = t.capturing /\ p.failed = t.failed /\ p.locals = t.locals /\ p.outer = t.outer
        /\ p.captured = t.captured /\ p.params = t.params /\ p.depth = t.depth
    BY <2>7 DEF Kept, Fields
  <2>9. /\ t.body = s.body /\ t.capturing = s.capturing /\ t.failed = s.failed /\ t.locals = s.locals
        /\ t.outer = s.outer /\ t.captured = s.captured /\ t.params = s.params /\ t.depth = s.depth
    BY <2>5 DEF Kept, Fields
  <2>10. Shape(p)
    BY <2>6, <2>7, <2>8 DEF Sound, Shape
  <2>11. \A o \in DOMAIN t.code : /\ DOMAIN p.code[o] = DOMAIN t.code[o] /\ p.code[o].words = t.code[o].words
                                 /\ p.code[o].line = t.code[o].line /\ p.code[o].body = t.code[o].body
                                 /\ p.code[o].meant = t.code[o].meant
                                 /\ (p.code[o].op \in Calls) <=> (t.code[o].op \in Calls)
    BY <2>5, <2>7 DEF At, Calls
  <2>12. CodeShape(p)
    BY <2>6, <2>7, <2>8, <2>11 DEF Sound, CodeShape
  <2>13. Tiled(p)
    BY <2>6, <2>7, <2>8, <2>11 DEF Sound, Tiled
  <2>14. CallKnown(p)
    BY <2>6, <2>7, <2>8, <2>11 DEF Sound, CallKnown
  <2>15. Sound(p)
    BY <2>10, <2>12, <2>13, <2>14 DEF Sound
  <2>16. \A o \in Nat : o < s.count => /\ (o \in DOMAIN p.code) <=> (o \in DOMAIN s.code)
                                       /\ o \in DOMAIN s.code => p.code[o] = s.code[o]
    BY <2>5, <2>7 DEF Adds, SameBelow
  <2>17. \A o \in DOMAIN s.code : o \in Nat /\ o < s.count
    BY <1>0 DEF Sound, Shape, CodeShape
  <2>18. \A o \in DOMAIN p.code : o \in Nat
    BY <2>15 DEF Sound, CodeShape
  <2>19. Carried(s, p)
    BY <1>0, <2>5, <2>8, <2>16, <2>17, <2>18 DEF Carried
  <2>20. NoneNew(s, p, s.body)
    <3> SUFFICES ASSUME NEW o \in NamingIn(p, s.body), ~ o < s.count PROVE FALSE
      BY DEF NoneNew
    <3>1. o \in DOMAIN t.code /\ o \in Nat /\ o < s.count + 4 /\ p.code[o].op \in Naming
      BY <2>6, <2>5, <2>7 DEF NamingIn, Sound, CodeShape
    <3>2. t.code[s.count].words = 4 /\ s.count \in DOMAIN t.code
      BY <2>5, <2>6 DEF At, Sound, CodeShape, Calls
    <3>3. s.count < o => s.count + 4 <= o
      BY <3>1, <3>2, <2>6 DEF Sound, Tiled
    <3>4. o = s.count
      BY <1>0, <3>1, <3>3
    <3> QED BY <2>7, <3>1, <3>4 DEF Naming, NameOp
  <2>21. s.capturing => s.body \in DOMAIN p.code
    BY <1>0, <2>16, <2>17 DEF Known
  <2>22. Known(p, s, <<s.failed, c>>, {})
    BY <1>0, <2>8, <2>9, <2>19, <2>20, <2>21, CarriedKnown
  <2>23. Known(p, p, <<p.failed, c>>, {})
    BY <2>8, <2>9, <2>22, KnownSame
  <2>24. Tracked(p, c)
    BY <1>0, <2>5, <2>8, <2>15, <2>23 DEF Tracked
  <2>25. Tracked(u, c) /\ Kept(p, u, {"code", "count"})
    BY <1>2, <1>3, <2>24, SilentTracked
  <2>26. u.outer = p.outer
    BY <2>25 DEF Kept, Fields
  <2> QED BY <2>8, <2>9, <2>25, <2>26 DEF u
<1> QED BY <1>5, <1>6

LEMMA CompoundTracked ==
  ASSUME NamesTracked, NEW s, NEW c, Tracked(s, c), NEW n \in Name, NEW e, Expr(e)
  PROVE  LET u == parse_compound_assignment(s, n, e) IN Tracked(u, c) /\ s.outer \subseteq u.outer
<1> DEFINE l == emit_load(s, n)
           r == parse_unary(l, e)
           lhs == classify_operand(r, s.count, l.count)
           rhs == classify_operand(r, l.count, r.count)
           w(operand) == IF operand = "name" THEN 2 ELSE 1
           tr == Truncated(r, s.count)
           arg == [of |-> n, op |-> r.code[l.count].op, with |-> r.code[l.count].meant]
           a == chunk_emit(r, "ADD", 1, 0, 0)
           u == parse_compound_assignment(s, n, e)
<1>0. /\ s.count \in Nat /\ s.lastCall \in Nat /\ s.lastCall <= s.count
      /\ Sound(s) /\ c \in Nat /\ c <= s.count /\ Known(s, s, <<s.failed, c>>, {})
  BY LastCallBound DEF Tracked
<1>1. LoadFacts(s, l, n)
  BY <1>0, LoadAdds
<1>2. Adds(s, l) /\ Tracked(l, c) /\ Sound(l) /\ l.outer = s.outer /\ l.locals = s.locals /\ l.params = s.params
  <2>1. Adds(s, l)
    BY <1>1 DEF LoadFacts
  <2>2. Tracked(l, c) /\ l.outer = s.outer /\ l.locals = s.locals /\ l.params = s.params
    BY LoadTracked
  <2> HIDE DEF l
  <2> QED BY <2>1, <2>2 DEF Tracked
<1>3. UnaryFacts(l, r, e)
  BY <1>2, UnaryAdds
<1>4. /\ Adds(l, r) /\ Tracked(r, c) /\ Sound(r)
      /\ r.outer = s.outer /\ r.locals = s.locals /\ r.params = s.params
  <2>1. Adds(l, r)
    BY <1>3 DEF UnaryFacts
  <2>2. Tracked(r, c) /\ r.outer = l.outer /\ r.locals = l.locals /\ r.params = l.params
    BY <1>2, UnaryTracked
  <2> HIDE DEF l, r
  <2> QED BY <1>2, <2>1, <2>2 DEF Tracked
<1>5. Adds(s, r)
  BY <1>0, <1>2, <1>4, AddsTransitive
<1>g. Adds(s, u)
  BY <1>0, CompoundAdds
<1>6. CASE lhs \in {"local", "name"} /\ rhs # "none"
  <2>1. u = chunk_emit(tr, "COMPOUND", 2 + w(lhs) + w(rhs), arg, e)
    BY <1>6, Zenon DEF parse_compound_assignment
  <2>2. /\ rhs = "literal" => r.code[l.count].op = "PUSH"
        /\ r.code[l.count].op \in {"PUSH", "LOAD", "LOAD_LOCAL"} /\ r.code[s.count].op \in {"LOAD", "LOAD_LOCAL"}
    <3> HIDE DEF r, l
    <3> QED BY <1>6 DEF classify_operand
  <2>3. 2 + w(lhs) + w(rhs) \in Nat \ {0}
    OBVIOUS
  <2> DEFINE words == 2 + w(lhs) + w(rhs)
  <2>4. u = chunk_emit(tr, "COMPOUND", words, arg, e) /\ words \in Nat \ {0}
    BY <2>1, <2>3
  <2> HIDE DEF words, lhs, rhs, u, l, r
  <2>5. /\ l.count \in Nat /\ r.count \in Nat /\ s.count < l.count /\ l.count < r.count
        /\ At(l, s.count, l.code[s.count].op, n) /\ At(r, l.count, r.code[l.count].op, r.code[l.count].meant)
        /\ s.count \in DOMAIN l.code /\ l.count \in DOMAIN r.code
    <3>1. l.count \in Nat /\ r.count \in Nat
      BY <1>2, <1>4 DEF Sound, Shape
    <3>2. s.count < l.count /\ s.count \in DOMAIN l.code /\ l.code[s.count].meant = n
      BY <1>0, <1>1, <3>1 DEF LoadFacts, At
    <3>3. l.count < r.count /\ l.count \in DOMAIN r.code
      BY <1>3, <3>1 DEF UnaryFacts, At
    <3> QED BY <3>1, <3>2, <3>3 DEF At
  <2>6. r.code[s.count] = l.code[s.count] /\ s.count \in DOMAIN r.code
    BY <1>0, <1>4, <2>5 DEF Adds, SameBelow
  <2>7. /\ r.code[s.count].body = r.body /\ r.code[l.count].body = r.body /\ r.code[s.count].meant = n
        /\ r.capturing = s.capturing /\ r.body = s.body /\ r.depth = s.depth /\ (s.failed => r.failed)
    <3>1. NewOk(s, r, s.count) /\ NewOk(s, r, l.count)
      BY <1>0, <1>5, <2>5, <2>6 DEF Adds
    <3>2. r.capturing = s.capturing /\ r.body = s.body /\ r.depth = s.depth /\ (s.failed => r.failed)
      BY <1>5 DEF Adds, Kept, Fields
    <3> QED BY <2>5, <2>6, <3>1, <3>2 DEF NewOk, At
  <2>8. s.capturing => n \in s.locals /\ (r.code[l.count].op # "PUSH" => r.code[l.count].meant \in s.locals)
    <3>1. HAVE s.capturing
    <3>2. KnownLocals(r, r, {})
      BY <1>4, <2>7, <3>1 DEF Tracked, Known
    <3>3. "LOAD" \in Naming \ Upvalue /\ "LOAD_LOCAL" \in Naming \ Upvalue
      BY DEF Naming, NameOp, Upvalue
    <3>4. s.count \in NamingIn(r, r.body) /\ NamesOf(r.code[s.count]) = {n}
      BY <2>2, <2>6, <2>7, <3>3 DEF NamingIn, NamesOf
    <3>5. r.code[l.count].op # "PUSH" =>
            l.count \in NamingIn(r, r.body) /\ NamesOf(r.code[l.count]) = {r.code[l.count].meant}
      BY <2>2, <2>5, <2>7, <3>3 DEF NamingIn, NamesOf
    <3> QED BY <1>4, <2>2, <3>2, <3>3, <3>4, <3>5 DEF KnownLocals
  <2>9. /\ DOMAIN tr = Fields /\ Kept(r, tr, {"code", "count"}) /\ tr.count = s.count
        /\ DOMAIN tr.code = {q \in DOMAIN r.code : q < s.count}
        /\ \A o \in DOMAIN tr.code : tr.code[o] = r.code[o]
    <3>1. DOMAIN r = Fields
      BY <1>4 DEF Sound, Shape
    <3> QED BY <3>1, TruncatedFields
  <2>10. Boundary(r, s.count)
    <3> SUFFICES ASSUME NEW o \in DOMAIN r.code, o < s.count PROVE o + r.code[o].words <= s.count
      BY DEF Boundary
    <3>1. o \in Nat
      BY <1>4 DEF Sound, CodeShape
    <3>2. o \in DOMAIN s.code /\ r.code[o] = s.code[o]
      BY <3>1, <1>5 DEF Adds, SameBelow
    <3> QED BY <1>0, <3>2 DEF Sound, CodeShape
  <2>11. e.form # "call"
    <3>1. e.form = "call" => r.code[l.count].op = "CALL"
      BY <1>3 DEF UnaryFacts, At
    <3> QED BY <2>2, <3>1
  <2>12. r.lastCall = s.lastCall
    <3>1. l.lastCall = s.lastCall
      BY <1>1 DEF LoadFacts, Kept, Fields
    <3> QED BY <1>3, <2>11, <3>1 DEF UnaryFacts
  <2>13. Sound(tr)
    <3>1. r.body <= s.count /\ (r.lastCall # 0 => r.lastCall - 4 < s.count) /\ s.count <= r.count
      BY <1>0, <2>5, <2>7, <2>12 DEF Sound, Shape
    <3> QED BY <1>0, <1>4, <2>10, <3>1, TruncatedSound
  <2> HIDE DEF tr
  <2>14. /\ tr.captured = r.captured /\ tr.failed = r.failed /\ tr.locals = s.locals /\ tr.params = s.params
         /\ tr.outer = s.outer /\ tr.capturing = s.capturing /\ tr.body = s.body /\ tr.depth = s.depth
    BY <1>4, <2>7, <2>9 DEF Kept, Fields
  <2>15. DOMAIN tr.code = DOMAIN s.code /\ \A o \in DOMAIN s.code : tr.code[o] = s.code[o]
    <3>1. \A o \in DOMAIN r.code : o \in Nat
      BY <1>4 DEF Sound, CodeShape
    <3>2. \A o \in DOMAIN s.code : o \in Nat /\ o < s.count
      BY <1>0 DEF Sound, Shape, CodeShape
    <3> QED BY <1>5, <2>9, <3>1, <3>2 DEF Adds, SameBelow
  <2>16. \A m : IsCaptured(s, m) => IsCaptured(tr, m)
    <3>1. Longer(s.captured, tr.captured) /\ s.captured \in Seq(Name) /\ tr.captured \in Seq(Name)
      BY <1>0, <1>5, <2>13, <2>14 DEF Adds, Sound, Shape
    <3>2. /\ DOMAIN s.captured = 1 .. Len(s.captured) /\ DOMAIN tr.captured = 1 .. Len(tr.captured)
          /\ Len(s.captured) \in Nat /\ Len(tr.captured) \in Nat
      BY <3>1, SeqFacts
    <3> QED BY <3>1, <3>2 DEF IsCaptured, Contains, Longer
  <2>17. s.capturing => \A m \in s.locals : ~ IsCaptured(tr, m)
    <3>1. r.capturing => \A m \in r.locals : ~ IsCaptured(r, m)
      BY <1>4 DEF Tracked, Known, KnownLocals
    <3> QED BY <1>4, <2>7, <2>14, <3>1 DEF IsCaptured
  <2>18. Known(tr, tr, <<tr.failed, c>>, {})
    <3>1. s.failed => tr.failed
      BY <2>7, <2>14
    <3> QED BY <1>0, <2>9, <2>14, <2>15, <2>16, <2>17, <3>1, SameCodeKnown
  <2>19. /\ NamesOf(Instruction(tr, "COMPOUND", 1, arg, e)) \subseteq {n, r.code[l.count].meant}
         /\ r.code[l.count].op = "PUSH" => NamesOf(Instruction(tr, "COMPOUND", 1, arg, e)) \subseteq {n}
    <3>1. /\ Instruction(tr, "COMPOUND", 1, arg, e).op = "COMPOUND"
          /\ Instruction(tr, "COMPOUND", 1, arg, e).arg = arg
      BY DEF Instruction
    <3>2. arg.of = n /\ arg.op = r.code[l.count].op /\ arg.with = r.code[l.count].meant
      OBVIOUS
    <3> HIDE DEF arg
    <3> QED BY <3>1, <3>2 DEF NamesOf
  <2> HIDE DEF arg
  <2>20. /\ "COMPOUND" \in Naming /\ "COMPOUND" \notin Upvalue /\ "COMPOUND" \notin Stores
    BY DEF Naming, Upvalue, Stores
  <2>21. MayEmit(tr, "COMPOUND", arg, e, <<tr.failed, c>>, {})
    BY <2>8, <2>14, <2>19, <2>20 DEF MayEmit
  <2>22. Known(u, u, <<tr.failed, c>>, {}) /\ u.outer = tr.outer
    <3> SUFFICES ASSUME NEW op, op = "COMPOUND" PROVE Known(u, u, <<tr.failed, c>>, {}) /\ u.outer = tr.outer
      OBVIOUS
    <3> DEFINE z == chunk_emit(tr, op, words, arg, e)
    <3>1. MayEmit(tr, op, arg, e, <<tr.failed, c>>, {}) /\ op \in Naming /\ op # "DEFINE"
      BY <2>20, <2>21
    <3>2. Known(z, z, <<tr.failed, c>>, IF op = "DEFINE" THEN {} \ {e} ELSE {}) /\ z.outer = tr.outer
      BY <2>4, <2>13, <2>18, <3>1, EmitKnown
    <3>3. u = z
      BY <2>4
    <3> HIDE DEF z
    <3> QED BY <3>1, <3>2, <3>3
  <2>23. u.failed = tr.failed
    <3>1. Kept(tr, u, {"code", "count"})
      BY <2>4, <2>13, EmitAt
    <3> QED BY <3>1 DEF Kept, Fields
  <2>24. Sound(u) /\ c <= u.count
    BY <1>0, <1>g DEF Adds, Sound, Shape
  <2>25. Tracked(u, c)
    BY <1>0, <2>22, <2>23, <2>24 DEF Tracked
  <2> QED BY <2>14, <2>22, <2>25 DEF u
<1>7. CASE ~ (lhs \in {"local", "name"} /\ rhs # "none")
  <2>1. u = emit_store(a, n)
    BY <1>7, Zenon DEF parse_compound_assignment
  <2> HIDE DEF lhs, rhs, l, r, u
  <2>2. "ADD" \in Silent /\ 1 \in Nat \ {0}
    BY DEF Silent
  <2>3. Tracked(a, c) /\ Kept(r, a, {"code", "count"})
    BY <1>4, <2>2, SilentTracked
  <2> HIDE DEF a
  <2>4. Tracked(u, c) /\ a.outer \subseteq u.outer
    BY <2>1, <2>3, StoreTracked
  <2>5. a.outer = s.outer
    BY <1>4, <2>3 DEF Kept, Fields
  <2> QED BY <2>4, <2>5 DEF u
<1> QED BY <1>6, <1>7

LEMMA KnownWeaker ==
  ASSUME NEW s, NEW v, NEW excused, Known(s, v, Never, {})
  PROVE  Known(s, v, excused, {})
BY DEF Known, KnownUpvalues, Never

\* What is known of the code of s is known of t, which has the same code.
LEMMA SameCarried ==
  ASSUME NEW s, NEW t, Sound(s), t.code = s.code, t.count = s.count
  PROVE  Carried(s, t) /\ \A b : NoneNew(s, t, b)
<1>1. s.count \in Nat /\ \A o \in DOMAIN s.code : o \in Nat /\ o < s.count
  BY DEF Sound, Shape, CodeShape
<1> QED BY <1>1 DEF Carried, NoneNew, NamingIn

LEMMA NamedStep ==
  ASSUME NEW p, NEW u, NEW gs, Sound(p), RuleInv(p), FramesKnown(p, gs), Carried(p, u),
         \A b : b # u.body => NoneNew(p, u, b),
         \A o \in DOMAIN u.code, q \in DOMAIN p.code : o < p.count /\ q <= o => q \in DOMAIN u.code,
         \A j \in DOMAIN gs : /\ gs[j].kind # "if" => gs[j].body # u.body
                              /\ \A q \in DOMAIN p.code : q < gs[j].count => q \in DOMAIN u.code
                              /\ gs[j].depth # 0 => p.outer \subseteq u.outer,
         u.capturing \in BOOLEAN, Known(u, u, Never, {}), HeadOf(u, u, u.count), DepthOk(u, gs)
  PROVE  Named(u, gs)
<1>1. ASSUME NEW o \in DOMAIN u.code, u.code[o].op \in Naming
      PROVE  RuleOf(u, u.code[o].body) /\ (u.code[o].body = 0 \/ u.code[o].body \in DOMAIN u.code)
  <2> DEFINE b == u.code[o].body
  <2>1. CASE b = u.body
    <3>1. u.body # 0 => u.code[u.body].meant = u.capturing /\ u.body \in DOMAIN u.code
      BY DEF HeadOf
    <3>2. RuleOf(u, u.body)
      BY <3>1, KnownRule
    <3> QED BY <2>1, <3>1, <3>2
  <2>2. CASE b # u.body
    <3>1. o \in NamingIn(u, b)
      BY <1>1 DEF NamingIn
    <3>2. NoneNew(p, u, b)
      BY <2>2
    <3>3. o < p.count /\ o \in Nat /\ o \in DOMAIN p.code /\ u.code[o] = p.code[o]
      BY <3>1, <3>2 DEF NoneNew, Carried
    <3>4. RuleOf(p, b) /\ (b = 0 \/ b \in DOMAIN p.code) /\ b \in Nat /\ b <= o /\ p.count \in Nat
      BY <1>1, <3>3 DEF RuleInv, Sound, Shape, CodeShape
    <3>5. b # 0 => b \in DOMAIN u.code /\ b < p.count
      BY <3>3, <3>4
    <3> HIDE DEF b
    <3>6. RuleOf(u, b)
      BY <3>1, <3>2, <3>4, <3>5, CarriedRule
    <3> QED BY <3>5, <3>6 DEF b
  <2> QED BY <2>1, <2>2
<1>2. ASSUME NEW j \in DOMAIN gs
      PROVE  HeadOf(u, gs[j], gs[j].count) /\ (gs[j].kind # "if" => Known(u, gs[j], Never, {}))
  <2> DEFINE f == gs[j]
  <2>1. HeadOf(p, f, f.count) /\ (f.kind # "if" => Known(p, f, Never, {}))
    BY DEF FramesKnown
  <2>2. /\ f.kind # "if" => f.body # u.body
        /\ \A q \in DOMAIN p.code : q < f.count => q \in DOMAIN u.code
        /\ f.depth # 0 => p.outer \subseteq u.outer
    OBVIOUS
  <2> HIDE DEF f
  <2>3. f.body # 0 => f.body \in DOMAIN u.code /\ u.code[f.body] = p.code[f.body]
    <3> SUFFICES ASSUME f.body # 0 PROVE f.body \in DOMAIN u.code /\ u.code[f.body] = p.code[f.body]
      OBVIOUS
    <3>1. f.body \in DOMAIN p.code /\ f.body < f.count
      BY <2>1 DEF HeadOf
    <3>2. f.body < p.count /\ f.body \in DOMAIN u.code
      BY <2>2, <3>1 DEF Sound, Shape, CodeShape
    <3> QED BY <3>2 DEF Carried
  <2>4. HeadOf(u, f, f.count)
    BY <2>1, <2>3 DEF HeadOf
  <2>5. ASSUME f.kind # "if" PROVE Known(u, f, Never, {})
    <3>1. Known(p, f, Never, {}) /\ NoneNew(p, u, f.body)
      BY <2>1, <2>2, <2>5
    <3>2. f.capturing => f.depth = 2 /\ f.body # 0
      BY <3>1 DEF Known
    <3>3. f.capturing => f.body \in DOMAIN u.code
      BY <2>3, <3>2
    <3>4. f.depth = 1 \/ f.capturing => p.outer \subseteq u.outer
      BY <2>2, <3>2
    <3> QED BY <3>1, <3>3, <3>4, CarriedKnown
  <2> QED BY <2>4, <2>5 DEF f
<1>3. RuleInv(u)
  BY <1>1 DEF RuleInv
<1>4. FramesKnown(u, gs)
  BY <1>2 DEF FramesKnown
<1> QED BY <1>3, <1>4 DEF Named

\* A failed statement takes its code with it, and what was known without
\* that code is known still, as it defined nothing.
LEMMA RolledKnown ==
  ASSUME "define" \notin Lost, NEW t, NEW c, Tracked(t, c), NEW m \in Nat, t.marks \in Seq(Mark), m <= Len(t.marks),
         Survivable(t, c), HeadOf(t, t, c)
  PROVE  LET u == RolledBack(t, c, m) IN
         /\ Known(u, u, Never, {}) /\ HeadOf(u, u, u.count) /\ Carried(t, u)
         /\ u.outer = t.outer /\ u.body = t.body /\ u.depth = t.depth /\ u.capturing = t.capturing
         /\ DOMAIN u.code \subseteq DOMAIN t.code /\ \A o \in DOMAIN u.code : u.code[o] = t.code[o]
         /\ \A o \in DOMAIN t.code : o \notin DOMAIN u.code => ~ o < c
         /\ \A o \in DOMAIN u.code, q \in DOMAIN t.code : q <= o => q \in DOMAIN u.code
<1> DEFINE u == RolledBack(t, c, m)
<1>1. /\ Sound(t) /\ c \in Nat /\ c <= t.count /\ t.count \in Nat /\ Known(t, t, <<t.failed, c>>, {})
      /\ t.failed \in BOOLEAN /\ \A o \in DOMAIN t.code : o \in Nat /\ o < t.count
  <2>1. Sound(t) /\ c \in Nat /\ c <= t.count /\ Known(t, t, <<t.failed, c>>, {})
    BY DEF Tracked
  <2>2. t.failed \in BOOLEAN
    BY <2>1 DEF Sound, Shape
  <2> QED BY <2>1, <2>2, CodeBelow
<1>2. CASE ~ t.failed
  <2>1. u = t
    BY <1>2 DEF RolledBack
  <2>2. Carried(t, t)
    BY <1>1, SameCarried
  <2>3. Known(t, t, Never, {})
    BY <1>1, <1>2 DEF Known, KnownUpvalues, Never
  <2>4. HeadOf(t, t, t.count)
    BY <1>1 DEF HeadOf
  <2> HIDE DEF u
  <2> QED BY <2>1, <2>2, <2>3, <2>4 DEF u
<1>3. CASE t.failed
  <2>1. RollbackFacts(t, u, c, m)
    BY <1>1, <1>3, RollbackFields
  <2> HIDE DEF u
  <2>2. /\ DOMAIN u.code = {q \in DOMAIN t.code : q < c} /\ \A o \in DOMAIN u.code : u.code[o] = t.code[o]
        /\ u.count = c
    BY <2>1 DEF RollbackFacts
  <2>3. /\ u.outer = t.outer /\ u.body = t.body /\ u.depth = t.depth /\ u.capturing = t.capturing
        /\ u.locals = t.locals /\ u.captured = t.captured /\ u.params = t.params
    BY <2>1 DEF RollbackFacts, Kept, Fields
  <2>4. \A o \in DOMAIN t.code : o >= c => t.code[o].op # "DEFINE"
    BY <1>3, SurvivableDefines
  <2>5. Carried(t, u)
    BY <1>1, <2>2, <2>4 DEF Carried
  <2>6. \A b : NoneNew(t, u, b)
    BY <1>1, <2>2 DEF NoneNew, NamingIn
  <2>7. t.body # 0 => t.body \in DOMAIN u.code
    BY <2>2 DEF HeadOf
  <2>8. t.capturing => t.body # 0
    BY <1>1 DEF Known
  <2>9. Known(u, t, <<t.failed, c>>, {})
    BY <1>1, <2>3, <2>5, <2>6, <2>7, <2>8, CarriedKnown
  <2>10. Known(u, u, <<t.failed, c>>, {})
    BY <2>3, <2>9, KnownSame
  <2>11. Known(u, u, Never, {})
    <3>1. \A o \in NamingIn(u, u.body) : ~ o >= c
      BY <1>1, <2>2 DEF NamingIn
    <3>2. KnownUpvalues(u, u, Never)
      BY <2>10, <3>1 DEF Known, KnownUpvalues, Never
    <3> QED BY <2>10, <3>2 DEF Known
  <2>12. HeadOf(u, u, u.count)
    BY <2>2, <2>3 DEF HeadOf
  <2>13. \A o \in DOMAIN u.code, q \in DOMAIN t.code : q <= o => q \in DOMAIN u.code
    BY <1>1, <2>2
  <2>14. DOMAIN u.code \subseteq DOMAIN t.code /\ \A o \in DOMAIN t.code : o \notin DOMAIN u.code => ~ o < c
    BY <2>2
  <2> QED BY <2>2, <2>3, <2>5, <2>11, <2>12, <2>13, <2>14 DEF u
<1> QED BY <1>1, <1>2, <1>3

\* The end of a statement or of a block that began at c.
LEMMA NamedRollback ==
  ASSUME "define" \notin Lost, NEW p, NEW gs, NEW z, NEW c, NEW m \in Nat,
         Sound(p), RuleInv(p), FramesKnown(p, gs),
         Carried(p, z), p.count <= z.count, \A q \in DOMAIN p.code : q \in DOMAIN z.code,
         \A b : b # z.body => NoneNew(p, z, b), p.outer \subseteq z.outer,
         Tracked(z, c), z.marks \in Seq(Mark), m <= Len(z.marks), Survivable(z, c), HeadOf(z, z, c),
         \A j \in DOMAIN gs : gs[j].count <= c /\ gs[j].count \in Nat /\ (gs[j].kind # "if" => gs[j].body # z.body),
         DepthOk(z, gs)
  PROVE  Named(RolledBack(z, c, m), gs)
<1> DEFINE u == RolledBack(z, c, m)
<1>1. /\ Known(u, u, Never, {}) /\ HeadOf(u, u, u.count) /\ Carried(z, u)
      /\ u.outer = z.outer /\ u.body = z.body /\ u.depth = z.depth /\ u.capturing = z.capturing
      /\ DOMAIN u.code \subseteq DOMAIN z.code /\ \A o \in DOMAIN u.code : u.code[o] = z.code[o]
      /\ \A o \in DOMAIN z.code : o \notin DOMAIN u.code => ~ o < c
      /\ \A o \in DOMAIN u.code, q \in DOMAIN z.code : q <= o => q \in DOMAIN u.code
  BY RolledKnown
<1> HIDE DEF u
<1>2. /\ p.count \in Nat /\ z.count \in Nat /\ c \in Nat /\ z.capturing \in BOOLEAN
      /\ \A o \in DOMAIN p.code : o \in Nat /\ o < p.count
      /\ \A o \in DOMAIN z.code : o \in Nat
  <2>1. p.count \in Nat /\ \A o \in DOMAIN p.code : o \in Nat /\ o < p.count
    BY DEF Sound, Shape, CodeShape
  <2>2. Sound(z) /\ c \in Nat
    BY DEF Tracked
  <2>3. z.count \in Nat /\ z.capturing \in BOOLEAN /\ \A o \in DOMAIN z.code : o \in Nat
    BY <2>2 DEF Sound, Shape, CodeShape
  <2> QED BY <2>1, <2>2, <2>3
<1>3. Carried(p, u)
  <2>1. \A q \in DOMAIN u.code : q \in Nat /\ (q < p.count => q \in DOMAIN p.code /\ u.code[q] = p.code[q])
    BY <1>1, <1>2 DEF Carried
  <2>2. ASSUME NEW o \in DOMAIN p.code, p.code[o].op = "DEFINE" PROVE o \in DOMAIN u.code /\ o < u.count
    <3>1. o \in DOMAIN z.code /\ z.code[o] = p.code[o]
      BY <1>2 DEF Carried
    <3> QED BY <1>1, <2>2, <3>1 DEF Carried
  <2> QED BY <2>1, <2>2 DEF Carried
<1>4. \A b : b # u.body => NoneNew(p, u, b)
  BY <1>1 DEF NoneNew, NamingIn
<1>5. \A o \in DOMAIN u.code, q \in DOMAIN p.code : o < p.count /\ q <= o => q \in DOMAIN u.code
  BY <1>1
<1>6. ASSUME NEW j \in DOMAIN gs
      PROVE  /\ gs[j].kind # "if" => gs[j].body # u.body
             /\ \A q \in DOMAIN p.code : q < gs[j].count => q \in DOMAIN u.code
             /\ gs[j].depth # 0 => p.outer \subseteq u.outer
  <2>1. \A q \in DOMAIN p.code : q < gs[j].count => q < c
    BY <1>2
  <2> QED BY <1>1, <2>1
<1>7. DepthOk(u, gs)
  BY <1>1 DEF DepthOk, Around
<1>8. Named(u, gs)
  BY <1>1, <1>2, <1>3, <1>4, <1>5, <1>6, <1>7, NamedStep
<1> QED BY <1>8 DEF u

LEMMA GrownTransitive ==
  ASSUME NEW s, NEW t, NEW u, NEW c, Tracked(s, c), Grown(s, t, c), Grown(t, u, c)
  PROVE  Grown(s, u, c)
<1>1. Sound(s) /\ Adds(s, t) /\ Adds(t, u)
  BY DEF Tracked, Grown
<1>2. Adds(s, u)
  BY <1>1, AddsTransitive
<1> QED BY <1>2 DEF Grown

LEMMA GrownSteps ==
  ASSUME NamesTracked, NEW s, NEW c, Tracked(s, c)
  PROVE  /\ \A e : Expr(e) => Grown(s, parse_unary(s, e), c)
         /\ \A e : Expr(e) => Grown(s, parse_return(s, e), c)
         /\ \A n \in Name : Grown(s, emit_load(s, n), c) /\ Grown(s, emit_store(s, n), c)
         /\ \A n \in Name : \A e : Expr(e) => Grown(s, parse_compound_assignment(s, n, e), c)
         /\ Grown(s, parse_call_args(s), c) /\ Grown(s, Failed(s), c)
         /\ \A op \in Silent : \A words \in Nat \ {0} : Grown(s, chunk_emit(s, op, words, 0, 0), c)
<1>0. Sound(s)
  BY DEF Tracked
<1>1. ASSUME NEW e, Expr(e) PROVE Grown(s, parse_unary(s, e), c)
  <2>1. Adds(s, parse_unary(s, e))
    BY <1>0, <1>1, UnaryAdds DEF UnaryFacts
  <2>2. Tracked(parse_unary(s, e), c) /\ parse_unary(s, e).outer = s.outer
    BY <1>1, UnaryTracked
  <2> QED BY <2>1, <2>2 DEF Grown
<1>2. ASSUME NEW e, Expr(e) PROVE Grown(s, parse_return(s, e), c)
  BY <1>0, <1>2, ReturnAdds, ReturnTracked DEF Grown
<1>3. ASSUME NEW n \in Name PROVE Grown(s, emit_load(s, n), c)
  <2>1. Adds(s, emit_load(s, n))
    BY <1>0, LoadAdds DEF LoadFacts
  <2>2. Tracked(emit_load(s, n), c) /\ emit_load(s, n).outer = s.outer
    BY LoadTracked
  <2> QED BY <2>1, <2>2 DEF Grown
<1>4. ASSUME NEW n \in Name PROVE Grown(s, emit_store(s, n), c)
  BY <1>0, StoreAdds, StoreTracked DEF Grown
<1>5. ASSUME NEW n \in Name, NEW e, Expr(e) PROVE Grown(s, parse_compound_assignment(s, n, e), c)
  BY <1>0, <1>5, CompoundAdds, CompoundTracked DEF Grown
<1>6. Grown(s, parse_call_args(s), c)
  <2>1. Adds(s, parse_call_args(s))
    BY <1>0, CallAdds
  <2>2. Tracked(parse_call_args(s), c) /\ Kept(s, parse_call_args(s), {"code", "count", "lastCall"})
    BY CallTracked
  <2>3. parse_call_args(s).outer = s.outer
    BY <2>2 DEF Kept, Fields
  <2> QED BY <2>1, <2>2, <2>3 DEF Grown
<1>7. Grown(s, Failed(s), c)
  <2>1. Adds(s, Failed(s)) /\ Tracked(Failed(s), c) /\ Failed(s).outer = s.outer
    BY <1>0, FailedAdds, FailedTracked
  <2> QED BY <2>1 DEF Grown
<1>8. ASSUME NEW op \in Silent, NEW words \in Nat \ {0} PROVE Grown(s, chunk_emit(s, op, words, 0, 0), c)
  <2> DEFINE t == chunk_emit(s, op, words, 0, 0)
  <2>1. Tracked(t, c) /\ Kept(s, t, {"code", "count"}) /\ Adds(s, t)
    BY SilentTracked
  <2> HIDE DEF t
  <2>2. t.outer = s.outer
    BY <2>1 DEF Kept, Fields
  <2>3. Grown(s, t, c)
    BY <2>1, <2>2 DEF Grown
  <2> QED BY <2>3 DEF t
<1> QED BY <1>1, <1>2, <1>3, <1>4, <1>5, <1>6, <1>7, <1>8

LEMMA OneLineGrows ==
  ASSUME NamesTracked, NEW c, Tracked(Begun, c), OneLine
  PROVE  \E t : Grown(Begun, t, c) /\ Statement(t)
<1> DEFINE b == Begun
<1>0. Tracked(b, c)
  OBVIOUS
<1>n. 1 \in Nat \ {0} /\ 2 \in Nat \ {0} /\ {"POP", "PUSH", "INDEX_SET"} \subseteq Silent
  BY DEF Silent
<1>t. ASSUME NEW s, Grown(b, s, c) PROVE Tracked(s, c)
  BY <1>t DEF Grown
<1>s. ASSUME NEW e, Expr(e), NEW n \in Name PROVE Grown(b, emit_store(parse_unary(b, e), n), c)
  <2>1. Grown(b, parse_unary(b, e), c)
    BY <1>0, <1>s, GrownSteps
  <2>2. Grown(parse_unary(b, e), emit_store(parse_unary(b, e), n), c)
    BY <1>t, <2>1, GrownSteps
  <2> QED BY <1>0, <2>1, <2>2, GrownTransitive
<1>f. ASSUME NEW s, Grown(b, s, c) PROVE Grown(b, Failed(s), c)
  <2>1. Grown(s, Failed(s), c)
    BY <1>f, <1>t, GrownSteps
  <2> QED BY <1>0, <1>f, <2>1, GrownTransitive
<1>p. ASSUME NEW s, Grown(b, s, c), NEW op \in {"POP", "PUSH", "INDEX_SET"}, NEW words \in {1, 2}
      PROVE  Grown(b, chunk_emit(s, op, words, 0, 0), c)
  <2>1. Grown(s, chunk_emit(s, op, words, 0, 0), c)
    BY <1>n, <1>p, <1>t, GrownSteps
  <2> QED BY <1>0, <1>p, <2>1, GrownTransitive
<1>1. CASE Assign
  <2>1. PICK l \in Lines("assign") : Statement(emit_store(parse_unary(b, l.with), l.name))
    BY <1>1 DEF Assign
  <2>2. Expr(l.with) /\ l.name \in Name
    BY TextFacts
  <2> HIDE DEF b
  <2> QED BY <2>1, <2>2, <1>s DEF b
<1>2. CASE Compound
  <2>1. PICK l \in Lines("compound") : Statement(parse_compound_assignment(b, l.name, l.with))
    BY <1>2 DEF Compound
  <2>2. Expr(l.with) /\ l.name \in Name
    BY TextFacts
  <2>3. Grown(b, parse_compound_assignment(b, l.name, l.with), c)
    BY <1>0, <2>2, GrownSteps
  <2> QED BY <2>1, <2>3
<1>3. CASE CallStatement
  <2>1. Statement(chunk_emit(parse_call_args(b), "POP", 1, 0, 0))
    BY <1>3 DEF CallStatement
  <2>2. Grown(b, parse_call_args(b), c)
    BY <1>0, GrownSteps
  <2>3. Grown(b, chunk_emit(parse_call_args(b), "POP", 1, 0, 0), c)
    BY <1>p, <2>2
  <2> QED BY <2>1, <2>3
<1>4. CASE SetItem
  <2>1. PICK l \in Lines("item") :
          Statement(chunk_emit(chunk_emit(chunk_emit(emit_load(b, l.name), "PUSH", 2, 0, 0), "PUSH", 2, 0, 0), "INDEX_SET", 1, 0, 0))
    BY <1>4 DEF SetItem
  <2>2. l.name \in Name
    BY TextFacts
  <2> DEFINE r == emit_load(b, l.name)
             r1 == chunk_emit(r, "PUSH", 2, 0, 0)
             r2 == chunk_emit(r1, "PUSH", 2, 0, 0)
             t == chunk_emit(r2, "INDEX_SET", 1, 0, 0)
  <2>3. Grown(b, r, c)
    BY <1>0, <2>2, GrownSteps
  <2> HIDE DEF r
  <2>4. Grown(b, r1, c)
    BY <1>p, <2>3
  <2> HIDE DEF r1
  <2>5. Grown(b, r2, c)
    BY <1>p, <2>4
  <2> HIDE DEF r2
  <2>6. Grown(b, t, c)
    BY <1>p, <2>5
  <2>7. Statement(t)
    BY <2>1 DEF r, r1, r2
  <2> HIDE DEF t
  <2> QED BY <2>6, <2>7
<1>5. CASE ReturnStatement
  <2>1. PICK l \in Lines("return") : Statement(parse_return(b, l.with))
    BY <1>5 DEF ReturnStatement
  <2>2. Expr(l.with)
    BY TextFacts
  <2>3. Grown(b, parse_return(b, l.with), c)
    BY <1>0, <2>2, GrownSteps
  <2> QED BY <2>1, <2>3
<1>6. CASE ExpressionFails
  <2>1. PICK l \in Lines("expression!") : Statement(Failed(parse_unary(b, l.with)))
    BY <1>6 DEF ExpressionFails
  <2>2. Expr(l.with)
    BY TextFacts
  <2>3. Grown(b, parse_unary(b, l.with), c)
    BY <1>0, <2>2, GrownSteps
  <2> QED BY <2>1, <2>3, <1>f
<1>7. CASE AssignFails
  <2>1. PICK l \in Lines("assign!") : Statement(Failed(emit_store(parse_unary(b, l.with), l.name)))
    BY <1>7 DEF AssignFails
  <2>2. Expr(l.with) /\ l.name \in Name
    BY TextFacts
  <2> HIDE DEF b
  <2> QED BY <2>1, <2>2, <1>s, <1>f DEF b
<1> QED BY <1>1, <1>2, <1>3, <1>4, <1>5, <1>6, <1>7 DEF OneLine

\* What is added to the code of one body leaves the others as they were.
LEMMA AddsCarried ==
  ASSUME NEW s, NEW t, Sound(s), Adds(s, t)
  PROVE  /\ Carried(s, t) /\ s.count <= t.count /\ \A q \in DOMAIN s.code : q \in DOMAIN t.code
         /\ \A b : b # t.body => NoneNew(s, t, b)
         /\ t.body = s.body /\ t.depth = s.depth /\ t.capturing = s.capturing /\ t.marks = s.marks
<1>1. s.count \in Nat /\ \A o \in DOMAIN s.code : o \in Nat /\ o < s.count
  BY DEF Sound, Shape, CodeShape
<1>2. Sound(t) /\ SameBelow(s, t, s.count) /\ s.count <= t.count
      /\ \A o \in DOMAIN t.code : o >= s.count => t.code[o].body = s.body
  BY DEF Adds, NewOk
<1>3. t.count \in Nat /\ \A o \in DOMAIN t.code : o \in Nat
  BY <1>2 DEF Sound, Shape, CodeShape
<1>4. t.body = s.body /\ t.depth = s.depth /\ t.capturing = s.capturing /\ t.marks = s.marks
  BY DEF Adds, Kept, Fields
<1>5. \A q \in DOMAIN s.code : q \in DOMAIN t.code /\ t.code[q] = s.code[q] /\ q < t.count
  BY <1>1, <1>2, <1>3 DEF SameBelow
<1>6. Carried(s, t)
  BY <1>1, <1>2, <1>3, <1>5 DEF Carried, SameBelow
<1>7. \A b : b # t.body => NoneNew(s, t, b)
  BY <1>1, <1>2, <1>3, <1>4 DEF NoneNew, NamingIn
<1> QED BY <1>2, <1>4, <1>5, <1>6, <1>7

LEMMA SameTracked ==
  ASSUME NEW s, NEW t, Sound(s), Sound(t), t.code = s.code, t.count = s.count, s.outer \subseteq t.outer,
         Known(s, t, Never, {}), NEW c \in Nat, c <= t.count
  PROVE  Tracked(t, c) /\ Known(t, t, Never, {})
<1>1. Carried(s, t) /\ NoneNew(s, t, t.body)
  BY SameCarried
<1>2. t.capturing => t.body \in DOMAIN t.code
  BY DEF Known
<1>3. Known(t, t, Never, {})
  BY <1>1, <1>2, CarriedKnown
<1>4. Known(t, t, <<t.failed, c>>, {})
  BY <1>3, KnownWeaker
<1> QED BY <1>3, <1>4 DEF Tracked

LEMMA Unexcused ==
  ASSUME NEW s, NEW c, Tracked(s, c), ~ s.failed
  PROVE  Known(s, s, Never, {})
BY DEF Tracked, Known, KnownUpvalues, Never

LEMMA HeadCarried ==
  ASSUME NEW p, NEW z, NEW v, NEW c, Sound(p), Carried(p, z), \A q \in DOMAIN p.code : q \in DOMAIN z.code,
         HeadOf(p, v, c), z.body = v.body, z.capturing = v.capturing
  PROVE  HeadOf(z, z, c)
<1>1. \A q \in DOMAIN p.code : q < p.count /\ q \in DOMAIN z.code
  BY DEF Sound, CodeShape, Shape
<1>2. \A q \in DOMAIN p.code : z.code[q] = p.code[q]
  BY <1>1 DEF Carried
<1> QED BY <1>2 DEF HeadOf

LEMMA OpenFacts ==
  ASSUME CodeInv
  PROVE  /\ Sound(parser) /\ parser.count \in Nat /\ parser.body \in Nat /\ parser.depth \in Nat
         /\ parser.capturing \in BOOLEAN /\ parser.body <= parser.count
         /\ parser.marks \in Seq(Mark) /\ Len(parser.marks) \in Nat
         /\ \A j \in DOMAIN open : /\ open[j].count \in Nat /\ open[j].count <= parser.count /\ FrameOk(open[j])
                                   /\ open[j].body \in Nat /\ open[j].depth \in Nat /\ open[j].body <= parser.body
                                   /\ open[j].marks \in Nat /\ open[j].marks <= Len(parser.marks)
                                   /\ open[j].kind # "if" => open[j].body # parser.body
<1>1. Mid(parser, open, parser.count, Len(parser.marks))
  BY DEF CodeInv, Settled
<1>2. /\ Sound(parser) /\ parser.count \in Nat /\ parser.body \in Nat /\ parser.depth \in Nat
      /\ parser.capturing \in BOOLEAN /\ parser.body <= parser.count
      /\ parser.marks \in Seq(Mark) /\ Len(parser.marks) \in Nat
  BY <1>1 DEF Mid, Sound, Shape, MarksOk, IsBase
<1>3. ASSUME NEW j \in DOMAIN open
      PROVE  /\ open[j].count \in Nat /\ open[j].count <= parser.count /\ FrameOk(open[j])
             /\ open[j].body \in Nat /\ open[j].depth \in Nat /\ open[j].body <= parser.body
             /\ open[j].marks \in Nat /\ open[j].marks <= Len(parser.marks)
             /\ open[j].kind # "if" => open[j].body # parser.body
  <2>1. /\ FrameOk(open[j]) /\ open[j].count <= parser.count /\ open[j].body <= parser.body
        /\ open[j].kind # "if" => open[j].body < parser.body
    BY <1>1 DEF Mid, FramesOk
  <2>2. open[j].count \in Nat /\ open[j].body \in Nat /\ open[j].depth \in Nat
    BY <2>1 DEF FrameOk, FrameSet
  <2>3. open[j].marks \in Nat /\ open[j].marks <= Len(parser.marks)
    BY <1>1 DEF Mid, MarksOk, IsBase
  <2> QED BY <1>2, <2>1, <2>2, <2>3
<1> QED BY <1>2, <1>3

\* parse() begins a statement with what it knew.
LEMMA BegunTracked ==
  ASSUME CodeInv, Named(parser, open)
  PROVE  /\ Tracked(Begun, parser.count) /\ DOMAIN Begun = Fields /\ Kept(parser, Begun, {"failed", "line", "marks"})
         /\ ~ Begun.failed /\ Begun.marks \in Seq(Mark) /\ Len(parser.marks) <= Len(Begun.marks)
         /\ Begun.outer = parser.outer
         /\ \A t : Adds(Begun, t) =>
              /\ Carried(parser, t) /\ parser.count <= t.count /\ \A q \in DOMAIN parser.code : q \in DOMAIN t.code
              /\ \A b : b # t.body => NoneNew(parser, t, b)
              /\ t.body = parser.body /\ t.depth = parser.depth /\ t.capturing = parser.capturing
              /\ t.marks = Begun.marks
<1> DEFINE b == Begun
           e == [at |-> parser.count, line |-> line + 1]
<1>1. Settled(parser, open) /\ line \in Nat /\ Sound(parser) /\ parser.count \in Nat /\ parser.marks \in Seq(Mark)
  BY OpenFacts DEF CodeInv
<1>2. /\ DOMAIN b = Fields /\ Kept(parser, b, {"failed", "line", "marks"}) /\ ~ b.failed
      /\ b.marks = Append(parser.marks, e) /\ Sound(b) /\ Mid(b, open, parser.count, Len(parser.marks))
  BY <1>1, BegunFields, BegunMid
<1>3. b.marks \in Seq(Mark) /\ Len(parser.marks) <= Len(b.marks)
  <2> HIDE DEF b
  <2> QED BY <1>2 DEF Mid, MarksOk, IsBase
<1> HIDE DEF b
<1>4. /\ b.code = parser.code /\ b.count = parser.count /\ b.outer = parser.outer /\ b.body = parser.body
      /\ b.capturing = parser.capturing /\ b.depth = parser.depth /\ b.locals = parser.locals
      /\ b.captured = parser.captured /\ b.params = parser.params
  BY <1>2 DEF Kept, Fields
<1>5. Known(parser, b, Never, {})
  BY <1>4, KnownSame DEF Named
<1>6. Tracked(b, parser.count)
  BY <1>1, <1>2, <1>4, <1>5, SameTracked
<1>7. ASSUME NEW t, Adds(b, t)
      PROVE  /\ Carried(parser, t) /\ parser.count <= t.count /\ \A q \in DOMAIN parser.code : q \in DOMAIN t.code
             /\ \A d : d # t.body => NoneNew(parser, t, d)
             /\ t.body = parser.body /\ t.depth = parser.depth /\ t.capturing = parser.capturing
             /\ t.marks = b.marks
  <2>1. /\ Carried(b, t) /\ b.count <= t.count /\ \A q \in DOMAIN b.code : q \in DOMAIN t.code
        /\ \A d : d # t.body => NoneNew(b, t, d)
        /\ t.body = b.body /\ t.depth = b.depth /\ t.capturing = b.capturing /\ t.marks = b.marks
    BY <1>2, <1>7, AddsCarried
  <2> QED BY <1>4, <2>1 DEF Carried, NoneNew
<1> QED BY <1>2, <1>3, <1>4, <1>6, <1>7 DEF b

LEMMA OneLineNames ==
  ASSUME CodeInv, Named(parser, open), NamesTracked, "define" \notin Lost, OneLine
  PROVE  Named(parser', open')
<1> DEFINE c == parser.count
           m == Len(parser.marks)
<1>1. /\ Tracked(Begun, c) /\ Begun.marks \in Seq(Mark) /\ m <= Len(Begun.marks) /\ Begun.outer = parser.outer
  BY BegunTracked
<1>2. PICK t : Grown(Begun, t, c) /\ Statement(t)
  BY <1>1, OneLineGrows
<1>3. /\ Survivable(t, c) /\ open' = open /\ parser' = RolledBack(t, c, m)
  BY <1>2 DEF Statement
<1>4. Adds(Begun, t) /\ Tracked(t, c) /\ parser.outer \subseteq t.outer
  BY <1>1, <1>2 DEF Grown
<1>5. /\ Carried(parser, t) /\ parser.count <= t.count /\ \A q \in DOMAIN parser.code : q \in DOMAIN t.code
      /\ \A b : b # t.body => NoneNew(parser, t, b)
      /\ t.body = parser.body /\ t.depth = parser.depth /\ t.capturing = parser.capturing
      /\ t.marks = Begun.marks
  BY <1>4, BegunTracked
<1>6. Sound(parser) /\ m \in Nat /\ c \in Nat
      /\ \A j \in DOMAIN open : /\ open[j].count \in Nat /\ open[j].count <= c
                                /\ open[j].kind # "if" => open[j].body # parser.body
  BY OpenFacts
<1>7. RuleInv(parser) /\ FramesKnown(parser, open) /\ HeadOf(parser, parser, c) /\ DepthOk(parser, open)
  BY DEF Named
<1>8. HeadOf(t, t, c)
  BY <1>5, <1>6, <1>7, HeadCarried
<1>9. DepthOk(t, open)
  BY <1>5, <1>7 DEF DepthOk, Around
<1> HIDE DEF c, m
<1>10. Named(RolledBack(t, c, m), open)
  BY <1>1, <1>3, <1>4, <1>5, <1>6, <1>7, <1>8, <1>9, NamedRollback
<1> QED BY <1>3, <1>10

LEMMA PushedNames ==
  ASSUME CodeInv, Named(parser, open), NEW kind, NEW name, NEW sig, FrameOf(kind, name, sig) \in FrameSet
  PROVE  LET gs == Append(open, FrameOf(kind, name, sig)) IN
         /\ FramesKnown(parser, gs) /\ DepthOk(parser, gs)
         /\ \A j \in DOMAIN gs : /\ gs[j].count \in Nat /\ gs[j].count <= parser.count
                                 /\ gs[j].body \in Nat /\ gs[j].body <= parser.body /\ gs[j].depth \in Nat
                                 /\ (j \in DOMAIN open /\ gs[j] = open[j]) \/ gs[j].kind = kind
<1> DEFINE f == FrameOf(kind, name, sig)
           gs == Append(open, f)
           n == Len(open)
<1>1. /\ f.count = parser.count /\ f.body = parser.body /\ f.depth = parser.depth /\ f.capturing = parser.capturing
      /\ f.locals = parser.locals /\ f.captured = parser.captured /\ f.params = parser.params /\ f.kind = kind
  BY DEF FrameOf
<1>2. open \in Seq(FrameSet) /\ f \in FrameSet
  BY DEF CodeInv
<1> HIDE DEF f
<1>3. /\ n \in Nat /\ DOMAIN open = 1 .. n /\ DOMAIN gs = 1 .. n + 1 /\ gs[n + 1] = f
      /\ \A j \in DOMAIN open : gs[j] = open[j]
  BY <1>2, PushedFrames
<1> HIDE DEF gs, n
<1>4. \A j \in DOMAIN gs : (j \in DOMAIN open /\ gs[j] = open[j]) \/ (j = n + 1 /\ gs[j] = f)
  BY <1>3
<1>5. /\ parser.count \in Nat /\ parser.body \in Nat /\ parser.depth \in Nat
      /\ \A j \in DOMAIN open : /\ open[j].count \in Nat /\ open[j].count <= parser.count
                                /\ open[j].body \in Nat /\ open[j].depth \in Nat /\ open[j].body <= parser.body
  BY OpenFacts
<1>6. /\ FramesKnown(parser, open) /\ DepthOk(parser, open) /\ Known(parser, parser, Never, {})
      /\ HeadOf(parser, parser, parser.count)
  BY DEF Named
<1>7. FramesKnown(parser, gs)
  <2>1. HeadOf(parser, f, f.count)
    BY <1>1, <1>6 DEF HeadOf
  <2>2. Known(parser, f, Never, {})
    BY <1>1, <1>6, KnownSame
  <2> QED BY <1>4, <1>6, <2>1, <2>2 DEF FramesKnown
<1>8. DepthOk(parser, gs)
  <2>1. Around(f, parser)
    BY <1>1, <1>5 DEF Around
  <2>2. \A j \in DOMAIN open : Around(open[j], parser) /\ Around(open[j], f)
    BY <1>1, <1>6 DEF DepthOk, Around
  <2>3. ASSUME NEW j \in DOMAIN gs, NEW k \in DOMAIN gs, j < k PROVE Around(gs[j], gs[k])
    <3>1. j \in DOMAIN open /\ gs[j] = open[j]
      BY <1>3, <2>3
    <3>2. CASE k \in DOMAIN open /\ gs[k] = open[k]
      BY <1>6, <2>3, <3>1, <3>2 DEF DepthOk
    <3>3. CASE gs[k] = f
      BY <2>2, <3>1, <3>3
    <3> QED BY <1>4, <3>2, <3>3
  <2>4. \A j \in DOMAIN gs : Around(gs[j], parser)
    BY <1>4, <2>1, <2>2
  <2> QED BY <2>3, <2>4 DEF DepthOk
<1>9. ASSUME NEW j \in DOMAIN gs
      PROVE  /\ gs[j].count \in Nat /\ gs[j].count <= parser.count
             /\ gs[j].body \in Nat /\ gs[j].body <= parser.body /\ gs[j].depth \in Nat
             /\ (j \in DOMAIN open /\ gs[j] = open[j]) \/ gs[j].kind = kind
  BY <1>1, <1>4, <1>5
<1> QED BY <1>7, <1>8, <1>9 DEF gs, f

LEMMA IfBeginsNames ==
  ASSUME CodeInv, Named(parser, open), NamesTracked, IfBegins
  PROVE  Named(parser', open')
<1> DEFINE b == Begun
           s1 == chunk_emit(b, "PUSH", 2, 0, 0)
           s2 == chunk_emit(s1, "JUMP_IF_FALSE", 2, 0, 0)
           u == chunk_emit(s2, "PUSH_SCOPE", 1, 0, 0)
           gs == Append(open, FrameOf("if", Callee, <<>>))
           c == parser.count
<1>1. parser' = u /\ open' = gs
  BY DEF IfBegins, BlockBegins
<1>2. Tracked(b, c) /\ ~ b.failed /\ b.outer = parser.outer
  BY BegunTracked
<1>p. {"PUSH", "JUMP_IF_FALSE", "PUSH_SCOPE"} \subseteq Silent /\ 1 \in Nat \ {0} /\ 2 \in Nat \ {0}
  BY DEF Silent
<1> HIDE DEF b, c
<1>3. Tracked(s1, c) /\ Kept(b, s1, {"code", "count"}) /\ Adds(b, s1)
  BY <1>2, <1>p, SilentTracked
<1> HIDE DEF s1
<1>4. Tracked(s2, c) /\ Kept(s1, s2, {"code", "count"}) /\ Adds(s1, s2)
  BY <1>3, <1>p, SilentTracked
<1> HIDE DEF s2
<1>5. Tracked(u, c) /\ Kept(s2, u, {"code", "count"}) /\ Adds(s2, u)
  BY <1>4, <1>p, SilentTracked
<1> HIDE DEF u, gs
<1>6. Adds(b, u) /\ ~ u.failed /\ u.outer = parser.outer
  <2>1. Adds(b, s2)
    BY <1>2, <1>3, <1>4, AddsTransitive DEF Tracked
  <2>2. Adds(b, u)
    BY <1>2, <1>5, <2>1, AddsTransitive DEF Tracked
  <2> QED BY <1>2, <1>3, <1>4, <1>5, <2>2 DEF Kept, Fields
<1>7. /\ Carried(parser, u) /\ parser.count <= u.count /\ \A q \in DOMAIN parser.code : q \in DOMAIN u.code
      /\ \A d : d # u.body => NoneNew(parser, u, d)
      /\ u.body = parser.body /\ u.depth = parser.depth /\ u.capturing = parser.capturing
  BY <1>6, BegunTracked DEF b
<1>8. FrameOf("if", Callee, <<>>) \in FrameSet
  <2>1. "if" \in {"function", "closure", "if"} /\ <<>> \in Signature \cup {<<>>} /\ Callee \in Name \cup {Callee}
    OBVIOUS
  <2> QED BY <2>1, FrameFacts DEF FrameOk
<1>9. /\ FramesKnown(parser, gs) /\ DepthOk(parser, gs)
      /\ \A j \in DOMAIN gs : /\ gs[j].count \in Nat /\ gs[j].count <= parser.count
                              /\ (j \in DOMAIN open /\ gs[j] = open[j]) \/ gs[j].kind = "if"
  BY <1>8, PushedNames DEF gs
<1>10. /\ Sound(parser) /\ parser.capturing \in BOOLEAN /\ parser.count \in Nat
       /\ \A j \in DOMAIN open : open[j].kind # "if" => open[j].body # parser.body
  BY OpenFacts
<1>11. \A j \in DOMAIN gs : gs[j].kind # "if" => gs[j].body # u.body
  BY <1>7, <1>9, <1>10
<1>12. RuleInv(parser) /\ HeadOf(parser, parser, parser.count)
  BY DEF Named
<1>13. HeadOf(u, u, parser.count)
  BY <1>7, <1>10, <1>12, HeadCarried
<1>14. HeadOf(u, u, u.count)
  <2>1. u.body \in Nat /\ u.count \in Nat
    BY <1>5 DEF Tracked, Sound, Shape
  <2> QED BY <1>7, <1>10, <1>13, <2>1 DEF HeadOf
<1>15. DepthOk(u, gs)
  BY <1>7, <1>9 DEF DepthOk, Around
<1>16. Known(u, u, Never, {})
  BY <1>5, <1>6, Unexcused
<1>17. Named(u, gs)
  BY <1>6, <1>7, <1>9, <1>10, <1>11, <1>12, <1>14, <1>15, <1>16, NamedStep
<1> QED BY <1>1, <1>17

LEMMA CarriedTransitive ==
  ASSUME NEW s, NEW t, NEW u, Sound(s), Sound(t), s.count <= t.count,
         Carried(s, t), \A q \in DOMAIN s.code : q \in DOMAIN t.code, Carried(t, u)
  PROVE  Carried(s, u)
<1>1. s.count \in Nat /\ \A o \in DOMAIN s.code : o \in Nat /\ o < s.count
  BY CodeBelow
<1>2. t.count \in Nat
  BY DEF Sound, Shape
<1>3. \A q \in DOMAIN u.code : q \in Nat /\ (q < s.count => q \in DOMAIN s.code /\ u.code[q] = s.code[q])
  BY <1>1, <1>2 DEF Carried
<1>4. ASSUME NEW o \in DOMAIN s.code, s.code[o].op = "DEFINE" PROVE o \in DOMAIN u.code /\ o < u.count
  <2>1. o \in DOMAIN t.code /\ t.code[o] = s.code[o]
    BY <1>1 DEF Carried
  <2> QED BY <1>4, <2>1 DEF Carried
<1> QED BY <1>3, <1>4 DEF Carried

LEMMA EnteredNames ==
  ASSUME NEW s, Sound(s)
  PROVE  LET e == Entered(s) IN
         /\ e.depth = s.depth + 1 /\ e.outer = (IF s.depth = 0 THEN {} ELSE s.outer)
         /\ e.locals = s.locals /\ e.captured = s.captured /\ e.capturing = s.capturing /\ e.failed = s.failed
         /\ e.lastCall = s.lastCall
<1> DEFINE t == chunk_emit(s, "JUMP", 2, 0, 0)
           e == Entered(s)
<1>1. DOMAIN s = Fields
  BY DEF Sound, Shape
<1>2. DOMAIN t = Fields /\ Kept(s, t, {"code", "count"})
  BY <1>1, EmitFields
<1>3. e = [t EXCEPT !.depth = @ + 1, !.body = t.count, !.params = <<>>, !.outer = IF s.depth = 0 THEN {} ELSE @]
  BY DEF Entered
<1> HIDE DEF t, e
<1>4. /\ t.depth = s.depth /\ t.outer = s.outer /\ t.locals = s.locals /\ t.captured = s.captured
      /\ t.capturing = s.capturing /\ t.failed = s.failed /\ t.lastCall = s.lastCall
  BY <1>2 DEF Kept, Fields
<1>5. /\ e.depth = t.depth + 1 /\ e.outer = (IF s.depth = 0 THEN {} ELSE t.outer)
      /\ e.locals = t.locals /\ e.captured = t.captured /\ e.capturing = t.capturing /\ e.failed = t.failed
      /\ e.lastCall = t.lastCall
  BY <1>2, <1>3 DEF Fields
<1> QED BY <1>4, <1>5 DEF e

\* The parameters of a function, last first.
LEMMA ParamsTracked ==
  ASSUME NamesTracked, NEW b, NEW c, Tracked(b, c), b.capturing => b.captured = <<>>,
         NEW params, NEW n \in Nat, \A i \in 1 .. n : params[i] \in Name,
         NEW w, ParamStates(w, b, params, n, n)
  PROVE  Grown(b, w[n], c) /\ w[n].failed = b.failed
<1> DEFINE Good(s) == Grown(b, s, c) /\ s.failed = b.failed /\ s.capturing = b.capturing /\ s.captured = b.captured
           G == {k \in Nat : k <= n => Good(w[k])}
<1>1. /\ w[0] = b
      /\ \A k \in 1 .. n : w[k] = emit_define_param(w[k - 1], params[n + 1 - k])
  BY DEF ParamStates
<1>2. 0 \in G
  <2>1. Grown(b, b, c)
    BY AddsSelf DEF Grown, Tracked
  <2> QED BY <1>1, <2>1
<1>3. ASSUME NEW k \in Nat, k \in G PROVE k + 1 \in G
  <2> SUFFICES ASSUME k + 1 <= n PROVE Good(w[k + 1])
    OBVIOUS
  <2>1. k + 1 \in 1 .. n /\ n + 1 - (k + 1) \in 1 .. n /\ k <= n /\ (k + 1) - 1 = k
    OBVIOUS
  <2>2. Good(w[k])
    BY <1>3, <2>1
  <2> DEFINE s == w[k]
             p == params[n + 1 - (k + 1)]
             u == emit_define_param(s, p)
  <2>3. w[k + 1] = u /\ p \in Name
    BY <1>1, <2>1
  <2>4. Tracked(s, c) /\ Sound(s) /\ (s.capturing => s.captured = <<>>)
    BY <2>2 DEF Grown, Tracked
  <2> HIDE DEF s, p
  <2>5. Adds(s, u) /\ Kept(s, u, {"code", "count", "locals", "outer", "params"})
    BY <2>3, <2>4, ParamAdds
  <2>6. Tracked(u, c) /\ s.outer \subseteq u.outer
    BY <2>3, <2>4, ParamTracked
  <2> HIDE DEF u
  <2>7. Grown(b, u, c)
    <3>1. Grown(s, u, c)
      BY <2>5, <2>6 DEF Grown
    <3>2. Grown(b, s, c)
      BY <2>2 DEF s
    <3> QED BY <3>1, <3>2, GrownTransitive
  <2>8. u.failed = s.failed /\ u.capturing = s.capturing /\ u.captured = s.captured
    BY <2>5 DEF Kept, Fields
  <2>9. Good(u)
    BY <2>2, <2>7, <2>8 DEF s
  <2> HIDE DEF Good
  <2> QED BY <2>3, <2>9
<1>4. n \in G
  <2> HIDE DEF G
  <2> QED BY <1>2, <1>3, SetInduction
<1> QED BY <1>4

\* The first instruction of a body, and nothing known or to be known yet.
LEMMA BodyBegins ==
  ASSUME NEW p, Sound(p), Known(p, p, Never, {}),
         NEW u, Sound(u), u.code = p.code, u.count = p.count, u.body = p.body, u.depth = p.depth, u.outer = p.outer,
         ~ u.failed, u.capturing => p.depth = 1 /\ u.locals = {} /\ u.captured = <<>>
  PROVE  LET e == Entered(u)
             x == chunk_emit(e, "PUSH_SCOPE", 1, u.body, u.capturing)
         IN  /\ Tracked(x, e.count) /\ Carried(p, x) /\ \A b : NoneNew(p, x, b)
             /\ p.count <= x.count /\ \A q \in DOMAIN p.code : q \in DOMAIN x.code
             /\ x.body = p.count + 2 /\ x.body \in DOMAIN x.code /\ x.body < x.count
             /\ x.code[x.body].meant = x.capturing
             /\ x.depth = p.depth + 1 /\ x.outer = (IF p.depth = 0 THEN {} ELSE p.outer) /\ ~ x.failed
             /\ x.capturing => x.captured = <<>>
<1> DEFINE t == chunk_emit(u, "JUMP", 2, 0, 0)
           e == Entered(u)
           x == chunk_emit(e, "PUSH_SCOPE", 1, u.body, u.capturing)
<1>0. "JUMP" \in Plain /\ "PUSH_SCOPE" \in Plain /\ 1 \in Nat \ {0} /\ 2 \in Nat \ {0}
      /\ "JUMP" \notin Naming /\ "PUSH_SCOPE" \notin Naming
  BY DEF Plain, Naming, NameOp
<1>1. /\ p.count \in Nat /\ p.depth \in Nat
      /\ \A o \in DOMAIN p.code : o \in Nat /\ o < p.count /\ p.code[o].body \in Nat /\ p.code[o].body <= o
  BY DEF Sound, Shape, CodeShape
<1>2. /\ Sound(t) /\ Kept(u, t, {"code", "count"}) /\ t.count = u.count + 2
      /\ \A o \in DOMAIN t.code : (o \in DOMAIN u.code /\ t.code[o] = u.code[o])
                                  \/ (o = u.count /\ t.code[o] = Instruction(u, "JUMP", 2, 0, 0))
      /\ \A o \in DOMAIN u.code : o \in DOMAIN t.code /\ t.code[o] = u.code[o]
  BY <1>0, PlainKeeps, EmitCarried
<1>3. /\ e.code = t.code /\ DOMAIN e = Fields /\ Kept(u, e, EnteredKept) /\ Shape(e)
      /\ e.count = u.count + 2 /\ e.body = u.count + 2
      /\ e.depth = u.depth + 1 /\ e.outer = (IF u.depth = 0 THEN {} ELSE u.outer)
      /\ e.locals = u.locals /\ e.captured = u.captured /\ e.capturing = u.capturing /\ e.failed = u.failed
      /\ e.lastCall = u.lastCall
  BY EnteredFields, EnteredNames
<1> HIDE DEF e, t
<1>4. Sound(e)
  <2>1. t.lastCall = u.lastCall
    BY <1>2 DEF Kept, Fields
  <2> QED BY <1>2, <1>3, <2>1, SoundSame
<1>5. /\ Sound(x) /\ Kept(e, x, {"code", "count"}) /\ x.count = e.count + 1
      /\ \A o \in DOMAIN x.code : (o \in DOMAIN e.code /\ x.code[o] = e.code[o])
                                  \/ (o = e.count /\ x.code[o] = Instruction(e, "PUSH_SCOPE", 1, u.body, u.capturing))
      /\ e.count \in DOMAIN x.code /\ x.code[e.count] = Instruction(e, "PUSH_SCOPE", 1, u.body, u.capturing)
      /\ \A o \in DOMAIN e.code : o \in DOMAIN x.code /\ x.code[o] = e.code[o]
  BY <1>0, <1>4, PlainKeeps, EmitCarried
<1> HIDE DEF x
<1>6. /\ x.body = p.count + 2 /\ x.depth = p.depth + 1 /\ x.outer = (IF p.depth = 0 THEN {} ELSE p.outer)
      /\ x.locals = u.locals /\ x.captured = u.captured /\ x.capturing = u.capturing /\ ~ x.failed
      /\ x.count = p.count + 3 /\ e.count = p.count + 2 /\ x.capturing \in BOOLEAN
  <2>1. /\ x.body = e.body /\ x.depth = e.depth /\ x.outer = e.outer /\ x.locals = e.locals
        /\ x.captured = e.captured /\ x.capturing = e.capturing /\ x.failed = e.failed
    BY <1>5 DEF Kept, Fields
  <2>2. x.capturing \in BOOLEAN
    BY <1>5 DEF Sound, Shape
  <2> QED BY <1>1, <1>3, <1>5, <2>1, <2>2
<1>7. /\ x.body \in DOMAIN x.code /\ x.code[x.body].arg = p.body /\ x.code[x.body].meant = x.capturing
      /\ x.body < x.count
  BY <1>1, <1>5, <1>6 DEF Instruction
<1>8. \A o \in DOMAIN x.code :
        \/ o \in DOMAIN p.code /\ x.code[o] = p.code[o]
        \/ o \in {p.count, p.count + 2} /\ x.code[o].op \notin Naming
  BY <1>0, <1>2, <1>3, <1>5, <1>6 DEF Instruction
<1>9. \A q \in DOMAIN p.code : q \in DOMAIN x.code /\ x.code[q] = p.code[q]
  BY <1>2, <1>3, <1>5
<1>10. Carried(p, x)
  <2>1. \A q \in DOMAIN x.code : q \in Nat /\ (q < p.count => q \in DOMAIN p.code /\ x.code[q] = p.code[q])
    BY <1>1, <1>8
  <2>2. \A o \in DOMAIN p.code : o < x.count
    BY <1>1, <1>6
  <2> QED BY <1>9, <2>1, <2>2 DEF Carried
<1>11. \A b : \A o \in NamingIn(x, b) : o \in NamingIn(p, b) /\ x.code[o] = p.code[o]
  BY <1>8 DEF NamingIn
<1>12. \A b : NoneNew(p, x, b)
  BY <1>1, <1>11 DEF NoneNew, NamingIn
<1>13. NamingIn(x, x.body) = {}
  <2> SUFFICES ASSUME NEW o \in NamingIn(x, x.body) PROVE FALSE
    OBVIOUS
  <2>1. o \in DOMAIN p.code /\ p.code[o].body = p.count + 2
    BY <1>6, <1>11 DEF NamingIn
  <2>2. p.code[o].body <= o /\ o < p.count /\ o \in Nat
    BY <1>1, <2>1
  <2> QED BY <1>1, <2>1, <2>2
<1>14. Known(x, x, <<x.failed, e.count>>, {})
  <2>1. KnownUpvalues(x, x, <<x.failed, e.count>>) /\ KnownOuter(x, x)
    BY <1>13 DEF KnownUpvalues, KnownOuter
  <2>2. ASSUME x.capturing
        PROVE  /\ x.depth = 2 /\ x.body \in DOMAIN x.code /\ x.body # 0
               /\ KnownLocals(x, x, {}) /\ OwnNames(x, x.body) /\ KnownBefore(x, x)
    <3>1. p.depth = 1 /\ x.locals = {} /\ u.capturing
      BY <1>6, <2>2
    <3>2. KnownLocals(x, x, {}) /\ OwnNames(x, x.body)
      BY <1>13, <3>1 DEF KnownLocals, OwnNames
    <3>3. ASSUME NEW q \in Before(x, x.body) PROVE x.code[q].meant \in x.outer
      <4>1. q \in NamingIn(x, p.body) /\ x.code[q].op \in Stores
        BY <1>7 DEF Before
      <4>2. q \in NamingIn(p, p.body) /\ x.code[q] = p.code[q]
        BY <1>11, <4>1
      <4>3. p.code[q].meant \in p.outer
        BY <3>1, <4>1, <4>2 DEF Known, KnownOuter
      <4> QED BY <1>6, <3>1, <4>2, <4>3
    <3> QED BY <1>1, <1>6, <1>7, <3>1, <3>2, <3>3 DEF KnownBefore
  <2> QED BY <2>1, <2>2 DEF Known
<1>15. Tracked(x, e.count)
  BY <1>1, <1>5, <1>6, <1>14 DEF Tracked
<1>16. x.capturing => x.captured = <<>>
  BY <1>6
<1> QED BY <1>1, <1>6, <1>7, <1>9, <1>10, <1>12, <1>15, <1>16 DEF x, e

LEMMA EnteredGrows ==
  ASSUME NamesTracked, NEW u, NEW c, NEW sig \in Signature,
         LET a == chunk_emit(Entered(u), "PUSH_SCOPE", 1, u.body, u.capturing) IN
         Tracked(a, c) /\ (a.capturing => a.captured = <<>>)
  PROVE  LET a == chunk_emit(Entered(u), "PUSH_SCOPE", 1, u.body, u.capturing) IN
         Grown(a, EnterFunction(u, sig), c) /\ EnterFunction(u, sig).failed = a.failed
<1> DEFINE a == chunk_emit(Entered(u), "PUSH_SCOPE", 1, u.body, u.capturing)
           n == Len(sig.params)
<1>1. n \in Nat /\ \A i \in 1 .. n : sig.params[i] \in Name
  <2>1. sig.params \in Seq(Name)
    BY DEF Signature
  <2> QED BY <2>1, SeqFacts
<1>2. PICK w : ParamStates(w, a, sig.params, n, n) /\ EnterFunction(u, sig) = w[n]
  BY <1>1, EnterFunctionStates
<1>3. Tracked(a, c) /\ (a.capturing => a.captured = <<>>)
  OBVIOUS
<1> HIDE DEF a, n
<1>4. Grown(a, w[n], c) /\ w[n].failed = a.failed
  BY <1>1, <1>2, <1>3, ParamsTracked
<1> QED BY <1>2, <1>4 DEF a

LEMMA FunctionNames ==
  ASSUME CodeInv, Named(parser, open), NamesTracked,
         NEW u, Sound(u), Kept(Begun, u, {"capturing", "locals", "captured"}),
         u.capturing => parser.depth = 1 /\ u.locals = {} /\ u.captured = <<>>,
         NEW kind, NEW name, NEW sig \in Signature, FrameOf(kind, name, sig) \in FrameSet
  PROVE  Named(EnterFunction(u, sig), Append(open, FrameOf(kind, name, sig)))
<1> DEFINE e == Entered(u)
           a == chunk_emit(e, "PUSH_SCOPE", 1, u.body, u.capturing)
           c == e.count
           gs == Append(open, FrameOf(kind, name, sig))
<1>1. /\ DOMAIN Begun = Fields /\ Kept(parser, Begun, {"failed", "line", "marks"}) /\ ~ Begun.failed
  BY BegunTracked
<1>2. /\ u.code = parser.code /\ u.count = parser.count /\ u.body = parser.body /\ u.depth = parser.depth
      /\ u.outer = parser.outer /\ ~ u.failed
  BY <1>1 DEF Kept, Fields
<1>3. /\ Sound(parser) /\ parser.count \in Nat /\ parser.body \in Nat /\ parser.depth \in Nat
      /\ parser.body <= parser.count
  BY OpenFacts
<1>4. RuleInv(parser) /\ Known(parser, parser, Never, {})
  BY DEF Named
<1>5. /\ Tracked(a, c) /\ Carried(parser, a) /\ \A b : NoneNew(parser, a, b)
      /\ parser.count <= a.count /\ \A q \in DOMAIN parser.code : q \in DOMAIN a.code
      /\ a.body = parser.count + 2 /\ a.body \in DOMAIN a.code /\ a.body < a.count
      /\ a.code[a.body].meant = a.capturing
      /\ a.depth = parser.depth + 1 /\ a.outer = (IF parser.depth = 0 THEN {} ELSE parser.outer) /\ ~ a.failed
      /\ (a.capturing => a.captured = <<>>)
  BY <1>2, <1>3, <1>4, BodyBegins
<1> DEFINE x == EnterFunction(u, sig)
<1>8. Grown(a, x, c) /\ x.failed = a.failed
  BY <1>5, EnteredGrows
<1> HIDE DEF a, c
<1> HIDE DEF x
<1>9. Sound(a) /\ Adds(a, x) /\ Tracked(x, c) /\ a.outer \subseteq x.outer /\ Sound(x)
  BY <1>5, <1>8 DEF Tracked, Grown
<1>10. /\ Carried(a, x) /\ a.count <= x.count /\ \A q \in DOMAIN a.code : q \in DOMAIN x.code
       /\ \A b : b # x.body => NoneNew(a, x, b)
       /\ x.body = a.body /\ x.depth = a.depth /\ x.capturing = a.capturing
  BY <1>9, AddsCarried
<1>11. x.count \in Nat /\ a.count \in Nat /\ x.capturing \in BOOLEAN
  <2>1. x.count \in Nat /\ x.capturing \in BOOLEAN
    BY <1>9 DEF Sound, Shape
  <2>2. a.count \in Nat
    BY <1>9, CodeBelow
  <2> QED BY <2>1, <2>2
<1>12. Carried(parser, x)
  BY <1>3, <1>5, <1>9, <1>10, CarriedTransitive
<1>13. ASSUME NEW b, b # x.body PROVE NoneNew(parser, x, b)
  <2> SUFFICES ASSUME NEW o \in NamingIn(x, b) PROVE o < parser.count
    BY DEF NoneNew
  <2>1. o < a.count /\ o \in DOMAIN x.code
    BY <1>10, <1>13 DEF NoneNew, NamingIn
  <2>2. o \in DOMAIN a.code /\ x.code[o] = a.code[o]
    BY <1>10, <2>1 DEF Carried
  <2>3. o \in NamingIn(a, b)
    BY <2>2 DEF NamingIn
  <2> QED BY <1>5, <2>3 DEF NoneNew
<1>14. \A q \in DOMAIN parser.code : q \in DOMAIN x.code
  BY <1>5, <1>10
<1>15. /\ FramesKnown(parser, gs) /\ DepthOk(parser, gs)
       /\ \A j \in DOMAIN gs : /\ gs[j].count \in Nat /\ gs[j].count <= parser.count
                               /\ gs[j].body \in Nat /\ gs[j].body <= parser.body /\ gs[j].depth \in Nat
  BY PushedNames
<1> HIDE DEF gs
<1>16. \A j \in DOMAIN gs : gs[j].depth <= parser.depth
  BY <1>15 DEF DepthOk, Around
<1>17. ASSUME NEW j \in DOMAIN gs
       PROVE  /\ gs[j].body # x.body /\ gs[j].depth < x.depth
              /\ gs[j].depth # 0 => parser.outer \subseteq x.outer
  <2>1. gs[j].body \in Nat /\ gs[j].body <= parser.body /\ gs[j].depth \in Nat /\ gs[j].depth <= parser.depth
    BY <1>15, <1>16
  <2>2. gs[j].body # x.body /\ gs[j].depth < x.depth
    BY <1>3, <1>5, <1>10, <2>1
  <2>3. gs[j].depth # 0 => parser.depth # 0
    BY <1>3, <2>1
  <2> QED BY <1>5, <1>9, <2>2, <2>3
<1>18. HeadOf(x, x, x.count)
  <2>1. a.body \in DOMAIN x.code /\ x.code[a.body] = a.code[a.body]
    BY <1>5, <1>10 DEF Carried
  <2>2. x.body < x.count /\ x.body # 0
    BY <1>3, <1>5, <1>10, <1>11
  <2> QED BY <1>5, <1>10, <2>1, <2>2 DEF HeadOf
<1>19. DepthOk(x, gs)
  <2>1. \A j \in DOMAIN gs : Around(gs[j], x)
    <3> SUFFICES ASSUME NEW j \in DOMAIN gs PROVE Around(gs[j], x)
      OBVIOUS
    <3>1. gs[j].body # x.body /\ gs[j].depth < x.depth /\ gs[j].depth \in Nat /\ x.depth \in Nat
      BY <1>3, <1>5, <1>10, <1>15, <1>17
    <3>2. gs[j].depth <= x.depth /\ gs[j].depth # x.depth
      BY <3>1
    <3> QED BY <3>1, <3>2 DEF Around
  <2> QED BY <1>15, <2>1 DEF DepthOk
<1>20. Known(x, x, Never, {})
  BY <1>5, <1>8, <1>9, Unexcused
<1>21. Named(x, gs)
  BY <1>3, <1>4, <1>11, <1>12, <1>13, <1>14, <1>15, <1>17, <1>18, <1>19, <1>20, NamedStep
<1> QED BY <1>21 DEF x, gs

\* What a function puts aside before its first instruction.
LEMMA FunctionStates ==
  ASSUME CodeInv
  PROVE  /\ LET u == [Begun EXCEPT !.capturing = FALSE] IN
            Sound(u) /\ Kept(Begun, u, {"capturing", "locals", "captured"}) /\ ~ u.capturing
         /\ LET u == [Begun EXCEPT !.capturing = TRUE, !.locals = {}, !.captured = <<>>] IN
            Sound(u) /\ Kept(Begun, u, {"capturing", "locals", "captured"}) /\ u.locals = {} /\ u.captured = <<>>
<1> DEFINE b == Begun
<1>1. Sound(b) /\ DOMAIN b = Fields
  BY BegunMid, BegunFields DEF CodeInv
<1>2. LET u == [b EXCEPT !.capturing = FALSE] IN
      Sound(u) /\ Kept(b, u, {"capturing", "locals", "captured"}) /\ ~ u.capturing
  <2> DEFINE u == [b EXCEPT !.capturing = FALSE]
  <2>1. DOMAIN u = Fields /\ Kept(b, u, {"capturing"}) /\ u.capturing = FALSE
    BY <1>1 DEF Fields, Kept
  <2> HIDE DEF u, b
  <2>2. /\ u.code = b.code /\ u.count = b.count /\ u.lastCall = b.lastCall /\ u.depth = b.depth /\ u.line = b.line
        /\ u.body = b.body /\ u.failed = b.failed /\ u.locals = b.locals /\ u.outer = b.outer
        /\ u.captured = b.captured /\ u.params = b.params
    BY <2>1 DEF Kept, Fields
  <2>3. Shape(u)
    BY <1>1, <2>1, <2>2 DEF Sound, Shape
  <2>4. Kept(b, u, {"capturing", "locals", "captured"})
    BY <2>1 DEF Kept
  <2> QED BY <1>1, <2>1, <2>2, <2>3, <2>4, SoundSame DEF u
<1>3. LET u == [b EXCEPT !.capturing = TRUE, !.locals = {}, !.captured = <<>>] IN
      Sound(u) /\ Kept(b, u, {"capturing", "locals", "captured"}) /\ u.locals = {} /\ u.captured = <<>>
  <2> DEFINE u == [b EXCEPT !.capturing = TRUE, !.locals = {}, !.captured = <<>>]
  <2>1. /\ DOMAIN u = Fields /\ Kept(b, u, {"capturing", "locals", "captured"})
        /\ u.capturing = TRUE /\ u.locals = {} /\ u.captured = <<>>
    BY <1>1 DEF Fields, Kept
  <2> HIDE DEF u, b
  <2>2. /\ u.code = b.code /\ u.count = b.count /\ u.lastCall = b.lastCall /\ u.depth = b.depth /\ u.line = b.line
        /\ u.body = b.body /\ u.failed = b.failed /\ u.outer = b.outer /\ u.params = b.params
    BY <2>1 DEF Kept, Fields
  <2>3. u.captured \in Seq(Name) /\ Len(u.captured) <= CaptureMax /\ u.locals \subseteq Name /\ u.capturing \in BOOLEAN
    <3>1. CaptureMax \in Nat
      BY BytecodeAssumption
    <3>2. <<>> \in Seq(Name) /\ Len(<<>>) = 0
      OBVIOUS
    <3>3. Len(u.captured) = 0 /\ u.captured \in Seq(Name)
      BY <2>1, <3>2
    <3>4. u.locals \subseteq Name /\ u.capturing \in BOOLEAN
      BY <2>1
    <3> QED BY <3>1, <3>3, <3>4
  <2>4. Shape(u)
    BY <1>1, <2>1, <2>2, <2>3 DEF Sound, Shape
  <2> QED BY <1>1, <2>1, <2>2, <2>4, SoundSame DEF u
<1> QED BY <1>2, <1>3 DEF b

LEMMA FunctionBeginsNames ==
  ASSUME CodeInv, Named(parser, open), NamesTracked, FunctionBegins \/ ClosureBegins
  PROVE  Named(parser', open')
<1> DEFINE b == Begun
           plain == [b EXCEPT !.capturing = FALSE]
           capture == [b EXCEPT !.capturing = TRUE, !.locals = {}, !.captured = <<>>]
<1>1. /\ Sound(plain) /\ Kept(b, plain, {"capturing", "locals", "captured"}) /\ ~ plain.capturing
      /\ Sound(capture) /\ Kept(b, capture, {"capturing", "locals", "captured"})
      /\ capture.locals = {} /\ capture.captured = <<>>
  BY FunctionStates
<1>k. {"function", "closure"} \subseteq {"function", "closure", "if"} /\ "function" # "if" /\ "closure" # "if"
      /\ Signature \subseteq Signature \cup {<<>>} /\ Callee \in Name \cup {Callee} /\ "function" # "closure"
      /\ Name \subseteq Name \cup {Callee}
  OBVIOUS
<1>2. CASE FunctionBegins
  <2>1. PICK l \in Lines("function") :
          BlockBegins(EnterFunction(plain, l.with), FrameOf("function", Callee, l.with))
    BY <1>2 DEF FunctionBegins
  <2>2. l.with \in Signature
    BY TextFacts
  <2> HIDE DEF plain, b
  <2>3. FrameOf("function", Callee, l.with) \in FrameSet
    BY <1>k, <2>2, FrameFacts DEF FrameOk
  <2>4. Named(EnterFunction(plain, l.with), Append(open, FrameOf("function", Callee, l.with)))
    BY <1>1, <2>2, <2>3, FunctionNames DEF b
  <2> QED BY <2>1, <2>4 DEF BlockBegins
<1>3. CASE ClosureBegins
  <2>1. PICK l \in Lines("closure") :
          LET s == IF parser.depth = 1 THEN capture ELSE plain
          IN  BlockBegins(EnterFunction(s, l.with), FrameOf("closure", l.name, l.with))
    BY <1>3, Zenon DEF ClosureBegins
  <2>2. l.with \in Signature /\ l.name \in Name
    BY TextFacts
  <2> DEFINE u == IF parser.depth = 1 THEN capture ELSE plain
  <2>3. BlockBegins(EnterFunction(u, l.with), FrameOf("closure", l.name, l.with))
    BY <2>1
  <2> HIDE DEF plain, capture, b
  <2>4. FrameOf("closure", l.name, l.with) \in FrameSet
    BY <1>k, <2>2, FrameFacts DEF FrameOk
  <2>5. /\ Sound(u) /\ Kept(b, u, {"capturing", "locals", "captured"})
        /\ u.capturing => parser.depth = 1 /\ u.locals = {} /\ u.captured = <<>>
    BY <1>1
  <2> HIDE DEF u
  <2>6. Named(EnterFunction(u, l.with), Append(open, FrameOf("closure", l.name, l.with)))
    BY <2>2, <2>4, <2>5, FunctionNames DEF b
  <2> QED BY <2>3, <2>6 DEF BlockBegins
<1> QED BY <1>2, <1>3

LEMMA CarriedNews ==
  ASSUME NEW s, NEW t, NEW u, Sound(s), Sound(t), NothingNew(s, t),
         Carried(t, u), t.count <= u.count, \A q \in DOMAIN t.code : q \in DOMAIN u.code, u.count \in Nat
  PROVE  /\ s.count <= u.count /\ Carried(s, u) /\ \A q \in DOMAIN s.code : q \in DOMAIN u.code
         /\ \A b : NoneNew(t, u, b) => NoneNew(s, u, b)
<1>1. s.count \in Nat /\ t.count \in Nat
  BY CodeBelow
<1>2. Carried(s, u)
  BY CarriedTransitive DEF NothingNew
<1>3. ASSUME NEW b, NoneNew(t, u, b) PROVE NoneNew(s, u, b)
  <2> SUFFICES ASSUME NEW o \in NamingIn(u, b) PROVE o < s.count
    BY DEF NoneNew
  <2>1. o < t.count /\ o \in DOMAIN u.code
    BY <1>3 DEF NoneNew, NamingIn
  <2>2. o \in DOMAIN t.code /\ u.code[o] = t.code[o]
    BY <2>1 DEF Carried
  <2>3. o \in NamingIn(t, b)
    BY <2>2 DEF NamingIn
  <2> QED BY <2>3 DEF NoneNew, NothingNew
<1> QED BY <1>1, <1>2, <1>3 DEF NothingNew

LEMMA VoidNews ==
  ASSUME NEW p, Sound(p)
  PROVE  NothingNew(p, Void(p))
<1> DEFINE u == chunk_emit(p, "PUSH", 2, 0, 0)
           v == chunk_emit(u, "RETURN", 1, 0, 0)
<1>1. "PUSH" \in Plain /\ "RETURN" \in Plain /\ 1 \in Nat \ {0} /\ 2 \in Nat \ {0}
      /\ "PUSH" \notin Naming /\ "RETURN" \notin Naming
  BY DEF Plain, Naming, NameOp
<1>2. Sound(u) /\ u.count = p.count + 2 /\ Carried(p, u) /\ (\A b : NoneNew(p, u, b))
      /\ \A q \in DOMAIN p.code : q \in DOMAIN u.code
  BY <1>1, PlainKeeps, EmitCarried
<1>v. Void(p) = v
  BY DEF Void
<1> HIDE DEF u
<1>3. Sound(v) /\ v.count = u.count + 1 /\ Carried(u, v) /\ (\A b : NoneNew(u, v, b))
      /\ \A q \in DOMAIN u.code : q \in DOMAIN v.code
  BY <1>1, <1>2, PlainKeeps, EmitCarried
<1> HIDE DEF v
<1>4. p.count \in Nat /\ u.count \in Nat /\ v.count \in Nat
  BY <1>2, <1>3, CodeBelow
<1>5. NothingNew(p, u) /\ u.count <= v.count
  BY <1>2, <1>3, <1>4 DEF NothingNew
<1>6. /\ p.count <= v.count /\ Carried(p, v) /\ \A q \in DOMAIN p.code : q \in DOMAIN v.code
      /\ \A b : NoneNew(p, v, b)
  BY <1>2, <1>3, <1>4, <1>5, CarriedNews
<1> QED BY <1>v, <1>6 DEF NothingNew

LEMMA ValueNews ==
  ASSUME NEW x, NEW y, Sound(x), NEW g, NEW boxes, Valued(x, y, g, boxes)
  PROVE  NothingNew(x, y)
<1>1. x.count \in Nat /\ \A o \in DOMAIN x.code : o \in Nat /\ o < x.count
  BY CodeBelow
<1>2. Sound(y) /\ x.count < y.count /\ SameBelow(x, y, x.count)
      /\ \A o \in DOMAIN y.code : o >= x.count => y.code[o].op \in ValueOps
  BY DEF Valued, ValueOk
<1>3. y.count \in Nat /\ \A o \in DOMAIN y.code : o \in Nat /\ o < y.count
  BY <1>2, CodeBelow
<1>4. \A o \in DOMAIN x.code : o \in DOMAIN y.code /\ y.code[o] = x.code[o] /\ o < y.count
  BY <1>1, <1>2, <1>3 DEF SameBelow
<1>5. \A o \in DOMAIN y.code : o < x.count => o \in DOMAIN x.code /\ y.code[o] = x.code[o]
  BY <1>2, <1>3 DEF SameBelow
<1>6. Carried(x, y)
  BY <1>3, <1>4, <1>5 DEF Carried
<1>7. ValueOps \cap Naming = {}
  BY DEF ValueOps, Naming, NameOp
<1>8. ASSUME NEW b, NEW o \in NamingIn(y, b) PROVE o < x.count
  BY <1>1, <1>2, <1>3, <1>7 DEF NamingIn
<1>9. \A b : NoneNew(x, y, b)
  BY <1>8 DEF NoneNew
<1> QED BY <1>1, <1>2, <1>3, <1>4, <1>6, <1>9 DEF NothingNew

LEMMA PoppedNames ==
  ASSUME CodeInv, Named(parser, open), open # <<>>, NEW f, f = Last(open)
  PROVE  LET gs == Front(open) IN
         /\ f.count \in Nat /\ f.count <= parser.count /\ f.marks \in Nat /\ f.marks <= Len(parser.marks)
         /\ FrameOk(f) /\ HeadOf(parser, f, f.count)
         /\ f.kind # "if" => Known(parser, f, Never, {}) /\ f.body # parser.body
         /\ f.kind = "if" => f.body = parser.body /\ f.capturing = parser.capturing /\ f.depth = parser.depth
         /\ FramesKnown(parser, gs)
         /\ \A j \in DOMAIN gs : /\ gs[j].count \in Nat /\ gs[j].count <= f.count /\ Around(gs[j], f)
                                 /\ gs[j].kind # "if" => gs[j].body # f.body
         /\ \A j, k \in DOMAIN gs : j < k => Around(gs[j], gs[k])
<1> DEFINE gs == Front(open)
           n == Len(open)
<1>1. open \in Seq(FrameSet) /\ Mid(parser, open, parser.count, Len(parser.marks))
  BY DEF CodeInv, Settled
<1>2. /\ n \in DOMAIN open /\ f = open[n] /\ n \in Nat
      /\ \A j \in DOMAIN gs : gs[j] = open[j] /\ j \in DOMAIN open /\ j < n
  BY <1>1, FrontDomain
<1> HIDE DEF gs
<1>3. /\ parser.capturing \in BOOLEAN
      /\ \A j \in DOMAIN open : /\ open[j].count \in Nat /\ open[j].count <= parser.count /\ FrameOk(open[j])
                                /\ open[j].body \in Nat /\ open[j].depth \in Nat
                                /\ open[j].marks \in Nat /\ open[j].marks <= Len(parser.marks)
                                /\ open[j].kind # "if" => open[j].body # parser.body
  BY OpenFacts
<1>4. /\ FramesKnown(parser, open) /\ DepthOk(parser, open) /\ HeadOf(parser, parser, parser.count)
  BY DEF Named
<1>5. HeadOf(parser, f, f.count) /\ (f.kind # "if" => Known(parser, f, Never, {}) /\ f.body # parser.body)
  BY <1>2, <1>3, <1>4 DEF FramesKnown
<1>6. f.kind = "if" => f.body = parser.body
  BY <1>1, <1>2 DEF Mid, FramesOk
<1>7. f.kind = "if" => f.capturing = parser.capturing
  <2>1. f.capturing \in BOOLEAN
    BY <1>2, <1>3 DEF FrameOk, FrameSet
  <2> QED BY <1>3, <1>4, <1>5, <1>6, <2>1 DEF HeadOf
<1>8. f.kind = "if" => f.depth = parser.depth
  BY <1>2, <1>4, <1>6 DEF DepthOk, Around
<1>9. FramesKnown(parser, gs)
  BY <1>2, <1>4 DEF FramesKnown
<1>10. ASSUME NEW j \in DOMAIN gs
       PROVE  /\ gs[j].count \in Nat /\ gs[j].count <= f.count /\ Around(gs[j], f)
              /\ gs[j].kind # "if" => gs[j].body # f.body
  <2>1. gs[j] = open[j] /\ j \in DOMAIN open /\ j < n
    BY <1>2
  <2>2. open[j].count <= f.count /\ (open[j].kind # "if" => open[j].body < f.body)
    BY <1>1, <1>2, <2>1 DEF Mid, FramesOk
  <2>3. open[j].body \in Nat /\ f.body \in Nat /\ open[j].count \in Nat
    BY <1>2, <1>3, <2>1
  <2>4. Around(open[j], f)
    BY <1>2, <1>4, <2>1 DEF DepthOk
  <2> QED BY <2>1, <2>2, <2>3, <2>4
<1>11. \A j, k \in DOMAIN gs : j < k => Around(gs[j], gs[k])
  BY <1>2, <1>4 DEF DepthOk
<1> QED BY <1>2, <1>3, <1>5, <1>6, <1>7, <1>8, <1>9, <1>10, <1>11 DEF gs

\* The end of a block of the text: what is written behind it is the code
\* of the function around it.
LEMMA EndedNames ==
  ASSUME CodeInv, Named(parser, open), "define" \notin Lost, open # <<>>, NEW f, f = Last(open),
         NEW y, Sound(y), NothingNew(parser, y), y.body = f.body, y.depth = f.depth, y.capturing = f.capturing,
         y.marks = parser.marks, y.outer = parser.outer,
         NEW z, Adds(y, z), Tracked(z, f.count), y.outer \subseteq z.outer, BlockEnds(z)
  PROVE  Named(parser', open')
<1> DEFINE gs == Front(open)
<1>1. /\ parser' = RolledBack(z, f.count, f.marks) /\ open' = gs /\ Survivable(z, f.count)
  BY DEF BlockEnds
<1>2. /\ f.count \in Nat /\ f.count <= parser.count /\ f.marks \in Nat /\ f.marks <= Len(parser.marks)
      /\ HeadOf(parser, f, f.count) /\ FramesKnown(parser, gs)
      /\ \A j \in DOMAIN gs : /\ gs[j].count \in Nat /\ gs[j].count <= f.count /\ Around(gs[j], f)
                              /\ gs[j].kind # "if" => gs[j].body # f.body
      /\ \A j, k \in DOMAIN gs : j < k => Around(gs[j], gs[k])
  BY PoppedNames
<1> HIDE DEF gs
<1>3. Sound(parser) /\ parser.marks \in Seq(Mark)
  BY OpenFacts
<1>4. /\ Carried(y, z) /\ y.count <= z.count /\ \A q \in DOMAIN y.code : q \in DOMAIN z.code
      /\ \A b : b # z.body => NoneNew(y, z, b)
      /\ z.body = y.body /\ z.depth = y.depth /\ z.capturing = y.capturing /\ z.marks = y.marks
  BY AddsCarried
<1>5. z.count \in Nat
  BY DEF Tracked, Sound, Shape
<1>6. /\ parser.count <= z.count /\ Carried(parser, z) /\ \A q \in DOMAIN parser.code : q \in DOMAIN z.code
      /\ \A b : b # z.body => NoneNew(parser, z, b)
  BY <1>3, <1>4, <1>5, CarriedNews
<1>7. HeadOf(z, z, f.count)
  BY <1>2, <1>3, <1>4, <1>6, HeadCarried
<1>8. DepthOk(z, gs)
  BY <1>2, <1>4 DEF DepthOk, Around
<1>9. RuleInv(parser)
  BY DEF Named
<1>10. parser.outer \subseteq z.outer /\ z.marks \in Seq(Mark) /\ f.marks <= Len(z.marks)
       /\ \A j \in DOMAIN gs : gs[j].kind # "if" => gs[j].body # z.body
  BY <1>2, <1>3, <1>4
<1>11. Named(RolledBack(z, f.count, f.marks), gs)
  BY <1>1, <1>2, <1>3, <1>6, <1>7, <1>8, <1>9, <1>10, NamedRollback
<1> QED BY <1>1, <1>11

LEMMA IfEndsNames ==
  ASSUME CodeInv, Named(parser, open), "define" \notin Lost, IfEnds
  PROVE  Named(parser', open')
<1> DEFINE f == Last(open)
           p == [parser EXCEPT !.line = 0]
           z == chunk_emit(p, "POP_SCOPE", 1, f.count, 0)
<1>1. open # <<>> /\ f.kind = "if" /\ BlockEnds(z)
  BY DEF IfEnds
<1>2. DOMAIN p = Fields /\ Kept(parser, p, {"line"}) /\ Sound(p)
  BY Unlined
<1> HIDE DEF p
<1>3. /\ p.code = parser.code /\ p.count = parser.count /\ p.outer = parser.outer /\ p.body = parser.body
      /\ p.capturing = parser.capturing /\ p.depth = parser.depth /\ p.locals = parser.locals
      /\ p.captured = parser.captured /\ p.params = parser.params /\ p.marks = parser.marks
  BY <1>2 DEF Kept, Fields
<1>4. /\ f.count \in Nat /\ f.count <= parser.count /\ f.body = parser.body /\ f.capturing = parser.capturing
      /\ f.depth = parser.depth
  BY <1>1, PoppedNames
<1>5. Sound(parser) /\ Known(parser, parser, Never, {}) /\ parser.count \in Nat
  BY OpenFacts DEF Named
<1>6. Known(parser, p, Never, {})
  BY <1>3, <1>5, KnownSame
<1>7. NothingNew(parser, p)
  <2>1. Carried(parser, p) /\ \A b : NoneNew(parser, p, b)
    BY <1>3, <1>5, SameCarried
  <2>2. parser.count <= p.count /\ DOMAIN p.code = DOMAIN parser.code
    BY <1>3, <1>5
  <2> QED BY <2>1, <2>2 DEF NothingNew
<1> DEFINE c == f.count
<1>8. Tracked(p, c)
  BY <1>2, <1>3, <1>4, <1>5, <1>6, SameTracked
<1>9. "POP_SCOPE" \in Silent /\ 1 \in Nat \ {0}
  BY DEF Silent
<1>10. Tracked(z, c) /\ Adds(p, z) /\ Kept(p, z, {"code", "count"})
  BY <1>8, <1>9, SilentTracked
<1> HIDE DEF z
<1>11. p.outer \subseteq z.outer
  BY <1>10 DEF Kept, Fields
<1> HIDE DEF f
<1>12. f = Last(open)
  BY DEF f
<1> QED BY <1>1, <1>2, <1>3, <1>4, <1>7, <1>10, <1>11, <1>12, EndedNames

\* The value of a function is written into the function around it, of
\* which is known what was known before.
LEMMA BackTracked ==
  ASSUME CodeInv, NEW f, Known(parser, f, Never, {}), f.count \in Nat, f.count <= parser.count,
         NEW y, Sound(y), NothingNew(parser, y), y.body = f.body, y.depth = f.depth, y.capturing = f.capturing,
         y.locals = f.locals, y.captured = f.captured, y.params = f.params, y.outer = parser.outer
  PROVE  Tracked(y, f.count)
<1>1. Sound(parser) /\ parser.count \in Nat
  BY OpenFacts
<1>2. parser.count <= y.count /\ Carried(parser, y) /\ NoneNew(parser, y, f.body)
      /\ \A q \in DOMAIN parser.code : q \in DOMAIN y.code
  BY DEF NothingNew
<1>3. f.capturing => f.body \in DOMAIN y.code
  BY <1>2 DEF Known
<1>4. Known(y, f, Never, {})
  BY <1>1, <1>2, <1>3, CarriedKnown
<1>5. Known(y, y, Never, {})
  BY <1>4, KnownSame
<1>6. Known(y, y, <<y.failed, f.count>>, {})
  BY <1>5, KnownWeaker
<1>7. y.count \in Nat
  BY DEF Sound, Shape
<1> QED BY <1>1, <1>2, <1>6, <1>7 DEF Tracked

LEMMA CalleeTracked ==
  ASSUME NEW y, NEW c, Tracked(y, c), y.depth = 0
  PROVE  LET z == chunk_emit(y, "STORE", 3, Callee, Callee) IN
         Tracked(z, c) /\ Adds(y, z) /\ y.outer \subseteq z.outer
<1> DEFINE z == chunk_emit(y, "STORE", 3, Callee, Callee)
<1>1. Sound(y) /\ c \in Nat /\ c <= y.count /\ Known(y, y, <<y.failed, c>>, {}) /\ y.count \in Nat
  BY DEF Tracked, Sound, Shape
<1>2. y.capturing = FALSE
  <2>1. y.capturing \in BOOLEAN
    BY <1>1 DEF Sound, Shape
  <2> QED BY <1>1, <2>1 DEF Known
<1>3. "STORE" \in Plain /\ "STORE" \in Naming /\ "STORE" \notin Upvalue /\ 3 \in Nat \ {0}
  BY DEF Plain, Naming, NameOp, Upvalue
<1>4. Adds(y, z) /\ Sound(z) /\ Kept(y, z, {"code", "count"}) /\ z.count > y.count /\ z.count \in Nat
  BY <1>1, <1>3, PlainKeeps
<1>5. MayEmit(y, "STORE", Callee, Callee, <<y.failed, c>>, {})
  BY <1>2, <1>3 DEF MayEmit
<1>6. Known(z, z, <<y.failed, c>>, {}) /\ z.outer = y.outer
  <2> SUFFICES ASSUME NEW op, op = "STORE"
               PROVE  LET t == chunk_emit(y, op, 3, Callee, Callee) IN Known(t, t, <<y.failed, c>>, {}) /\ t.outer = y.outer
    OBVIOUS
  <2>1. op \in Naming /\ MayEmit(y, op, Callee, Callee, <<y.failed, c>>, {}) /\ op # "DEFINE"
    BY <1>3, <1>5
  <2> HIDE DEF z
  <2>2. LET t == chunk_emit(y, op, 3, Callee, Callee) IN
        Known(t, t, <<y.failed, c>>, IF op = "DEFINE" THEN {} \ {Callee} ELSE {}) /\ t.outer = y.outer
    BY <1>1, <1>3, <2>1, EmitKnown
  <2> QED BY <2>1, <2>2
<1> HIDE DEF z
<1>7. z.failed = y.failed
  BY <1>4 DEF Kept, Fields
<1>8. Tracked(z, c) /\ y.outer \subseteq z.outer
  BY <1>1, <1>4, <1>6, <1>7 DEF Tracked
<1> QED BY <1>4, <1>8 DEF z

LEMMA NewsTransitive ==
  ASSUME NEW s, NEW t, NEW u, Sound(s), Sound(t), Sound(u), NothingNew(s, t), NothingNew(t, u)
  PROVE  NothingNew(s, u)
<1>1. u.count \in Nat
  BY CodeBelow
<1>2. Carried(t, u) /\ t.count <= u.count /\ (\A q \in DOMAIN t.code : q \in DOMAIN u.code) /\ \A b : NoneNew(t, u, b)
  BY DEF NothingNew
<1>3. /\ s.count <= u.count /\ Carried(s, u) /\ \A q \in DOMAIN s.code : q \in DOMAIN u.code
      /\ \A b : NoneNew(t, u, b) => NoneNew(s, u, b)
  BY <1>1, <1>2, CarriedNews
<1> QED BY <1>2, <1>3 DEF NothingNew

LEMMA SameNews ==
  ASSUME NEW s, NEW t, Sound(s), t.code = s.code, t.count = s.count
  PROVE  NothingNew(s, t)
<1>1. Carried(s, t) /\ \A b : NoneNew(s, t, b)
  BY SameCarried
<1>2. s.count <= t.count
  BY CodeBelow
<1> QED BY <1>1, <1>2 DEF NothingNew

\* Back in the function around, with the code of the function behind.
LEMMA OutsideNews ==
  ASSUME CodeInv, NEW f, FrameOk(f), f.body <= parser.count
  PROVE  LET p == [parser EXCEPT !.line = 0]
             s == Back(Void(p), f)
             x == Outside(s, f)
         IN  /\ Sound(s) /\ Sound(x) /\ NothingNew(parser, x)
             /\ x.body = f.body /\ x.depth = f.depth /\ x.capturing = f.capturing /\ x.locals = f.locals
             /\ x.captured = f.captured /\ x.params = f.params /\ x.outer = parser.outer /\ x.marks = parser.marks
             /\ s.depth = f.depth
<1> DEFINE p == [parser EXCEPT !.line = 0]
           v == Void(p)
           s == Back(v, f)
           x == Outside(s, f)
<1>1. DOMAIN p = Fields /\ Kept(parser, p, {"line"}) /\ Sound(p) /\ Sound(parser) /\ parser.count \in Nat
  BY Unlined, OpenFacts
<1> HIDE DEF p
<1>2. p.code = parser.code /\ p.count = parser.count /\ p.outer = parser.outer /\ p.marks = parser.marks
  BY <1>1 DEF Kept, Fields
<1>3. NothingNew(parser, p)
  BY <1>1, <1>2, SameNews
<1>4. Sound(v) /\ Kept(p, v, {"code", "count"}) /\ v.count = p.count + 3 /\ NothingNew(p, v)
  BY <1>1, VoidFacts, VoidNews
<1> HIDE DEF v
<1>5. NothingNew(parser, v)
  BY <1>1, <1>3, <1>4, NewsTransitive
<1>6. f.body \in Nat /\ f.body <= v.count
  <2>1. f.body \in Nat
    BY DEF FrameOk, FrameSet
  <2> QED BY <1>1, <1>2, <1>4, <2>1
<1>7. DOMAIN s = Fields /\ Kept(v, s, {"params", "depth", "body"}) /\ Sound(s) /\ s.body = f.body /\ s.depth = f.depth
  BY <1>4, <1>6, BackFields
<1>8. s.params = f.params
  <2>1. DOMAIN v = Fields
    BY <1>4 DEF Sound, Shape
  <2> QED BY <2>1 DEF Back, Fields
<1> HIDE DEF s
<1>9. DOMAIN x = Fields /\ Kept(s, x, {"capturing", "locals", "captured"}) /\ Sound(x) /\ x.captured = f.captured
      /\ x.capturing = f.capturing /\ x.locals = f.locals
  BY <1>7, OutsideFields
<1> HIDE DEF x
<1>10. /\ x.code = v.code /\ x.count = v.count /\ x.body = f.body /\ x.depth = f.depth /\ x.params = f.params
       /\ x.outer = parser.outer /\ x.marks = parser.marks
  BY <1>2, <1>4, <1>7, <1>8, <1>9 DEF Kept, Fields
<1>11. NothingNew(v, x)
  BY <1>4, <1>10, SameNews
<1>12. NothingNew(parser, x)
  BY <1>1, <1>4, <1>5, <1>9, <1>11, NewsTransitive
<1> QED BY <1>7, <1>9, <1>10, <1>12 DEF x, s, v, p

LEMMA FunctionEndsNames ==
  ASSUME CodeInv, Named(parser, open), NamesTracked, "define" \notin Lost, FunctionEnds
  PROVE  Named(parser', open')
<1> DEFINE f == Last(open)
           p == [parser EXCEPT !.line = 0]
           s == Back(Void(p), f)
           g == [at |-> parser.body, sig |-> f.sig]
           x == Outside(s, f)
           t == IF s.capturing /\ s.captured # <<>> THEN emit_closure(s, g) ELSE emit_plain_function_value(s, g)
           c == f.count
<1>1. open # <<>> /\ f.kind # "if"
  BY DEF FunctionEnds
<1>2. IF f.kind = "closure" THEN BlockEnds(emit_store(Outside(t, f), f.name))
      ELSE IF s.depth > 0 THEN BlockEnds(Failed(x))
      ELSE BlockEnds(chunk_emit(emit_plain_function_value(x, g), "STORE", 3, Callee, Callee))
  BY Zenon DEF FunctionEnds, Void, Back
<1>3. /\ c \in Nat /\ c <= parser.count /\ FrameOk(f) /\ Known(parser, f, Never, {})
  BY <1>1, PoppedNames
<1>4. f.body <= parser.count /\ f.depth \in Nat /\ f.sig \in Signature /\ (f.kind = "closure" => f.name \in Name)
  <2>1. Len(open) \in DOMAIN open /\ f = open[Len(open)]
    BY <1>1, FrontDomain DEF CodeInv
  <2>2. f.body <= parser.body /\ f.body \in Nat /\ parser.body <= parser.count /\ parser.body \in Nat /\ parser.count \in Nat
    BY <2>1, OpenFacts
  <2>3. f.body <= parser.count
    <3> HIDE DEF f
    <3> QED BY <2>2
  <2> QED BY <1>1, <1>3, <2>3 DEF FrameOk, FrameSet
<1>f. f = Last(open)
  OBVIOUS
<1> HIDE DEF f
<1>5. /\ Sound(s) /\ Sound(x) /\ NothingNew(parser, x)
      /\ x.body = f.body /\ x.depth = f.depth /\ x.capturing = f.capturing /\ x.locals = f.locals
      /\ x.captured = f.captured /\ x.params = f.params /\ x.outer = parser.outer /\ x.marks = parser.marks
      /\ s.depth = f.depth
  BY <1>3, <1>4, OutsideNews
<1>6. g.sig \in Signature
  BY <1>4
<1>7. Sound(parser)
  BY OpenFacts
<1> HIDE DEF p, s, g
<1>8. ASSUME NEW y, Valued(x, y, g, s.captured)
      PROVE  /\ Sound(y) /\ NothingNew(parser, y) /\ Tracked(y, c)
             /\ y.body = f.body /\ y.depth = f.depth /\ y.capturing = f.capturing
             /\ y.outer = parser.outer /\ y.marks = parser.marks
  <2> HIDE DEF x
  <2>1. Sound(y) /\ Kept(x, y, {"code", "count", "functions"})
    BY <1>8 DEF Valued
  <2>2. NothingNew(x, y)
    BY <1>5, <1>8, ValueNews
  <2>3. NothingNew(parser, y)
    BY <1>5, <1>7, <2>1, <2>2, NewsTransitive
  <2>4. /\ y.body = f.body /\ y.depth = f.depth /\ y.capturing = f.capturing /\ y.locals = f.locals
        /\ y.captured = f.captured /\ y.params = f.params /\ y.outer = parser.outer /\ y.marks = parser.marks
    BY <1>5, <2>1 DEF Kept, Fields
  <2>5. Tracked(y, c)
    BY <1>3, <2>1, <2>3, <2>4, BackTracked
  <2> QED BY <2>1, <2>3, <2>4, <2>5
<1>9. ASSUME NEW y, Sound(y), NothingNew(parser, y), y.body = f.body, y.depth = f.depth, y.capturing = f.capturing,
             y.marks = parser.marks, y.outer = parser.outer,
             NEW z, Adds(y, z), Tracked(z, c), y.outer \subseteq z.outer, BlockEnds(z)
      PROVE  Named(parser', open')
  BY <1>1, <1>f, <1>9, EndedNames
<1>10. CASE f.kind = "closure"
  <2> DEFINE y == Outside(t, f)
             z == emit_store(y, f.name)
  <2>1. Valued(s, t, g, s.captured)
    BY <1>5, <1>6, ClosureValue, PlainValue
  <2> HIDE DEF t
  <2>2. Valued(x, y, g, s.captured)
    BY <1>3, <1>5, <2>1, OutsideValued
  <2>3. BlockEnds(z)
    BY <1>2, <1>10
  <2> HIDE DEF y, x
  <2>4. /\ Sound(y) /\ NothingNew(parser, y) /\ Tracked(y, c)
        /\ y.body = f.body /\ y.depth = f.depth /\ y.capturing = f.capturing
        /\ y.outer = parser.outer /\ y.marks = parser.marks
    BY <1>8, <2>2
  <2>5. f.name \in Name
    BY <1>4, <1>10
  <2>6. Adds(y, z) /\ Tracked(z, c) /\ y.outer \subseteq z.outer
    BY <2>4, <2>5, StoreAdds, StoreTracked
  <2> HIDE DEF z
  <2> QED BY <1>9, <2>3, <2>4, <2>6
<1>11. CASE f.kind # "closure" /\ s.depth > 0
  <2> DEFINE z == Failed(x)
  <2>1. BlockEnds(z)
    BY <1>2, <1>11
  <2> HIDE DEF x
  <2>2. Tracked(x, c)
    BY <1>3, <1>5, BackTracked
  <2>3. Adds(x, z) /\ Tracked(z, c) /\ z.outer = x.outer
    BY <1>5, <2>2, FailedAdds, FailedTracked
  <2> HIDE DEF z
  <2> QED BY <1>5, <1>9, <2>1, <2>3
<1>12. CASE f.kind # "closure" /\ ~ s.depth > 0
  <2> DEFINE y == emit_plain_function_value(x, g)
             z == chunk_emit(y, "STORE", 3, Callee, Callee)
  <2>1. BlockEnds(z)
    BY <1>2, <1>12
  <2> HIDE DEF x
  <2>2. Valued(x, y, g, s.captured)
    BY <1>5, PlainValue
  <2> HIDE DEF y
  <2>3. /\ Sound(y) /\ NothingNew(parser, y) /\ Tracked(y, c)
        /\ y.body = f.body /\ y.depth = f.depth /\ y.capturing = f.capturing
        /\ y.outer = parser.outer /\ y.marks = parser.marks
    BY <1>8, <2>2
  <2>4. y.depth = 0
    BY <1>4, <1>5, <1>12, <2>3
  <2>5. Adds(y, z) /\ Tracked(z, c) /\ y.outer \subseteq z.outer
    BY <2>3, <2>4, CalleeTracked
  <2> HIDE DEF z
  <2> QED BY <1>9, <2>1, <2>3, <2>5
<1> QED BY <1>10, <1>11, <1>12

LEMMA NamedStart == ASSUME BytecodeInit PROVE Named(parser, open)
<1>1. /\ parser.code = <<>> /\ parser.capturing = FALSE /\ parser.depth = 0 /\ parser.body = 0 /\ open = <<>>
      /\ parser.captured = <<>> /\ parser.locals = {} /\ parser.outer = {} /\ parser.params = <<>> /\ parser.count = 0
  BY DEF BytecodeInit
<1>2. /\ DOMAIN parser.code = {} /\ parser.capturing = FALSE /\ parser.depth = 0 /\ parser.body = 0 /\ DOMAIN open = {}
  BY <1>1
<1>3. \A b : NamingIn(parser, b) = {}
  BY <1>2 DEF NamingIn
<1>4. RuleInv(parser)
  BY <1>2 DEF RuleInv
<1>5. Known(parser, parser, Never, {})
  BY <1>2, <1>3 DEF Known, KnownUpvalues, KnownOuter
<1>6. HeadOf(parser, parser, parser.count)
  BY <1>2 DEF HeadOf
<1>7. FramesKnown(parser, open) /\ DepthOk(parser, open)
  BY <1>2 DEF FramesKnown, DepthOk
<1> QED BY <1>4, <1>5, <1>6, <1>7 DEF Named

LEMMA NamedNext ==
  ASSUME NamesTracked, "define" \notin Lost, BytecodeInv, Named(parser, open), [BytecodeNext]_bytecodeVars
  PROVE  Named(parser', open')
<1>1. CodeInv
  BY DEF BytecodeInv
<1>2. CASE Parsing
  BY <1>1, <1>2, OneLineNames, FunctionBeginsNames, IfBeginsNames, IfEndsNames, FunctionEndsNames DEF Parsing
<1>3. CASE RunMakeClosure \/ RunCaptureFails \/ EndOfText \/ UNCHANGED bytecodeVars
  <2>1. parser' = parser /\ open' = open
    BY <1>3 DEF RunMakeClosure, RunCaptureFails, EndOfText, bytecodeVars
  <2> QED BY <2>1
<1> QED BY <1>2, <1>3 DEF BytecodeNext, Parsing, OneLine

LEMMA UsesAreNames ==
  ASSUME NEW q \in DOMAIN parser.code, NEW n
  PROVE  Uses(q, n) <=> parser.code[q].op \in Naming /\ n \in NamesOf(parser.code[q])
<1>1. "COMPOUND" \notin NameOp
  BY DEF NameOp
<1> QED BY <1>1 DEF Uses, Naming, NamesOf, written

LEMMA RulesFollow == ASSUME RuleInv(parser) PROVE NamesFollowCaptureRule
<1>1. Upvalue \subseteq Naming /\ {"DEFINE", "STORE"} \subseteq Naming /\ Stores \subseteq Naming
      /\ Stores = {"STORE", "STORE_LOCAL", "DEFINE_LOCAL"}
  BY DEF Upvalue, Naming, NameOp, Stores
<1>2. ASSUME NEW o \in DOMAIN parser.code, parser.code[o].op \in Naming
      PROVE  RuleOf(parser, parser.code[o].body) /\ o \in NamingIn(parser, parser.code[o].body)
  BY <1>2 DEF RuleInv, NamingIn
<1>3. OneMeaningPerName
  <2> SUFFICES ASSUME NEW o \in With(Upvalue), NEW q \in DOMAIN written,
                      written[q].body = written[o].body, Uses(q, written[o].meant)
               PROVE  written[q].op \in Upvalue
    BY DEF OneMeaningPerName
  <2> DEFINE b == written[o].body
  <2>1. o \in DOMAIN parser.code /\ q \in DOMAIN parser.code /\ parser.code[o].op \in Upvalue
    BY DEF With, written
  <2>2. parser.code[q].op \in Naming /\ parser.code[o].meant \in NamesOf(parser.code[q])
    BY <2>1, UsesAreNames DEF written
  <2>3. RuleOf(parser, b) /\ o \in NamingIn(parser, b)
    BY <1>1, <1>2, <2>1 DEF written
  <2>4. q \in NamingIn(parser, b)
    BY <2>1, <2>2 DEF NamingIn, written
  <2> QED BY <2>1, <2>2, <2>3, <2>4 DEF RuleOf, written
<1>4. ASSUME NEW o \in With({"DEFINE", "STORE"}), InClosure(o)
      PROVE  /\ o \in DOMAIN parser.code /\ parser.code[o].op \in {"DEFINE", "STORE"}
             /\ o \in NamingIn(parser, parser.code[o].body) /\ OwnNames(parser, parser.code[o].body)
  <2>1. o \in DOMAIN parser.code /\ parser.code[o].op \in {"DEFINE", "STORE"}
    BY <1>4 DEF With, written
  <2>2. RuleOf(parser, parser.code[o].body) /\ o \in NamingIn(parser, parser.code[o].body)
    BY <1>1, <1>2, <2>1
  <2> QED BY <1>4, <2>1, <2>2 DEF RuleOf, InClosure, written
<1>5. SettersCapture
  <2> SUFFICES ASSUME NEW o \in With({"DEFINE", "STORE"}), InClosure(o),
                      NEW q \in With({"STORE", "STORE_LOCAL", "DEFINE_LOCAL"}),
                      q < written[o].body, written[q].body = written[written[o].body].arg,
                      written[q].meant = written[o].meant
               PROVE  FALSE
    BY DEF SettersCapture
  <2> DEFINE b == parser.code[o].body
  <2>1. q \in Before(parser, b)
    BY <1>1 DEF Before, NamingIn, With, written
  <2>2. o \in NamingIn(parser, b) /\ OwnNames(parser, b) /\ parser.code[o].op \in {"DEFINE", "STORE"}
    BY <1>4
  <2> QED BY <2>1, <2>2 DEF OwnNames, written
<1>6. FirstAssignmentDefines
  <2> SUFFICES ASSUME NEW o \in With({"STORE"}), InClosure(o)
               PROVE  \E q \in With({"DEFINE"}) :
                        q < o /\ written[q].body = written[o].body /\ written[q].meant = written[o].meant
    BY DEF FirstAssignmentDefines
  <2> DEFINE b == parser.code[o].body
  <2>1. o \in With({"DEFINE", "STORE"}) /\ parser.code[o].op = "STORE"
    BY DEF With, written
  <2>2. o \in NamingIn(parser, b) /\ OwnNames(parser, b)
    BY <1>4, <2>1
  <2>3. IsDefined(parser, b, parser.code[o].meant, o)
    BY <2>1, <2>2 DEF OwnNames
  <2>4. PICK q \in NamingIn(parser, b) :
          q < o /\ parser.code[q].op = "DEFINE" /\ parser.code[q].meant = parser.code[o].meant
    BY <2>3 DEF IsDefined
  <2> QED BY <2>4 DEF NamingIn, With, written
<1> QED BY <1>3, <1>5, <1>6 DEF NamesFollowCaptureRule

\* capture_classify() keeps its rule over failed statements, if-blocks and
\* the functions inside a closure: in one body a name is captured or it is
\* local; what assigns to a variable of the function around captures it;
\* and a closure's first assignment to its own name defines it.  It needs
\* room for every name in local_names (MAX_TRACKED_LOCALS), past which the
\* parser forgets names, and no OP_DEFINE among what a failed statement
\* has compiled: its name stays local though it is defined nowhere.
THEOREM CaptureRuleIsKept ==
  ASSUME "define" \notin Lost, NamesTracked
  PROVE  BytecodeSpec /\ []NoCallLost => []NamesFollowCaptureRule
<1> DEFINE Inv == BytecodeInv /\ Named(parser, open)
<1>1. BytecodeInit => Inv
  BY BytecodeStart, NamedStart
<1>2. Inv /\ [BytecodeNext]_bytecodeVars /\ NoCallLost' => Inv'
  BY BytecodeStep, NamedNext
<1>3. Inv => NamesFollowCaptureRule
  BY RulesFollow DEF Named
<1> QED BY <1>1, <1>2, <1>3, PTL DEF BytecodeSpec
=============================================================================
