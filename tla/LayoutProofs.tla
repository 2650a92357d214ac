----------------------------- MODULE LayoutProofs ---------------------------
(***************************************************************************)
(* Proofs about the layout of the text: the tokens of Lexer and the        *)
(* parser's reading of them in Layout, for any widths, any number of       *)
(* levels, any text and any nesting of imported files.                     *)
(*                                                                         *)
(* A text's state is what lexer_save_state keeps of it, so one predicate    *)
(* speaks of the text being read and of those that wait for an import to    *)
(* end.  It ties indent_stack to the lines measured so far: its entries     *)
(* above the first are the levels the offside rule leaves open, and the     *)
(* tokens given out, those queued counted, are as many.                     *)
(***************************************************************************)
EXTENDS Layout, DataFacts

TextState ==
  [stack : Seq(Width), pending : Int, start : BOOLEAN, bracket : Nat, token : TokenType,
   ahead : Ahead, measured : Seq(Width), level : Int, spoilt : BOOLEAN]

Ascending(stack) ==
  /\ Len(stack) \in 1 .. IndentMax /\ stack[1] = 0
  /\ \A i, j \in 1 .. Len(stack) : i < j => stack[i] < stack[j]

(* The levels a stack stands for, and those that lines leave open.          *)
Levels(stack) == {stack[i] : i \in 2 .. Len(stack)}
Lowest(lines) == {i \in DOMAIN lines : \A k \in i .. Len(lines) : lines[k] >= lines[i]}
OpenIn(lines) == {lines[j] : j \in Lowest(lines)} \ {0}

TextInv(s) ==
  /\ s \in TextState /\ Ascending(s.stack)
  /\ s.pending \in -1 .. IndentMax - 2
  /\ s.start => s.ahead = "any"
  /\ s.ahead = "end" => s.stack = <<0>>
  /\ s.bracket > 0 => s.token \notin {"NEW_LINE", "INDENT"} /\ ~s.start
  /\ ~s.spoilt =>
       /\ s.pending >= 0 /\ s.level - s.pending = Len(s.stack) - 1
       /\ s.ahead # "end" => OpenIn(s.measured) = Levels(s.stack)

(* The text being read.                                                     *)
LexInv == TextInv(Saved)

-----------------------------------------------------------------------------
(* Levels and lines.                                                        *)

LEMMA WidthFacts ==
  ASSUME NEW s \in Seq(Width)
  PROVE  /\ Len(s) \in Nat /\ DOMAIN s = 1 .. Len(s)
         /\ \A i \in 1 .. Len(s) : s[i] \in Width /\ s[i] \in Nat
BY SeqFacts, LexerAssumption

LEMMA FirstLevel == <<0>> \in Seq(Width) /\ Len(<<0>>) = 1 /\ Ascending(<<0>>) /\ Levels(<<0>>) = {}
BY LexerAssumption DEF Ascending, Levels

(* A line closes the levels that are deeper and begins its own.             *)
LEMMA OpenAppendLine ==
  ASSUME NEW lines \in Seq(Width), NEW w \in Width
  PROVE  OpenIn(Append(lines, w)) = ({v \in OpenIn(lines) : v <= w} \cup {w}) \ {0}
<1> DEFINE n == Len(lines)
           new == Append(lines, w)
<1>1. /\ n \in Nat /\ DOMAIN lines = 1 .. n /\ w \in Nat
      /\ \A i \in 1 .. n : lines[i] \in Nat
  BY WidthFacts, LexerAssumption
<1>2. /\ Len(new) = n + 1 /\ DOMAIN new = 1 .. n + 1 /\ new[n + 1] = w
      /\ \A i \in 1 .. n : new[i] = lines[i]
  BY AppendFacts
<1> HIDE DEF n, new
<1>3. n + 1 \in Lowest(new)
  BY <1>1, <1>2 DEF Lowest
<1>4. \A i \in 1 .. n : i \in Lowest(new) <=> i \in Lowest(lines) /\ lines[i] <= w
  <2> TAKE i \in 1 .. n
  <2>1. ASSUME i \in Lowest(new) PROVE i \in Lowest(lines) /\ lines[i] <= w
    <3>1. \A k \in i .. n + 1 : new[k] >= new[i]
      BY <1>2, <2>1 DEF Lowest
    <3>2. lines[i] <= w
      <4>1. n + 1 \in i .. n + 1
        BY <1>1
      <4>2. new[n + 1] >= new[i]
        BY <3>1, <4>1
      <4> QED BY <1>1, <1>2, <4>2
    <3>3. \A k \in i .. n : lines[k] >= lines[i]
      <4> TAKE k \in i .. n
      <4>1. k \in i .. n + 1 /\ k \in 1 .. n
        BY <1>1
      <4> QED BY <1>2, <3>1, <4>1
    <3> QED BY <1>1, <3>2, <3>3 DEF Lowest, n
  <2>2. ASSUME i \in Lowest(lines), lines[i] <= w PROVE i \in Lowest(new)
    <3>1. \A k \in i .. n : lines[k] >= lines[i]
      BY <2>2 DEF Lowest, n
    <3>2. \A k \in i .. n + 1 : new[k] >= new[i]
      <4> TAKE k \in i .. n + 1
      <4>1. CASE k = n + 1
        BY <1>1, <1>2, <2>2, <4>1
      <4>2. CASE k # n + 1
        <5>1. k \in i .. n /\ k \in 1 .. n
          BY <1>1, <4>2
        <5> QED BY <1>2, <3>1, <5>1
      <4> QED BY <4>1, <4>2
    <3>3. i \in DOMAIN new
      BY <1>1, <1>2
    <3> QED BY <1>2, <3>2, <3>3 DEF Lowest
  <2> QED BY <2>1, <2>2
<1>5. Lowest(new) \subseteq 1 .. n + 1 /\ Lowest(lines) \subseteq 1 .. n
  BY <1>1, <1>2 DEF Lowest
<1>6. ASSUME NEW v
      PROVE  v \in OpenIn(new) <=> v \in ({u \in OpenIn(lines) : u <= w} \cup {w}) \ {0}
  <2>1. ASSUME v \in OpenIn(new) PROVE v \in ({u \in OpenIn(lines) : u <= w} \cup {w}) \ {0}
    <3>1. PICK j \in Lowest(new) : v = new[j]
      BY <2>1 DEF OpenIn
    <3>2. v # 0
      BY <2>1 DEF OpenIn
    <3>3. CASE j = n + 1
      BY <1>2, <3>1, <3>2, <3>3
    <3>4. CASE j # n + 1
      <4>1. j \in 1 .. n
        BY <1>1, <1>5, <3>4
      <4>2. j \in Lowest(lines) /\ lines[j] <= w /\ v = lines[j]
        BY <1>2, <1>4, <3>1, <4>1
      <4> QED BY <3>2, <4>2 DEF OpenIn
    <3> QED BY <3>3, <3>4
  <2>2. ASSUME v \in ({u \in OpenIn(lines) : u <= w} \cup {w}) \ {0} PROVE v \in OpenIn(new)
    <3>1. CASE v = w
      BY <1>2, <1>3, <2>2, <3>1 DEF OpenIn
    <3>2. CASE v # w
      <4>1. v \in OpenIn(lines) /\ v <= w /\ v # 0
        BY <2>2, <3>2
      <4>2. PICK j \in Lowest(lines) : v = lines[j]
        BY <4>1 DEF OpenIn
      <4>3. j \in 1 .. n /\ j \in Lowest(new) /\ new[j] = v
        BY <1>2, <1>4, <1>5, <4>1, <4>2
      <4> QED BY <4>1, <4>3 DEF OpenIn
    <3> QED BY <3>1, <3>2
  <2> QED BY <2>1, <2>2
<1> QED BY <1>6 DEF new

(* What cutting the stack back to a level, or pushing a deeper one, leaves.  *)
LEMMA CutLevels ==
  ASSUME NEW stack \in Seq(Width), Ascending(stack), NEW k \in 1 .. Len(stack)
  PROVE  /\ SubSeq(stack, 1, k) \in Seq(Width) /\ Ascending(SubSeq(stack, 1, k))
         /\ Len(SubSeq(stack, 1, k)) = k /\ SubSeq(stack, 1, k)[k] = stack[k]
         /\ Levels(SubSeq(stack, 1, k)) = ({v \in Levels(stack) : v <= stack[k]} \cup {stack[k]}) \ {0}
<1> DEFINE new == SubSeq(stack, 1, k)
<1>1. /\ k \in 0 .. Len(stack) /\ k \in Nat /\ Len(stack) \in 1 .. IndentMax
      /\ \A i \in 1 .. Len(stack) : stack[i] \in Nat
  BY WidthFacts DEF Ascending
<1>2. /\ new \in Seq(Width) /\ Len(new) = k /\ \A i \in 1 .. k : new[i] = stack[i]
  BY <1>1, PrefixFacts
<1> HIDE DEF new
<1>3. \A i \in 1 .. k : i \in 1 .. Len(stack)
  BY <1>1
<1>4. Ascending(new)
  BY <1>1, <1>2, <1>3, LexerAssumption DEF Ascending
<1>5. ASSUME NEW i \in 1 .. Len(stack) PROVE stack[i] <= stack[k] <=> i <= k
  <2>1. CASE i = k
    BY <1>1, <2>1
  <2>2. CASE i < k
    BY <1>1, <2>2 DEF Ascending
  <2>3. CASE k < i
    <3>1. stack[k] < stack[i]
      BY <1>1, <2>3 DEF Ascending
    <3>2. stack[k] \in Nat /\ stack[i] \in Nat /\ i \in Nat
      BY <1>1
    <3> QED BY <1>1, <2>3, <3>1, <3>2
  <2> QED BY <1>1, <2>1, <2>2, <2>3
<1>6. \A i \in 2 .. Len(stack) : stack[i] # 0
  BY <1>1 DEF Ascending
<1>7. ASSUME NEW v
      PROVE  v \in Levels(new) <=> v \in ({u \in Levels(stack) : u <= stack[k]} \cup {stack[k]}) \ {0}
  <2>1. ASSUME v \in Levels(new)
        PROVE  v \in ({u \in Levels(stack) : u <= stack[k]} \cup {stack[k]}) \ {0}
    <3>1. PICK i \in 2 .. k : v = new[i]
      BY <1>2, <2>1 DEF Levels
    <3>2. i \in 1 .. k /\ i \in 2 .. Len(stack) /\ i \in 1 .. Len(stack) /\ i <= k
      BY <1>1
    <3>3. v = stack[i] /\ stack[i] <= stack[k] /\ stack[i] # 0
      BY <1>2, <1>5, <1>6, <3>1, <3>2
    <3> QED BY <3>2, <3>3 DEF Levels
  <2>2. ASSUME v \in ({u \in Levels(stack) : u <= stack[k]} \cup {stack[k]}) \ {0}
        PROVE  v \in Levels(new)
    <3>1. CASE v = stack[k]
      <4>1. k # 1
        BY <2>2, <3>1 DEF Ascending
      <4>2. k \in 2 .. k /\ k \in 1 .. k
        BY <1>1, <4>1
      <4> QED BY <1>2, <3>1, <4>2 DEF Levels
    <3>2. CASE v # stack[k]
      <4>1. v \in Levels(stack) /\ v <= stack[k]
        BY <2>2, <3>2
      <4>2. PICK i \in 2 .. Len(stack) : v = stack[i]
        BY <4>1 DEF Levels
      <4>3. i \in 1 .. Len(stack)
        BY <1>1
      <4>4. i <= k
        BY <1>5, <4>1, <4>2, <4>3
      <4>5. i \in 2 .. k /\ i \in 1 .. k
        BY <1>1, <4>4
      <4> QED BY <1>2, <4>2, <4>5 DEF Levels
    <3> QED BY <3>1, <3>2
  <2> QED BY <2>1, <2>2
<1> QED BY <1>1, <1>2, <1>4, <1>7 DEF new

LEMMA PushLevel ==
  ASSUME NEW stack \in Seq(Width), Ascending(stack), Len(stack) < IndentMax,
         NEW w \in Width, w > stack[Len(stack)]
  PROVE  /\ Append(stack, w) \in Seq(Width) /\ Ascending(Append(stack, w))
         /\ Len(Append(stack, w)) = Len(stack) + 1
         /\ Levels(Append(stack, w)) = ({v \in Levels(stack) : v <= w} \cup {w}) \ {0}
<1> DEFINE n == Len(stack)
           new == Append(stack, w)
<1>1. /\ n \in 1 .. IndentMax /\ n \in Nat /\ w \in Nat /\ n < IndentMax /\ w > stack[n]
      /\ \A i \in 1 .. n : stack[i] \in Nat
  BY WidthFacts, LexerAssumption DEF Ascending
<1>2. /\ new \in Seq(Width) /\ Len(new) = n + 1 /\ new[n + 1] = w
      /\ \A i \in 1 .. n : new[i] = stack[i]
  BY AppendFacts
<1> HIDE DEF new
<1>3. \A i \in 1 .. n : stack[i] < w
  <2> TAKE i \in 1 .. n
  <2>1. i = n \/ stack[i] < stack[n]
    BY <1>1 DEF Ascending
  <2>2. stack[i] \in Nat /\ stack[n] \in Nat
    BY <1>1
  <2> QED BY <1>1, <2>1, <2>2
<1>4. Ascending(new)
  <2>1. new[1] = 0
    BY <1>1, <1>2 DEF Ascending
  <2>2. ASSUME NEW i \in 1 .. n + 1, NEW j \in 1 .. n + 1, i < j PROVE new[i] < new[j]
    <3>1. i \in 1 .. n
      BY <1>1, <2>2
    <3>2. CASE j = n + 1
      BY <1>2, <1>3, <3>1, <3>2
    <3>3. CASE j # n + 1
      <4>1. j \in 1 .. n
        BY <1>1, <3>3
      <4> QED BY <1>2, <2>2, <3>1, <4>1 DEF Ascending
    <3> QED BY <3>2, <3>3
  <2>3. n + 1 \in 1 .. IndentMax
    BY <1>1, LexerAssumption
  <2> QED BY <1>2, <2>1, <2>2, <2>3 DEF Ascending
<1>5. ASSUME NEW v
      PROVE  v \in Levels(new) <=> v \in ({u \in Levels(stack) : u <= w} \cup {w}) \ {0}
  <2>0. w # 0
    BY <1>1, <1>3
  <2>1. ASSUME v \in Levels(new) PROVE v \in ({u \in Levels(stack) : u <= w} \cup {w}) \ {0}
    <3>1. PICK i \in 2 .. n + 1 : v = new[i]
      BY <1>2, <2>1 DEF Levels
    <3>2. CASE i = n + 1
      BY <1>2, <2>0, <3>1, <3>2
    <3>3. CASE i # n + 1
      <4>1. i \in 2 .. n /\ i \in 1 .. n
        BY <1>1, <3>3
      <4>2. v = stack[i] /\ stack[i] <= w /\ stack[i] # 0
        BY <1>1, <1>2, <1>3, <3>1, <4>1 DEF Ascending
      <4> QED BY <4>1, <4>2 DEF Levels
    <3> QED BY <3>2, <3>3
  <2>2. ASSUME v \in ({u \in Levels(stack) : u <= w} \cup {w}) \ {0} PROVE v \in Levels(new)
    <3>1. CASE v = w
      <4>1. n + 1 \in 2 .. n + 1
        BY <1>1
      <4> QED BY <1>2, <3>1, <4>1 DEF Levels
    <3>2. CASE v # w
      <4>1. PICK i \in 2 .. n : v = stack[i]
        BY <2>2, <3>2 DEF Levels
      <4>2. i \in 2 .. n + 1 /\ new[i] = v
        BY <1>1, <1>2, <4>1
      <4> QED BY <1>2, <4>2 DEF Levels
    <3> QED BY <3>1, <3>2
  <2> QED BY <2>1, <2>2
<1> QED BY <1>2, <1>4, <1>5 DEF new

(* As many levels as entries above the first.                               *)
LEMMA LevelCount ==
  ASSUME NEW stack \in Seq(Width), Ascending(stack)
  PROVE  Cardinality(Levels(stack)) = Len(stack) - 1
<1> DEFINE n == Len(stack)
           f == [i \in 2 .. n |-> stack[i]]
<1>1. n \in Nat /\ n >= 1
  BY WidthFacts DEF Ascending
<1>2. IsFiniteSet(2 .. n) /\ Cardinality(2 .. n) = n - 1
  <2>1. IsFiniteSet(2 .. n) /\ Cardinality(2 .. n) = IF 2 > n THEN 0 ELSE n - 2 + 1
    BY <1>1, FS_Interval
  <2> QED BY <1>1, <2>1
<1>3. f \in Surjection(2 .. n, Levels(stack))
  BY DEF Surjection, Levels
<1>4. f \in Injection(2 .. n, Levels(stack))
  <2>1. f \in [2 .. n -> Levels(stack)]
    BY DEF Levels
  <2>2. ASSUME NEW a \in 2 .. n, NEW b \in 2 .. n, f[a] = f[b] PROVE a = b
    <3>1. /\ a \in 1 .. n /\ b \in 1 .. n /\ a \in Nat /\ b \in Nat /\ stack[a] = stack[b]
          /\ stack[a] \in Nat
      BY <1>1, <2>2, WidthFacts
    <3>2. (a < b => stack[a] < stack[b]) /\ (b < a => stack[b] < stack[a])
      BY <3>1 DEF Ascending
    <3> QED BY <3>1, <3>2
  <2> QED BY <2>1, <2>2 DEF Injection, IsInjective
<1> HIDE DEF f
<1>5. ExistsBijection(2 .. n, Levels(stack))
  BY <1>3, <1>4 DEF ExistsBijection, Bijection
<1> QED BY <1>2, <1>5, FS_Bijection

-----------------------------------------------------------------------------
(* The lexer.                                                               *)

(* What a layout token does to the levels the parser has been told of.      *)
Shift(t) == CASE t = "DEDENT" -> 1 [] t = "INDENT" -> -1 [] OTHER -> 0

(* The same in terms of the variables.                                      *)
LEMMA LexMeans ==
  /\ LexInv <=>
       /\ indent_stack \in Seq(Width) /\ pending_dedents \in Int /\ at_line_start \in BOOLEAN
       /\ bracket_depth \in Nat /\ token \in TokenType /\ ahead \in Ahead
       /\ measured \in Seq(Width) /\ level \in Int /\ spoilt \in BOOLEAN
       /\ Ascending(indent_stack) /\ pending_dedents \in -1 .. IndentMax - 2
       /\ at_line_start => ahead = "any"
       /\ ahead = "end" => indent_stack = <<0>>
       /\ bracket_depth > 0 => token \notin {"NEW_LINE", "INDENT"} /\ ~at_line_start
       /\ ~spoilt =>
            /\ pending_dedents >= 0 /\ level - pending_dedents = Len(indent_stack) - 1
            /\ ahead # "end" => OpenIn(measured) = Levels(indent_stack)
BY DEF LexInv, TextInv, Saved, TextState

LEMMA LexMeansNext ==
  /\ LexInv' <=>
       /\ indent_stack' \in Seq(Width) /\ pending_dedents' \in Int /\ at_line_start' \in BOOLEAN
       /\ bracket_depth' \in Nat /\ token' \in TokenType /\ ahead' \in Ahead
       /\ measured' \in Seq(Width) /\ level' \in Int /\ spoilt' \in BOOLEAN
       /\ Ascending(indent_stack') /\ pending_dedents' \in -1 .. IndentMax - 2
       /\ at_line_start' => ahead' = "any"
       /\ ahead' = "end" => indent_stack' = <<0>>
       /\ bracket_depth' > 0 => token' \notin {"NEW_LINE", "INDENT"} /\ ~at_line_start'
       /\ ~spoilt' =>
            /\ pending_dedents' >= 0 /\ level' - pending_dedents' = Len(indent_stack') - 1
            /\ ahead' # "end" => OpenIn(measured') = Levels(indent_stack')
BY DEF LexInv, TextInv, Saved, TextState

(* What a call of lex() does, as its callers see it: the token it returns    *)
(* is the only one by which the levels told change, and the end is met with *)
(* all levels closed.  (An unterminated string may leave an END_OF_FILE of  *)
(* an earlier text in token.)                                               *)
Told ==
  /\ spoilt => spoilt'
  /\ ~spoilt' => level' + Shift(token') = level
  /\ ~spoilt' /\ token' = "END_OF_FILE" =>
       (ahead' = "end" /\ level' = 0) \/ (token = "END_OF_FILE" /\ ahead # "end")

LEMMA QueuedDedentKeeps ==
  ASSUME LexInv, NEW had, QueuedDedent(had)
  PROVE  LexInv' /\ Told
<1>1. /\ pending_dedents > 0 /\ pending_dedents' = pending_dedents - 1
      /\ token' = "DEDENT" /\ level' = level - 1
      /\ UNCHANGED <<indent_stack, at_line_start, bracket_depth, ahead, measured, spoilt>>
  BY DEF QueuedDedent
<1>2. LexInv'
  BY <1>1, LexMeans, LexMeansNext, LexerAssumption, SMTT(30) DEF TokenType, LayoutToken
<1>3. Told
  BY <1>1, LexMeans DEF Told, Shift
<1> QED BY <1>2, <1>3

LEMMA TabKeeps ==
  ASSUME LexInv, NEW had, Tab(had)
  PROVE  LexInv' /\ Told
<1>1. /\ at_line_start /\ at_line_start' = FALSE /\ ahead' = "any"
      /\ spoilt' = (spoilt \/ Repeats)
      /\ UNCHANGED <<indent_stack, pending_dedents, bracket_depth, token, measured, level>>
  BY DEF Tab, LineStart
<1>2. Repeats \in BOOLEAN
  BY DEF Repeats
<1>3. LexInv'
  BY <1>1, <1>2, LexMeans, LexMeansNext DEF Ahead
<1>4. ahead # "end" /\ level \in Int /\ (spoilt => spoilt')
      /\ (~spoilt' => token' \notin {"INDENT", "DEDENT"})
  BY <1>1, <1>2, LexMeans DEF Repeats
<1>5. Told
  BY <1>1, <1>4 DEF Told, Shift
<1> QED BY <1>3, <1>5

(* The end of a text, whose last line has been measured.                    *)
LEMMA FinishKeeps ==
  ASSUME LexInv, NEW had, Finish(had), pending_dedents <= 0, at_line_start' = FALSE,
         measured' \in Seq(Width)
  PROVE  LexInv' /\ Told
<1>1. ahead' = "end" /\ UNCHANGED <<bracket_depth, spoilt>>
  BY DEF Finish
<1>2. Len(indent_stack) \in 1 .. IndentMax /\ indent_stack \in Seq(Width) /\ indent_stack[1] = 0
  BY LexMeans DEF Ascending
<1>3. CASE indent_depth > 1
  <2>1. /\ pending_dedents' = Len(indent_stack) - 2 /\ indent_stack' = <<0>>
        /\ token' = "DEDENT" /\ level' = level - 1
    BY <1>3 DEF Finish, indent_depth
  <2>2. LexInv'
    <3>1. pending_dedents' \in 0 .. IndentMax - 2 /\ level' \in Int
      BY <1>2, <1>3, <2>1, LexMeans, LexerAssumption DEF indent_depth
    <3>2. ASSUME ~spoilt' PROVE level' - pending_dedents' = Len(indent_stack') - 1
      <4>1. pending_dedents = 0 /\ level - 0 = Len(indent_stack) - 1 /\ level \in Int
        BY <1>1, <3>2, LexMeans
      <4> QED BY <1>2, <2>1, <4>1, FirstLevel
    <3>3. /\ pending_dedents' \in Int /\ pending_dedents' \in -1 .. IndentMax - 2
          /\ pending_dedents' >= 0
      BY <3>1, LexerAssumption
    <3>4. token' \in TokenType /\ ahead' \in Ahead
      BY <1>1, <2>1 DEF TokenType, LayoutToken, Ahead
    <3>5. /\ indent_stack' \in Seq(Width) /\ Ascending(indent_stack')
          /\ bracket_depth' \in Nat /\ spoilt' \in BOOLEAN
      BY <1>1, <2>1, FirstLevel, LexMeans
    <3> QED BY <1>1, <2>1, <3>1, <3>2, <3>3, <3>4, <3>5, LexMeansNext
  <2>3. Told
    BY <1>1, <2>1, LexMeans DEF Told, Shift
  <2> QED BY <2>2, <2>3
<1>4. CASE ~(indent_depth > 1)
  <2>1. token' = "END_OF_FILE" /\ UNCHANGED <<pending_dedents, indent_stack, level>>
    BY <1>4 DEF Finish
  <2>2. Len(indent_stack) = 1
    <3> DEFINE n == Len(indent_stack)
    <3>1. ~(n > 1)
      BY <1>4 DEF indent_depth
    <3>2. n \in 1 .. IndentMax
      BY <1>2
    <3> HIDE DEF n
    <3>3. n = 1
      BY <3>1, <3>2, LexerAssumption
    <3> QED BY <3>3 DEF n
  <2>3. indent_stack = <<0>>
    <3>1. <<0>> \in Seq(Width) /\ Len(<<0>>) = 1
      BY FirstLevel
    <3>2. \A i \in 1 .. Len(indent_stack) : indent_stack[i] = <<0>>[i]
      BY <1>2, <2>2
    <3> QED BY <1>2, <2>2, <3>1, <3>2, SameSequence
  <2>4. LexInv'
    BY <1>1, <2>1, <2>3, LexMeans, LexMeansNext DEF TokenType, Ahead
  <2>5. ASSUME ~spoilt PROVE level = 0
    <3>1. pending_dedents = 0 /\ level - pending_dedents = 1 - 1
      BY <2>2, <2>5, LexMeans
    <3> QED BY <3>1, LexMeans
  <2>6. Told
    BY <1>1, <2>1, <2>5, LexMeans DEF Told, Shift
  <2> QED BY <2>4, <2>6
<1> QED BY <1>3, <1>4

(* A symbol of a line, which lines then hold as well.                       *)
LEMMA SymbolKeeps ==
  ASSUME LexInv, NEW had, NEW c \in Text \cup {"newline"}, Symbol(c, had), pending_dedents <= 0,
         ahead # "end", c = "newline" => bracket_depth = 0,
         at_line_start' = (c = "newline"), measured' \in Seq(Width),
         ~spoilt => OpenIn(measured') = Levels(indent_stack)
  PROVE  LexInv' /\ Told
<1>1. /\ token' = CASE c = "newline" -> "NEW_LINE" [] c = "bad" -> "ERROR" [] c = "quote" -> token
                    [] OTHER -> c
      /\ ahead' \in IF c = "quote" THEN {"eol", "last"} ELSE {"any"}
      /\ bracket_depth' = BracketAfter(c)
      /\ spoilt' = (spoilt \/ (c = "quote" /\ Repeats))
      /\ UNCHANGED <<indent_stack, pending_dedents, level>>
  BY DEF Symbol
<1>2. c \in {"word", "colon", "if", "else", "for", "function", "import", "open", "close", "bad",
            "quote", "newline"}
  BY DEF Text
<1>3. /\ bracket_depth' \in Nat /\ (bracket_depth' > 0 => bracket_depth > 0 \/ c = "open")
      /\ spoilt' \in BOOLEAN /\ (spoilt => spoilt')
  BY <1>1, LexMeans DEF BracketAfter, Repeats
<1>4. /\ token' \in TokenType
      /\ token' = "NEW_LINE" => c = "newline" \/ (c = "quote" /\ token = "NEW_LINE")
      /\ token' \in {"INDENT", "DEDENT"} => c = "quote" /\ token = token'
      /\ token' = "END_OF_FILE" => c = "quote" /\ token = token'
  BY <1>1, <1>2, LexMeans DEF TokenType, LayoutToken, Text
<1>5. ahead' \in Ahead /\ ahead' # "end" /\ (c = "newline" => ahead' = "any")
  BY <1>1 DEF Ahead
<1>6. bracket_depth' > 0 => token' \notin {"NEW_LINE", "INDENT"} /\ ~at_line_start'
  <2> SUFFICES ASSUME bracket_depth' > 0
               PROVE  token' \notin {"NEW_LINE", "INDENT"} /\ c # "newline"
    OBVIOUS
  <2>1. c # "newline"
    BY <1>3, LexMeans
  <2>2. ASSUME c = "quote" PROVE token' \notin {"NEW_LINE", "INDENT"}
    BY <1>1, <1>3, <2>2, LexMeans
  <2>3. ASSUME c # "quote" PROVE token' \notin {"NEW_LINE", "INDENT"}
    BY <1>4, <2>1, <2>3
  <2> QED BY <2>1, <2>2, <2>3
<1>7. LexInv'
  <2>1. at_line_start' \in BOOLEAN /\ (at_line_start' => c = "newline")
    OBVIOUS
  <2> QED BY <1>1, <1>3, <1>4, <1>5, <1>6, <2>1, LexMeans, LexMeansNext
<1>8. Told
  <2>1. ASSUME ~spoilt' PROVE token' \notin {"INDENT", "DEDENT"}
    BY <1>1, <1>4, <2>1 DEF Repeats
  <2> QED BY <1>1, <1>3, <1>4, <2>1, LexMeans DEF Told, Shift
<1> QED BY <1>7, <1>8

LEMMA InLineKeeps ==
  ASSUME LexInv, NEW had, NEW first \in Ahead, InLine(first, had), pending_dedents <= 0,
         ahead = "end" => first = "end", measured' \in Seq(Width),
         ~spoilt /\ first # "end" => OpenIn(measured') = Levels(indent_stack)
  PROVE  LexInv' /\ Told
<1>1. PICK c \in Symbols(first) :
        /\ IF c = "end" THEN Finish(had) ELSE Symbol(c, had)
        /\ at_line_start' = (c = "newline")
  BY DEF InLine
<1>2. CASE c = "end"
  BY <1>1, <1>2, FinishKeeps
<1>3. CASE c # "end"
  <2>1. /\ c \in Text \cup {"newline"} /\ first # "end"
        /\ c = "newline" => ~(bracket_depth > 0)
    BY <1>3 DEF Symbols, Ahead, Text
  <2>2. bracket_depth \in Nat
    BY LexMeans
  <2>3. c = "newline" => bracket_depth = 0
    BY <2>1, <2>2
  <2> QED BY <1>1, <1>3, <2>1, <2>3, SymbolKeeps
<1> QED BY <1>2, <1>3

(* Where a line starts, no bracket is open and nothing is known of it.      *)
LEMMA AtLineStart ==
  ASSUME LexInv, LineStart
  PROVE  /\ pending_dedents <= 0 /\ at_line_start = TRUE /\ ahead = "any"
         /\ ~(bracket_depth > 0) /\ bracket_depth = 0
         /\ indent_stack \in Seq(Width) /\ Ascending(indent_stack) /\ measured \in Seq(Width)
         /\ Len(indent_stack) \in 1 .. IndentMax /\ Len(indent_stack) \in Nat
         /\ ~spoilt => /\ pending_dedents = 0 /\ level = Len(indent_stack) - 1
                       /\ OpenIn(measured) = Levels(indent_stack)
<1>1. /\ pending_dedents <= 0 /\ at_line_start = TRUE /\ ahead = "any"
      /\ indent_stack \in Seq(Width) /\ Ascending(indent_stack) /\ measured \in Seq(Width)
      /\ pending_dedents \in Int /\ level \in Int /\ bracket_depth \in Nat
      /\ ~(bracket_depth > 0)
  BY LexMeans DEF LineStart
<1>2. Len(indent_stack) \in 1 .. IndentMax /\ Len(indent_stack) \in Nat
  BY <1>1, SeqFacts DEF Ascending
<1>3. ASSUME ~spoilt
      PROVE  /\ pending_dedents = 0 /\ level = Len(indent_stack) - 1
             /\ OpenIn(measured) = Levels(indent_stack)
  <2>1. /\ pending_dedents >= 0 /\ level - pending_dedents = Len(indent_stack) - 1
        /\ OpenIn(measured) = Levels(indent_stack)
    BY <1>1, <1>3, LexMeans
  <2>2. pending_dedents = 0
    BY <1>1, <2>1
  <2> QED BY <1>1, <1>2, <2>1, <2>2
<1> QED BY <1>1, <1>2, <1>3

LEMMA ContinueKeeps ==
  ASSUME LexInv, NEW had, Continue(had)
  PROVE  LexInv' /\ Told
<1>1. pending_dedents <= 0 /\ InLine(ahead, had) /\ measured' = measured
  BY DEF Continue
<1>2. /\ ahead \in Ahead /\ measured' \in Seq(Width)
      /\ ~spoilt /\ ahead # "end" => OpenIn(measured') = Levels(indent_stack)
  BY <1>1, LexMeans
<1> QED BY <1>1, <1>2, InLineKeeps

LEMMA DeeperKeeps ==
  ASSUME LexInv, NEW had, NEW spaces \in Width, NEW first \in Beginning, Deeper(spaces, first, had)
  PROVE  LexInv' /\ Told
<1>1. /\ LineStart /\ first \in Ahead /\ first # "end" /\ spaces > indent_stack[Len(indent_stack)]
      /\ at_line_start' = FALSE /\ ahead' = first /\ UNCHANGED <<pending_dedents, bracket_depth>>
  BY DEF Deeper, Beginning, Ahead, top, indent_depth
<1>2. CASE indent_depth >= IndentMax
  <2>1. spoilt' = (spoilt \/ Repeats) /\ UNCHANGED <<indent_stack, token, level, measured>>
    BY <1>2 DEF Deeper
  <2>2. spoilt' \in BOOLEAN /\ (spoilt => spoilt') /\ (~spoilt' => token' \notin {"INDENT", "DEDENT"})
    BY <2>1, LexMeans DEF Repeats
  <2>3. LexInv'
    BY <1>1, <2>1, <2>2, AtLineStart, LexMeans, LexMeansNext
  <2>4. Told
    <3>1. ahead # "end" /\ level \in Int
      BY <1>1, AtLineStart, LexMeans
    <3> QED BY <2>1, <2>2, <3>1 DEF Told, Shift
  <2> QED BY <2>3, <2>4
<1>3. CASE ~(indent_depth >= IndentMax)
  <2>1. /\ indent_stack' = Append(indent_stack, spaces) /\ token' = "INDENT" /\ level' = level + 1
        /\ measured' = Append(measured, spaces) /\ UNCHANGED spoilt
    BY <1>3 DEF Deeper
  <2>2. Len(indent_stack) < IndentMax /\ level \in Int
    <3>1. Len(indent_stack) \in 1 .. IndentMax
      BY <1>1, AtLineStart
    <3> QED BY <1>3, <3>1, LexerAssumption, LexMeans DEF indent_depth
  <2>3. /\ indent_stack' \in Seq(Width) /\ Ascending(indent_stack')
        /\ Len(indent_stack') = Len(indent_stack) + 1
        /\ Levels(indent_stack')
             = ({v \in Levels(indent_stack) : v <= spaces} \cup {spaces}) \ {0}
    BY <1>1, <2>1, <2>2, AtLineStart, PushLevel
  <2>4. /\ measured' \in Seq(Width)
        /\ OpenIn(measured') = ({v \in OpenIn(measured) : v <= spaces} \cup {spaces}) \ {0}
    BY <1>1, <2>1, AtLineStart, OpenAppendLine, AppendFacts
  <2>5. ASSUME ~spoilt'
        PROVE  /\ pending_dedents' >= 0 /\ level' - pending_dedents' = Len(indent_stack') - 1
               /\ OpenIn(measured') = Levels(indent_stack')
    <3>1. /\ pending_dedents = 0 /\ level = Len(indent_stack) - 1
          /\ OpenIn(measured) = Levels(indent_stack) /\ Len(indent_stack) \in Nat
      BY <1>1, <2>1, <2>5, AtLineStart
    <3>2. level' - pending_dedents' = Len(indent_stack') - 1
      BY <1>1, <2>1, <2>3, <3>1
    <3> QED BY <1>1, <2>3, <2>4, <3>1, <3>2
  <2>6. LexInv'
    <3>1. token' \in TokenType /\ level' \in Int /\ bracket_depth' = 0 /\ spoilt' \in BOOLEAN
      BY <1>1, <2>1, <2>2, AtLineStart, LexMeans DEF TokenType, LayoutToken
    <3>2. /\ pending_dedents' \in Int /\ pending_dedents' \in -1 .. IndentMax - 2
          /\ at_line_start' \in BOOLEAN /\ ahead' \in Ahead /\ bracket_depth' \in Nat
          /\ ~(bracket_depth' > 0)
      <4>1. /\ pending_dedents \in Int /\ pending_dedents \in -1 .. IndentMax - 2
            /\ FALSE \in BOOLEAN /\ 0 \in Nat /\ ~(0 > 0)
        BY LexMeans
      <4> QED BY <1>1, <3>1, <4>1
    <3> QED BY <1>1, <2>3, <2>4, <2>5, <3>1, <3>2, LexMeansNext
  <2>7. Told
    BY <1>1, <2>1, <2>2 DEF Told, Shift
  <2> QED BY <2>6, <2>7
<1> QED BY <1>2, <1>3

(* The levels above Kept are deeper than the line, and no other.            *)
LEMMA KeptFacts ==
  ASSUME indent_stack \in Seq(Width), Ascending(indent_stack), NEW spaces \in Width
  PROVE  /\ Kept(spaces) \in 1 .. Len(indent_stack)
         /\ indent_stack[Kept(spaces)] <= spaces
<1> DEFINE S == {i \in 1 .. indent_depth : i = 1 \/ indent_stack[i] <= spaces}
<1>1. /\ Len(indent_stack) \in Nat /\ 1 \in 1 .. Len(indent_stack) /\ indent_stack[1] = 0
      /\ spaces \in Nat
  BY WidthFacts, LexerAssumption DEF Ascending
<1>2. S \in SUBSET Nat /\ S # {} /\ \A i \in S : i <= Len(indent_stack)
  BY <1>1 DEF indent_depth
<1>3. PICK n \in S : \A i \in S : i <= n
  BY <1>1, <1>2, GreatestElement
<1>4. \A i \in S : n >= i
  BY <1>2, <1>3
<1>5. Kept(spaces) \in S
  BY <1>4 DEF Kept, Max
<1> QED BY <1>1, <1>5 DEF indent_depth

LEMMA ShallowerKeeps ==
  ASSUME LexInv, NEW had, NEW spaces \in Width, NEW first \in Beginning,
         Shallower(spaces, first, had)
  PROVE  LexInv' /\ Told
<1> DEFINE kept == Kept(spaces)
           popped == SubSeq(indent_stack, 1, kept)
           n == Len(indent_stack)
<1>1. /\ LineStart /\ first \in Ahead /\ at_line_start' = FALSE /\ ahead' = first
      /\ spaces < indent_stack[n] \/ (first = "end" /\ n > 1)
      /\ measured' = Append(measured, spaces) /\ bracket_depth' = bracket_depth
      /\ indent_stack' = (IF first = "end" THEN <<0>> ELSE popped)
      /\ spoilt' = (spoilt \/ IF first = "end" THEN kept > 1 ELSE popped[kept] # spaces)
  BY DEF Shallower, Beginning, Ahead, top, indent_depth
<1>2. /\ \/ /\ first # "end" /\ kept > 1 /\ popped[kept] # spaces
            /\ UNCHANGED <<pending_dedents, token, level>>
         \/ /\ pending_dedents' = n - kept - 1 /\ token' = "DEDENT" /\ level' = level - 1
  BY DEF Shallower, indent_depth
<1>3. /\ indent_stack \in Seq(Width) /\ Ascending(indent_stack) /\ measured \in Seq(Width)
      /\ n \in 1 .. IndentMax /\ n \in Nat /\ bracket_depth = 0 /\ level \in Int
      /\ spoilt \in BOOLEAN /\ ~(bracket_depth > 0)
      /\ ~spoilt => /\ pending_dedents = 0 /\ level = n - 1
                    /\ OpenIn(measured) = Levels(indent_stack)
  BY <1>1, AtLineStart, LexMeans
<1>4. kept \in 1 .. n /\ kept \in Nat
  BY <1>3, KeptFacts
<1> HIDE DEF kept
<1>5. /\ popped \in Seq(Width) /\ Ascending(popped) /\ Len(popped) = kept
      /\ popped[kept] = indent_stack[kept]
      /\ Levels(popped)
           = ({v \in Levels(indent_stack) : v <= indent_stack[kept]} \cup {indent_stack[kept]}) \ {0}
  BY <1>3, <1>4, CutLevels
<1>6. /\ measured' \in Seq(Width)
      /\ OpenIn(measured') = ({v \in OpenIn(measured) : v <= spaces} \cup {spaces}) \ {0}
  BY <1>1, <1>3, OpenAppendLine, AppendFacts
<1> HIDE DEF popped
<1>7. indent_stack' \in Seq(Width) /\ Ascending(indent_stack')
  BY <1>1, <1>5, FirstLevel
<1>8. spoilt' \in BOOLEAN /\ (spoilt => spoilt')
  BY <1>1, <1>3
<1>9. token' \in TokenType /\ level' \in Int
  BY <1>2, <1>3, LexMeans DEF TokenType, LayoutToken
<1>10. pending_dedents' \in Int /\ pending_dedents' \in -1 .. IndentMax - 2
  <2>1. n - kept - 1 \in Int /\ n - kept - 1 \in -1 .. IndentMax - 2
    BY <1>3, <1>4, LexerAssumption
  <2>2. pending_dedents \in Int /\ pending_dedents \in -1 .. IndentMax - 2
    BY LexMeans
  <2> QED BY <1>2, <2>1, <2>2
<1>11. ASSUME ~spoilt'
       PROVE  /\ pending_dedents' = n - kept - 1 /\ token' = "DEDENT" /\ level' = level - 1
              /\ kept < n /\ Len(indent_stack') = kept /\ level = n - 1
              /\ first # "end" => OpenIn(measured') = Levels(indent_stack')
  <2>1. /\ ~spoilt
        /\ first = "end" => ~(kept > 1)
        /\ first # "end" => popped[kept] = spaces
    BY <1>1, <1>3, <1>11
  <2>2. pending_dedents' = n - kept - 1 /\ token' = "DEDENT" /\ level' = level - 1
    BY <1>2, <2>1
  <2>3. kept < n
    <3>1. \A i \in 1 .. n : indent_stack[i] \in Nat
      BY <1>3, WidthFacts
    <3>2. spaces \in Nat /\ n \in 1 .. n /\ 1 \in 1 .. n
      BY <1>3, LexerAssumption
    <3>3. CASE first = "end"
      <4>1. kept = 1
        BY <1>4, <2>1, <3>3
      <4>2. n # 1
        <5> SUFFICES ASSUME n = 1 PROVE FALSE
          OBVIOUS
        <5>1. spaces < indent_stack[1]
          BY <1>1
        <5>2. indent_stack[1] = 0
          BY <1>3 DEF Ascending
        <5> QED BY <3>2, <5>1, <5>2
      <4>3. n >= 1
        BY <1>3, WidthFacts DEF Ascending
      <4> HIDE DEF n
      <4> QED BY <1>3, <4>1, <4>2, <4>3
    <3>4. CASE first # "end"
      <4>1. spaces < indent_stack[n] /\ indent_stack[kept] = spaces
        BY <1>1, <1>5, <2>1, <3>4
      <4>2. kept # n
        BY <3>1, <3>2, <4>1
      <4> QED BY <1>3, <1>4, <4>2
    <3> QED BY <3>3, <3>4
  <2>4. Len(indent_stack') = kept
    <3>1. CASE first = "end"
      BY <1>1, <1>4, <2>1, <3>1, FirstLevel
    <3>2. CASE first # "end"
      BY <1>1, <1>5, <3>2
    <3> QED BY <3>1, <3>2
  <2>5. level = n - 1 /\ OpenIn(measured) = Levels(indent_stack)
    BY <1>3, <2>1
  <2>6. first # "end" => OpenIn(measured') = Levels(indent_stack')
    BY <1>1, <1>5, <1>6, <2>1, <2>5
  <2> QED BY <2>2, <2>3, <2>4, <2>5, <2>6
<1>12. LexInv'
  <2>1. ASSUME ~spoilt'
        PROVE  pending_dedents' >= 0 /\ level' - pending_dedents' = Len(indent_stack') - 1
    BY <1>3, <1>4, <1>11, <2>1
  <2>2. at_line_start' \in BOOLEAN /\ bracket_depth' \in Nat /\ ~(bracket_depth' > 0)
    BY <1>1, <1>3
  <2>3. ahead' \in Ahead /\ (ahead' = "end" => indent_stack' = <<0>>) /\ ~at_line_start'
    BY <1>1
  <2> QED BY <1>1, <1>6, <1>7, <1>8, <1>9, <1>10, <1>11, <2>1, <2>2, <2>3, LexMeansNext
<1>13. Told
  <2>1. ASSUME ~spoilt' PROVE level' + Shift(token') = level /\ token' # "END_OF_FILE"
    BY <1>3, <1>11, <2>1 DEF Shift
  <2> QED BY <1>8, <2>1 DEF Told
<1> QED BY <1>12, <1>13

LEMMA SameLevelKeeps ==
  ASSUME LexInv, NEW had, NEW spaces \in Width, NEW first \in Beginning,
         SameLevel(spaces, first, had)
  PROVE  LexInv' /\ Told
<1> DEFINE n == Len(indent_stack)
<1>1. /\ LineStart /\ first \in Ahead /\ InLine(first, had)
      /\ first # "end" => spaces = indent_stack[n]
      /\ measured' = IF first = "end" THEN measured ELSE Append(measured, spaces)
  BY DEF SameLevel, Beginning, Ahead, top, indent_depth
<1>2. /\ indent_stack \in Seq(Width) /\ Ascending(indent_stack) /\ measured \in Seq(Width)
      /\ n \in 1 .. n /\ pending_dedents <= 0 /\ ahead # "end"
      /\ ~spoilt => OpenIn(measured) = Levels(indent_stack)
  BY <1>1, AtLineStart
<1>3. measured' \in Seq(Width)
  BY <1>1, <1>2, AppendFacts
<1>4. ASSUME ~spoilt, first # "end" PROVE OpenIn(measured') = Levels(indent_stack)
  <2>1. OpenIn(measured')
          = ({v \in OpenIn(measured) : v <= spaces} \cup {spaces}) \ {0}
    BY <1>1, <1>2, <1>4, OpenAppendLine
  <2>2. SubSeq(indent_stack, 1, n) = indent_stack
    BY <1>2, PrefixWhole DEF Prefix
  <2>3. Levels(indent_stack)
          = ({v \in Levels(indent_stack) : v <= indent_stack[n]} \cup {indent_stack[n]}) \ {0}
    <3> HIDE DEF n
    <3>1. Levels(SubSeq(indent_stack, 1, n))
            = ({v \in Levels(indent_stack) : v <= indent_stack[n]} \cup {indent_stack[n]}) \ {0}
      <4>1. n \in 1 .. Len(indent_stack)
        BY <1>2 DEF n
      <4> QED BY <1>2, <4>1, CutLevels
    <3> QED BY <2>2, <3>1
  <2> QED BY <1>1, <1>2, <1>4, <2>1, <2>3
<1> QED BY <1>1, <1>2, <1>3, <1>4, InLineKeeps

LEMMA LexKeeps ==
  ASSUME LexInv, NEW had, Lex(had)
  PROVE  LexInv' /\ Told
BY QueuedDedentKeeps, ContinueKeeps, TabKeeps, DeeperKeeps, ShallowerKeeps, SameLevelKeeps DEF Lex

(* A text that is opened, and one that is gone back to.                     *)
LEMMA OpenTextKeeps ==
  ASSUME LexInv, OpenText, token' = token
  PROVE  LexInv' /\ level' = 0 /\ ~spoilt'
<1>1. /\ indent_stack' = <<0>> /\ pending_dedents' = 0 /\ bracket_depth' = 0
      /\ at_line_start' = TRUE /\ ahead' = "any" /\ measured' = <<>> /\ level' = 0
      /\ spoilt' = FALSE
  BY DEF OpenText
<1>2. OpenIn(<<>>) = {} /\ <<>> \in Seq(Width)
  <2>1. Lowest(<<>>) = {}
    BY DEF Lowest
  <2> QED BY <2>1 DEF OpenIn
<1>3. 0 \in -1 .. IndentMax - 2 /\ 0 \in Int /\ 0 \in Nat /\ ~(0 > 0) /\ TRUE \in BOOLEAN
      /\ FALSE \in BOOLEAN /\ 0 >= 0 /\ 0 - 0 = 1 - 1 /\ "any" \in Ahead /\ "any" # "end"
  BY LexerAssumption DEF Ahead
<1>4. token' \in TokenType
  BY LexMeans
<1> QED BY <1>1, <1>2, <1>3, <1>4, FirstLevel, LexMeansNext

LEMMA RestoreKeeps ==
  ASSUME NEW s, TextInv(s), Restore(s)
  PROVE  LexInv'
<1>1. /\ indent_stack' = s.stack /\ pending_dedents' = s.pending /\ at_line_start' = s.start
      /\ bracket_depth' = s.bracket /\ token' = s.token /\ ahead' = s.ahead
      /\ measured' = s.measured /\ level' = s.level /\ spoilt' = s.spoilt
  BY DEF Restore, RestoreText
<1> QED BY <1>1, LexMeansNext DEF TextInv, TextState

LEMMA LexerInitKeeps == LexerInit => LexInv
<1> SUFFICES ASSUME LexerInit PROVE LexInv
  OBVIOUS
<1>1. OpenIn(<<>>) = {} /\ <<>> \in Seq(Width)
  <2>1. Lowest(<<>>) = {}
    BY DEF Lowest
  <2> QED BY <2>1 DEF OpenIn
<1>2. 0 \in -1 .. IndentMax - 2 /\ 0 \in Int /\ 0 \in Nat /\ ~(0 > 0) /\ TRUE \in BOOLEAN
      /\ FALSE \in BOOLEAN /\ 0 >= 0 /\ 0 - 0 = 1 - 1 /\ "any" \in Ahead /\ "any" # "end"
      /\ "END_OF_FILE" \in TokenType
  BY LexerAssumption DEF Ahead, TokenType
<1> QED BY <1>1, <1>2, FirstLevel, LexMeans DEF LexerInit

-----------------------------------------------------------------------------
(* The blocks and files the parser is in.                                   *)

Activation == [kind : Block \cup {"file"}, outer : TextState \cup {<<>>}, astray : BOOLEAN]

(* Imports are refused in a block: where the importing text waits, no block *)
(* of it is open, and its text can go on.                                   *)
FileInv(b) ==
  b.kind = "file" =>
    /\ TextInv(b.outer)
    /\ ~b.outer.spoilt =>
         /\ ~b.astray => b.outer.level + Shift(b.outer.token) = 0
         /\ b.outer.token = "END_OF_FILE" => b.outer.level = 0 /\ b.outer.ahead = "end"

FilesFirst(bs) == \A i \in 2 .. Len(bs) : bs[i].kind = "file" => bs[i - 1].kind = "file"

BlocksInv(bs) ==
  bs \in Seq(Activation) /\ FilesFirst(bs) /\ \A i \in 1 .. Len(bs) : FileInv(bs[i])

EndsInFile(bs) == IF bs = <<>> THEN TRUE ELSE Last(bs).kind = "file"

(* The innermost file, 0 for the text that run() parses.                    *)
File(bs) == Max({i \in DOMAIN bs : bs[i].kind = "file"} \cup {0})
OpenOf(bs) == Len(bs) - File(bs)

LEMMA BlockNames == (InFile <=> EndsInFile(blocks)) /\ OpenBlocks = OpenOf(blocks)
BY DEF InFile, EndsInFile, OpenBlocks, OpenOf, File

LEMMA FileFacts ==
  ASSUME NEW bs \in Seq(Activation)
  PROVE  LET files == {i \in DOMAIN bs : bs[i].kind = "file"} \cup {0} IN
         /\ File(bs) \in files /\ File(bs) \in 0 .. Len(bs)
         /\ \A n \in files : n <= File(bs)
         /\ \A n \in files : (\A m \in files : m <= n) => File(bs) = n
<1> DEFINE files == {i \in DOMAIN bs : bs[i].kind = "file"} \cup {0}
<1>1. DOMAIN bs = 1 .. Len(bs) /\ Len(bs) \in Nat
  BY SeqFacts
<1>2. files \in SUBSET Nat /\ files # {} /\ \A m \in files : m <= Len(bs)
  BY <1>1
<1>3. File(bs) = CHOOSE n \in files : \A m \in files : n >= m
  BY DEF File, Max
<1> HIDE DEF files
<1>4. PICK n \in files : \A m \in files : m <= n
  BY <1>1, <1>2, GreatestElement
<1>5. \A m \in files : n >= m
  BY <1>2, <1>4
<1>6. File(bs) \in files /\ \A m \in files : File(bs) >= m
  BY <1>3, <1>5
<1>7. \A m \in files : m <= File(bs)
  BY <1>2, <1>6
<1>8. ASSUME NEW k \in files, \A m \in files : m <= k PROVE File(bs) = k
  <2>1. File(bs) \in Nat /\ k \in Nat
    BY <1>2, <1>6
  <2>2. File(bs) <= k /\ k <= File(bs)
    BY <1>6, <1>7, <1>8
  <2> QED BY <2>1, <2>2
<1>9. File(bs) \in 0 .. Len(bs)
  <2>1. File(bs) \in Nat /\ File(bs) <= Len(bs)
    BY <1>2, <1>6
  <2> QED BY <1>1, <2>1
<1> QED BY <1>6, <1>7, <1>8, <1>9 DEF files

LEMMA OpenFacts ==
  ASSUME NEW bs \in Seq(Activation)
  PROVE  /\ OpenOf(bs) \in Nat
         /\ EndsInFile(bs) => OpenOf(bs) = 0
         /\ ~EndsInFile(bs) => OpenOf(bs) >= 1
<1> DEFINE files == {i \in DOMAIN bs : bs[i].kind = "file"} \cup {0}
<1>1. /\ DOMAIN bs = 1 .. Len(bs) /\ Len(bs) \in Nat /\ (bs # <<>> => Len(bs) > 0)
      /\ Last(bs) = bs[Len(bs)]
  BY SeqFacts DEF Last
<1>2. /\ File(bs) \in files /\ File(bs) \in 0 .. Len(bs) /\ \A n \in files : n <= File(bs)
  BY FileFacts
<1>3. CASE bs = <<>>
  BY <1>1, <1>2, <1>3 DEF OpenOf, EndsInFile
<1>4. CASE bs # <<>> /\ Last(bs).kind = "file"
  <2>1. Len(bs) \in files
    BY <1>1, <1>4
  <2>2. Len(bs) <= File(bs)
    BY <1>2, <2>1
  <2> QED BY <1>1, <1>2, <1>4, <2>2 DEF OpenOf, EndsInFile
<1>5. CASE bs # <<>> /\ Last(bs).kind # "file"
  <2>1. Len(bs) \notin files
    BY <1>1, <1>5
  <2>2. File(bs) # Len(bs)
    BY <1>2, <2>1
  <2> QED BY <1>1, <1>2, <1>5, <2>2 DEF OpenOf, EndsInFile
<1> QED BY <1>3, <1>4, <1>5

LEMMA PushFacts ==
  ASSUME NEW bs, BlocksInv(bs), NEW b \in Activation, FileInv(b)
  PROVE  /\ b.kind # "file" =>
              BlocksInv(Append(bs, b)) /\ OpenOf(Append(bs, b)) = OpenOf(bs) + 1
         /\ b.kind = "file" /\ EndsInFile(bs) =>
              BlocksInv(Append(bs, b)) /\ EndsInFile(Append(bs, b))
<1> DEFINE n == Len(bs)
           new == Append(bs, b)
           files == {i \in DOMAIN bs : bs[i].kind = "file"} \cup {0}
           newFiles == {i \in DOMAIN new : new[i].kind = "file"} \cup {0}
<1>1. /\ bs \in Seq(Activation) /\ n \in Nat /\ DOMAIN bs = 1 .. n /\ FilesFirst(bs)
      /\ \A i \in 1 .. n : FileInv(bs[i])
      /\ (bs # <<>> => n > 0) /\ Last(bs) = bs[n]
  BY SeqFacts DEF BlocksInv, Last
<1>2. /\ new \in Seq(Activation) /\ Len(new) = n + 1 /\ DOMAIN new = 1 .. n + 1
      /\ new[n + 1] = b /\ \A i \in 1 .. n : new[i] = bs[i]
  BY <1>1, AppendFacts
<1>3. Last(new) = b /\ new # <<>>
  BY <1>1, <1>2 DEF Last
<1> HIDE DEF new, n
<1>4. \A i \in 1 .. n + 1 : FileInv(new[i])
  <2> TAKE i \in 1 .. n + 1
  <2>1. i = n + 1 \/ i \in 1 .. n
    BY <1>1
  <2> QED BY <1>1, <1>2, <2>1
<1>5. ASSUME b.kind # "file" \/ EndsInFile(bs) PROVE FilesFirst(new)
  <2> SUFFICES ASSUME NEW i \in 2 .. n + 1, new[i].kind = "file" PROVE new[i - 1].kind = "file"
    BY <1>2 DEF FilesFirst
  <2>1. CASE i = n + 1
    <3>1. n >= 1 /\ n \in 1 .. n /\ i - 1 = n
      BY <1>1, <2>1
    <3>2. EndsInFile(bs) /\ bs # <<>>
      <4>1. bs # <<>>
        BY <3>1, <1>1 DEF n
      <4> QED BY <1>2, <1>5, <2>1, <4>1
    <3> QED BY <1>1, <1>2, <3>1, <3>2 DEF EndsInFile
  <2>2. CASE i # n + 1
    <3>1. i \in 2 .. n /\ i \in 1 .. n /\ i - 1 \in 1 .. n
      BY <1>1, <2>2
    <3>2. new[i] = bs[i] /\ new[i - 1] = bs[i - 1]
      BY <1>2, <3>1
    <3> QED BY <1>1, <3>1, <3>2 DEF FilesFirst, n
  <2> QED BY <2>1, <2>2
<1>6. ASSUME b.kind # "file" \/ EndsInFile(bs) PROVE BlocksInv(new)
  BY <1>2, <1>4, <1>5, <1>6 DEF BlocksInv
<1>7. ASSUME b.kind # "file" PROVE OpenOf(new) = OpenOf(bs) + 1
  <2>1. newFiles = files
    BY <1>1, <1>2, <1>7
  <2>2. File(new) = File(bs)
    BY <2>1 DEF File
  <2>3. File(bs) \in 0 .. n
    BY <1>1, FileFacts DEF n
  <2> QED BY <1>1, <1>2, <2>2, <2>3 DEF OpenOf, n
<1>8. ASSUME b.kind = "file" PROVE EndsInFile(new)
  BY <1>3, <1>8 DEF EndsInFile
<1> QED BY <1>6, <1>7, <1>8 DEF new

LEMMA PopFacts ==
  ASSUME NEW bs, BlocksInv(bs), bs # <<>>
  PROVE  /\ BlocksInv(Front(bs)) /\ FileInv(Last(bs)) /\ Last(bs) \in Activation
         /\ Last(bs).kind # "file" => OpenOf(bs) = OpenOf(Front(bs)) + 1
         /\ Last(bs).kind = "file" => EndsInFile(Front(bs))
<1> DEFINE n == Len(bs)
           front == Front(bs)
           last == Last(bs)
<1>1. /\ bs \in Seq(Activation) /\ FilesFirst(bs) /\ \A i \in 1 .. n : FileInv(bs[i])
  BY DEF BlocksInv
<1>2. /\ front \in Seq(Activation) /\ n \in Nat \ {0} /\ Len(front) = n - 1
      /\ DOMAIN front = 1 .. n - 1 /\ \A i \in 1 .. n - 1 : front[i] = bs[i]
      /\ last = bs[n] /\ last \in Activation
  BY <1>1, FrontFacts
<1>3. bs = Append(front, last)
  BY <1>1, AppendLast
<1> HIDE DEF front, last
<1>4. FilesFirst(front)
  <2> SUFFICES ASSUME NEW i \in 2 .. n - 1, front[i].kind = "file" PROVE front[i - 1].kind = "file"
    BY <1>2 DEF FilesFirst
  <2>1. i \in 2 .. n /\ i \in 1 .. n - 1 /\ i - 1 \in 1 .. n - 1
    BY <1>2
  <2>2. front[i] = bs[i] /\ front[i - 1] = bs[i - 1]
    BY <1>2, <2>1
  <2> QED BY <1>1, <2>1, <2>2 DEF FilesFirst
<1>5. BlocksInv(front) /\ FileInv(last)
  <2>1. \A i \in 1 .. n - 1 : FileInv(front[i])
    BY <1>1, <1>2
  <2>2. FileInv(last)
    BY <1>1, <1>2
  <2> QED BY <1>2, <1>4, <2>1, <2>2 DEF BlocksInv
<1>6. ASSUME last.kind # "file" PROVE OpenOf(bs) = OpenOf(front) + 1
  <2>1. OpenOf(Append(front, last)) = OpenOf(front) + 1
    BY <1>2, <1>5, <1>6, PushFacts
  <2> QED BY <1>3, <2>1
<1>7. ASSUME last.kind = "file" PROVE EndsInFile(front)
  <2> SUFFICES ASSUME front # <<>> PROVE Last(front).kind = "file"
    BY DEF EndsInFile
  <2>1. Len(front) > 0 /\ Last(front) = front[n - 1]
    BY <1>2, SeqFacts DEF Last
  <2>2. n \in 2 .. n /\ n - 1 \in 1 .. n - 1
    BY <1>2, <2>1
  <2> QED BY <1>1, <1>2, <1>7, <2>1, <2>2 DEF FilesFirst
<1> QED BY <1>2, <1>5, <1>6, <1>7 DEF front, last

-----------------------------------------------------------------------------
(* The parser.                                                              *)

ParserInv ==
  /\ pc \in Pc /\ kind \in Block \cup {"simple", "import"}
  /\ astray \in BOOLEAN /\ depth \in Nat /\ BlocksInv(blocks)
  /\ pc \in {"newline", "indent", "colon"} => kind \in Block
  /\ pc \in {"enter", "import", "load"} => InFile
  /\ pc = "stopped" => blocks = <<>>
  /\ depth > 0 => pc = "junk"
  /\ pc = "junk" /\ depth = 0 => token = "INDENT"

(* The blocks that are open, with those that skip_orphaned_block reads      *)
(* over, are the levels of the tokens that the parser has read over; an     *)
(* END_OF_FILE means that all are closed.  (Before the first call of lex()  *)
(* token is that of another text.)                                          *)
Counted ==
  ~spoilt =>
    /\ pc = "enter" => level = 0
    /\ ~astray /\ pc # "enter" => OpenBlocks + depth = level + Shift(token)
    /\ token = "END_OF_FILE" /\ pc # "enter" =>
         level = 0 /\ (ahead = "end" \/ (pc \in {"head", "stopped"} /\ InFile))

LayoutInv == LexInv /\ ParserInv /\ Counted

(* Nothing of the text is read.                                             *)
Untouched == UNCHANGED <<place, token, ahead, history>>

LEMMA UntouchedKeeps ==
  ASSUME LexInv, Untouched
  PROVE  LexInv' /\ spoilt' = spoilt /\ token' = token /\ level' = level /\ ahead' = ahead
BY DEF Untouched, place, history, LexInv, Saved

LEMMA Numbers ==
  ASSUME LayoutInv
  PROVE  /\ level \in Int /\ depth \in Nat /\ OpenBlocks \in Nat /\ Shift(token) \in Int
         /\ (InFile => OpenBlocks = 0) /\ (~InFile => OpenBlocks >= 1)
         /\ ~spoilt => pending_dedents >= 0 /\ level - pending_dedents >= 0 /\ level >= 0
<1>1. /\ level \in Int /\ depth \in Nat /\ pending_dedents \in Int /\ Ascending(indent_stack)
      /\ indent_stack \in Seq(Width) /\ blocks \in Seq(Activation)
      /\ ~spoilt => pending_dedents >= 0 /\ level - pending_dedents = Len(indent_stack) - 1
  BY LexMeans DEF LayoutInv, ParserInv, BlocksInv
<1>2. Len(indent_stack) \in Nat /\ Len(indent_stack) >= 1
  BY <1>1, WidthFacts DEF Ascending
<1>3. /\ OpenBlocks \in Nat /\ (InFile => OpenBlocks = 0) /\ (~InFile => OpenBlocks >= 1)
  BY <1>1, OpenFacts, BlockNames
<1>4. Shift(token) \in Int
  BY DEF Shift
<1>5. ASSUME ~spoilt
      PROVE  pending_dedents >= 0 /\ level - pending_dedents >= 0 /\ level >= 0
  BY <1>1, <1>2, <1>5
<1> QED BY <1>1, <1>3, <1>4, <1>5

(* A step that reads nothing and opens and closes no block.                 *)
LEMMA QuietKeeps ==
  ASSUME LayoutInv, Untouched, UNCHANGED <<blocks, depth>>,
         pc \notin {"enter", "junk", "stopped"}, pc' \in Pc \ {"enter"},
         kind' \in Block \cup {"simple", "import"}, astray' \in BOOLEAN, astray => astray',
         pc' \in {"newline", "indent", "colon"} => kind' \in Block,
         pc' \in {"import", "load"} => InFile,
         pc' = "stopped" => blocks = <<>>,
         pc' = "junk" => token = "INDENT",
         pc = "head" /\ token = "END_OF_FILE" => pc' = "stopped"
  PROVE  LayoutInv'
<1>1. LexInv' /\ spoilt' = spoilt /\ token' = token /\ level' = level /\ ahead' = ahead
  BY UntouchedKeeps DEF LayoutInv
<1>2. depth = 0 /\ depth' = 0
  BY DEF LayoutInv, ParserInv
<1>3. (InFile <=> InFile') /\ OpenBlocks' = OpenBlocks /\ BlocksInv(blocks')
  BY DEF InFile, OpenBlocks, LayoutInv, ParserInv
<1>4. ParserInv'
  BY <1>1, <1>2, <1>3 DEF LayoutInv, ParserInv
<1>5. Counted'
  <2> SUFFICES ASSUME ~spoilt
               PROVE  /\ ~astray' => OpenBlocks + depth = level + Shift(token)
                      /\ token = "END_OF_FILE" =>
                           level = 0 /\ (ahead = "end" \/ (pc' \in {"head", "stopped"} /\ InFile))
    BY <1>1, <1>3, <1>2 DEF Counted
  <2>1. ASSUME ~astray' PROVE OpenBlocks + depth = level + Shift(token)
    BY <2>1 DEF LayoutInv, Counted
  <2>2. ASSUME token = "END_OF_FILE"
        PROVE  level = 0 /\ (ahead = "end" \/ (pc' \in {"head", "stopped"} /\ InFile))
    <3>1. level = 0 /\ (ahead = "end" \/ (pc \in {"head", "stopped"} /\ InFile))
      BY <2>2 DEF LayoutInv, Counted
    <3> QED BY <2>2, <3>1
  <2> QED BY <2>1, <2>2
<1> QED BY <1>1, <1>4, <1>5 DEF LayoutInv

(* A step that reads over a token that opens and closes no level.           *)
LEMMA ReadKeeps ==
  ASSUME LayoutInv, NEW had, Lex(had), UNCHANGED <<blocks, depth>>,
         pc \notin {"enter", "junk", "stopped"}, pc' \in Pc \ {"enter", "junk", "stopped"},
         kind' \in Block \cup {"simple", "import"}, astray' \in BOOLEAN, astray => astray',
         pc' \in {"newline", "indent", "colon"} => kind' \in Block,
         pc' \in {"import", "load"} => InFile,
         pc = "head" => token # "END_OF_FILE",
         ~spoilt /\ ~astray' => Shift(token) = 0
  PROVE  LayoutInv'
<1>1. LexInv' /\ Told
  BY LexKeeps DEF LayoutInv
<1>2. depth = 0 /\ depth' = 0
  BY DEF LayoutInv, ParserInv
<1>3. (InFile <=> InFile') /\ OpenBlocks' = OpenBlocks /\ BlocksInv(blocks')
  BY DEF InFile, OpenBlocks, LayoutInv, ParserInv
<1>4. ParserInv'
  BY <1>2, <1>3 DEF LayoutInv, ParserInv
<1>5. Counted'
  <2> SUFFICES ASSUME ~spoilt'
               PROVE  /\ ~astray' => OpenBlocks + 0 = level' + Shift(token')
                      /\ token' = "END_OF_FILE" => level' = 0 /\ ahead' = "end"
    BY <1>2, <1>3 DEF Counted
  <2>1. ~spoilt /\ level' + Shift(token') = level
    BY <1>1 DEF Told
  <2>2. ASSUME ~astray' PROVE OpenBlocks + 0 = level' + Shift(token')
    <3>1. OpenBlocks + depth = level + Shift(token) /\ Shift(token) = 0
      BY <2>1, <2>2 DEF LayoutInv, Counted
    <3> QED BY <1>2, <2>1, <3>1, Numbers
  <2>3. ASSUME token' = "END_OF_FILE" PROVE level' = 0 /\ ahead' = "end"
    <3>1. (ahead' = "end" /\ level' = 0) \/ (token = "END_OF_FILE" /\ ahead # "end")
      BY <1>1, <2>3 DEF Told
    <3>2. ~(token = "END_OF_FILE" /\ ahead # "end")
      BY <2>1 DEF LayoutInv, Counted
    <3> QED BY <3>1, <3>2
  <2> QED BY <2>2, <2>3
<1> QED BY <1>1, <1>4, <1>5 DEF LayoutInv

(* The first token of a text.                                               *)
LEMMA EnterKeeps == LayoutInv /\ Enter => LayoutInv'
<1> SUFFICES ASSUME LayoutInv, Enter PROVE LayoutInv'
  OBVIOUS
<1>1. /\ pc = "enter" /\ Lex(parse_had_error) /\ pc' = "head"
      /\ UNCHANGED <<kind, blocks, recovered_at_boundary, depth, astray>>
  BY DEF Enter, Goto
<1>2. LexInv' /\ Told
  BY <1>1, LexKeeps DEF LayoutInv
<1>3. InFile /\ depth = 0 /\ OpenBlocks = 0 /\ InFile' /\ OpenBlocks' = 0
  BY <1>1, Numbers DEF LayoutInv, ParserInv, InFile, OpenBlocks
<1>4. ParserInv'
  BY <1>1, <1>3 DEF LayoutInv, ParserInv, Pc
<1>5. Counted'
  <2> SUFFICES ASSUME ~spoilt'
               PROVE  /\ ~astray => 0 = level' + Shift(token')
                      /\ token' = "END_OF_FILE" => level' = 0
    BY <1>1, <1>3 DEF Counted
  <2>1. ~spoilt /\ level' + Shift(token') = level
    BY <1>2 DEF Told
  <2>2. ASSUME ~astray PROVE 0 = level' + Shift(token')
    BY <1>1, <2>1, <2>2 DEF LayoutInv, Counted
  <2>3. ASSUME token' = "END_OF_FILE" PROVE level' = 0
    <3>1. level = 0 /\ Shift(token') = 0 /\ level' \in Int
      BY <1>1, <1>2, <2>1, <2>3, LexMeansNext DEF LayoutInv, Counted, Shift
    <3>2. \A l \in Int : l + 0 = 0 => l = 0
      OBVIOUS
    <3> QED BY <2>1, <3>1, <3>2, Zenon
  <2> QED BY <2>2, <2>3
<1> QED BY <1>2, <1>4, <1>5 DEF LayoutInv

(* The end of a block: at a DEDENT, or given up at an else or at the end of *)
(* the text.                                                                *)
LEMMA CloseBlockKeeps == LayoutInv /\ CloseBlock => LayoutInv'
<1> SUFFICES ASSUME LayoutInv, CloseBlock PROVE LayoutInv'
  OBVIOUS
<1>1. /\ pc = "head" /\ ~InFile /\ token \in {"END_OF_FILE", "else", "DEDENT"}
      /\ pc' \in {"else?", "done"} /\ blocks' = Front(blocks)
      /\ astray' = (astray \/ token = "else") /\ UNCHANGED <<kind, depth>>
  BY DEF CloseBlock
<1>2. /\ blocks # <<>> /\ Last(blocks).kind # "file" /\ BlocksInv(blocks)
      /\ depth = 0 /\ astray \in BOOLEAN
  BY <1>1 DEF InFile, LayoutInv, ParserInv
<1>3. BlocksInv(blocks') /\ OpenOf(blocks) = OpenOf(blocks') + 1
  BY <1>1, <1>2, PopFacts
<1>4. OpenBlocks = OpenBlocks' + 1 /\ OpenBlocks' \in Nat /\ OpenBlocks >= 1
  <2>1. OpenBlocks' = OpenOf(blocks') /\ OpenBlocks = OpenOf(blocks)
    BY BlockNames DEF OpenBlocks, OpenOf, File
  <2>2. OpenOf(blocks') \in Nat
    BY <1>3, OpenFacts DEF BlocksInv
  <2> QED BY <1>3, <2>1, <2>2
<1>5. ParserInv'
  BY <1>1, <1>2, <1>3 DEF LayoutInv, ParserInv, Pc
<1>6. ASSUME ~spoilt, ~astray PROVE OpenBlocks = level + Shift(token)
  <2>1. OpenBlocks + depth = level + Shift(token)
    BY <1>1, <1>6 DEF LayoutInv, Counted
  <2> QED BY <1>2, <2>1, Numbers
<1>7. ASSUME ~spoilt, token = "END_OF_FILE" PROVE level = 0 /\ ahead = "end"
  BY <1>1, <1>7 DEF LayoutInv, Counted
<1>8. CASE token = "DEDENT"
  <2>1. LexInv' /\ Told
    BY <1>8, LexKeeps DEF CloseBlock, LayoutInv
  <2>2. Counted'
    <3> SUFFICES ASSUME ~spoilt'
                 PROVE  /\ ~astray' => OpenBlocks' + 0 = level' + Shift(token')
                        /\ token' = "END_OF_FILE" => level' = 0 /\ ahead' = "end"
      BY <1>1, <1>2 DEF Counted
    <3>1. ~spoilt /\ level' + Shift(token') = level
      BY <2>1 DEF Told
    <3>2. ASSUME ~astray' PROVE OpenBlocks' + 0 = level' + Shift(token')
      <4>1. OpenBlocks = level + 1
        BY <1>1, <1>2, <1>6, <1>8, <3>1, <3>2 DEF Shift
      <4>2. \A b, o, l \in Int : b = o + 1 /\ b = l + 1 => o + 0 = l
        OBVIOUS
      <4>3. OpenBlocks \in Int /\ OpenBlocks' \in Int /\ level \in Int
        BY <1>4, Numbers
      <4>4. OpenBlocks' + 0 = level
        BY <1>4, <4>1, <4>2, <4>3, Zenon
      <4> QED BY <3>1, <4>4, Zenon
    <3>3. ASSUME token' = "END_OF_FILE" PROVE level' = 0 /\ ahead' = "end"
      BY <1>8, <2>1, <3>3 DEF Told
    <3> QED BY <3>2, <3>3
  <2> QED BY <1>5, <2>1, <2>2 DEF LayoutInv
<1>9. CASE token # "DEDENT"
  <2>1. UNCHANGED lexer
    BY <1>9 DEF CloseBlock
  <2>2. LexInv' /\ spoilt' = spoilt /\ token' = token /\ level' = level /\ ahead' = ahead
    BY <2>1, UntouchedKeeps DEF Untouched, lexer, LayoutInv
  <2>3. Counted'
    <3> SUFFICES ASSUME ~spoilt
                 PROVE  astray' /\ (token = "END_OF_FILE" => level = 0 /\ ahead = "end")
      BY <1>1, <2>2 DEF Counted
    <3>1. ASSUME ~astray, token = "END_OF_FILE" PROVE FALSE
      <4>1. OpenBlocks = 0 + 0
        BY <1>6, <1>7, <3>1 DEF Shift
      <4>2. \A b \in Int : b = 0 + 0 => ~(b >= 1)
        OBVIOUS
      <4>3. OpenBlocks \in Int
        BY Numbers
      <4> QED BY <1>4, <4>1, <4>2, <4>3, Zenon
    <3>2. astray'
      BY <1>1, <1>2, <1>9, <3>1
    <3> QED BY <1>7, <3>2
  <2> QED BY <1>5, <2>2, <2>3 DEF LayoutInv
<1> QED BY <1>8, <1>9

(* A block begins.                                                          *)
LEMMA IndentKeeps == LayoutInv /\ Indent => LayoutInv'
<1> SUFFICES ASSUME LayoutInv, Indent PROVE LayoutInv'
  OBVIOUS
<1>1. /\ pc = "indent" /\ Lex(parse_had_error \/ token # "INDENT") /\ pc' = "head"
      /\ blocks' = Append(blocks, BlockFrame) /\ astray' = (astray \/ token # "INDENT")
      /\ UNCHANGED <<kind, depth>>
  BY DEF Indent
<1>2. LexInv' /\ Told
  BY <1>1, LexKeeps DEF LayoutInv
<1>3. kind \in Block /\ BlocksInv(blocks) /\ depth = 0 /\ astray \in BOOLEAN
  BY <1>1 DEF LayoutInv, ParserInv
<1>4. BlockFrame \in Activation /\ BlockFrame.kind # "file"
  BY <1>3 DEF BlockFrame, Activation, Block
<1>5. BlocksInv(blocks') /\ OpenOf(blocks') = OpenOf(blocks) + 1
  <2> DEFINE b == BlockFrame
  <2> HIDE DEF b
  <2>1. b \in Activation /\ b.kind # "file" /\ FileInv(b)
    BY <1>4 DEF FileInv, b
  <2>2. BlocksInv(Append(blocks, b)) /\ OpenOf(Append(blocks, b)) = OpenOf(blocks) + 1
    BY <1>3, <2>1, PushFacts
  <2> QED BY <1>1, <2>2 DEF b
<1>6. OpenBlocks' = OpenBlocks + 1
  BY <1>5, BlockNames DEF OpenBlocks, OpenOf, File
<1>7. ParserInv'
  BY <1>1, <1>3, <1>5 DEF LayoutInv, ParserInv, Pc
<1>8. Counted'
  <2> SUFFICES ASSUME ~spoilt'
               PROVE  /\ ~astray' => OpenBlocks' + 0 = level' + Shift(token')
                      /\ token' = "END_OF_FILE" => level' = 0 /\ ahead' = "end"
    BY <1>1, <1>3 DEF Counted
  <2>1. ~spoilt /\ level' + Shift(token') = level
    BY <1>2 DEF Told
  <2>2. ASSUME ~astray' PROVE OpenBlocks' + 0 = level' + Shift(token')
    <3>1. OpenBlocks + 0 = level + (-1)
      <4>1. ~astray /\ token = "INDENT"
        BY <1>1, <1>3, <2>2
      <4> QED BY <1>1, <1>3, <2>1, <4>1 DEF LayoutInv, Counted, Shift
    <3> QED BY <1>6, <2>1, <3>1, Numbers
  <2>3. ASSUME token' = "END_OF_FILE" PROVE level' = 0 /\ ahead' = "end"
    <3>1. (ahead' = "end" /\ level' = 0) \/ (token = "END_OF_FILE" /\ ahead # "end")
      BY <1>2, <2>3 DEF Told
    <3>2. ~(token = "END_OF_FILE" /\ ahead # "end")
      BY <1>1, <2>1 DEF LayoutInv, Counted
    <3> QED BY <3>1, <3>2
  <2> QED BY <2>2, <2>3
<1> QED BY <1>2, <1>7, <1>8 DEF LayoutInv

(* skip_orphaned_block counts the levels of the block it reads over.        *)
LEMMA JunkKeeps == LayoutInv /\ Junk => LayoutInv'
<1> SUFFICES ASSUME LayoutInv, Junk PROVE LayoutInv'
  OBVIOUS
<1> DEFINE d == depth - Shift(token)
           ends == d <= 0 \/ token' = "END_OF_FILE"
<1>1. /\ pc = "junk" /\ Lex(parse_had_error)
      /\ depth' = (IF ends THEN 0 ELSE d) /\ pc' = (IF ends THEN "head" ELSE "junk")
      /\ UNCHANGED <<kind, blocks, astray>>
  <2>1. /\ pc = "junk" /\ Lex(parse_had_error) /\ UNCHANGED <<kind, blocks, astray>>
    BY DEF Junk
  <2>2. depth + (IF token = "INDENT" THEN 1 ELSE IF token = "DEDENT" THEN -1 ELSE 0)
          = depth - Shift(token)
    <3>1. depth \in Int
      BY Numbers
    <3> QED BY <3>1 DEF Shift
  <2> QED BY <2>1, <2>2 DEF Junk
<1>2. LexInv' /\ Told
  BY <1>1, LexKeeps DEF LayoutInv
<1>3. d \in Nat
  <2>1. depth \in Nat /\ (depth = 0 => token = "INDENT")
    BY <1>1 DEF LayoutInv, ParserInv
  <2> QED BY <2>1 DEF Shift
<1>4. OpenBlocks' = OpenBlocks /\ (InFile <=> InFile') /\ BlocksInv(blocks')
  BY <1>1 DEF OpenBlocks, InFile, LayoutInv, ParserInv
<1> HIDE DEF d
<1>5. ParserInv'
  <2>1. depth' \in Nat /\ (depth' > 0 => pc' = "junk") /\ (pc' = "junk" => depth' # 0)
    BY <1>1, <1>3
  <2>2. pc' \in {"head", "junk"}
    BY <1>1
  <2> QED BY <1>1, <1>4, <2>1, <2>2 DEF LayoutInv, ParserInv, Pc
<1>6. Counted'
  <2> SUFFICES ASSUME ~spoilt'
               PROVE  /\ ~astray => OpenBlocks + depth' = level' + Shift(token')
                      /\ token' = "END_OF_FILE" => level' = 0 /\ ahead' = "end"
    BY <1>1, <1>4 DEF Counted
  <2>1. ~spoilt /\ level' + Shift(token') = level
    BY <1>2 DEF Told
  <2>2. ASSUME token' = "END_OF_FILE" PROVE level' = 0 /\ ahead' = "end"
    <3>1. (ahead' = "end" /\ level' = 0) \/ (token = "END_OF_FILE" /\ ahead # "end")
      BY <1>2, <2>2 DEF Told
    <3>2. ~(token = "END_OF_FILE" /\ ahead # "end")
      BY <1>1, <2>1 DEF LayoutInv, Counted
    <3> QED BY <3>1, <3>2
  <2>3. ASSUME ~astray PROVE OpenBlocks + depth' = level' + Shift(token')
    <3>1. OpenBlocks + d = level
      <4>1. OpenBlocks + depth = level + Shift(token)
        BY <1>1, <2>1, <2>3 DEF LayoutInv, Counted
      <4> QED BY <4>1, Numbers DEF d
    <3>2. depth' = d
      <4>1. CASE ~ends
        BY <1>1, <4>1
      <4>2. CASE d <= 0
        BY <1>1, <1>3, <4>2
      <4>3. CASE token' = "END_OF_FILE"
        <5>1. level' = 0 /\ Shift(token') = 0
          BY <2>2, <4>3 DEF Shift
        <5>2. OpenBlocks + d = 0 + 0
          BY <2>1, <3>1, <5>1
        <5>3. d = 0
          BY <1>3, <5>2, Numbers
        <5> QED BY <1>1, <5>3
      <4> QED BY <4>1, <4>2, <4>3
    <3> QED BY <2>1, <3>1, <3>2
  <2> QED BY <2>2, <2>3
<1> QED BY <1>2, <1>5, <1>6 DEF LayoutInv

-----------------------------------------------------------------------------
(* Texts within texts, and one after the other.                             *)

LEMMA LoadKeeps == LayoutInv /\ Load => LayoutInv'
<1> SUFFICES ASSUME LayoutInv, Load PROVE LayoutInv'
  OBVIOUS
<1> DEFINE b == FileFrame
<1>1. /\ pc = "load" /\ blocks' = Append(blocks, b) /\ OpenText /\ token' = token
      /\ pc' = "enter" /\ astray' = FALSE /\ UNCHANGED <<kind, depth>>
  BY DEF Load
<1>2. LexInv' /\ level' = 0
  BY <1>1, OpenTextKeeps DEF LayoutInv
<1>3. /\ EndsInFile(blocks) /\ OpenBlocks = 0 /\ depth = 0 /\ astray \in BOOLEAN
      /\ BlocksInv(blocks) /\ TextInv(Saved)
  BY <1>1, Numbers, BlockNames DEF LayoutInv, ParserInv, LexInv
<1>4. b = [kind |-> "file", outer |-> Saved, astray |-> astray]
  BY DEF FileFrame
<1>5. /\ Saved.spoilt = spoilt /\ Saved.level = level /\ Saved.token = token
      /\ Saved.ahead = ahead
  BY DEF Saved
<1> HIDE DEF b
<1>6. b.kind = "file" /\ b.outer = Saved /\ b.astray = astray
  BY <1>4
<1>7. b \in Activation
  BY <1>3, <1>4 DEF Activation, TextInv
<1>8. FileInv(b)
  <2> SUFFICES ASSUME ~spoilt
               PROVE  /\ ~astray => level + Shift(token) = 0
                      /\ token = "END_OF_FILE" => level = 0 /\ ahead = "end"
    BY <1>3, <1>5, <1>6 DEF FileInv
  <2>1. ASSUME ~astray PROVE level + Shift(token) = 0
    <3>1. 0 + 0 = level + Shift(token)
      BY <1>1, <1>3, <2>1 DEF LayoutInv, Counted
    <3> QED BY <3>1
  <2>2. ASSUME token = "END_OF_FILE" PROVE level = 0 /\ ahead = "end"
    BY <1>1, <2>2 DEF LayoutInv, Counted
  <2> QED BY <2>1, <2>2
<1>9. BlocksInv(blocks') /\ EndsInFile(blocks')
  BY <1>1, <1>3, <1>6, <1>7, <1>8, PushFacts
<1>10. InFile'
  BY <1>9 DEF InFile, EndsInFile
<1>11. ParserInv'
  BY <1>1, <1>3, <1>9, <1>10 DEF LayoutInv, ParserInv, Pc
<1>12. Counted'
  BY <1>1, <1>2 DEF Counted
<1> QED BY <1>2, <1>11, <1>12 DEF LayoutInv

LEMMA EndOfImportKeeps ==
  ASSUME LayoutInv, NEW failed, EndOfImport(failed)
  PROVE  LayoutInv'
<1> DEFINE b == Last(blocks)
           s == b.outer
<1>1. /\ pc = "head" /\ InFile /\ blocks # <<>> /\ Restore(s) /\ astray' = b.astray
      /\ blocks' = Front(blocks) /\ pc' = "done" /\ UNCHANGED <<kind, depth>>
  BY DEF EndOfImport
<1>2. BlocksInv(blocks) /\ b.kind = "file" /\ depth = 0
  BY <1>1 DEF LayoutInv, ParserInv, InFile
<1>3. /\ BlocksInv(blocks') /\ FileInv(b) /\ b \in Activation /\ EndsInFile(blocks')
  BY <1>1, <1>2, PopFacts
<1> HIDE DEF b
<1>4. TextInv(s) /\ b.astray \in BOOLEAN
  BY <1>2, <1>3 DEF FileInv, Activation
<1>5. LexInv'
  BY <1>1, <1>4, RestoreKeeps
<1>6. spoilt' = s.spoilt /\ level' = s.level /\ token' = s.token /\ ahead' = s.ahead
  BY <1>1 DEF Restore, RestoreText
<1>7. InFile' /\ OpenBlocks' = 0
  <2>1. OpenOf(blocks') = 0
    BY <1>3, OpenFacts DEF BlocksInv
  <2>2. InFile'
    BY <1>3 DEF InFile, EndsInFile
  <2> QED BY <2>1, <2>2 DEF OpenBlocks, OpenOf, File
<1>8. ParserInv'
  BY <1>1, <1>2, <1>3, <1>4 DEF LayoutInv, ParserInv, Pc
<1>9. Counted'
  <2> SUFFICES ASSUME ~s.spoilt
               PROVE  /\ ~b.astray => 0 + 0 = s.level + Shift(s.token)
                      /\ s.token = "END_OF_FILE" => s.level = 0 /\ s.ahead = "end"
    BY <1>1, <1>2, <1>6, <1>7 DEF Counted
  <2> QED BY <1>2, <1>3 DEF FileInv
<1> QED BY <1>5, <1>8, <1>9 DEF LayoutInv

LEMMA ShellKeeps == LayoutInv /\ Shell => LayoutInv'
<1> SUFFICES ASSUME LayoutInv, Shell PROVE LayoutInv'
  OBVIOUS
<1>1. /\ pc = "stopped" /\ OpenText /\ token' = token
      /\ pc' = "enter" /\ astray' = FALSE /\ UNCHANGED <<kind, blocks, depth>>
  BY DEF Shell
<1>2. LexInv' /\ level' = 0
  BY <1>1, OpenTextKeeps DEF LayoutInv
<1>3. blocks = <<>> /\ blocks' = <<>> /\ depth = 0
  BY <1>1 DEF LayoutInv, ParserInv
<1>4. ParserInv'
  BY <1>1, <1>3 DEF LayoutInv, ParserInv, Pc, InFile
<1>5. Counted'
  BY <1>1, <1>2 DEF Counted
<1> QED BY <1>2, <1>4, <1>5 DEF LayoutInv

-----------------------------------------------------------------------------
(* The other actions read one token or none.                                *)

LEMMA NoChange == UNCHANGED lexer => Untouched
BY DEF lexer, Untouched

LEMMA SkipLineKeeps == LayoutInv /\ SkipLine => LayoutInv'
<1> SUFFICES ASSUME LayoutInv, SkipLine PROVE LayoutInv'
  OBVIOUS
<1>1. /\ pc = "head" /\ Lex(parse_had_error) /\ pc' = "head"
      /\ token = "NEW_LINE" \/ (token = "DEDENT" /\ InFile)
      /\ UNCHANGED <<kind, blocks, depth, astray>>
  BY DEF SkipLine, Goto
<1>2. ASSUME ~spoilt, ~astray PROVE token # "DEDENT"
  <2> SUFFICES ASSUME token = "DEDENT" PROVE FALSE
    OBVIOUS
  <2>1. OpenBlocks + depth = level + 1
    BY <1>1, <1>2 DEF LayoutInv, Counted, Shift
  <2>2. OpenBlocks = 0 /\ depth = 0 /\ level \in Int /\ level >= 0
    BY <1>1, <1>2, Numbers DEF LayoutInv, ParserInv
  <2>3. 0 + 0 = level + 1
    BY <2>1, <2>2, Zenon
  <2> QED BY <2>2, <2>3
<1>3. ~spoilt /\ ~astray' => Shift(token) = 0
  BY <1>1, <1>2 DEF Shift
<1> QED BY <1>1, <1>3, ReadKeeps DEF LayoutInv, ParserInv, Pc

LEMMA StatementKeeps == LayoutInv /\ Statement => LayoutInv'
<1> SUFFICES ASSUME LayoutInv, Statement PROVE LayoutInv'
  OBVIOUS
<1> DEFINE starts == token \in {"word", "if", "for", "function", "import"}
<1>1. /\ pc = "head" /\ token \notin {"NEW_LINE", "END_OF_FILE", "DEDENT"}
      /\ kind' = IF token \in {"if", "for", "function", "import"} THEN token ELSE "simple"
      /\ pc' = IF ~starts \/ (token = "import" /\ ~InFile) THEN "done"
               ELSE IF token = "import" THEN "import" ELSE "expression"
      /\ UNCHANGED <<blocks, depth, astray>>
  BY DEF Statement
<1>2. astray' \in BOOLEAN /\ kind' \in Block \cup {"simple", "import"}
  BY <1>1 DEF LayoutInv, ParserInv, Block
<1>3. pc' \in {"done", "import", "expression"} /\ (pc' = "import" => InFile)
  BY <1>1
<1>4. CASE starts
  <2>1. Lex(token = "import" /\ ~InFile)
    BY <1>4 DEF Statement
  <2>2. Shift(token) = 0
    BY <1>4 DEF Shift
  <2> QED BY <1>1, <1>2, <1>3, <2>1, <2>2, ReadKeeps DEF Pc
<1>5. CASE ~starts
  <2>1. Untouched
    BY <1>5 DEF Statement, Untouched
  <2> QED BY <1>1, <1>2, <1>3, <2>1, QuietKeeps DEF Pc
<1> QED BY <1>4, <1>5

LEMMA EndOfTextKeeps == LayoutInv /\ EndOfText => LayoutInv'
<1> SUFFICES ASSUME LayoutInv, EndOfText PROVE LayoutInv'
  OBVIOUS
<1>1. /\ pc = "head" /\ blocks = <<>> /\ Untouched /\ pc' = "stopped"
      /\ UNCHANGED <<kind, blocks, depth, astray>>
  BY NoChange DEF EndOfText, Goto
<1> QED BY <1>1, QuietKeeps DEF LayoutInv, ParserInv, Pc

LEMMA ExpressionKeeps == LayoutInv /\ Expression => LayoutInv'
<1> SUFFICES ASSUME LayoutInv, Expression PROVE LayoutInv'
  OBVIOUS
<1>1. /\ pc = "expression" /\ pc' = pc /\ UNCHANGED <<kind, blocks, depth>>
      /\ kind' \in Block \cup {"simple", "import"} /\ astray \in BOOLEAN
  BY DEF Expression, Goto, LayoutInv, ParserInv
<1>2. CASE /\ token \in {"word", "colon", "if", "else", "open", "close"}
           /\ Lex(parse_had_error) /\ Goto("expression")
  <2>1. Shift(token) = 0
    BY <1>2 DEF Shift
  <2> QED BY <1>1, <1>2, <2>1, ReadKeeps DEF Pc, Goto
<1>3. CASE /\ UNCHANGED <<place, token, ahead, left, history>> /\ Goto("expression")
  <2>1. Untouched
    BY <1>3 DEF Untouched
  <2> QED BY <1>1, <1>3, <2>1, QuietKeeps DEF Pc, Goto
<1>4. CASE Lex(TRUE) /\ astray' = (astray \/ token \in LayoutToken)
  <2>1. ~astray' => Shift(token) = 0
    BY <1>1, <1>4 DEF Shift, LayoutToken
  <2>2. astray' \in BOOLEAN /\ (astray => astray')
    BY <1>1, <1>4
  <2> QED BY <1>1, <1>4, <2>1, <2>2, ReadKeeps DEF Pc
<1> QED BY <1>2, <1>3, <1>4 DEF Expression

LEMMA EndStatementKeeps == LayoutInv /\ EndStatement => LayoutInv'
<1> SUFFICES ASSUME LayoutInv, EndStatement PROVE LayoutInv'
  OBVIOUS
<1>1. /\ pc = "expression" /\ Untouched /\ pc' = "done"
      /\ UNCHANGED <<kind, blocks, depth, astray>>
  BY NoChange DEF EndStatement, Goto
<1> QED BY <1>1, QuietKeeps DEF LayoutInv, ParserInv, Pc

(* What require() reads over is the token it expects, or recovery is astray. *)
LEMMA RequireMeans ==
  ASSUME LayoutInv, NEW expected, Require(expected), Shift(expected) = 0
  PROVE  /\ Lex(parse_had_error \/ token # expected)
         /\ astray' \in BOOLEAN /\ (astray => astray') /\ (~astray' => Shift(token) = 0)
<1>1. /\ Lex(parse_had_error \/ token # expected)
      /\ astray' = (astray \/ (token # expected /\ token \in LayoutToken))
  BY DEF Require
<1>2. astray \in BOOLEAN
  BY DEF LayoutInv, ParserInv
<1>3. token # expected /\ token \notin LayoutToken => Shift(token) = 0
  BY DEF Shift, LayoutToken
<1> QED BY <1>1, <1>2, <1>3

LEMMA HeaderKeeps == LayoutInv /\ Header => LayoutInv'
<1> SUFFICES ASSUME LayoutInv, Header PROVE LayoutInv'
  OBVIOUS
<1>1. /\ pc = "expression" /\ kind \in Block /\ Require("colon")
      /\ pc' \in {"done", "newline"} /\ UNCHANGED <<kind, blocks, depth>>
  BY DEF Header
<1>2. Shift("colon") = 0
  BY DEF Shift
<1>3. /\ Lex(parse_had_error \/ token # "colon")
      /\ astray' \in BOOLEAN /\ (astray => astray') /\ (~astray' => Shift(token) = 0)
  BY <1>1, <1>2, RequireMeans
<1> QED BY <1>1, <1>3, ReadKeeps DEF Pc

LEMMA NewlineKeeps == LayoutInv /\ Newline => LayoutInv'
<1> SUFFICES ASSUME LayoutInv, Newline PROVE LayoutInv'
  OBVIOUS
<1>1. /\ pc = "newline" /\ kind \in Block /\ Require("NEW_LINE")
      /\ pc' = "indent" /\ UNCHANGED <<kind, blocks, depth>>
  BY DEF Newline, LayoutInv, ParserInv
<1>2. Shift("NEW_LINE") = 0
  BY DEF Shift
<1>3. /\ Lex(parse_had_error \/ token # "NEW_LINE")
      /\ astray' \in BOOLEAN /\ (astray => astray') /\ (~astray' => Shift(token) = 0)
  BY <1>1, <1>2, RequireMeans
<1> QED BY <1>1, <1>3, ReadKeeps DEF Pc

LEMMA ElseColonKeeps == LayoutInv /\ ElseColon => LayoutInv'
<1> SUFFICES ASSUME LayoutInv, ElseColon PROVE LayoutInv'
  OBVIOUS
<1>1. /\ pc = "colon" /\ kind \in Block /\ Require("colon")
      /\ pc' = "newline" /\ UNCHANGED <<kind, blocks, depth>>
  BY DEF ElseColon, LayoutInv, ParserInv
<1>2. Shift("colon") = 0
  BY DEF Shift
<1>3. /\ Lex(parse_had_error \/ token # "colon")
      /\ astray' \in BOOLEAN /\ (astray => astray') /\ (~astray' => Shift(token) = 0)
  BY <1>1, <1>2, RequireMeans
<1> QED BY <1>1, <1>3, ReadKeeps DEF Pc

LEMMA ElseKeeps == LayoutInv /\ Else => LayoutInv'
<1> SUFFICES ASSUME LayoutInv, Else PROVE LayoutInv'
  OBVIOUS
<1>1. pc = "else?" /\ UNCHANGED <<blocks, depth, astray>> /\ astray' \in BOOLEAN
      /\ kind \in Block \cup {"simple", "import"}
  BY DEF Else, LayoutInv, ParserInv
<1>2. CASE token = "else"
  <2>1. Lex(parse_had_error) /\ pc' = "colon" /\ kind' = "else"
    BY <1>2 DEF Else
  <2>2. Shift(token) = 0
    BY <1>2 DEF Shift
  <2> QED BY <1>1, <2>1, <2>2, ReadKeeps DEF Pc, Block
<1>3. CASE token # "else"
  <2>1. Untouched /\ pc' = "done" /\ kind' = kind
    BY <1>3, NoChange DEF Else
  <2> QED BY <1>1, <2>1, QuietKeeps DEF Pc
<1> QED BY <1>2, <1>3

LEMMA ImportKeeps == LayoutInv /\ Import => LayoutInv'
<1> SUFFICES ASSUME LayoutInv, Import PROVE LayoutInv'
  OBVIOUS
<1>1. /\ pc = "import" /\ InFile /\ UNCHANGED <<kind, blocks, depth, astray>>
      /\ astray' \in BOOLEAN /\ kind' \in Block \cup {"simple", "import"}
  BY DEF Import, Goto, LayoutInv, ParserInv
<1>2. CASE token = "word"
  <2>1. Lex(parse_had_error) /\ pc' = "load"
    BY <1>2 DEF Import, Goto
  <2>2. Shift(token) = 0
    BY <1>2 DEF Shift
  <2> QED BY <1>1, <2>1, <2>2, ReadKeeps DEF Pc
<1>3. CASE token # "word"
  <2>1. Untouched /\ pc' = "done"
    BY <1>3 DEF Import, Goto, Untouched
  <2> QED BY <1>1, <2>1, QuietKeeps DEF Pc
<1> QED BY <1>2, <1>3

LEMMA NotLoadedKeeps ==
  ASSUME LayoutInv, NEW failed, NotLoaded(failed)
  PROVE  LayoutInv'
<1>1. /\ pc = "load" /\ Untouched /\ pc' = "done" /\ UNCHANGED <<kind, blocks, depth, astray>>
  BY DEF NotLoaded, Goto, Untouched
<1> QED BY <1>1, QuietKeeps DEF LayoutInv, ParserInv, Pc

LEMMA DoneKeeps == LayoutInv /\ Done => LayoutInv'
<1> SUFFICES ASSUME LayoutInv, Done PROVE LayoutInv'
  OBVIOUS
<1>1. /\ pc = "done" /\ Untouched /\ pc' \in {"skip", "head"}
      /\ UNCHANGED <<kind, blocks, depth, astray>>
  BY NoChange DEF Done, Goto
<1> QED BY <1>1, QuietKeeps DEF LayoutInv, ParserInv, Pc

LEMMA SkipKeeps == LayoutInv /\ Skip => LayoutInv'
<1> SUFFICES ASSUME LayoutInv, Skip PROVE LayoutInv'
  OBVIOUS
<1> DEFINE stays == token \in {"END_OF_FILE", "DEDENT"} \/ (token = "else" /\ ~InFile)
<1>1. /\ pc = "skip" /\ UNCHANGED <<kind, blocks, depth>> /\ astray \in BOOLEAN
      /\ kind' \in Block \cup {"simple", "import"}
  BY DEF Skip, Goto, LayoutInv, ParserInv
<1>2. CASE token = "NEW_LINE"
  <2>1. Lex(parse_had_error) /\ pc' = "orphan" /\ astray' = astray
    BY <1>2 DEF Skip, Goto
  <2>2. Shift(token) = 0
    BY <1>2 DEF Shift
  <2> QED BY <1>1, <2>1, <2>2, ReadKeeps DEF Pc
<1>3. CASE token # "NEW_LINE" /\ stays
  <2>1. Untouched /\ pc' = "head" /\ astray' = astray
    BY <1>3, NoChange DEF Skip, Goto
  <2> QED BY <1>1, <2>1, QuietKeeps DEF Pc
<1>4. CASE token # "NEW_LINE" /\ ~stays
  <2>1. Lex(parse_had_error) /\ pc' = pc /\ astray' = (astray \/ token = "INDENT")
    BY <1>4 DEF Skip
  <2>2. ~astray' => Shift(token) = 0
    BY <1>4, <2>1 DEF Shift
  <2> QED BY <1>1, <2>1, <2>2, ReadKeeps DEF Pc
<1> QED BY <1>2, <1>3, <1>4

LEMMA OrphanKeeps == LayoutInv /\ Orphan => LayoutInv'
<1> SUFFICES ASSUME LayoutInv, Orphan PROVE LayoutInv'
  OBVIOUS
<1>1. /\ pc = "orphan" /\ Untouched /\ pc' = IF token = "INDENT" THEN "junk" ELSE "head"
      /\ UNCHANGED <<kind, blocks, depth, astray>>
  BY NoChange DEF Orphan, Goto
<1> QED BY <1>1, QuietKeeps DEF LayoutInv, ParserInv, Pc

-----------------------------------------------------------------------------
(* The invariant, and what it says.                                         *)

LEMMA LayoutInit == Init => LayoutInv
<1> SUFFICES ASSUME Init PROVE LayoutInv
  OBVIOUS
<1>1. /\ LexInv /\ level = 0 /\ pc = "enter" /\ kind = "simple" /\ blocks = <<>>
      /\ depth = 0 /\ astray = FALSE
  BY LexerInitKeeps DEF Init, LexerInit
<1>2. BlocksInv(<<>>)
  <2>1. <<>> \in Seq(Activation) /\ Len(<<>>) = 0
    OBVIOUS
  <2> QED BY <2>1 DEF BlocksInv, FilesFirst
<1>3. ParserInv
  <2>1. BlocksInv(blocks) /\ InFile /\ ~(depth > 0)
    BY <1>1, <1>2 DEF InFile
  <2> QED BY <1>1, <2>1 DEF ParserInv, Pc
<1>4. Counted
  BY <1>1 DEF Counted
<1> QED BY <1>1, <1>3, <1>4 DEF LayoutInv

LEMMA LayoutNext == LayoutInv /\ [Next]_vars => LayoutInv'
<1> SUFFICES ASSUME LayoutInv, [Next]_vars PROVE LayoutInv'
  OBVIOUS
<1>1. ASSUME UNCHANGED vars PROVE LayoutInv'
  <2>1. /\ LexInv' /\ spoilt' = spoilt /\ token' = token /\ level' = level /\ ahead' = ahead
    BY <1>1, UntouchedKeeps DEF vars, lexer, Untouched, LayoutInv
  <2>2. UNCHANGED <<pc, kind, blocks, depth, astray>>
    BY <1>1 DEF vars, parser
  <2>3. ParserInv'
    BY <2>1, <2>2 DEF LayoutInv, ParserInv, InFile
  <2>4. Counted'
    BY <2>1, <2>2 DEF LayoutInv, Counted, OpenBlocks, InFile
  <2> QED BY <2>1, <2>3, <2>4 DEF LayoutInv
<1>2. ASSUME NEW failed \in BOOLEAN, EndOfImport(failed) \/ NotLoaded(failed) PROVE LayoutInv'
  BY <1>2, EndOfImportKeeps, NotLoadedKeeps
<1>3. ASSUME Parse PROVE LayoutInv'
  BY <1>2, <1>3, EnterKeeps, SkipLineKeeps, CloseBlockKeeps, StatementKeeps, EndOfTextKeeps,
     ExpressionKeeps, EndStatementKeeps, HeaderKeeps, NewlineKeeps, IndentKeeps, ElseKeeps,
     ElseColonKeeps, ImportKeeps, LoadKeeps, DoneKeeps, SkipKeeps, OrphanKeeps, JunkKeeps
     DEF Parse
<1> QED BY <1>1, <1>3, ShellKeeps DEF Next, Stopped

(* The invariant that ties indent_stack and the tokens lex() returns to the *)
(* lines it measured, and the activations of parse() and parse_compound()   *)
(* to those tokens, holds in every state, whatever the text, the widths of  *)
(* its lines and the files it imports.                                      *)
THEOREM LayoutInvariant == Spec => []LayoutInv
<1>1. Init => LayoutInv
  BY LayoutInit
<1>2. LayoutInv /\ [Next]_vars => LayoutInv'
  BY LayoutNext
<1> QED BY <1>1, <1>2, PTL DEF Spec

(* The INDENT and DEDENT tokens that lex() returned, with pending_dedents,  *)
(* are the levels the offside rule leaves open: also in brackets, behind a  *)
(* text that was imported in between (lexer_save_state keeps the levels),   *)
(* and all are closed at the end.                                           *)
THEOREM LayoutTokens == Spec => []TokensFollowLayout
<1>1. ASSUME LayoutInv PROVE TokensFollowLayout
  <2> SUFFICES ASSUME ~spoilt
               PROVE  level - pending_dedents = IF ahead = "end" THEN 0 ELSE Cardinality(OpenLevels)
    BY DEF TokensFollowLayout
  <2>1. /\ indent_stack \in Seq(Width) /\ Ascending(indent_stack)
        /\ ahead = "end" => indent_stack = <<0>>
        /\ level - pending_dedents = Len(indent_stack) - 1
        /\ ahead # "end" => OpenIn(measured) = Levels(indent_stack)
    BY <1>1, LexMeans DEF LayoutInv
  <2>2. OpenLevels = OpenIn(measured)
    BY DEF OpenLevels, OpenIn, Lowest
  <2>3. CASE ahead = "end"
    <3>1. level - pending_dedents = 1 - 1
      BY <2>1, <2>3, FirstLevel, Zenon
    <3> QED BY <2>3, <3>1
  <2>4. CASE ahead # "end"
    <3>1. Cardinality(Levels(indent_stack)) = Len(indent_stack) - 1
      BY <2>1, LevelCount
    <3> QED BY <2>1, <2>2, <2>4, <3>1
  <2> QED BY <2>3, <2>4
<1> QED BY <1>1, LayoutInvariant, PTL

(* bracket_depth suspends the layout: while a bracket is open lex() returns *)
(* no line end and begins no block, also when the brackets are those of a   *)
(* text that waits for an import.                                           *)
THEOREM BracketsHoldNoLayout == Spec => []NoLayoutInBrackets
<1>1. LayoutInv => NoLayoutInBrackets
  BY LexMeans DEF LayoutInv, NoLayoutInBrackets
<1> QED BY <1>1, LayoutInvariant, PTL

(* At the beginning of a statement the blocks that parse_compound() is in   *)
(* are the levels the tokens have told of, behind statements given up,      *)
(* blocks that skip_orphaned_block read over, and imports, as long as no    *)
(* error swallowed a layout token.                                          *)
THEOREM BlocksOfLayout == Spec => []BlocksFollowLayout
<1>1. ASSUME LayoutInv PROVE BlocksFollowLayout
  <2> SUFFICES ASSUME pc = "head", ~spoilt, ~astray PROVE OpenBlocks = level + Shift(token)
    BY DEF BlocksFollowLayout, Shift
  <2>1. OpenBlocks + depth = level + Shift(token) /\ depth = 0
    BY <1>1 DEF LayoutInv, ParserInv, Counted
  <2>2. OpenBlocks \in Nat
    BY <1>1, Numbers
  <2>3. OpenBlocks + depth = OpenBlocks
    BY <2>1, <2>2
  <2> QED BY <2>1, <2>3
<1> QED BY <1>1, LayoutInvariant, PTL
=============================================================================
