-------------------------------- MODULE Lexer --------------------------------
(***************************************************************************)
(* lexer.c: the layout of the text as tokens.  One step is one call of     *)
(* lex().  The text is not fixed: what stands at the cursor is chosen when *)
(* lex() looks at it, so every text of at most Length symbols is read.  A  *)
(* name, a literal or an operator is a "word"; blank lines, comments and   *)
(* spaces within a line are skipped and leave no trace.                    *)
(***************************************************************************)
EXTENDS Integers, Sequences, FiniteSets, FiniteSetsExt

CONSTANTS
  Width,      \* the numbers of spaces a line may begin with
  IndentMax,  \* the size of indent_stack
  Length      \* bound: the symbols of all texts together

ASSUME LexerAssumption ==
  /\ Width \subseteq Nat /\ 0 \in Width
  /\ IndentMax \in Nat \ {0, 1} /\ Length \in Nat

VARIABLES
  indent_stack,     \* its indent_depth entries
  pending_dedents,
  at_line_start,
  bracket_depth,
  token,
  ahead,            \* what is known of the text at the cursor
  left,             \* symbols the bound still allows
  parse_had_error,  \* error_at() sets it
  measured,         \* history: the indentation of the lines lex() measured
  level,            \* history: INDENT tokens less DEDENT tokens
  spoilt            \* history: a line, or blanks at the end, fits no level, or an INDENT or
                    \* DEDENT was left in token by an error

place == <<indent_stack, pending_dedents, at_line_start, bracket_depth>>
history == <<measured, level, spoilt>>
lexer == <<place, token, ahead, left, parse_had_error, history>>

LayoutToken == {"NEW_LINE", "INDENT", "DEDENT"}
Text == {"word", "colon", "if", "else", "for", "function", "import", "open", "close", "bad", "quote"}
TokenType == LayoutToken \cup (Text \ {"bad", "quote"}) \cup {"ERROR", "END_OF_FILE"}

(* "any" symbol, "text" of the line, the "eol" or the end of the text, the *)
(* "last" symbol before the end, or the "end".                             *)
Ahead == {"any", "text", "eol", "last", "end"}

indent_depth == Len(indent_stack)
top == indent_stack[indent_depth]

LexerTypeOK ==
  /\ indent_depth \in 1 .. IndentMax
  /\ \A i \in DOMAIN indent_stack : indent_stack[i] \in Width
  /\ \A i \in 1 .. indent_depth - 1 : indent_stack[i] < indent_stack[i + 1]
  /\ pending_dedents \in -1 .. IndentMax - 2
  /\ {at_line_start, parse_had_error, spoilt} \subseteq BOOLEAN
  /\ bracket_depth \in Nat /\ left \in 0 .. Length /\ level \in Int
  /\ token \in TokenType /\ ahead \in Ahead
  /\ measured \in Seq(Width)

(* read_file() and shell(): a text is opened, indent_reset() is called.    *)
OpenText ==
  /\ indent_stack' = <<0>> /\ pending_dedents' = 0 /\ bracket_depth' = 0
  /\ at_line_start' = TRUE
  /\ ahead' = "any" /\ measured' = <<>> /\ level' = 0 /\ spoilt' = FALSE

LexerInit ==
  /\ indent_stack = <<0>> /\ pending_dedents = 0 /\ bracket_depth = 0
  /\ at_line_start = TRUE /\ token = "END_OF_FILE" /\ parse_had_error = FALSE
  /\ ahead = "any" /\ left = Length /\ measured = <<>> /\ level = 0 /\ spoilt = FALSE

(* What lexer_save_state() and aer_module_load() keep of a text while      *)
(* another is read, the history and the cursor with it.                    *)
Saved ==
  [stack |-> indent_stack, pending |-> pending_dedents, start |-> at_line_start,
   bracket |-> bracket_depth, token |-> token, ahead |-> ahead,
   measured |-> measured, level |-> level, spoilt |-> spoilt]

RestoreText(s) ==
  /\ ahead' = s.ahead /\ measured' = s.measured /\ level' = s.level /\ spoilt' = s.spoilt

Restore(s) ==
  /\ indent_stack' = s.stack /\ pending_dedents' = s.pending
  /\ at_line_start' = s.start /\ bracket_depth' = s.bracket
  /\ token' = s.token /\ RestoreText(s)

-----------------------------------------------------------------------------
(* lex().  The flag "had" is the value of parse_had_error when it is called. *)

(* An error that leaves token as it was repeats it.                        *)
Repeats == token \in {"INDENT", "DEDENT"}

(* Queued DEDENTs come before anything else.                               *)
QueuedDedent(had) ==
  /\ pending_dedents > 0
  /\ pending_dedents' = pending_dedents - 1
  /\ token' = "DEDENT" /\ level' = level - 1
  /\ parse_had_error' = had
  /\ UNCHANGED <<indent_stack, at_line_start, bracket_depth, ahead, left, measured, spoilt>>

(* Mutant: a line end in a bracket is a token as well.                     *)
SymbolsInBrackets(a) ==
  CASE a \in {"last", "end"} \/ left = 0 -> {"end"}
    [] a = "text" -> Text
    [] a = "any" -> Text \cup {"newline", "end"}
    [] a = "eol" -> {"newline", "end"}

(* The symbols the cursor can be at, once spaces, comments and, in a       *)
(* bracket, line ends are skipped.                                         *)
Symbols(a) ==
  CASE a \in {"last", "end"} \/ left = 0 -> {"end"}
    [] a = "text" -> Text
    [] a = "any" -> Text \cup {"end"} \cup (IF bracket_depth > 0 THEN {} ELSE {"newline"})
    [] a = "eol" -> IF bracket_depth > 0 THEN Text \cup {"end"} ELSE {"newline", "end"}

(* Mutant: the level whose DEDENT is returned at once is queued as well.   *)
FinishTwice(had) ==
  /\ IF indent_depth > 1
     THEN /\ pending_dedents' = indent_depth - 1
          /\ indent_stack' = <<0>>
          /\ token' = "DEDENT" /\ level' = level - 1
     ELSE token' = "END_OF_FILE" /\ UNCHANGED <<pending_dedents, indent_stack, level>>
  /\ ahead' = "end" /\ parse_had_error' = had
  /\ UNCHANGED <<bracket_depth, left, spoilt>>

(* The end of the text closes the levels that are open, one token each.    *)
Finish(had) ==
  /\ IF indent_depth > 1
     THEN /\ pending_dedents' = indent_depth - 2
          /\ indent_stack' = <<0>>
          /\ token' = "DEDENT" /\ level' = level - 1
     ELSE token' = "END_OF_FILE" /\ UNCHANGED <<pending_dedents, indent_stack, level>>
  /\ ahead' = "end" /\ parse_had_error' = had
  /\ UNCHANGED <<bracket_depth, left, spoilt>>

BracketAfter(c) ==
  CASE c = "open" -> bracket_depth + 1
    [] c = "close" /\ bracket_depth > 0 -> bracket_depth - 1
    [] OTHER -> bracket_depth

(* A symbol of the line.  An unterminated string leaves token as it was; a  *)
(* malformed number is an error and a token all the same.                  *)
Symbol(c, had) ==
  /\ token' = CASE c = "newline" -> "NEW_LINE" [] c = "bad" -> "ERROR" [] c = "quote" -> token
                [] OTHER -> c
  /\ ahead' \in IF c = "quote" THEN {"eol", "last"} ELSE {"any"}
  /\ bracket_depth' = BracketAfter(c)
  /\ parse_had_error' \in IF c = "word" THEN {had, TRUE} ELSE {had \/ c \in {"bad", "quote"}}
  /\ left' = left - 1
  /\ spoilt' = (spoilt \/ (c = "quote" /\ Repeats))
  /\ UNCHANGED <<indent_stack, pending_dedents, level>>

InLine(a, had) ==
  \E c \in Symbols(a) :
    /\ IF c = "end" THEN Finish(had) ELSE Symbol(c, had)
    /\ at_line_start' = (c = "newline")

(* Within a line.                                                          *)
Continue(had) ==
  /\ pending_dedents <= 0 /\ ~at_line_start
  /\ InLine(ahead, had) /\ UNCHANGED measured

(* At the start of a line, with the first text behind the spaces, a tab, a *)
(* comment that ends the text, or the end itself.                          *)
LineStart == pending_dedents <= 0 /\ at_line_start
Beginning == IF left = 0 THEN {"last", "end"} ELSE {"text", "last", "end"}

Tab(had) ==
  /\ LineStart
  /\ at_line_start' = FALSE /\ ahead' = "any" /\ parse_had_error' = TRUE
  /\ spoilt' = (spoilt \/ Repeats)
  /\ UNCHANGED <<indent_stack, pending_dedents, bracket_depth, token, left, measured, level>>

Deeper(spaces, first, had) ==
  /\ LineStart /\ first # "end" /\ spaces > top
  /\ at_line_start' = FALSE /\ ahead' = first
  /\ IF indent_depth >= IndentMax
     THEN /\ parse_had_error' = TRUE /\ spoilt' = (spoilt \/ Repeats)
          /\ UNCHANGED <<indent_stack, token, level, measured>>
     ELSE /\ indent_stack' = Append(indent_stack, spaces)
          /\ token' = "INDENT" /\ level' = level + 1
          /\ measured' = Append(measured, spaces)
          /\ parse_had_error' = had /\ UNCHANGED spoilt
  /\ UNCHANGED <<pending_dedents, bracket_depth, left>>

(* How many levels the popping loop leaves.                                *)
Kept(spaces) == Max({i \in 1 .. indent_depth : i = 1 \/ indent_stack[i] <= spaces})

(* The base level is not compared with the line.                           *)
Shallower(spaces, first, had) ==
  /\ LineStart
  /\ spaces < top \/ (first = "end" /\ indent_depth > 1)
  /\ at_line_start' = FALSE /\ ahead' = first
  /\ LET kept == Kept(spaces)
         popped == SubSeq(indent_stack, 1, kept)
         refused == first # "end" /\ kept > 1 /\ popped[kept] # spaces
     IN /\ indent_stack' = IF first = "end" THEN <<0>> ELSE popped
        /\ IF refused
           THEN parse_had_error' = TRUE /\ UNCHANGED <<pending_dedents, token, level>>
           ELSE /\ pending_dedents' = indent_depth - kept - 1
                /\ token' = "DEDENT" /\ level' = level - 1
                /\ parse_had_error' = had
        /\ spoilt' = (spoilt \/ IF first = "end" THEN kept > 1 ELSE popped[kept] # spaces)
  /\ measured' = Append(measured, spaces)
  /\ UNCHANGED <<bracket_depth, left>>

(* A line at the same level goes on in the same call.                      *)
SameLevel(spaces, first, had) ==
  /\ LineStart
  /\ spaces = top \/ (first = "end" /\ spaces > top)
  /\ first = "end" => indent_depth = 1
  /\ InLine(first, had)
  /\ measured' = IF first = "end" THEN measured ELSE Append(measured, spaces)

Lex(had) ==
  \/ QueuedDedent(had) \/ Continue(had) \/ Tab(had)
  \/ \E spaces \in Width, first \in Beginning :
       Deeper(spaces, first, had) \/ Shallower(spaces, first, had) \/ SameLevel(spaces, first, had)

LexerNext == Lex(parse_had_error) \/ (OpenText /\ UNCHANGED <<token, left, parse_had_error>>)
LexerSpec == LexerInit /\ [][LexerNext]_lexer

-----------------------------------------------------------------------------
(* Properties.                                                             *)

(* The offside rule: a level is open after a line if a line began it and   *)
(* no line since was indented less.                                        *)
OpenLevels ==
  {measured[j] : j \in {i \in DOMAIN measured :
                          \A k \in i .. Len(measured) : measured[k] >= measured[i]}} \ {0}

(* The INDENT and DEDENT tokens, those still queued counted, tell the      *)
(* levels that are open by the offside rule, and all are closed at the     *)
(* end: whatever is in brackets, imported in between or left over from an  *)
(* input before.                                                           *)
TokensFollowLayout ==
  ~spoilt => level - pending_dedents = IF ahead = "end" THEN 0 ELSE Cardinality(OpenLevels)

(* No line ends and no block begins inside a bracket.                      *)
NoLayoutInBrackets ==
  bracket_depth > 0 => token \notin {"NEW_LINE", "INDENT"} /\ ~at_line_start

-----------------------------------------------------------------------------
(* A claim of the error message "Indentation does not match any outer      *)
(* level" that the code does not keep; README, section 4, says what happens *)
(* instead.  No run checks it.                                             *)

(* A line that fits no level is an error.                                  *)
RaggedLinesReported == [][spoilt' /\ ~spoilt => parse_had_error']_lexer
=============================================================================
