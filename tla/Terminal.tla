------------------------------ MODULE Terminal ------------------------------
(***************************************************************************)
(* terminal.c and run_shell of main.c: the line that is edited in buffer,  *)
(* the history file and the ring of its last bytes that the arrow keys     *)
(* walk, the line as the C string the shell reads, and the collection of   *)
(* the lines of a block.  What refresh() draws is not modelled.            *)
(***************************************************************************)
EXTENDS Integers, Sequences, FiniteSetsExt, Functions

CONSTANTS
  Char,          \* what can be typed: ":", a blank, and others
  Colon, Blank,
  NewLine, Nul,
  COMMAND_SIZE,  \* the bytes of history_buffer
  LineMax,       \* bound: characters of a line, less than buffer_length
  FileMax,       \* bound: bytes of the history file, and nearly of a block
  Reenter,       \* whether lines are entered while history_position is at an older one
  Deep           \* whether the arrow key goes further back than history_buffer

ASSUME TerminalAssumption ==
  /\ Colon \in Char /\ Colon # Blank /\ {Colon, Blank} \cap {NewLine, Nul} = {}
  /\ NewLine \notin Char /\ Nul \notin Char \cup {NewLine}
  /\ COMMAND_SIZE \in Nat \ {0} /\ LineMax \in Nat /\ FileMax \in Nat
  /\ {Reenter, Deep} \subseteq BOOLEAN

VARIABLES
  buffer, position, length,
  history,          \* the file
  history_buffer, history_position, history_length,
  pc,               \* "edit" in handle_terminal, "line" when it returned, "ended"
  block_buf, in_block,
  erased,           \* history: erasures in this line, or 2 once a line had two
  typed             \* history: the lines entered since the shell last ran something, as long
                    \* as erased < 2

line == <<buffer, position, length>>
past == <<history, history_buffer, history_position, history_length>>
shell == <<block_buf, in_block>>
seen == <<erased, typed>>
terminalVars == <<line, past, pc, shell, seen>>

Byte == Char \cup {NewLine, Nul}

TerminalTypeOK ==
  /\ buffer \in [0 .. LineMax + 1 -> Byte]
  /\ length \in 0 .. LineMax /\ position \in 0 .. length
  /\ history \in Seq(Char \cup {NewLine})
  /\ history_buffer \in [0 .. COMMAND_SIZE - 1 -> Byte]
  /\ history_position \in 0 .. history_length
  /\ pc \in {"edit", "line", "ended"} /\ in_block \in BOOLEAN
  /\ {block_buf, typed} \subseteq Seq(Char \cup {NewLine}) /\ erased \in 0 .. 2

Text == [i \in 1 .. length |-> buffer[i - 1]]

(* start_terminal: the end of the file is put where the ring has it.       *)
Ring(bytes) ==
  [i \in 0 .. COMMAND_SIZE - 1 |->
     LET at == {k \in DOMAIN bytes : (k - 1) % COMMAND_SIZE = i}
     IN IF at = {} THEN Nul ELSE bytes[Max(at)]]

Start(bytes) ==
  /\ buffer' = [i \in 0 .. LineMax + 1 |-> Nul] /\ position' = 0 /\ length' = 0
  /\ history' = bytes /\ history_buffer' = Ring(bytes)
  /\ history_position' = Len(bytes) /\ history_length' = Len(bytes)
  /\ pc' = "edit" /\ block_buf' = <<>> /\ in_block' = FALSE
  /\ typed' = <<>> /\ erased' = 0

TerminalInit ==
  /\ buffer = [i \in 0 .. LineMax + 1 |-> Nul] /\ position = 0 /\ length = 0
  /\ history = <<>> /\ history_buffer = Ring(<<>>)
  /\ history_position = 0 /\ history_length = 0
  /\ pc = "edit" /\ block_buf = <<>> /\ in_block = FALSE
  /\ typed = <<>> /\ erased = 0

-----------------------------------------------------------------------------
(* Keys that edit.                                                         *)

(* memmove(&buffer[to], &buffer[from], n)                                  *)
Moved(b, to, from, n) ==
  [i \in DOMAIN b |-> IF i \in to .. to + n - 1 THEN b[i - to + from] ELSE b[i]]

Cleared == [i \in DOMAIN buffer |-> IF i <= length THEN Nul ELSE buffer[i]]

Editing == pc = "edit"

Insert(c) ==
  /\ Editing /\ length < LineMax
  /\ buffer' = [Moved(buffer, position + 1, position, length - position) EXCEPT ![position] = c]
  /\ position' = position + 1 /\ length' = length + 1
  /\ UNCHANGED <<past, pc, shell, seen>>

Erase ==
  /\ erased' = IF erased = 2 THEN 2 ELSE erased + 1
  /\ typed' = IF erased' = 2 THEN <<>> ELSE typed
NewText == erased' = (IF erased = 2 THEN 2 ELSE 0) /\ UNCHANGED typed

Delete ==
  /\ Editing /\ position < length
  /\ buffer' = Moved(buffer, position, position + 1, length - position)
  /\ length' = length - 1 /\ Erase
  /\ UNCHANGED <<position, past, pc, shell>>

(* Mutant: the character behind the cursor is moved.                       *)
BackspaceBehind ==
  /\ Editing /\ position > 0
  /\ buffer' = Moved(buffer, position - 1, position + 1, length - position)
  /\ position' = position - 1 /\ length' = length - 1 /\ Erase
  /\ UNCHANGED <<past, pc, shell>>

(* What was the last character stays in the byte behind the text.          *)
Backspace ==
  /\ Editing /\ position > 0
  /\ buffer' = Moved(buffer, position - 1, position, length - position)
  /\ position' = position - 1 /\ length' = length - 1 /\ Erase
  /\ UNCHANGED <<past, pc, shell>>

(* Left, right, home and end.                                              *)
Move ==
  /\ Editing
  /\ position' \in {Max({position - 1, 0}), Min({position + 1, length}), 0, length}
  /\ UNCHANGED <<buffer, length, past, pc, shell, seen>>

(* Control-C, which leaves history_position where it is.                   *)
Cancel ==
  /\ Editing
  /\ buffer' = Cleared /\ position' = 0 /\ length' = 0
  /\ NewText /\ UNCHANGED <<past, pc, shell>>

-----------------------------------------------------------------------------
(* The history.                                                            *)

At(i) == history_buffer[i % COMMAND_SIZE]

(* The buffer is cleared and the entry of n bytes at start is copied.      *)
Recall(start, n) ==
  /\ n <= LineMax
  /\ buffer' = [i \in DOMAIN buffer |-> IF i < n THEN At(start + i) ELSE Cleared[i]]
  /\ position' = n /\ length' = n
  /\ history_position' = start
  /\ NewText /\ UNCHANGED <<history, history_buffer, history_length, pc, shell>>

(* The first bytes of the file are no longer in the ring.                  *)
InRing(start) == start > history_length - COMMAND_SIZE \/ start + history_length = 0
                   \/ (start = 0 /\ history_length <= COMMAND_SIZE)

ArrowUp ==
  /\ Editing /\ history_position >= 2
  /\ LET last == history_position - 2
         pos == Max({q \in 0 .. last : q = 0 \/ At(q) = NewLine})
         start == IF At(pos) = NewLine THEN pos + 1 ELSE pos
     IN (Deep \/ InRing(start)) /\ Recall(start, last - start + 1)

NextNewLine(from) == Min({q \in from .. history_length : q = history_length \/ At(q) = NewLine})

ArrowDown ==
  /\ Editing /\ history_position < history_length
  /\ LET start == NextNewLine(history_position) + 1
     IN Recall(start, NextNewLine(start) - start)

(* Mutant: the byte that history_position is at is kept.                   *)
WrittenBehind == history_position + 1

(* Where the line goes in the ring.                                        *)
Written == history_position

(* The line is kept, unless it is empty: in the file, and in the ring from *)
(* history_position on, wherever that is.                                  *)
Enter ==
  /\ Editing /\ (Reenter \/ history_position = history_length) /\ Len(block_buf) < FileMax
  /\ buffer' = [buffer EXCEPT ![length] = NewLine]
  /\ IF length = 0 THEN UNCHANGED past
     ELSE /\ history' = history \o Text \o <<NewLine>> /\ Len(history') <= FileMax
          /\ history_buffer' = [i \in DOMAIN history_buffer |->
               LET at == {k \in 0 .. length : (Written + k) % COMMAND_SIZE = i}
               IN IF at = {} THEN history_buffer[i] ELSE buffer'[Max(at)]]
          /\ history_position' = history_position + length + 1
          /\ history_length' = history_length + length + 1
  /\ pc' = "line"
  /\ typed' = IF erased < 2 THEN typed \o Text \o <<NewLine>> ELSE <<>>
  /\ UNCHANGED <<position, length, shell, erased>>

-----------------------------------------------------------------------------
(* run_shell.                                                              *)

(* The line as a string, up to the first Nul.                              *)
Line ==
  LET end == Min({i \in DOMAIN buffer : buffer[i] = Nul})
  IN [i \in 1 .. end |-> buffer[i - 1]]

Dark(s) == {i \in DOMAIN s : s[i] \notin {NewLine, Blank}}
EndsWithColon(s) == IF Dark(s) = {} THEN FALSE ELSE s[Max(Dark(s))] = Colon

Collects == EndsWithColon(Line) \/ (in_block /\ Dark(Line) # {})

(* Back to handle_terminal, which clears the buffer.                       *)
NextLine ==
  /\ buffer' = Cleared /\ position' = 0 /\ length' = 0 /\ pc' = "edit"
  /\ erased' = (IF erased = 2 THEN 2 ELSE 0)
  /\ UNCHANGED past

(* Mutant: a line that opens a block within the block begins it anew.      *)
CollectAnew ==
  /\ pc = "line" /\ Collects
  /\ block_buf' = (IF EndsWithColon(Line) THEN Line ELSE block_buf \o Line)
  /\ in_block' = TRUE /\ UNCHANGED typed /\ NextLine

(* A block is collected until a line of blanks.                            *)
Collect ==
  /\ pc = "line" /\ Collects
  /\ block_buf' = block_buf \o Line /\ in_block' = TRUE
  /\ UNCHANGED typed /\ NextLine

(* shell() and run() on block_buf with the line.                           *)
Run ==
  /\ pc = "line" /\ ~Collects
  /\ block_buf' = <<>> /\ in_block' = FALSE
  /\ typed' = <<>> /\ NextLine

(* Control-D or the end of the input; another session.                     *)
Exit == Editing /\ pc' = "ended" /\ UNCHANGED <<line, past, shell, seen>>
Restart == pc = "ended" /\ Start(history)

TerminalNext ==
  \/ Delete \/ Backspace \/ Move \/ Cancel \/ ArrowUp \/ ArrowDown \/ Enter \/ Collect
  \/ Run \/ Exit \/ Restart \/ \E c \in Char : Insert(c)

TerminalSpec == TerminalInit /\ [][TerminalNext]_terminalVars

-----------------------------------------------------------------------------
(* Properties.                                                             *)

EditorText == IF pc = "edit" THEN Text ELSE <<>>
EditorCursor == IF pc = "edit" THEN position ELSE 0

Editor == INSTANCE LineEditor WITH text <- EditorText, cursor <- EditorCursor, lines <- history

(* The editor of buffer, position and length is a text with a cursor that  *)
(* the keys edit; the arrows recall entries of the file, whole, also after *)
(* the ring has wrapped and in a later session.                            *)
RefinesEditor == Editor!Spec

(* The ring has the end of the file, byte for byte.                        *)
RingIsTail ==
  /\ history_length = Len(history)
  /\ \A k \in DOMAIN history :
       k > history_length - COMMAND_SIZE => At(k - 1) = history[k]

(* What the shell has collected, and what it runs when it runs it, is all  *)
(* that was typed since it last ran something; unless two characters were  *)
(* erased in one line: README, section 4, has what happens then.           *)
TypedIsRead ==
  erased < 2 => typed = block_buf \o (IF pc = "line" THEN Line ELSE <<>>)
=============================================================================
