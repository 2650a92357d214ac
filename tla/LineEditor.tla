----------------------------- MODULE LineEditor -----------------------------
(***************************************************************************)
(* What the line editor of terminal.c promises: a text with a cursor, and  *)
(* a file of the lines that were entered.                                  *)
(***************************************************************************)
EXTENDS Naturals, Sequences

CONSTANTS Char, NewLine

VARIABLES
  text, cursor,
  lines  \* what was entered and kept, each line with its NewLine

vars == <<text, cursor, lines>>

Init == text = <<>> /\ cursor = 0 /\ lines \in Seq(Char \cup {NewLine})

Before == SubSeq(text, 1, cursor)
Behind == SubSeq(text, cursor + 1, Len(text))

Insert(c) ==
  /\ text' = Before \o <<c>> \o Behind /\ cursor' = cursor + 1
  /\ UNCHANGED lines

Delete ==
  /\ cursor < Len(text) /\ text' = Before \o Tail(Behind)
  /\ UNCHANGED <<cursor, lines>>

Backspace ==
  /\ cursor > 0 /\ cursor' = cursor - 1
  /\ text' = SubSeq(text, 1, cursor - 1) \o Behind
  /\ UNCHANGED lines

Move == cursor' \in 0 .. Len(text) /\ UNCHANGED <<text, lines>>

(* An entry of the file is put in place of the text.                       *)
IsEntry(s) ==
  \E i, j \in 0 .. Len(lines) :
    /\ i < j /\ s = SubSeq(lines, i + 1, j - 1)
    /\ lines[j] = NewLine /\ (i > 0 => lines[i] = NewLine)
    /\ \A k \in i + 1 .. j - 1 : lines[k] # NewLine
Recall == (text' = <<>> \/ IsEntry(text')) /\ cursor' = Len(text') /\ UNCHANGED lines

Cancel == text' = <<>> /\ cursor' = 0 /\ UNCHANGED lines

Enter ==
  /\ lines' = IF text = <<>> THEN lines ELSE lines \o text \o <<NewLine>>
  /\ text' = <<>> /\ cursor' = 0

Next == Delete \/ Backspace \/ Move \/ Recall \/ Cancel \/ Enter \/ \E c \in Char : Insert(c)

Spec == Init /\ [][Next]_vars
=============================================================================
