-------------------------------- MODULE Layout --------------------------------
(***************************************************************************)
(* The parser's reading of the layout: the loops of parse() and            *)
(* parse_compound(), the headers that open a block, and the recovery after *)
(* a syntax error, over the tokens of Lexer.  Every step makes at most one *)
(* call of lex().  An expression is any run of tokens; what it emits is    *)
(* not modelled (see Compiler), nor are struct declarations, function      *)
(* expressions and while loops, whose bodies are read the same way.        *)
(***************************************************************************)
EXTENDS Lexer, SequencesExt

CONSTANTS FileMax  \* bound: files open at a time

ASSUME LayoutAssumption == FileMax \in Nat \ {0}

VARIABLES
  pc,      \* where the parser is
  kind,    \* the statement being parsed
  blocks,  \* parse_compound() and parse() activations above the first, outermost first
  recovered_at_boundary,
  depth,   \* that of skip_orphaned_block
  astray   \* history: in this text recovery went wrong: an error swallowed a layout token, a
           \* block was begun without one, or an else ended it

parser == <<pc, kind, blocks, recovered_at_boundary, depth, astray>>
vars == <<lexer, parser>>

Block == {"if", "else", "for", "function"}
Pc == {"enter", "head", "expression", "import", "load", "newline", "indent", "else?", "colon",
       "done", "skip", "orphan", "junk", "stopped"}

TypeOK ==
  /\ LexerTypeOK
  /\ pc \in Pc /\ kind \in Block \cup {"simple", "import"}
  /\ \A i \in DOMAIN blocks : blocks[i].kind \in Block \cup {"file"}
  /\ {recovered_at_boundary, astray} \subseteq BOOLEAN /\ depth \in Nat

Init ==
  /\ LexerInit
  /\ pc = "enter" /\ kind = "simple" /\ blocks = <<>> /\ recovered_at_boundary = FALSE
  /\ depth = 0 /\ astray = FALSE

BlockFrame == [kind |-> kind, outer |-> <<>>, astray |-> FALSE]
FileFrame == [kind |-> "file", outer |-> Saved, astray |-> astray]
InFile == IF blocks = <<>> THEN TRUE ELSE Last(blocks).kind = "file"

Goto(label) == pc' = label /\ UNCHANGED <<kind, blocks, recovered_at_boundary, depth, astray>>

(* require(): what comes is read over, whether it was expected or not.     *)
Require(expected) ==
  /\ Lex(parse_had_error \/ token # expected)
  /\ astray' = (astray \/ (token # expected /\ token \in LayoutToken))

-----------------------------------------------------------------------------
(* The loop of parse() or parse_compound().                                *)

Enter == pc = "enter" /\ Lex(parse_had_error) /\ Goto("head")

SkipLine ==
  /\ pc = "head"
  /\ token = "NEW_LINE" \/ (token = "DEDENT" /\ InFile)
  /\ Lex(parse_had_error) /\ Goto("head")

(* parse_compound() returns, to the statement it belongs to.               *)
CloseBlock ==
  /\ pc = "head" /\ ~InFile /\ token \in {"END_OF_FILE", "else", "DEDENT"}
  /\ IF token = "DEDENT" THEN Lex(parse_had_error) ELSE UNCHANGED lexer
  /\ pc' = IF Last(blocks).kind = "if" THEN "else?" ELSE "done"
  /\ blocks' = Front(blocks)
  /\ recovered_at_boundary' = TRUE
  /\ astray' = (astray \/ token = "else")
  /\ UNCHANGED <<kind, depth>>

(* The next statement.  An import is refused in a block.                   *)
Statement ==
  /\ pc = "head"
  /\ token \notin {"NEW_LINE", "END_OF_FILE", "DEDENT"} /\ (token = "else" => InFile)
  /\ recovered_at_boundary' = FALSE
  /\ LET starts == token \in {"word", "if", "for", "function", "import"}
     IN /\ IF starts THEN Lex(token = "import" /\ ~InFile)
           ELSE parse_had_error' = TRUE /\ UNCHANGED <<place, token, ahead, left, history>>
        /\ kind' = IF token \in {"if", "for", "function", "import"} THEN token ELSE "simple"
        /\ pc' = IF ~starts \/ (token = "import" /\ ~InFile) THEN "done"
                 ELSE IF token = "import" THEN "import" ELSE "expression"
  /\ UNCHANGED <<blocks, depth, astray>>

(* The end of a text: of the one that run() parses, or of an imported one, *)
(* where aer_module_load runs it and returns to the statement around it.   *)
EndOfText ==
  /\ pc = "head" /\ InFile /\ token = "END_OF_FILE" /\ blocks = <<>>
  /\ UNCHANGED lexer /\ Goto("stopped")

EndOfImport(failed) ==
  /\ pc = "head" /\ InFile /\ token = "END_OF_FILE" /\ blocks # <<>>
  /\ Restore(Last(blocks).outer) /\ astray' = Last(blocks).astray
  /\ parse_had_error' = failed
  /\ blocks' = Front(blocks) /\ pc' = "done"
  /\ UNCHANGED <<left, kind, recovered_at_boundary, depth>>

-----------------------------------------------------------------------------
(* Statements.                                                             *)

(* A token of an expression, an error in it that reads no further, a       *)
(* require() in it that fails.                                             *)
Expression ==
  /\ pc = "expression"
  /\ \/ /\ token \in {"word", "colon", "if", "else", "open", "close"}
        /\ Lex(parse_had_error) /\ Goto("expression")
     \/ /\ parse_had_error' = TRUE /\ UNCHANGED <<place, token, ahead, left, history>>
        /\ Goto("expression")
     \/ /\ Lex(TRUE)
        /\ astray' = (astray \/ token \in LayoutToken)
        /\ UNCHANGED <<pc, kind, blocks, recovered_at_boundary, depth>>

(* A simple statement ends anywhere; so does a header that returns on its  *)
(* own errors, and parse_for on those before its colon.                    *)
EndStatement ==
  /\ pc = "expression"
  /\ kind = "simple" \/ (kind \in {"for", "function"} /\ parse_had_error)
  /\ UNCHANGED lexer /\ Goto("done")

(* The colon of parse_if, parse_for and parse_function_body.               *)
Header ==
  /\ pc = "expression" /\ kind \in Block
  /\ Require("colon")
  /\ pc' = IF kind = "for" /\ (parse_had_error \/ token # "colon") THEN "done" ELSE "newline"
  /\ UNCHANGED <<kind, blocks, recovered_at_boundary, depth>>

Newline ==
  /\ pc = "newline"
  /\ Require("NEW_LINE") /\ pc' = "indent"
  /\ UNCHANGED <<kind, blocks, recovered_at_boundary, depth>>

Indent ==
  /\ pc = "indent"
  /\ Lex(parse_had_error \/ token # "INDENT") /\ pc' = "head"
  /\ blocks' = Append(blocks, BlockFrame)
  /\ astray' = (astray \/ token # "INDENT")
  /\ UNCHANGED <<kind, recovered_at_boundary, depth>>

(* parse_if behind its first block.                                        *)
Else ==
  /\ pc = "else?"
  /\ IF token = "else"
     THEN Lex(parse_had_error) /\ pc' = "colon" /\ kind' = "else" /\ recovered_at_boundary' = FALSE
     ELSE UNCHANGED <<lexer, kind, recovered_at_boundary>> /\ pc' = "done"
  /\ UNCHANGED <<blocks, depth, astray>>

ElseColon ==
  /\ pc = "colon"
  /\ Require("colon") /\ pc' = "newline"
  /\ UNCHANGED <<kind, blocks, recovered_at_boundary, depth>>

(* parse_import and aer_module_load.                                       *)
Import ==
  /\ pc = "import"
  /\ IF token = "word" THEN Lex(parse_had_error) /\ Goto("load")
     ELSE /\ parse_had_error' = TRUE /\ UNCHANGED <<place, token, ahead, left, history>>
          /\ Goto("done")

Load ==
  /\ pc = "load" /\ Len(SelectSeq(blocks, LAMBDA b : b.kind = "file")) < FileMax - 1
  /\ blocks' = Append(blocks, FileFrame)
  /\ OpenText /\ UNCHANGED <<token, left, parse_had_error>>
  /\ pc' = "enter" /\ astray' = FALSE
  /\ UNCHANGED <<kind, recovered_at_boundary, depth>>

(* find_module finds it, or it cannot be loaded.                           *)
NotLoaded(failed) ==
  /\ pc = "load"
  /\ parse_had_error' = (parse_had_error \/ failed)
  /\ UNCHANGED <<place, token, ahead, left, history>> /\ Goto("done")

-----------------------------------------------------------------------------
(* Recovery.                                                               *)

Done ==
  /\ pc = "done"
  /\ UNCHANGED lexer
  /\ Goto(IF parse_had_error /\ ~recovered_at_boundary THEN "skip" ELSE "head")

(* Mutants: recovery reads nothing; it stops at the end of the line.       *)
SkipIdle == pc = "skip" /\ UNCHANGED lexer /\ Goto("head")
SkipNoOrphans ==
  /\ pc = "skip"
  /\ IF token \in {"END_OF_FILE", "NEW_LINE", "DEDENT"} \/ (token = "else" /\ ~InFile)
     THEN UNCHANGED lexer /\ Goto("head")
     ELSE Lex(parse_had_error) /\ Goto("skip")

(* To the end of the line, and an orphaned block behind it.  An INDENT     *)
(* that no header announced is read over too.                              *)
Skip ==
  /\ pc = "skip"
  /\ IF token = "NEW_LINE" THEN Lex(parse_had_error) /\ Goto("orphan")
     ELSE IF token \in {"END_OF_FILE", "DEDENT"} \/ (token = "else" /\ ~InFile)
     THEN UNCHANGED lexer /\ Goto("head")
     ELSE /\ Lex(parse_had_error)
          /\ astray' = (astray \/ token = "INDENT")
          /\ UNCHANGED <<pc, kind, blocks, recovered_at_boundary, depth>>

Orphan ==
  /\ pc = "orphan" /\ UNCHANGED lexer
  /\ Goto(IF token = "INDENT" THEN "junk" ELSE "head")

(* skip_orphaned_block                                                     *)
Junk ==
  /\ pc = "junk" /\ Lex(parse_had_error)
  /\ LET d == depth + (IF token = "INDENT" THEN 1 ELSE IF token = "DEDENT" THEN -1 ELSE 0)
         ends == d <= 0 \/ token' = "END_OF_FILE"
     IN depth' = (IF ends THEN 0 ELSE d) /\ pc' = (IF ends THEN "head" ELSE "junk")
  /\ UNCHANGED <<kind, blocks, recovered_at_boundary, astray>>

(* The next input of the shell.                                            *)
Shell ==
  /\ pc = "stopped" /\ left > 0
  /\ OpenText /\ UNCHANGED <<token, left, parse_had_error>>
  /\ pc' = "enter" /\ astray' = FALSE
  /\ UNCHANGED <<kind, blocks, recovered_at_boundary, depth>>

Stopped == pc = "stopped" /\ UNCHANGED vars

Parse ==
  \/ Enter \/ SkipLine \/ CloseBlock \/ Statement \/ EndOfText
  \/ Expression \/ EndStatement \/ Header \/ Newline \/ Indent \/ Else \/ ElseColon
  \/ Import \/ Load \/ Done \/ Skip \/ Orphan \/ Junk
  \/ \E failed \in BOOLEAN : EndOfImport(failed) \/ NotLoaded(failed)

Next == Parse \/ Shell \/ Stopped

(* The parser runs until the text is read; nobody need type another line.  *)
Spec == Init /\ [][Next]_vars /\ WF_vars(Parse)

-----------------------------------------------------------------------------
(* Properties.                                                             *)

OpenBlocks ==
  LET files == {i \in DOMAIN blocks : blocks[i].kind = "file"}
  IN Len(blocks) - Max(files \cup {0})

(* At the beginning of a statement as many blocks are open as the layout   *)
(* of the lines says: also behind statements that were given up and the    *)
(* blocks that were skipped with them, behind imports and from one input   *)
(* of the shell to the next.  (level counts the token that lex() has read  *)
(* and the parser has not.)                                                *)
BlocksFollowLayout ==
  pc = "head" /\ ~spoilt /\ ~astray =>
    OpenBlocks = level + (CASE token = "DEDENT" -> 1 [] token = "INDENT" -> -1 [] OTHER -> 0)

(* However malformed, a text is read to its end: as the comments at the    *)
(* recovery loops promise, no token is met for ever.                       *)
ParseEnds == <>(pc = "stopped")

-----------------------------------------------------------------------------
(* A claim of the comments at the recovery loops that the code does not    *)
(* keep; README, section 4, says what happens instead.  No run checks it.   *)

(* After a syntax error the parser is at a boundary again, in the block it *)
(* was in.                                                                 *)
RecoveryKeepsBlocks ==
  pc = "head" /\ ~spoilt =>
    OpenBlocks = level + (CASE token = "DEDENT" -> 1 [] token = "INDENT" -> -1 [] OTHER -> 0)
=============================================================================
