CONSTANTS
  Char = {Colon, Blank, a}
  Colon = Colon
  Blank = Blank
  NewLine = NewLine
  Nul = Nul
  COMMAND_SIZE = 4
  LineMax = 2
  FileMax = 6
  Reenter = FALSE
  Deep = FALSE
SPECIFICATION TerminalSpec
INVARIANTS RingIsTail TypedIsRead
PROPERTY RefinesEditor
