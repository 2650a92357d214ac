CONSTANTS
  Width = {0, 1, 2, 3}
  IndentMax = 3
  Length = 6
  FileMax = 2
SPECIFICATION Spec
INVARIANTS TokensFollowLayout NoLayoutInBrackets BlocksFollowLayout
PROPERTY ParseEnds
