CONSTANTS
  Module = {a, b, c}
  Main = main
  CallMax = 2
SYMMETRY Symmetry
SPECIFICATION Spec
INVARIANTS CollectorSeesAll SuppressionEnds LoadedOnce NeverReentered
