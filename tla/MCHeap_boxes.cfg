CONSTANTS
  Leaf = {l1}
  Container = {}
  Func = {u1}
  Box = {b1, b2}
  Field = {}
  Stack = {s1, s2}
  Scope = {g1}
  Const = {}
  MainSlot = {s1, s2, g1}
  Nothing = Nothing
  MinorThreshold = 2
  MajorEvery = 2
  Ceiling = 0
  MaxNesting = 0
SYMMETRY Symmetry
SPECIFICATION Spec
INVARIANT ClosureBoxesNotFreed
CHECK_DEADLOCK FALSE
