CONSTANTS
  Leaf = {l1, l2}
  Container = {c1, c2}
  Func = {}
  Box = {}
  Field = {f1}
  Stack = {s1, s2, m1}
  Scope = {}
  Const = {k1}
  MainSlot = {s1, s2, k1}
  Nothing = Nothing
  MinorThreshold = 2
  MajorEvery = 2
  Ceiling = 2
  MaxNesting = 1
SYMMETRY Symmetry
SPECIFICATION Spec
INVARIANTS ReachableNotFreed RememberedNotDangling
PROPERTIES MajorReclaimsGarbage CeilingErrorIsReal
