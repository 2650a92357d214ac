CONSTANTS
  Key = {k1, k2, k3, k4}
  Val = {v1, v2}
  Absent = Absent
  HashValue = {4, 15}
  HashWord = 16
  InitSize = 4
  High = 70
  Low = 50
  MaxDoublings = 2
SPECIFICATION Spec
INVARIANTS ProbeChainsUnbroken CountExact
PROPERTIES RefinesDict RepairNeverRehashes RemoveReturns
