CONSTANTS
  Key = {k1, k2, k3}
  Val = {v1}
  Absent = Absent
  HashValue = {3, 7, 8, 15}
  HashWord = 16
  InitSize = 4
  High = 70
  Low = 50
  MaxDoublings = 2
  Bound <- Bounds
  Step <- Steps
  NotInteger = NotInteger
  ItemMax = 4
SPECIFICATION LoopSpec
INVARIANTS VisitsEachKeyOnce VisitsItemsInOrder RangeExact
PROPERTY DividedRangeStops
