CONSTANTS
  StackMax = 5
  ScopeMax = 4
  CallMax = 2
  DeferMax = 2
  ArityMax = 1
  TempMax = 2
  NestMax = 2
  LoopReturn = FALSE
SPECIFICATION Spec
INVARIANTS ScopesAccounted OperandsAccounted DefersBelongToCall
PROPERTY NoDeferLost
