CONSTANTS
  Source = {"fault", "import"}
  LoopMax = 2
  BreakMax = 1
  CodeMax = 8
  DepthMax = 3
SPECIFICATION Spec
INVARIANTS ContextMatches HolesAccounted FailedStatementsReported
