CONSTANTS
  x = x
  y = y
  z = z
  Callee = f
  Name <- Names
  Text <- Program
  Lost = {"call", "function"}
  LeftMax = 0
  CaptureMax = 2
  LocalMax = 3
  LineMax = 6
SPECIFICATION BytecodeSpec
INVARIANTS LinesNameTheirStatement RewrittenCodeMatchesText UpvaluesAreTheNamed NamesFollowCaptureRule
