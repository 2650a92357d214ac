CONSTANTS
  Name = {"g", "p"}
  Value = {Null, v1}
  Loc = {l1, l2, l3, l4}
  NoLoc = NoLoc
  Null = Null
  Freed = Freed
  SlotMax = 1
  MaxScopes = 3
  Fn = {"f"}
  Param <- ProgParam
  LoopVar <- ProgLoopVar
  Captures <- ProgCaptures
  Closure = {k1}
  Site = {"main_g", "f_g"}
  SiteFn <- ProgFn
  SiteName <- ProgName
  SiteBlock <- ProgBlock
SYMMETRY Symmetry
SPECIFICATION Spec
INVARIANTS CapturedPayloadNotFreed CachedIsGlobal ParamIsLookup
PROPERTY RefinesEnvironment
