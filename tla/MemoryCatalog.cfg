SPECIFICATION Spec
CONSTANTS
  None = None
  lo = lo
  up = up
  Attachments = {1}
  Components = {"main"}
  Main = "main"
  Names = {lo, up}
  Lower <- LowerCase
  Items = {"d1", "d2"}
  NotNull = {"d1"}
  Comments = {None, "c1"}
  Callers = {1}
  Options <- ExampleOptions
  MaxDepth = 3
  MaxVersion = 4
CHECK_DEADLOCK FALSE
INVARIANTS
  NoOrphans
  VersionTellsAll
  AnswersAreFresh
