SPECIFICATION ProberSpec
CONSTANTS
  Names = {"etag"}
  Texts = {"short", "long"}
  Length <- MCLength
  StaticTable <- MCStatic
  DefaultSize = 114
  TableSizes = {57}
  Window = 2
  FrameLimit = 5
  ControlLimit = 2
  MaxRequests = 2
  MaxBody = 2
  Pushes = TRUE
  Spares = TRUE
  PerOp = 1
  BudgetLimit = 3
INVARIANTS
  ProberTypeOK
  FieldsSurvive
  PeerTableKept
  RaisedForCause
  PassesForCause
  FailsForCause
  WithinBudget
PROPERTIES
  RequestEnds
