\* A main that panics while its workers are idle.
SPECIFICATION FairSpec
CONSTANTS
  NumWorkers = 1
  Kinds = {"offer", "broken"}
  ReqCap = 1
  RespCap = 1
  MaxReqs = 1
PROPERTY DropFinishes
CHECK_DEADLOCK FALSE
