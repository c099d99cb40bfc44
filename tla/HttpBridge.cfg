\* Two workers, channels that a few requests fill, and every kind of
\* request meets every state of its worker.
SPECIFICATION FairSpec
CONSTANTS
  NumWorkers = 2
  Kinds = {"offer", "bad", "other", "static", "broken"}
  ReqCap = 2
  RespCap = 1
  MaxReqs = 5
INVARIANTS TypeOK OnePlace ExpectHolds
PROPERTY EveryRequestResolved
CHECK_DEADLOCK FALSE
