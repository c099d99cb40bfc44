\* A publisher or a viewer with three events that its task does not care about.
SPECIFICATION FairSpec
CONSTANTS
  Kinds = {"whip", "whep"}
  MaxOther = 3
INVARIANTS TypeOK AnnouncedFirst TimeoutAgrees
PROPERTIES LossExplained GivenIsSent TimersRun EventsReported
CHECK_DEADLOCK FALSE
