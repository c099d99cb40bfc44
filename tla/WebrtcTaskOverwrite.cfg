\* A publisher with one event that its task does not care about.
SPECIFICATION Spec
CONSTANTS
  Kinds = {"whip"}
  MaxOther = 1
PROPERTY NoPacketLost
CHECK_DEADLOCK FALSE
