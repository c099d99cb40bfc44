\* One peer and two sessions of valid offers.
SPECIFICATION Spec
CONSTANTS
  Channels = {ch}
  Remotes = {r1}
  Ufrags = {u1}
  NotStun = NotStun
  Offers = {"ok"}
  MaxTasks = 2
  Stall = FALSE
  Strays = FALSE
INVARIANT NoStaleSource
CHECK_DEADLOCK FALSE
