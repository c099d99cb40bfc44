\* One peer and two sessions of valid offers; only peers send packets.
SPECIFICATION Spec
CONSTANTS
  Channels = {ch}
  Remotes = {r1}
  Ufrags = {u1}
  NotStun = NotStun
  Offers = {"ok"}
  MaxTasks = 2
  Stall = FALSE
  Strays = FALSE
INVARIANT SurvivesLateMedia
CHECK_DEADLOCK FALSE
