\* One peer, one session, and a thread that is stalled for some seconds before a tick.
SPECIFICATION Spec
CONSTANTS
  Channels = {ch}
  Remotes = {r1}
  Ufrags = {u1}
  NotStun = NotStun
  Offers = {"ok"}
  MaxTasks = 1
  Stall = TRUE
  Strays = FALSE
INVARIANT EndedTasksKnown
CHECK_DEADLOCK FALSE
