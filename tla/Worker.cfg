\* Two peers, three tasks: a teardown, a returning peer and a second session
\* beside it, with one channel for publisher and subscriber.  The thread may be
\* stalled, so that a task may report its end twice, and anyone may send packets.
SPECIFICATION FairSpec
CONSTANTS
  Channels = {ch}
  Remotes = {r1, r2}
  Ufrags = {u1, u2}
  NotStun = NotStun
  Offers = {"ok", "bad"}
  MaxTasks = 3
  Stall = TRUE
  Strays = TRUE
INVARIANTS TypeOK RoutesAgree MembershipAgrees NoEmptyChannel NoMisdelivery EndedListed
PROPERTIES NoRebind TeardownCompletes AnnouncementLands
CHECK_DEADLOCK FALSE
