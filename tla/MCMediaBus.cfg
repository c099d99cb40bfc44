\* Two workers, a ring of two slots and three events: the ring fills, wraps and may
\* hold its writers up; either worker may die.
SPECIFICATION FairSpec
CONSTANTS
  w1 = w1
  w2 = w2
  pub = pub
  near = near
  far = far
  NoOne = NoOne
  Workers = {w1, w2}
  Publishers = {pub}
  Viewers = {near, far}
  Home <- MCHome
  BusSize = 2
  MaxEvents = 3
INVARIANTS TypeOK HandedInOrder
PROPERTIES ImplementsMediaFlow OnlyDeadlockBlocks CatchesUp
CHECK_DEADLOCK FALSE
