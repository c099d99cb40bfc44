\* Events of one cycle, or of the time another worker needs for its own, fill the
\* ring.
SPECIFICATION FairSpec
CONSTANTS
  w1 = w1
  w2 = w2
  pub = pub
  near = near
  far = far
  NoOne = NoOne
  Workers = {w1, w2}
  Publishers = {pub}
  Viewers = {near, far}
  Home <- MCHome
  BusSize = 2
  MaxEvents = 3
PROPERTY BroadcastCompletes
CHECK_DEADLOCK FALSE
