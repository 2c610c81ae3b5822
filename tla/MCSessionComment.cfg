SPECIFICATION Spec
CONSTANTS
  Ordinary = {o1}
  Credentialed = {k1}
  Handshake = hs
  Closers = {c1}
  NoTask = NoTask
  NoId = NoId
INVARIANTS
  InFlightFinishesFirst
CHECK_DEADLOCK FALSE
