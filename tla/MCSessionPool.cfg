SPECIFICATION FairSpec
CONSTANTS
  Opens = {o1, o2}
  Ordinary = {}
  Credentialed = {k1}
  Closers = {c1}
  Clears = {x1}
  Endpoints = {e1}
  Local = local
  None = None
  MaxId = 2
INVARIANTS
  TypeOK
  IndexAgreement
  OneSessionPerId
  DeletedEndpointIsQuiet
PROPERTIES
  NoOrphans
CHECK_DEADLOCK FALSE
