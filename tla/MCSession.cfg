SPECIFICATION FairSpec
CONSTANTS
  Ordinary = {o1, o2}
  Credentialed = {k1, k2}
  Handshake = hs
  Closers = {c1}
  NoTask = NoTask
  NoId = NoId
INVARIANTS
  TypeOK
  OwnLinesOnly
PROPERTIES
  SecretIsLast
  ImplementsRpcChannel
  CloseEndsRequests
  CloseReachesTransport
CHECK_DEADLOCK FALSE
