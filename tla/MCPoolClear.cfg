SPECIFICATION ClearSpec
CONSTANTS
  Opens = {o1, o2}
  Ordinary = {}
  Credentialed = {}
  Closers = {}
  Clears = {x1}
  Endpoints = {e1}
  Local = local
  None = None
  MaxId = 2
INVARIANTS
  ClearKillsEveryCore
CHECK_DEADLOCK FALSE
