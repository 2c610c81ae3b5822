SPECIFICATION Spec
CONSTANTS
  Sources = {local}
  Local = local
  Servers = {s1}
  Visits = {v1}
  Lists = {l1}
  Statuses = {}
  Ops = {p1}
  None = None
  ReadsFail = TRUE
  MaxVisits = 2
INVARIANTS
  DeletedStaysDeleted
CHECK_DEADLOCK FALSE
