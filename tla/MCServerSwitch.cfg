SPECIFICATION Spec
CONSTANTS
  Sources = {local, e1}
  Local = local
  Servers = {s1}
  Visits = {v1, v2}
  Lists = {}
  Statuses = {}
  Ops = {p1}
  None = None
  ReadsFail = TRUE
  MaxVisits = 4
INVARIANTS
  OwnSourceOnly
  DeletedScopeGone
CHECK_DEADLOCK FALSE
SYMMETRY VisitSymmetry
