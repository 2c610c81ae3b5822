SPECIFICATION Spec
CONSTANTS
  Sources = {local, e1}
  Local = local
  Servers = {s1}
  Visits = {v1}
  Lists = {}
  Statuses = {}
  Ops = {p1}
  None = None
  ReadsFail = FALSE
  MaxVisits = 2
PROPERTIES
  LocalCacheSurvives
CHECK_DEADLOCK FALSE
