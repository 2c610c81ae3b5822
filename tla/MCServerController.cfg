SPECIFICATION FairSpec
CONSTANTS
  Sources = {local}
  Local = local
  Servers = {s1}
  Visits = {v1}
  Lists = {l1}
  Statuses = {q1, q2}
  Ops = {p1}
  None = None
  ReadsFail = TRUE
  MaxVisits = 2
INVARIANTS
  TypeOK
  CreatedStaysListed
  SpinnersHaveRequests
PROPERTIES
  StatusNeverGoesBack
  RefreshKeepsDeleted
  LoadingEnds
CHECK_DEADLOCK FALSE
