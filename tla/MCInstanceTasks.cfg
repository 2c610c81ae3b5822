CONSTANTS
  Instances = {i}
  Identities = {v1, v2}
  Installs = {n1}
  Launches = {l1, l2}
  Imports = {c1, c2}
  Edits = {e1}
  None = None
SPECIFICATION Spec
SYMMETRY Symmetry
INVARIANTS TypeOK OneMutation LeaseHasHolder RecordsFollowJobs LaunchesOwnRecord
PROPERTIES ArchiveNotReplayed SetsUpItsOwn
CHECK_DEADLOCK FALSE
