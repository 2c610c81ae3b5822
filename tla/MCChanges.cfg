SPECIFICATION Spec
CONSTANTS
  ShaderFiles = {"iris"}
  Packs = {"p", "q"}
  Lists <- MCLists
  Rests = {"a"}
  Edits = {"c", "d"}
  Requests = {"r"}
  MaxSnapshots = 1
  MaxSequence = 3
  MaxWrites = 1
  QueueSize = 2
  MaxLines = 2
  MaxFiles = 2
  MaxRecords = 3
  Readings = {"c"}
  Endpoints = {"i", "j"}
  Dests = {1}
  Mutations = {"a", "b"}
  Damaged = Damaged
  Instances = {"i"}
  Archives = {"f", "g"}
  Keyed = {"g"}
  Imports = {1, 2}
  Manifests = {"m", "n"}
  Versions = {1, 2}
  Updates = {"c", "d"}
  Controllers = {"c", "d"}
  MaxRevisions = 2
  MaxChanges = 1
  None = None
INVARIANTS
  TypeOK
  LogIsHonest
  OwnChangeOnly
  ArchiveOnce
  ConfirmedIsDone
  ChangedWhileStopped
PROPERTIES
  SaveKeepsUnknown
CHECK_DEADLOCK FALSE
