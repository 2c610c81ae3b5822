SPECIFICATION Spec
CONSTANTS
  Capacity = 1
  MaxOutput = 2
  Logins = {"l", "m"}
  Launches = {"x", "y"}
  Accounts = {"a", "b"}
  MaxTokens = 3
  MaxLogs = 2
  MaxLog = 3
  Chunk = 2
  MaxText = 2
  MaxVisits = 2
  MaxOvertaken = 1
  Opens = {1, 2, 3}
  MaxEdits = 3
  Tests = {1, 2, 3}
  Scopes = {1, 2, 3}
  Valid = {1, 2}
  Cleanups = {"q", "r"}
  Instances = {"i"}
  Sessions = {"s", "t"}
  Calls = {"c", "d"}
  Used <- MCUsed
  Saved = {"v", "w"}
  Contents = {"a", "b"}
  Iconed = {"a"}
  SaveBackups = {"z"}
  MaxRuns = 2
  MaxLoads = 2
  ContentFiles = {"f", "g"}
  MaxChanges = 2
  Projects = {"p", "q"}
  Catalogs = {"modrinth", "curseforge"}
  Queries = {"x", "y"}
  Versions = {1, 2}
  MaxCalls = 2
  MaxEntries = 3
  WorldPacks = {"f"}
  Mounts = 2
  MaxElsewhere = 1
  Servers = {"running", "stale"}
  Limits = {1, 2}
  MaxStarts = 1
  MaxFiles = 1
  MaxBytes = 2
  Bases = {"v", "w"}
  Suffixes = {"_nether"}
  ServerPacks = {}
  MaxBackups = 1
  Worlds = {"s", "t"}
  Survival = "s"
  InstancePacks = {"p"}
  Exports = {"x"}
  None = None
CONSTRAINTS
  TwoCalls
  OneOfEach
INVARIANTS
  TypeOK
  TokensAreKept
  LateAnswersDropped
  WritersAlone
  PagesAreTrue
  MockIsSound
PROPERTIES
  EndIsFinal
CHECK_DEADLOCK FALSE
