SPECIFICATION Spec
CONSTANTS
  Ids = {"i", "j"}
  Dests = {1}
  Calls = {"a", "b"}
  Mounts = {1, 2}
  Damaged = Damaged
  None = None
INVARIANT OwnChangeOnly
CHECK_DEADLOCK FALSE
