SPECIFICATION TasksSpec
CONSTANTS
  Key = {k1, k2}
  Digest = {"change", "catalog", "reboot", "factory_reset"}
  Asks <- MCAsks
  UiKinds = {"read"}
  Slots = 2
  Entries = 1
  Depth = 1
  Period = 2
  Ttl = 1
  Expiry = 0
  MaxTime = 1
  MaxId = 3
  s1 = s1
  s2 = s2
  u1 = u1
  u2 = u2
  NoSpool = NoSpool
  NoUuid = NoUuid
  NoRecord = NoRecord
INVARIANTS
  Placed
  Idempotent
  GateOwned
PROPERTIES
  
  OperationsEnd
  LinksEnd
