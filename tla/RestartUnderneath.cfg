SPECIFICATION Spec
CONSTANTS
  Key = {k1, k2}
  Digest = {"change", "catalog", "reboot", "factory_reset"}
  Asks <- MCAsks
  UiKinds = {"read"}
  Slots = 2
  Entries = 1
  Depth = 1
  Period = 2
  Ttl = 1
  Expiry = 0
  MaxTime = 1
  MaxId = 3
PROPERTY NoRestartUnderneath
