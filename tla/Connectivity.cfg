SPECIFICATION ConnectivitySpec
CONSTANTS
  old = old
  other = other
  Ssids = {old, other}
  Stored <- Before
  Asks <- Requests
  Threshold = 2
  MaxOps = 2
  MaxEvents = 2
  page = page
  k1 = k1
  k2 = k2
  NoSocket = NoSocket
INVARIANT
  Joins
PROPERTIES
  ResultsQuiet
  Reachable
  Delivered
  Reaches
CHECK_DEADLOCK FALSE
