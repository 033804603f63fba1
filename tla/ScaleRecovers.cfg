SPECIFICATION FairSpec
CONSTANTS
  small = small
  big = big
  Cells = {small, big}
  Capacity <- CellCapacity
  Loads = {0, 3, 20}
  Offsets = {0, 2}
  Reference = 20
  MinCounts = 2
  TareLimit = 5
  Deadband = 3
  MaxZero = 3
  ZeroStep = 1
  Window = 2
  Hold = 1
  SessionLength = 3
  FailedPolls = 2
  MaxQueue = 1
  MaxAsked = 0
  MaxMoves = 0
  MaxProfiles = 0
  MaxFaults = 1
PROPERTY
  Recovers
