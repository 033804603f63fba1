SPECIFICATION BackendsSpec
CONSTANTS
  Spool = {s1, s2}
  Tag = {t1, t2}
  Uuid = {u1, u2}
  MaxCache = 1
  MaxEdits = 1
  MaxCommands = 2
  NoSpool = NoSpool
  NoTag = NoTag
  NoUuid = NoUuid
  AnySpool = AnySpool
  tool1 = tool1
  tool2 = tool2
  small = small
  big = big
  Nobody = Nobody
  Unlisted = Unlisted
  NoRequest = NoRequest
  Tools = {tool1, tool2}
  Disabled = {tool2}
  Spools = {s1, s2}
  MaxTags = 1
  MaxChanges = 1
  MaxOutages = 2
  MaxAsks = 1
  Depth = 1
  Cells = {small, big}
  Capacity <- CellCapacity
  Loads = {0, 3, 20}
  Offsets = {0, 2}
  Reference = 20
  MinCounts = 2
  TareLimit = 5
  Deadband = 3
  MaxZero = 3
  ZeroStep = 1
  Window = 2
  Hold = 1
  SessionLength = 3
  FailedPolls = 2
  MaxQueue = 1
  MaxAsked = 2
  MaxMoves = 2
  MaxProfiles = 1
  MaxFaults = 1
SYMMETRY Interchangeable
INVARIANTS
  Consented
  Mirrors
  CommandsTrue
PROPERTIES
  Resolves
  Agrees
  
CHECK_DEADLOCK FALSE
