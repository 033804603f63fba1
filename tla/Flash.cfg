SPECIFICATION FlashSpec
CONSTANTS
  Record = {r1, r2}
  NoRecord = NoRecord
  Yes = Yes
  No = No
  Pending = Pending
  Torn = Torn
  a = a
  b = b
  NoSlot = NoSlot
  Settings = {}
  SetupSteps = {tried}
  Mappings = {}
  Calibrations = {calibrated}
  Profiles = {profiled}
  Before = Before
  MaxProposals = 2
  MaxCuts = 1
  MaxFaults = 1
INVARIANT
  ErasedForGood
PROPERTIES
  Durable
  UpgradesSafely
  NeverStuck
  SlotsServe
  Final
  Ends
  NothingLost
  ResetEnds
CHECK_DEADLOCK FALSE
