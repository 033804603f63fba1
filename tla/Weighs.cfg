SPECIFICATION FairSpec
CONSTANTS
  t1 = t1
  t2 = t2
  s1 = s1
  s2 = s2
  NoTag = NoTag
  NoSpool = NoSpool
  Tag = {t1}
  Spool = {s1}
  Backend = {b1}
  Link <- MCLinkOne
  Grams <- MCGrams
  EditedTo = {}
  Full = 1
  Overfill = 1
  Deadband = 0
  QueueLimit = 1
  MaxRetries = 1
  MemoryFails = FALSE
  Bounds <- MCBoundsSettled
PROPERTY
  WeighsEnd
