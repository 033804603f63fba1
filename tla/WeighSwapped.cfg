SPECIFICATION Spec
CONSTANTS
  t1 = t1
  t2 = t2
  s1 = s1
  s2 = s2
  NoTag = NoTag
  NoSpool = NoSpool
  Tag = {t1, t2}
  Spool = {s1, s2}
  Backend = {b1}
  Link <- MCLink
  Grams = {0, 1}
  EditedTo = {0}
  Full = 1
  Overfill = 1
  Deadband = 0
  QueueLimit = 1
  MaxRetries = 1
  MemoryFails = TRUE
  Bounds <- MCBoundsSwapped
INVARIANT
  IdentityMatches
PROPERTIES
  SavesRightly
  SavedOnce
SYMMETRY MCSwap
