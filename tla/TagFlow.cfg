SPECIFICATION Spec
CONSTANTS
  t1 = t1
  t2 = t2
  Tag = {t1, t2}
  Asks <- Changes
  MaxQueue = 1
  MaxTouch = 2
  MaxBrowser = 1
SYMMETRY Interchangeable
INVARIANT
  Prompted
PROPERTY
  Confirmed
CHECK_DEADLOCK FALSE
