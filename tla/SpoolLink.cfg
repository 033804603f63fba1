SPECIFICATION Spec
CONSTANTS
  Spool = {s1, s2}
  Uuid = {u1, u2}
  Worlds <- MCAll
  MaxEdits <- MCOneEdit
  NoSpool = NoSpool
  NoUuid = NoUuid
  NoRecord = NoRecord
INVARIANT
  Exact
PROPERTY
  Careful
