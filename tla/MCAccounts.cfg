\* Two requests at a time, three pairs: the refresh token of the last outlives two.
CONSTANTS
  c1 = c1
  c2 = c2
  Clients = {c1, c2}
  Given <- MCGiven
  AccessTTL = 2
  RefreshTTL = 4
  MaxTime = 5
  MaxPairs = 3
SPECIFICATION Spec
INVARIANTS
  TypeOK
  PrivilegeIsRecent
CHECK_DEADLOCK FALSE
