SPECIFICATION Spec
CONSTANTS
  Session = {s1, s2}
  Account = {x1}
  Token = {t1, t2, t3}
  Call = {c1, c2}
  None = None
  AccessTTL = 1
  RefreshTTL = 1
  Retention = 0
  MaxTime = 2
SYMMETRY Symmetry
PROPERTY EndedForAReason
CHECK_DEADLOCK FALSE
