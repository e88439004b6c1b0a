SPECIFICATION Spec
CONSTANTS
  Session = {s1}
  Account = {x1}
  Token = {t1, t2, t3}
  Call = {c1, c2}
  None = None
  AccessTTL = 2
  RefreshTTL = 2
  Retention = 1
  MaxTime = 3
SYMMETRY Symmetry
INVARIANTS TypeOK AnswersWithinLife
PROPERTIES RefreshIsAChain ReuseNoticed
CHECK_DEADLOCK FALSE
