SPECIFICATION Spec
CONSTANTS
  Person = {p1, p2}
  Attempt = {a1, a2}
  Account = {x1, x2}
  Code = {k1, k2}
  Session = {s1, s2}
  Call = {c1, c2}
  None = None
  RequestTTL = 1
  CodeTTL = 1
  Cooldown = 1
  MaxTime = 1
  MaxRefused = 1
SYMMETRY Symmetry
INVARIANTS TypeOK OneLiveAccount DeletionsCounted CancelledStaysCancelled OneSessionPerAttempt SessionOfTheLogin
PROPERTIES OnlyStaleReadsSlipThrough
CHECK_DEADLOCK FALSE
