SPECIFICATION Spec
CONSTANTS
  Person = {p1}
  Attempt = {a1, a2}
  Account = {x1, x2}
  Code = {k1, k2}
  Session = {s1, s2}
  Call = {c1, c2}
  None = None
  RequestTTL = 1
  CodeTTL = 1
  Cooldown = 2
  MaxTime = 0
  MaxRefused = 1
PROPERTIES CallsSettle TombstonesLoseTheirSessions
CHECK_DEADLOCK FALSE
