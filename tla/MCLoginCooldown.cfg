SPECIFICATION Spec
CONSTANTS
  Person = {p1}
  Attempt = {a1, a2}
  Account = {x1, x2}
  Code = {k1, k2}
  Session = {s1}
  Call = {c1, c2}
  None = None
  RequestTTL = 1
  CodeTTL = 1
  Cooldown = 2
  MaxTime = 2
  MaxRefused = 1
PROPERTY NoAccountInsideCooldown
CHECK_DEADLOCK FALSE
