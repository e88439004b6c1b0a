SPECIFICATION FairSpec
CONSTANTS
  m1 = m1
  m2 = m2
  w1 = w1
  p1 = p1
  p2 = p2
  Account = {m1, w1}
  Pond = {p1, p2}
  Handler = {c1, c2}
  None = None
  ShareNum = 6
  ShareDen = 10
  Registered <- RegisteredInOrder
  Age <- AgeOfAll
  Preferences <- MCPreferences
  Onboarded <- AllComplete
  Step = 1
  GateK = 1
  MaxChanges = 1
PROPERTIES EverybodyIsDecided
