SPECIFICATION Spec
CONSTANTS
  m1 = m1
  m2 = m2
  w1 = w1
  p1 = p1
  p2 = p2
  Account = {m1, m2, w1}
  Pond = {p1}
  Handler = {c1}
  None = None
  ShareNum = 6
  ShareDen = 10
  Registered <- RegisteredInOrder
  Age <- AgeOfAll
  Preferences <- MCPreferences
  Onboarded <- Starts
  Step = 1
  GateK = 1
  MaxChanges = 1
INVARIANTS TypeOK CountingTwiceChangesNothing
PROPERTIES AskRestsOnWhatIsWritten
