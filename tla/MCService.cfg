SPECIFICATION SpecParts
CONSTANTS
  Handler = {c1, c2}
  Pseudonym = {r1, r2}
  None = None
  CONSENT_CHURN_PER_DAY = 2
  DAY = 2
  MaxTime = 2
  MaxVersion = 2
  MaxEvents = 2
  i1 = i1
  a1 = a1
  k1 = k1
  k2 = k2
  s1 = s1
  s2 = s2
  Identity = {i1}
  AdminAttempt = {a1}
  Code = {k1, k2}
  AdminSession = {s1, s2}
  AttemptTTL = 1
  CodeTTL = 1
  SessionTTL = 1
  StaffTime = 1
  MaxGrants = 1
  BankKey = {k1, k2}
  AcrLevels = {"asked", "lower"}
  BankTime = 4
  MaxFaults = 1
  MaxTrouble = 1
  o1 = o1
  o2 = o2
  f1 = f1
  f2 = f2
  f3 = f3
  f4 = f4
  Photo = {f1, f2, f3, f4}
  Subject = {o1, o2}
  Variant = {"full"}
  OwnerOf <- OwnersOfPhotos
  FetchLimit = 1
  CardLimit = 1
  BudgetDays = 2
  MaxRows = 2
  LIMIT = 1
  WINDOW = 4
  SECOND = 2
  MANY = 1
  LimiterTime = 5
  Cell = {"woman"}
  WAITLIST_K_MIN = 2
  MaxPeople = 3
  MaxK = 3
  WaitlistDays = 2
  MaxMoves = 2
  Account = {u1, u2}
  MaxNight = 2
  MaxAsked = 2
  m1 = m1
  TextKey = {m1}
  Unruly <- UnrulyPairs
  MaxEn = 2
  MaxText = 2
  MaxEdits = 3
  Persona = {u1, u2}
  Picture = {p1}
  PERSONA_HISTORIES <- Banned
  MaxOthers = 1
  Typed <- CommandLines
  p1 = p1
  p2 = p2
  u1 = u1
  u2 = u2
  Param = Param
  Absent = None
  Process = {c1, c2}
  Images = {1, 2}
  BootFaults = 1
  MaxBoots = 2
  SpringAt = 25
  AutumnAt = 73
  MonthDays = 2
  EVENTS_RETENTION_DAYS = 3
  StartHours = {2, 22}
  MaxHour = 105
  NightFailures = 1
  SERVICES <- Served
  Skips = {{}, {"api", "mobile"}}
  Machines <- DevMachines
  Holders <- PortHolders
  Chains <- Parents
  EnvTrouble = 1
  Blank = None
  PhoneSession = {s1, s2}
  Left = Left
  MaxPairs = 3
  MaxWrites = 2
  PhoneTrouble = 1
  MaxPhotos = 2
  MaxUploads = 3
  MaxCalls = 2
  AlbumTrouble = 2
  Prompt = {p1}
  PROMPTS_MAX = 1
  PROMPTS_FOR_COMPLETENESS = 1
  ProfileEdits = 3
  ProfileTrouble = 1
  PhoneAccount = {u1, u2}
  Finished = {u1}
  Pond = {p1, p2}
  Wordings = 2
  QuestionsTrouble = 1
  LOCALES <- Translated
  RELEASED_LOCALES <- Released
  Phones <- PhoneLocales
  SettingsMoves = 2
  MaxLogins = 2
  PanelTrouble = 3
  Queued = {1, 2, 3}
  QueueLimit = 2
  Queues = {{2}, {1, 2, 3}}
  MaxLoads = 2
  DeskTrouble = 1
SYMMETRY Symmetry
INVARIANTS TypesOK MappingFollowsConsent WhoIsLetIn ScreensKeepTheirWord WithinBudgets ProcessesHold RoutesAndFigures
PROPERTIES NoEventAfterConsent ToldCarefully WorkIsSpared
CHECK_DEADLOCK FALSE
