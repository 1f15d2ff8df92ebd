SPECIFICATION ServicesSpec
CONSTANTS
  Deliveries = {1, 2, 3}
  Configs = {"a", "b"}
  ConfigOf <- SubscriptionOf
  PushDrains = {"cron", "alarm"}
  MAX_PUSH_ATTEMPTS = 2
  FETCHED = 3
  MAX_PUSH_PER_CONFIG_PER_DRAIN = 1
  PER_DRAIN = 2
  KEPT = 1
  MaxEvictions = 1
  STEP = 2
  DAY = 3
  MaxTime = 5
  MaxCards = 3
  MaxFaults = 1
  UNITS = 5
  WEEK = 2
  MAX_DAYS = 4
  Offsets <- AroundUtc
  Changes = {9, 10, 11, 12, 13}
  Afters = {5, 6, 7, 8, 9, 10, 11, 12, 13, 14, 15}
  WakeRuns = {"r1", "r2"}
  WakeDeliveries = {"d1"}
  HEARTBEAT_TIMEOUT_MS = 2
  PUSH_DRAIN_BASE_MS = 1
  WAKE_ATTEMPTS = 2
  MaxWakeTime = 3
  MaxReportDelay = 1
  PubRuns = {1, 2}
  Subjects = {1, 2}
  Urls = {"u1"}
  WebBoards = {"A", "B"}
  NoBoard = "-"
  MaxVersion = 1
  MaxLoads = 2
  MaxDeleted = 1
  HookIds = {1, 2}
  HookCards = {1, 2}
  MaxCopies = 2
  Requests = {"q1"}
  AskRuns = {"r1", "r2"}
  Askers = {"a", "b"}
  Questions = {1, 2}
  Expiries = {1}
  LEASE_MS = 1
  MaxDecTime = 1
  Persons = {"p1"}
  FleetPerson = "p2"
  Supis = {1, 2}
  Calls = {1, 2}
  MaxGrants = 4
  Principals = {"p1", "p2"}
  Addresses = {"a1", "a2"}
  Visits = {1, 2}
  MaxMoves = 2
  MaxManaged = 1
  SearchCards = {"c1", "c2", "c3"}
  LinkSets <- FewLinks
  Candidates <- FromOneCard
  NoSearch = NoSearch
VIEW PartView
INVARIANTS
  TypesOK
  AtLeastOnce
  PhaseKept
  StandsAlone
  NextFireIsRight
  KeepsRinging
  VerifiesOnlyStanding
  HandDelivered
  ShowsOpenBoard
  Informed
  AppliedOnce
  RetryHeard
  ActsOnlyAsNamed
  NewestKept
  ActsAsOneself
  SearchRight
PROPERTIES
  RetriesYield
  OncePerTick
  UrlStays
  SettledStays
CHECK_DEADLOCK FALSE
