SPECIFICATION SettleSpec
CONSTANTS
  Deliveries = {1, 2}
  Configs = {"a", "b"}
  ConfigOf <- SubscriptionOf
  PushDrains = {"cron", "alarm"}
  MAX_PUSH_ATTEMPTS = 2
  FETCHED = 2
  MAX_PUSH_PER_CONFIG_PER_DRAIN = 1
  PER_DRAIN = 2
  KEPT = 1
  MaxEvictions = 1
  None = None
  c1 = c1
  r1 = r1
  r2 = r2
  a1 = a1
  p1 = p1
  alarm = alarm
  cron = cron
  Cards = {c1}
  Runs = {r1, r2}
  Agents = {a1}
  People = {p1}
  Drains = {alarm, cron}
  RUN_REPORT_MAX_ATTEMPTS = 2
  MaxChanges = 1
  MaxClock = 1
  MaxGen = 2
PROPERTIES
  PushSettles
  DarkRunsEnd
  Reported
CHECK_DEADLOCK FALSE
