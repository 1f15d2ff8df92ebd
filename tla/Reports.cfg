SPECIFICATION Spec
CONSTANTS
  None = None
  r1 = r1
  r2 = r2
  alarm = alarm
  cron = cron
  Runs = {r1,r2}
  Drains = {alarm,cron}
  RUN_REPORT_MAX_ATTEMPTS = 2
  MaxChanges = 2
  MaxClock = 2
  MaxGen = 2
SYMMETRY Symmetric
INVARIANTS TypeOK NothingLost
PROPERTIES Follows OwnAnswers
