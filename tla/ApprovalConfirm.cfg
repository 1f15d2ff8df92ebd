SPECIFICATION ApsSpec
CONSTANTS
 PubRuns = {1,2,3}
 Subjects = {1,2}
 Urls = {"u1"}
INVARIANTS ConfirmsOnlyStanding
CHECK_DEADLOCK FALSE
