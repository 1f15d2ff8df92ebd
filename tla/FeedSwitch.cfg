SPECIFICATION LiveSpec
CONSTANTS
 WebBoards = {"A","B"}
 NoBoard = "-"
 MaxVersion = 1
 MaxLoads = 2
 MaxDeleted = 1
INVARIANTS FeedFollowsBoard
CHECK_DEADLOCK FALSE
