------------------------------ MODULE LiveBoard ------------------------------
(***************************************************************************)
(* What a browser tab shows of a board (apps/web/src/lib/stores/           *)
(* app.svelte.ts, feed-liveness.ts).  A load reads the whole board; a      *)
(* message on the live feed, whatever it says, starts another load.        *)
(* Opening a board sets boardId, loads the board, reads the lists around   *)
(* it and only then connects the feed.  Every read is awaited, so loads    *)
(* and openings overlap and their answers come in any order.               *)
(*                                                                         *)
(* A board's version is the number of its changes.  Loads that are alike   *)
(* are one, messages that wait are one, and a browser's other state (the   *)
(* lists, filters, optimistic moves) is left out.                          *)
(***************************************************************************)
EXTENDS Naturals, FiniteSets

CONSTANTS
  WebBoards,
  NoBoard,
  MaxVersion,               \* bound: changes of each board
  MaxLoads,                 \* bound: loads under way
  MaxDeleted                \* bound: boards deleted

ASSUME LiveAssumption == NoBoard \notin WebBoards /\ {MaxVersion, MaxLoads, MaxDeleted} \subseteq Nat

VARIABLES
  version,      \* of each board on the server
  onServer,     \* boards that exist
  deleted,      \* boards that were deleted
  boardId,      \* the board that is open
  shown,        \* the board on screen
  loads,        \* loads under way
  deleting,     \* deleted boards whose deletion here waits for the list of boards
  feed,         \* the socket, or the timer that will reconnect it
  inbox,        \* a message waits on it
  connected,
  seen,         \* versions of the open board shown since it was opened
  failed        \* a read of it failed since, and the tab says so

liveVars == <<version, onServer, deleted, boardId, shown, loads, deleting, feed, inbox,
              connected, seen, failed>>
serverVars == <<version, onServer, deleted>>
feedVars == <<feed, inbox, connected>>

(* A load reads, is answered with a version or fails.  One that opens a    *)
(* board or retries goes on to read lists, and then may connect the feed.  *)
Load == [board : WebBoards, phase : {"reading", "answered", "failed", "listing"},
         got : 0 .. MaxVersion, for : {"refresh", "open", "retry"}]

(* A feed is "silent" once it delivers nothing, "mute" if it never did.    *)
FeedStatus == {"none", "connecting", "opened", "live", "silent", "mute", "closed"}

LiveTypeOK ==
  /\ version \in [WebBoards -> 0 .. MaxVersion]
  /\ onServer \subseteq WebBoards
  /\ boardId \in WebBoards \cup {NoBoard}
  /\ shown \in WebBoards \cup {NoBoard}
  /\ loads \subseteq Load /\ Cardinality(loads) <= MaxLoads
  /\ deleted \subseteq WebBoards \ onServer /\ deleting \subseteq deleted
  /\ feed \in [board : WebBoards \cup {NoBoard}, status : FeedStatus]
  /\ inbox \in BOOLEAN /\ connected \in BOOLEAN
  /\ seen \subseteq 0 .. MaxVersion /\ failed \in BOOLEAN
  /\ inbox => feed.status \in {"opened", "live"}

LiveInit ==
  /\ version = [b \in WebBoards |-> 0] /\ onServer \in SUBSET WebBoards \ {{}}
  /\ deleted = {}
  /\ boardId = NoBoard /\ shown = NoBoard
  /\ loads = {} /\ deleting = {}
  /\ feed = [board |-> NoBoard, status |-> "none"] /\ inbox = FALSE
  /\ connected = FALSE /\ seen = {} /\ failed = FALSE

-----------------------------------------------------------------------------
(* Loads.                                                                  *)

NewLoad(b, for) == [board |-> b, phase |-> "reading", got |-> 0, for |-> for]
Start(load) == loads' = loads \cup {load} /\ Cardinality(loads') <= MaxLoads

(* After every save, on retry, on every message.                           *)
Refresh == IF boardId = NoBoard THEN UNCHANGED loads ELSE Start(NewLoad(boardId, "refresh"))

OpenBoard(b) ==
  /\ Start(NewLoad(b, "open"))
  /\ boardId' = b
  /\ IF b = boardId THEN UNCHANGED <<connected, seen, failed>>
     ELSE connected' = FALSE /\ seen' = {} /\ failed' = FALSE

ChooseBoard(b) ==
  /\ b # boardId /\ b \in onServer
  /\ OpenBoard(b)
  /\ UNCHANGED <<serverVars, shown, deleting, feed, inbox>>

SaveAndRefresh ==
  /\ boardId # NoBoard
  /\ Refresh
  /\ failed' = FALSE
  /\ UNCHANGED <<serverVars, boardId, shown, deleting, feedVars, seen>>

(* The server answers with the board as it is, or the read fails.          *)
Handled(load) ==
  /\ load.phase = "reading"
  /\ \/ /\ load.board \in onServer
        /\ loads' = (loads \ {load}) \cup
             {[load EXCEPT !.phase = "answered", !.got = version[load.board]]}
     \/ loads' = (loads \ {load}) \cup {[load EXCEPT !.phase = "failed"]}
  /\ UNCHANGED <<serverVars, boardId, shown, deleting, feedVars, seen, failed>>

(* An opening or a retry goes on whatever became of its read.              *)
LoadEnds(load) ==
  loads' = (loads \ {load}) \cup
    (IF load.for = "refresh" THEN {} ELSE {[load EXCEPT !.phase = "listing", !.got = 0]})

(* Bug: the answer is shown whatever board is open by now.                 *)
StillOpen_bug(load) == TRUE

StillOpen(load) == load.board = boardId

Arrived(load) ==
  /\ load.phase \in {"answered", "failed"}
  /\ LoadEnds(load)
  /\ IF ~StillOpen(load) THEN UNCHANGED <<shown, seen, failed>>
     ELSE IF load.phase = "failed"
     THEN failed' = TRUE /\ UNCHANGED <<shown, seen>>
     ELSE /\ shown' = load.board
          /\ seen' = seen \cup {load.got} /\ UNCHANGED failed
  /\ UNCHANGED <<serverVars, boardId, deleting, feedVars>>

-----------------------------------------------------------------------------
(* The feed.  A socket or a timer that was replaced is not heard of again. *)

Connect(b) == feed' = [board |-> b, status |-> "connecting"] /\ inbox' = FALSE

(* The end of an opening, after the lists: its own board, whatever is open *)
(* by now.  A retry connects the open board, unless it is connected.       *)
LoadConnects(load) ==
  /\ load.phase = "listing"
  /\ loads' = loads \ {load}
  /\ IF load.for = "open" THEN Connect(load.board)
     ELSE IF boardId = NoBoard \/ connected THEN UNCHANGED <<feed, inbox>>
     ELSE Connect(boardId)
  /\ UNCHANGED <<serverVars, boardId, shown, deleting, connected, seen, failed>>

(* Bug: the server says nothing on its own.                                *)
Greeting_bug == FALSE

(* The server sends a snapshot to every socket it accepts.                 *)
Greeting == TRUE

FeedOpens ==
  /\ feed.status = "connecting" /\ feed.board \in onServer
  /\ feed' = [feed EXCEPT !.status = "opened"]
  /\ inbox' = Greeting
  /\ connected' = TRUE
  /\ UNCHANGED <<serverVars, boardId, shown, loads, deleting, seen, failed>>

(* A message of the feed refreshes the board that is open.                 *)
FeedMessage ==
  /\ inbox
  /\ inbox' = FALSE
  /\ feed' = [feed EXCEPT !.status = "live"]
  /\ Refresh
  /\ UNCHANGED <<serverVars, boardId, shown, deleting, connected, seen, failed>>

(* The socket closes, or could not be opened: a timer will reconnect it.   *)
FeedCloses ==
  /\ feed.status \in FeedStatus \ {"none", "closed"}
  /\ feed' = [feed EXCEPT !.status = "closed"]
  /\ inbox' = FALSE /\ connected' = FALSE
  /\ UNCHANGED <<serverVars, boardId, shown, loads, deleting, seen, failed>>

Reconnect ==
  /\ feed.status = "closed"
  /\ Refresh
  /\ Connect(feed.board)
  /\ UNCHANGED <<serverVars, boardId, shown, deleting, connected, seen, failed>>

(* The socket stays open and carries nothing any more.                     *)
FeedGoesDead ==
  /\ feed.status \in {"opened", "live"}
  /\ feed' = [feed EXCEPT !.status = IF @ = "live" THEN "silent" ELSE "mute"]
  /\ inbox' = FALSE
  /\ UNCHANGED <<serverVars, boardId, shown, loads, deleting, connected, seen, failed>>

(* A feed that once spoke was silent for too long while cards are worked.  *)
FeedStalls ==
  /\ feed.status \in {"live", "silent"}
  /\ connected' = FALSE
  /\ Connect(feed.board)
  /\ UNCHANGED <<serverVars, boardId, shown, loads, deleting, seen, failed>>

(* Try again, and the browser coming online.                               *)
Retry ==
  /\ boardId # NoBoard
  /\ Start(NewLoad(boardId, "retry"))
  /\ failed' = FALSE
  /\ UNCHANGED <<serverVars, boardId, shown, deleting, feedVars, seen>>

-----------------------------------------------------------------------------
(* Others change the board; somebody deletes one here.                     *)

ServerChange(b) ==
  /\ b \in onServer /\ version[b] < MaxVersion
  /\ version' = [version EXCEPT ![b] = @ + 1]
  /\ inbox' = (inbox \/ (feed.board = b /\ feed.status \in {"opened", "live"}))
  /\ UNCHANGED <<onServer, deleted, boardId, shown, loads, deleting, feed, connected, seen, failed>>

DeleteBoard(b) ==
  /\ b \in onServer /\ Cardinality(deleted) < MaxDeleted
  /\ onServer' = onServer \ {b} /\ deleted' = deleted \cup {b}
  /\ deleting' = deleting \cup {b}
  /\ UNCHANGED <<version, boardId, shown, loads, feedVars, seen, failed>>

(* The list of boards is read again, or the last list is kept.  The tab    *)
(* goes to another board; with none left it closes the socket, whose close *)
(* event is heard and starts the timer.                                    *)
BoardDeleted(b) ==
  /\ b \in deleting
  /\ deleting' = deleting \ {b}
  /\ \/ /\ b # boardId
        /\ UNCHANGED <<boardId, shown, loads, feedVars, seen, failed>>
     \/ /\ b = boardId
        /\ \E next \in onServer \cup {b} : OpenBoard(next)
        /\ UNCHANGED <<shown, feed, inbox>>
     \/ /\ b = boardId /\ onServer = {}
        /\ boardId' = NoBoard /\ shown' = NoBoard /\ seen' = {} /\ failed' = FALSE
        /\ feed' = [feed EXCEPT !.status = IF @ = "none" THEN @ ELSE "closed"]
        /\ inbox' = FALSE /\ connected' = FALSE
        /\ UNCHANGED loads
  /\ UNCHANGED serverVars

LiveNext ==
  \/ \E b \in WebBoards : ChooseBoard(b) \/ ServerChange(b) \/ DeleteBoard(b) \/ BoardDeleted(b)
  \/ \E load \in loads : Handled(load) \/ Arrived(load) \/ LoadConnects(load)
  \/ SaveAndRefresh \/ Retry
  \/ FeedOpens \/ FeedMessage \/ FeedCloses \/ Reconnect \/ FeedGoesDead \/ FeedStalls

LiveSpec == LiveInit /\ [][LiveNext]_liveVars

-----------------------------------------------------------------------------
(* Once the open board was read, what is on screen is that board, whatever *)
(* answers of other boards, openings and reconnections are still to come.  *)
ShowsOpenBoard == seen # {} => shown = boardId

(* No change of the open board is missed while its feed carries anything:  *)
(* it has been shown, or something is on the way that will show it or say  *)
(* that the read failed.  A change between a snapshot and the opening of   *)
(* the feed counts too.                                                    *)
OnTheWay ==
  \/ inbox \/ failed
  \/ \E load \in loads : load.board = boardId /\ load.phase # "listing"
Informed ==
  boardId \in onServer /\ feed.board = boardId /\ feed.status \in {"opened", "live"}
    => version[boardId] \in seen \/ OnTheWay

(* "A reconnect scheduled for the previous board ... returns rather than   *)
(* opening a socket onto a board nobody is looking at" (app.svelte.ts):    *)
(* once nothing is under way, the feed is that of the open board.          *)
FeedFollowsBoard ==
  boardId # NoBoard /\ loads = {} /\ feed.status # "none" => feed.board = boardId
=============================================================================
