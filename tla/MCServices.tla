----------------------------- MODULE MCServices -----------------------------
(***************************************************************************)
(* The components beside the board's pipeline, one instance of each for    *)
(* TLC.  They share no state that their modules keep, so a behaviour runs  *)
(* one of them, its part, and every other one rests in its initial state:  *)
(* together they have as many states as the sum of them.                   *)
(***************************************************************************)
EXTENDS PushQueue, Schedules, Recurrence, Wakeup, ApprovalSubjects, LiveBoard,
        Webhooks, Decisions, Credentials, RefreshTokens, Accounts, Search

(* Deliveries 1 and 2 are of one subscription, 3 of another.               *)
SubscriptionOf == [d \in Deliveries |-> IF d = 3 THEN "b" ELSE "a"]

AroundUtc == -2 .. 2

(* Boards are interchangeable: which one there is at first is all one.     *)
OneBoard == {CHOOSE b \in WebBoards : TRUE}

(* Up to four links between distinct cards, of two ordering kinds and one  *)
(* other.  Cards are interchangeable: the candidate starts at one of them. *)
FewLinks ==
  LET rows == {l \in LinkRow : l.from # l.to /\ l.kind # "supersedes"}
  IN  {{}} \cup {{a, b, c, d} : a, b, c, d \in rows}

FromOneCard == {l \in LinkRow : l.from = CHOOSE c \in SearchCards : TRUE}

VARIABLE part

Parts == {"push", "schedule", "recurrence", "wakeup", "approval", "live",
          "hooks", "decisions", "credentials", "refresh", "accounts", "search"}

ServicesInit ==
  /\ part \in Parts
  /\ PushInit /\ SchedInit /\ RecurrenceInit /\ WakeInit /\ ApsInit /\ LiveInit
  /\ HookInit /\ DecInit /\ CredInit /\ RefreshInit /\ AccInit /\ SearchInit
  /\ onServer \in IF part = "live" THEN {WebBoards, OneBoard} ELSE {WebBoards}

(* Only the part p moves, and v are its variables.                         *)
Rests(p, v) == part # p => UNCHANGED v

ServicesNext ==
  /\ UNCHANGED part
  /\ Rests("push", pushVars)
  /\ Rests("schedule", schedVars)
  /\ Rests("recurrence", asked)
  /\ Rests("wakeup", wakeVars)
  /\ Rests("approval", apsVars)
  /\ Rests("live", liveVars)
  /\ Rests("hooks", hookVars)
  /\ Rests("decisions", decVars)
  /\ Rests("credentials", credVars)
  /\ Rests("refresh", refreshVars)
  /\ Rests("accounts", accVars)
  /\ Rests("search", searchVars)
  /\ \/ part = "push" /\ PushNext
     \/ part = "schedule" /\ SchedNext
     \/ part = "recurrence" /\ RecurrenceNext
     \/ part = "wakeup" /\ WakeNext
     \/ part = "approval" /\ ApsNext
     \/ part = "live" /\ LiveNext
     \/ part = "hooks" /\ HookNext
     \/ part = "decisions" /\ DecNext
     \/ part = "credentials" /\ CredNext
     \/ part = "refresh" /\ RefreshNext
     \/ part = "accounts" /\ AccNext
     \/ part = "search" /\ SearchNext

servicesVars ==
  <<part, pushVars, schedVars, asked, wakeVars, apsVars, liveVars,
    hookVars, decVars, credVars, refreshVars, accVars, searchVars>>

ServicesSpec == ServicesInit /\ [][ServicesNext]_servicesVars

(* The part that moves is in its type; the others rest where theirs begins. *)
TypesOK ==
  /\ part = "push" => PushTypeOK
  /\ part = "schedule" => SchedTypeOK
  /\ part = "wakeup" => WakeTypeOK
  /\ part = "approval" => ApsTypeOK
  /\ part = "live" => LiveTypeOK
  /\ part = "hooks" => HookTypeOK
  /\ part = "decisions" => DecTypeOK
  /\ part = "credentials" => CredTypeOK
  /\ part = "refresh" => RefreshTypeOK
  /\ part = "accounts" => AccTypeOK

(* Runs are alike to the alarm, and nothing reads the heartbeat of one     *)
(* that ended: what counts is how many work with which last heartbeat.     *)
WakeSeen ==
  <<nowMs, [t \in 0 .. nowMs |-> Cardinality({r \in working : heartbeatAt[r] = t})],
    queued, attempts, reportDue, alarm, handler, armedAt, unarmed>>

(* Boards are alike to a browser.  When there are two, and one is open,    *)
(* what counts is which of a state is the open board's.                    *)
LiveSeen ==
  LET open(b) == IF b = NoBoard THEN "none" ELSE IF b = boardId THEN "open" ELSE "other"
      names(S) == {open(b) : b \in S}
  IN  IF boardId = NoBoard \/ Cardinality(WebBoards) # 2 THEN <<liveVars>>
      ELSE <<{<<open(b), version[b]>> : b \in WebBoards}, names(onServer),
             names(deleted), names(deleting), open(shown),
             {[load EXCEPT !.board = open(@)] : load \in loads},
             open(feed.board), feed.status, inbox, connected, seen, failed>>

(* What tells two states apart: the variables of the part, up to names that *)
(* are alike.  Those of the others never change.                           *)
PartView ==
  <<part,
    CASE part = "push" -> pushVars
      [] part = "schedule" -> schedVars
      [] part = "recurrence" -> asked
      [] part = "wakeup" -> WakeSeen
      [] part = "approval" -> apsVars
      [] part = "live" -> LiveSeen
      [] part = "hooks" -> hookVars
      [] part = "decisions" -> decVars
      [] part = "credentials" -> credVars
      [] part = "refresh" -> refreshVars
      [] part = "accounts" -> accVars
      [] part = "search" -> searchVars>>
=============================================================================
