------------------------------- MODULE Wakeup -------------------------------
(***************************************************************************)
(* The one alarm of a board's Durable Object (apps/api/src/board/claims.ts *)
(* scheduleReclaim, board-do.ts alarm).  It serves three jobs: the lease   *)
(* deadlines of working runs, the retries of push deliveries and the run   *)
(* reports that are due.  Whoever arms it replaces its time, so arming it  *)
(* for one job must never lose another.                                    *)
(*                                                                         *)
(* The platform clears the alarm when it calls the handler, and calls it   *)
(* again when the handler fails, unless a new alarm was set meanwhile.     *)
(* What becomes of a delivery or a report that is sent is left open here:  *)
(* PushQueue and RunReports say it.  Reports are taken to be sent at all   *)
(* (reportingEnabled).                                                     *)
(***************************************************************************)
EXTENDS Naturals

CONSTANTS
  WakeRuns, WakeDeliveries,
  HEARTBEAT_TIMEOUT_MS,
  PUSH_DRAIN_BASE_MS,
  WAKE_ATTEMPTS,            \* MAX_PUSH_ATTEMPTS
  MaxWakeTime,              \* bound: readings of the clock
  MaxReportDelay            \* bound: how far a drain puts a report off

ASSUME WakeAssumption ==
  /\ {HEARTBEAT_TIMEOUT_MS, PUSH_DRAIN_BASE_MS, WAKE_ATTEMPTS} \subseteq Nat \ {0}
  /\ {MaxWakeTime, MaxReportDelay} \subseteq Nat

VARIABLES
  nowMs,
  working,      \* runs that hold a lease
  heartbeatAt,  \* last_heartbeat_ms of each run
  queued,       \* deliveries in the table
  attempts,     \* of each; WAKE_ATTEMPTS once it is sent or given up
  reportDue,    \* the earliest next_attempt_at of the outbox, if any
  alarm,        \* when it rings, if it is set
  handler,      \* "idle", the part of alarm() under way, or "failed"
  armedAt,      \* when the alarm was last set
  unarmed       \* jobs that came up since, without setting it

wakeVars == <<nowMs, working, heartbeatAt, queued, attempts, reportDue, alarm, handler,
              armedAt, unarmed>>

AtMostOne(S) == \A s, t \in S : s = t

WakeTypeOK ==
  /\ nowMs \in Nat
  /\ working \subseteq WakeRuns
  /\ heartbeatAt \in [WakeRuns -> Nat]
  /\ queued \subseteq WakeDeliveries
  /\ attempts \in [WakeDeliveries -> 0 .. WAKE_ATTEMPTS]
  /\ reportDue \subseteq Nat /\ AtMostOne(reportDue)
  /\ alarm \subseteq Nat /\ AtMostOne(alarm)
  /\ handler \in {"idle", "pushes", "reports", "failed"}
  /\ armedAt \in Nat
  /\ unarmed \subseteq WakeDeliveries \cup {"report"}

WakeInit ==
  /\ nowMs = 0
  /\ working = {} /\ heartbeatAt = [r \in WakeRuns |-> 0]
  /\ queued = {} /\ attempts = [d \in WakeDeliveries |-> 0]
  /\ reportDue = {}
  /\ alarm = {} /\ handler = "idle" /\ armedAt = 0 /\ unarmed = {}

-----------------------------------------------------------------------------
(* When the alarm has to ring, for the rows as they will be.               *)

Waiting == {d \in queued : attempts[d] < WAKE_ATTEMPTS}

Least(S) == CHOOSE s \in S : \A t \in S : s <= t

Backoff(n) == PUSH_DRAIN_BASE_MS * 2 ^ n

(* Of powers of two, for the prover that knows none: the more attempts,    *)
(* the later.                                                              *)
ASSUME BackoffAssumption ==
  \A n \in 0 .. WAKE_ATTEMPTS : /\ Backoff(n) \in Nat
                                /\ \A m \in 0 .. n : Backoff(m) <= Backoff(n)

Deadlines == {heartbeatAt[r] + HEARTBEAT_TIMEOUT_MS : r \in working}

(* Pushes back off from the least-tried row.                               *)
DrainAt == IF Waiting = {} THEN {}
           ELSE {nowMs + Backoff(Least({attempts[d] : d \in Waiting}))}
ReportAt == {IF t > nowMs THEN t ELSE nowMs : t \in reportDue}

Jobs == Deadlines \cup DrainAt \cup ReportAt

(* Bugs: a queued push goes before a lease; each job asks for an alarm of  *)
(* its own.                                                                *)
PushesFirst_bug == IF DrainAt # {} THEN DrainAt
                   ELSE IF Jobs = {} THEN {} ELSE {Least(Jobs)}
OneEach_bug == Jobs

(* The earliest job; none, and the alarm is deleted.                       *)
NextAlarm == IF Jobs = {} THEN {} ELSE {Least(Jobs)}

(* scheduleReclaim, after the rows were written.                           *)
Arm == alarm' = NextAlarm' /\ armedAt' = nowMs /\ unarmed' = {}

(* Rows were written and nobody arms the alarm for them.                   *)
Leave(jobs) == unarmed' = unarmed \cup jobs /\ UNCHANGED <<alarm, armedAt>>

-----------------------------------------------------------------------------
(* Verbs of agents and people.                                             *)

(* The report of a run is due at once; that of another run may have been   *)
(* due before (reportRun).                                                 *)
ReportNow == \E t \in {nowMs, Least(reportDue \cup {nowMs})} : reportDue' = {t}

(* A change is pushed to those who subscribed to it, if anyone did.        *)
Pushed == queued' \in {queued \cup D : D \in SUBSET WakeDeliveries}

WakeClaim(r) ==
  /\ r \notin working
  /\ working' = working \cup {r}
  /\ heartbeatAt' = [heartbeatAt EXCEPT ![r] = nowMs]
  /\ ReportNow
  /\ UNCHANGED <<nowMs, queued, attempts, handler>>
  /\ Arm

WakeHeartbeat(r) ==
  /\ r \in working
  /\ heartbeatAt' = [heartbeatAt EXCEPT ![r] = nowMs]
  /\ UNCHANGED <<nowMs, working, queued, attempts, reportDue, handler>>
  /\ Arm

(* A question is a sign of life, and the run waits from here on.           *)
WakeAsk(r) ==
  /\ r \in working
  /\ heartbeatAt' = [heartbeatAt EXCEPT ![r] = nowMs]
  /\ ReportNow /\ Pushed
  /\ UNCHANGED <<nowMs, working, attempts, handler>>
  /\ Arm

(* A run ends with its verb.                                               *)
WakeEnd(r) ==
  /\ r \in working
  /\ working' = working \ {r}
  /\ ReportNow /\ Pushed
  /\ UNCHANGED <<nowMs, heartbeatAt, attempts, handler>>
  /\ Arm

(* An answer, a decision, a move, a resumption or a backfill: runs that    *)
(* waited are reported, and none of them ends.                             *)
WakeChange ==
  /\ ReportNow \/ reportDue' = reportDue
  /\ Pushed
  /\ UNCHANGED <<nowMs, working, heartbeatAt, attempts, handler>>
  /\ Arm

(* A deleted card takes its runs along, never their reports; a parent that *)
(* it held back may go on and be reported.                                 *)
WakeDelete ==
  /\ \E R \in SUBSET working \ {{}} : working' = working \ R
  /\ ReportNow \/ reportDue' = reportDue
  /\ Pushed
  /\ UNCHANGED <<nowMs, heartbeatAt, attempts, handler>>
  /\ Arm

(* A change is pushed: a recorded event arms the alarm for it, and work    *)
(* that became available, a digest or a question does not.                 *)
WakePush(d) ==
  /\ d \notin queued
  /\ queued' = queued \cup {d}
  /\ UNCHANGED <<nowMs, working, heartbeatAt, attempts, reportDue, handler>>
  /\ Arm \/ Leave({d})

(* Archiving a card reports the runs that waited on a person and lets them *)
(* work on.  Nobody arms the alarm, unless the change of the card has a    *)
(* subscriber.                                                             *)
WakeArchive ==
  /\ ReportNow
  /\ UNCHANGED <<nowMs, working, heartbeatAt, attempts, handler>>
  /\ \/ queued' = queued /\ Leave({"report"})
     \/ Pushed /\ queued' # queued /\ Arm

-----------------------------------------------------------------------------
(* Drains, which never arm the alarm themselves.                           *)

(* A drain writes what became of a delivery, from attempts it read before. *)
(* A stale write makes a settled delivery due again, or due sooner.        *)
Sent(d) ==
  \E n \in 1 .. WAKE_ATTEMPTS :
    /\ attempts' = [attempts EXCEPT ![d] = n]
    /\ Leave(IF n < attempts[d] THEN {d} ELSE {})

(* The cron job drains, whatever the alarm does.                           *)
CronPushes(d) ==
  /\ d \in queued
  /\ Sent(d)
  /\ UNCHANGED <<nowMs, working, heartbeatAt, queued, reportDue, handler>>

(* A drain of the outbox removes rows that were due or puts them off; what *)
(* is left is due then, or already.                                        *)
OutboxDrained ==
  \E t \in reportDue :
    /\ t <= nowMs
    /\ reportDue' \in {{}} \cup {{s} : s \in t .. nowMs + MaxReportDelay}

CronReports ==
  /\ OutboxDrained
  /\ Leave({})
  /\ UNCHANGED <<nowMs, working, heartbeatAt, queued, attempts, handler>>

-----------------------------------------------------------------------------
(* alarm().                                                                *)

Lapsed == {r \in working : heartbeatAt[r] + HEARTBEAT_TIMEOUT_MS <= nowMs}

(* The platform clears the alarm and calls the handler, which first ends   *)
(* the runs that lapsed, reports them and offers their cards again.        *)
Ring ==
  /\ \/ handler = "idle" /\ \E t \in alarm : t <= nowMs
     \/ handler = "failed"
  /\ alarm' = {}
  /\ handler' = "pushes"
  /\ working' = working \ Lapsed
  /\ IF Lapsed = {} THEN UNCHANGED <<reportDue, queued>> ELSE ReportNow /\ Pushed
  /\ UNCHANGED <<nowMs, heartbeatAt, attempts, armedAt, unarmed>>

HandlerPushes(d) ==
  /\ handler = "pushes"
  /\ d \in Waiting
  /\ Sent(d)
  /\ UNCHANGED <<nowMs, working, heartbeatAt, queued, reportDue, handler>>

HandlerPushed ==
  /\ handler = "pushes"
  /\ handler' = "reports"
  /\ UNCHANGED <<nowMs, working, heartbeatAt, queued, attempts, reportDue, alarm,
                 armedAt, unarmed>>

(* The outbox was drained, or its drain threw, and the alarm is armed.     *)
HandlerEnds ==
  /\ handler = "reports"
  /\ handler' = "idle"
  /\ OutboxDrained \/ reportDue' = reportDue
  /\ UNCHANGED <<nowMs, working, heartbeatAt, queued, attempts>>
  /\ Arm

(* The handler throws or the object goes away under it.                    *)
HandlerFails ==
  /\ handler \in {"pushes", "reports"}
  /\ handler' = IF alarm = {} THEN "failed" ELSE "idle"
  /\ UNCHANGED <<nowMs, working, heartbeatAt, queued, attempts, reportDue, alarm,
                 armedAt, unarmed>>

WakeTick ==
  /\ nowMs < MaxWakeTime
  /\ nowMs' = nowMs + 1
  /\ UNCHANGED <<working, heartbeatAt, queued, attempts, reportDue, alarm, handler,
                 armedAt, unarmed>>

WakeNext ==
  \/ \E r \in WakeRuns : WakeClaim(r) \/ WakeHeartbeat(r) \/ WakeAsk(r) \/ WakeEnd(r)
  \/ WakeChange \/ WakeDelete \/ WakeArchive
  \/ \E d \in WakeDeliveries : WakePush(d) \/ CronPushes(d) \/ HandlerPushes(d)
  \/ CronReports \/ Ring \/ HandlerPushed \/ HandlerEnds \/ HandlerFails
  \/ WakeTick

WakeSpec == WakeInit /\ [][WakeNext]_wakeVars

-----------------------------------------------------------------------------
RingsBy(t) == handler # "idle" \/ \E at \in alarm : at <= t

(* scheduleReclaim: "the earlier deadline has to win or the later job       *)
(* silently cancels it".  Whatever was scheduled on the alarm since, it    *)
(* comes no later than a lease runs out; and for a delivery still to be    *)
(* tried and a report still to be sent it comes no later than their        *)
(* backoff from when it was last set, unless they came up since.           *)
KeepsRinging ==
  /\ \A r \in working : RingsBy(heartbeatAt[r] + HEARTBEAT_TIMEOUT_MS)
  /\ \A d \in Waiting \ unarmed : RingsBy(armedAt + Backoff(attempts[d]))
  /\ "report" \notin unarmed =>
       \A t \in reportDue : RingsBy(IF t > armedAt THEN t ELSE armedAt)
=============================================================================
