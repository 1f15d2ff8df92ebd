------------------------------ MODULE Schedules ------------------------------
(***************************************************************************)
(* A schedule of a board and the cards it creates                          *)
(* (apps/api/src/board/schedules.ts, recurrence.ts).  Schedules do not     *)
(* look at one another, so one is enough.  It is fired by a sweep of the   *)
(* cron job, which reads the clock in the Worker: by the time the board    *)
(* handles the sweep that reading may be old.                              *)
(*                                                                         *)
(* A rule is an interval of STEP, added to an instant, or a wall clock     *)
(* that strikes at every multiple of DAY (how a time zone maps a wall      *)
(* clock to instants is in Recurrence).                                    *)
(***************************************************************************)
EXTENDS Naturals, FiniteSets

CONSTANTS
  STEP, DAY,
  MaxTime,                  \* bound: readings of the clock
  MaxCards,                 \* bound: cards the schedule creates
  MaxFaults                 \* bound: firings that fail or are cut short

ASSUME ScheduleAssumption ==
  STEP \in Nat \ {0} /\ DAY \in Nat \ {0} /\ {MaxTime, MaxCards, MaxFaults} \subseteq Nat

VARIABLES
  schedNow,
  schedule,     \* the row; exists tells whether it was created, and not deleted
  instances,    \* the cards created so far, in order: are they open?
  faults,
  anchor,       \* the first instant of the rule since it was last set
  skipped,      \* an occurrence was skipped since then
  lastFired,    \* the sweep's clock at the last firing that completed
  alone         \* cards of skip firings, not reopened, no allow firing since

schedVars == <<schedNow, schedule, instances, faults, anchor, skipped, lastFired, alone>>

Rules == {"interval", "clock"}
Overlaps == {"skip", "allow"}
Cards == 1 .. MaxCards
Schedule == [exists : BOOLEAN, enabled : BOOLEAN, rule : Rules, overlap : Overlaps,
             next_fire_at : Nat, last_card_id : 0 .. MaxCards]

SchedTypeOK ==
  /\ schedNow \in 0 .. MaxTime
  /\ schedule \in Schedule
  /\ instances \in [Cards -> {"none", "open", "closed"}]
  /\ faults \in 0 .. MaxFaults
  /\ anchor \in Nat
  /\ skipped \in BOOLEAN
  /\ lastFired \in 0 .. MaxTime
  /\ alone \subseteq Cards

(* The first scheduled instant is at least 1: 0 is "never fired".          *)
SchedInit ==
  /\ schedNow = 0
  /\ schedule = [exists |-> FALSE, enabled |-> FALSE, rule |-> "interval",
                 overlap |-> "skip", next_fire_at |-> 0, last_card_id |-> 0]
  /\ instances = [c \in Cards |-> "none"]
  /\ faults = 0 /\ anchor = 0 /\ skipped = FALSE /\ lastFired = 0 /\ alone = {}

-----------------------------------------------------------------------------
(* Where a rule falls next.                                                *)

ClockFireAt(after) == (after \div DAY + 1) * DAY

NextFireAt(rule, after) ==
  IF rule = "interval" THEN after + STEP ELSE ClockFireAt(after)

(* Bug: rounded to the step that is reached, not past it.                  *)
AdvanceFireTime_bug(rule, previous, now) ==
  IF rule = "clock" THEN ClockFireAt(now)
  ELSE IF previous <= now THEN previous + ((now - previous) \div STEP) * STEP
  ELSE previous

(* Bug: an interval counted from the sweep.                                *)
Drifting_bug(rule, previous, now) == NextFireAt(rule, now)

(* After a firing an interval keeps its phase and passes now in whole steps. *)
AdvanceFireTime(rule, previous, now) ==
  IF rule = "clock" THEN ClockFireAt(now)
  ELSE IF previous <= now THEN previous + ((now - previous) \div STEP + 1) * STEP
  ELSE previous

-----------------------------------------------------------------------------
(* Editing the schedule.                                                   *)

RuleSet(at) == anchor' = at /\ skipped' = FALSE

CreateSchedule(rule, overlap, enabled) ==
  /\ ~schedule.exists
  /\ LET at == NextFireAt(rule, schedNow) IN
       /\ schedule' = [exists |-> TRUE, enabled |-> enabled, rule |-> rule,
                       overlap |-> overlap, next_fire_at |-> at, last_card_id |-> 0]
       /\ RuleSet(at)
  /\ lastFired' = 0 /\ alone' = {}
  /\ UNCHANGED <<schedNow, instances, faults>>

(* A new rule or zone recomputes next_fire_at; other edits leave it alone, *)
(* so a schedule that is enabled again may be due at once.                 *)
UpdateRule(rule) ==
  /\ schedule.exists
  /\ LET at == NextFireAt(rule, schedNow) IN
       /\ schedule' = [schedule EXCEPT !.rule = rule, !.next_fire_at = at]
       /\ RuleSet(at)
  /\ UNCHANGED <<schedNow, instances, faults, lastFired, alone>>

UpdateSchedule(overlap, enabled) ==
  /\ schedule.exists
  /\ schedule' = [schedule EXCEPT !.overlap = overlap, !.enabled = enabled]
  /\ UNCHANGED <<schedNow, instances, faults, anchor, skipped, lastFired, alone>>

DeleteSchedule ==
  /\ schedule.exists
  /\ schedule' = [schedule EXCEPT !.exists = FALSE]
  /\ UNCHANGED <<schedNow, instances, faults, anchor, skipped, lastFired, alone>>

-----------------------------------------------------------------------------
(* A sweep whose clock read now.                                           *)

DueAt(now) == schedule.exists /\ schedule.enabled /\ schedule.next_fire_at <= now

InstanceOpen == /\ schedule.last_card_id # 0
                /\ instances[schedule.last_card_id] = "open"

Skips == schedule.overlap = "skip" /\ InstanceOpen

Skip(now) ==
  /\ DueAt(now) /\ Skips
  /\ schedule' = [schedule EXCEPT !.next_fire_at = NextFireAt(schedule.rule, now)]
  /\ skipped' = TRUE
  /\ UNCHANGED <<schedNow, instances, faults, anchor, lastFired, alone>>

NewCard(c) == instances[c] = "none" /\ \A d \in Cards : d < c => instances[d] # "none"

(* Bug: the card is not remembered.                                        *)
Fired_bug(now, c) ==
  [schedule EXCEPT !.next_fire_at = AdvanceFireTime(schedule.rule, @, now)]

Fired(now, c) ==
  [schedule EXCEPT !.next_fire_at = AdvanceFireTime(schedule.rule, @, now),
                   !.last_card_id = c]

Fire(now, c) ==
  /\ DueAt(now) /\ ~Skips /\ NewCard(c)
  /\ instances' = [instances EXCEPT ![c] = "open"]
  /\ schedule' = Fired(now, c)
  /\ lastFired' = now
  /\ alone' = IF schedule.overlap = "skip" THEN alone \cup {c} ELSE {}
  /\ UNCHANGED <<schedNow, faults, anchor, skipped>>

(* The card could not be created, or it was and what follows threw or the  *)
(* object went away: next_fire_at stays and the next sweep tries again.    *)
FireCutShort(now) ==
  /\ DueAt(now) /\ ~Skips
  /\ faults < MaxFaults /\ faults' = faults + 1
  /\ \/ UNCHANGED instances
     \/ \E c \in Cards : NewCard(c) /\ instances' = [instances EXCEPT ![c] = "open"]
  /\ UNCHANGED <<schedNow, schedule, anchor, skipped, lastFired, alone>>

-----------------------------------------------------------------------------
(* A card ends, is archived or deleted, or is taken up again.              *)
CloseInstance(c) ==
  /\ instances[c] = "open"
  /\ instances' = [instances EXCEPT ![c] = "closed"]
  /\ UNCHANGED <<schedNow, schedule, faults, anchor, skipped, lastFired, alone>>

ReopenInstance(c) ==
  /\ instances[c] = "closed"
  /\ instances' = [instances EXCEPT ![c] = "open"]
  /\ alone' = alone \ {c}
  /\ UNCHANGED <<schedNow, schedule, faults, anchor, skipped, lastFired>>

SchedTick ==
  /\ schedNow < MaxTime
  /\ schedNow' = schedNow + 1
  /\ UNCHANGED <<schedule, instances, faults, anchor, skipped, lastFired, alone>>

SchedNext ==
  \/ \E rule \in Rules, overlap \in Overlaps, enabled \in BOOLEAN :
       CreateSchedule(rule, overlap, enabled)
  \/ \E rule \in Rules : UpdateRule(rule)
  \/ \E overlap \in Overlaps, enabled \in BOOLEAN : UpdateSchedule(overlap, enabled)
  \/ DeleteSchedule
  \/ \E now \in 1 .. schedNow :
       Skip(now) \/ FireCutShort(now) \/ \E c \in Cards : Fire(now, c)
  \/ \E c \in Cards : CloseInstance(c) \/ ReopenInstance(c)
  \/ SchedTick

SchedSpec == SchedInit /\ [][SchedNext]_schedVars

-----------------------------------------------------------------------------
(* A second sweep of the same instant, or an older one that arrives late,  *)
(* fires nothing again, whatever edits came between: fireDueSchedules is   *)
(* idempotent and missed occurrences collapse into one card.               *)
OncePerTick ==
  [][schedule.last_card_id # schedule'.last_card_id /\ schedule.exists /\ schedule'.exists
       => lastFired' > lastFired]_schedVars

(* An interval keeps the phase it was given, however late its sweeps come, *)
(* as long as no occurrence was skipped (advanceFireTime).                 *)
Phased == /\ schedule.exists /\ schedule.rule = "interval"
          => schedule.next_fire_at % STEP = anchor % STEP
PhaseKept == ~skipped => Phased

(* A schedule that skips while its card is open has one card at a time:    *)
(* two of its cards are open together only when one was taken up again,    *)
(* was left by a firing that was cut short, or came of "allow".            *)
StandsAlone == \A c, d \in alone :
                 instances[c] = "open" /\ instances[d] = "open" => c = d
=============================================================================
