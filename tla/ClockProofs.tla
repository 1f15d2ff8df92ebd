----------------------------- MODULE ClockProofs ------------------------------
(***************************************************************************)
(* Proofs about what a clock drives: schedules, the alarm of the board's   *)
(* object and the wall-clock rules; for any units of time, any numbers of  *)
(* cards, runs and deliveries, and any zones.  Last, the services together *)
(* as one run of TLC has them: each of them behaves as its module says.    *)
(***************************************************************************)
EXTENDS MCServices, ApprovalProofs, IdentityProofs, DeliveryProofs

-----------------------------------------------------------------------------
(* Division.                                                               *)

LEMMA Product == \A d, s \in Nat : d * s \in Nat
BY SMT

LEMMA WholeProduct == \A d, s \in Int : d * s \in Int
BY SMT

LEMMA Distributes == \A a, b, c, s \in Int : (a + b + c) * s = a * s + b * s + c * s
BY SMT

(* Multiples are a factor apart. *)
LEMMA Apart ==
  ASSUME NEW s \in Nat \ {0}, NEW x \in Int, NEW y \in Int, x < y
  PROVE  y * s >= x * s + s
<1>1. PICK d \in Nat : y = x + 1 + d
  <2>1. y - x - 1 \in Nat /\ y = x + 1 + (y - x - 1)
    OBVIOUS
  <2> QED
    BY <2>1
<1>2. y * s = x * s + 1 * s + d * s
  BY <1>1, Distributes
<1>3. d * s \in Nat
  BY Product
<1>4. x * s \in Int /\ 1 * s = s
  BY SMT
<1> QED
  BY <1>2, <1>3, <1>4

(* A number has one quotient and one remainder. *)
LEMMA Quotient ==
  ASSUME NEW s \in Nat \ {0}, NEW p \in Int, NEW q \in Int, NEW r \in 0 .. s - 1,
         NEW t \in 0 .. s - 1, p * s + r = q * s + t
  PROVE  p = q /\ r = t
<1>1. \A x, y \in Int : x < y => y * s >= x * s + s
  BY Apart
<1>2. p * s \in Int /\ q * s \in Int /\ s \in Nat /\ s > 0
  BY SMT
<1>3. ~(p < q)
  <2> SUFFICES ASSUME p < q PROVE FALSE
    OBVIOUS
  <2>1. q * s >= p * s + s
    BY <1>1
  <2> QED
    BY <1>2, <2>1
<1>4. ~(q < p)
  <2> SUFFICES ASSUME q < p PROVE FALSE
    OBVIOUS
  <2>1. p * s >= q * s + s
    BY <1>1
  <2> QED
    BY <1>2, <2>1
<1>5. p = q
  BY <1>3, <1>4
<1> QED
  BY <1>2, <1>5

LEMMA Divided ==
  ASSUME NEW s \in Nat \ {0}, NEW a \in Int
  PROVE  a = (a \div s) * s + (a % s) /\ (a % s) \in 0 .. s - 1 /\ (a \div s) \in Int
BY SMT

LEMMA Remainder ==
  ASSUME NEW s \in Nat \ {0}, NEW a \in Int, NEW q \in Int, NEW r \in 0 .. s - 1,
         a = q * s + r
  PROVE  a % s = r /\ a \div s = q
<1> DEFINE x == a \div s
           y == a % s
<1>1. a = x * s + y /\ x \in Int /\ y \in 0 .. s - 1
  BY Divided
<1> HIDE DEF x, y
<1>2. q * s + r = x * s + y
  BY <1>1
<1>3. q = x /\ r = y
  BY <1>1, <1>2, Quotient, Zenon
<1> QED
  BY <1>3 DEF x, y

(* Whole steps leave the remainder as it is. *)
LEMMA ModShift ==
  ASSUME NEW s \in Nat \ {0}, NEW a \in Int, NEW k \in Int
  PROVE  (a + k * s) % s = a % s
<1> DEFINE d == a \div s
           m == a % s
           b == a + k * s
           q == d + k
<1>1. a = d * s + m /\ m \in 0 .. s - 1 /\ d \in Int
  BY Divided
<1> HIDE DEF d, m
<1>2. q \in Int /\ b \in Int /\ b = q * s + m
  BY <1>1, SMT
<1> HIDE DEF b, q
<1>3. b % s = m
  BY <1>1, <1>2, Remainder, Zenon
<1> QED
  BY <1>3 DEF b, m

(* Of two numbers the lesser has no greater quotient. *)
LEMMA DivGrows ==
  ASSUME NEW s \in Nat \ {0}, NEW a \in Int, NEW b \in Int, a <= b
  PROVE  a \div s <= b \div s
<1> DEFINE p == a \div s
           q == b \div s
<1>1. /\ a = p * s + (a % s) /\ (a % s) \in 0 .. s - 1 /\ p \in Int
      /\ b = q * s + (b % s) /\ (b % s) \in 0 .. s - 1 /\ q \in Int
  BY Divided
<1> HIDE DEF p, q
<1>2. ASSUME q < p PROVE FALSE
  <2>1. p * s >= q * s + s /\ p * s \in Int /\ q * s \in Int
    BY <1>1, <1>2, Apart
  <2> QED
    BY <1>1, <2>1
<1>3. p <= q
  BY <1>1, <1>2
<1> QED
  BY <1>3 DEF p, q


(* The next multiple is later. *)
LEMMA PastIt ==
  ASSUME NEW s \in Nat \ {0}, NEW a \in Nat
  PROVE  (a \div s + 1) * s \in Nat /\ (a \div s + 1) * s > a
OBVIOUS

-----------------------------------------------------------------------------
(* Schedules.  Whatever set next_fire_at last put it past the last firing  *)
(* (FiredBefore), so a sweep that finds the schedule due read its clock    *)
(* after that firing.  Of the cards of skip firings only the last can be   *)
(* open (LastAlone), since the next firing waits until it is not.          *)

FiredBefore == schedule.exists => lastFired < schedule.next_fire_at

LastAlone == \A c \in alone : /\ instances[c] # "none"
                              /\ instances[c] = "open" => c = schedule.last_card_id

SchedInv ==
  /\ SchedTypeOK
  /\ lastFired <= schedNow
  /\ FiredBefore
  /\ LastAlone
  /\ PhaseKept

(* The next instant of a rule is later, and an interval passes the sweep's *)
(* clock without losing its phase.                                         *)
LEMMA FallsLater ==
  ASSUME NEW rule \in Rules, NEW after \in Nat
  PROVE  NextFireAt(rule, after) \in Nat /\ NextFireAt(rule, after) > after
<1>1. ClockFireAt(after) \in Nat /\ ClockFireAt(after) > after
  BY PastIt, ScheduleAssumption DEF ClockFireAt
<1> QED
  BY <1>1, ScheduleAssumption DEF NextFireAt

LEMMA AdvancesPast ==
  ASSUME NEW rule \in Rules, NEW previous \in Nat, NEW now \in Nat, previous <= now
  PROVE  /\ AdvanceFireTime(rule, previous, now) \in Nat
         /\ AdvanceFireTime(rule, previous, now) > now
         /\ rule = "interval" =>
              AdvanceFireTime(rule, previous, now) % STEP = previous % STEP
<1>1. CASE rule = "clock"
  BY <1>1, FallsLater DEF AdvanceFireTime, NextFireAt
<1>2. CASE rule = "interval"
  <2> DEFINE late == now - previous
             k == late \div STEP + 1
  <2>1. late \in Nat /\ STEP \in Nat \ {0} /\ now = previous + late
    BY ScheduleAssumption
  <2>2. AdvanceFireTime(rule, previous, now) = previous + k * STEP
    BY <1>2 DEF AdvanceFireTime
  <2> HIDE DEF late
  <2>3. k * STEP \in Nat /\ k * STEP > late /\ k \in Int
    BY <2>1, PastIt, Divided
  <2> HIDE DEF k
  <2> previous \in Int
    OBVIOUS
  <2>4. (previous + k * STEP) % STEP = previous % STEP
    BY <2>1, <2>3, ModShift, Zenon
  <2>5. previous + k * STEP \in Nat /\ previous + k * STEP > now
    BY <2>1, <2>3
  <2> QED
    BY <2>2, <2>4, <2>5
<1> QED
  BY <1>1, <1>2 DEF Rules

LEMMA SchedBounds == MaxTime \in Nat /\ MaxCards \in Nat /\ MaxFaults \in Nat
BY ScheduleAssumption

LEMMA SchedStarts == SchedInit => SchedInv
<1> SUFFICES ASSUME SchedInit PROVE SchedInv
  OBVIOUS
<1>1. schedule \in Schedule /\ ~schedule.exists
  BY ScheduleAssumption DEF SchedInit, Schedule, Rules, Overlaps
<1>2. instances \in [Cards -> {"none", "open", "closed"}]
  BY DEF SchedInit
<1>3. SchedTypeOK
  <2>1. skipped \in BOOLEAN
    BY Zenon DEF SchedInit
  <2>2. /\ schedNow \in 0 .. MaxTime /\ lastFired \in 0 .. MaxTime
        /\ faults \in 0 .. MaxFaults /\ anchor \in Nat
    BY SchedBounds DEF SchedInit
  <2> QED
    BY <1>1, <1>2, <2>1, <2>2 DEF SchedInit, SchedTypeOK
<1> QED
  BY <1>1, <1>3, ScheduleAssumption
     DEF SchedInit, SchedInv, FiredBefore, LastAlone, PhaseKept, Phased

(* The schedule is created, edited and deleted. *)
LEMMA EditStep ==
  ASSUME SchedInv,
         \/ \E rule \in Rules, overlap \in Overlaps, enabled \in BOOLEAN :
              CreateSchedule(rule, overlap, enabled)
         \/ \E rule \in Rules : UpdateRule(rule)
         \/ \E overlap \in Overlaps, enabled \in BOOLEAN : UpdateSchedule(overlap, enabled)
         \/ DeleteSchedule
  PROVE  SchedInv'
<1> USE DEF SchedInv, SchedTypeOK
<1>1. schedNow \in Nat /\ \A rule \in Rules : /\ NextFireAt(rule, schedNow) \in Nat
                                              /\ NextFireAt(rule, schedNow) > schedNow
  BY FallsLater, ScheduleAssumption
<1>2. ASSUME NEW rule \in Rules, NEW overlap \in Overlaps, NEW enabled \in BOOLEAN,
             CreateSchedule(rule, overlap, enabled)
      PROVE  SchedInv'
  <2> DEFINE at == NextFireAt(rule, schedNow)
             new == [exists |-> TRUE, enabled |-> enabled, rule |-> rule,
                     overlap |-> overlap, next_fire_at |-> at, last_card_id |-> 0]
  <2>1. at \in Nat /\ at > 0
    BY <1>1
  <2>2. /\ schedule' = new /\ anchor' = at /\ skipped' = FALSE
        /\ lastFired' = 0 /\ alone' = {} /\ UNCHANGED <<schedNow, instances, faults>>
    BY <1>2 DEF CreateSchedule, RuleSet
  <2> HIDE DEF at
  <2>3. new \in Schedule /\ new.next_fire_at = at
    BY <2>1, ScheduleAssumption DEF Schedule
  <2> HIDE DEF new
  <2>4. SchedTypeOK'
    <3>1. skipped' \in BOOLEAN
      BY <2>2, Zenon
    <3>2. lastFired' \in 0 .. MaxTime /\ alone' \subseteq Cards
      BY <2>2, SchedBounds
    <3> QED
      BY <2>1, <2>2, <2>3, <3>1, <3>2
  <2>5. (lastFired <= schedNow)' /\ FiredBefore' /\ LastAlone'
    BY <1>1, <2>1, <2>2, <2>3 DEF FiredBefore, LastAlone
  <2>6. PhaseKept'
    BY <2>2, <2>3 DEF PhaseKept, Phased
  <2> QED
    BY <2>4, <2>5, <2>6
<1>3. ASSUME NEW rule \in Rules, UpdateRule(rule)
      PROVE  SchedInv'
  <2> DEFINE at == NextFireAt(rule, schedNow)
  <2>1. at \in Nat /\ at > schedNow
    BY <1>1
  <2>2. /\ schedule' = [schedule EXCEPT !.rule = rule, !.next_fire_at = at]
        /\ anchor' = at /\ UNCHANGED <<schedNow, instances, faults, lastFired, alone>>
        /\ skipped' = FALSE
    BY <1>3 DEF UpdateRule, RuleSet
  <2> HIDE DEF at
  <2>3. /\ schedule' \in Schedule /\ schedule'.next_fire_at = at
        /\ schedule'.last_card_id = schedule.last_card_id
    BY <2>1, <2>2 DEF Schedule
  <2>4. SchedTypeOK'
    BY <2>1, <2>2, <2>3, SchedBounds
  <2>5. (lastFired <= schedNow)' /\ FiredBefore' /\ LastAlone'
    BY <1>1, <2>1, <2>2, <2>3 DEF FiredBefore, LastAlone
  <2>6. PhaseKept'
    BY <2>2, <2>3 DEF PhaseKept, Phased
  <2> QED
    BY <2>4, <2>5, <2>6
<1>4. ASSUME NEW overlap \in Overlaps, NEW enabled \in BOOLEAN, UpdateSchedule(overlap, enabled)
      PROVE  SchedInv'
  BY <1>4 DEF UpdateSchedule, Schedule, FiredBefore, LastAlone, PhaseKept, Phased
<1>5. CASE DeleteSchedule
  BY <1>5 DEF DeleteSchedule, Schedule, FiredBefore, LastAlone, PhaseKept, Phased
<1> QED
  BY <1>2, <1>3, <1>4, <1>5

(* A sweep skips an occurrence, fires, or fails to. *)
LEMMA SweepStep ==
  ASSUME SchedInv, NEW now \in 1 .. schedNow,
         Skip(now) \/ FireCutShort(now) \/ \E c \in Cards : Fire(now, c)
  PROVE  SchedInv'
<1> USE DEF SchedInv, SchedTypeOK
<1>1. /\ now \in Nat /\ now \in 0 .. MaxTime /\ now <= schedNow
      /\ schedule.exists /\ schedule.next_fire_at <= now /\ lastFired < now
      /\ schedule.rule \in Rules /\ schedule.next_fire_at \in Nat
  BY ScheduleAssumption DEF Skip, FireCutShort, Fire, DueAt, FiredBefore, Schedule
<1>2. CASE Skip(now)
  <2>1. /\ NextFireAt(schedule.rule, now) \in Nat
        /\ NextFireAt(schedule.rule, now) > now
    BY <1>1, FallsLater
  <2> QED
    BY <1>1, <1>2, <2>1 DEF Skip, Schedule, FiredBefore, LastAlone, PhaseKept
<1>3. CASE FireCutShort(now)
  <2>1. /\ UNCHANGED <<schedNow, schedule, anchor, skipped, lastFired, alone>>
        /\ faults' \in 0 .. MaxFaults
        /\ instances' \in [Cards -> {"none", "open", "closed"}]
        /\ \A c \in Cards : instances[c] # "none" => instances'[c] = instances[c]
    BY <1>3, ScheduleAssumption DEF FireCutShort, NewCard
  <2> QED
    BY <2>1 DEF FiredBefore, LastAlone, PhaseKept, Phased
<1>4. ASSUME NEW c \in Cards, Fire(now, c)
      PROVE  SchedInv'
  <2> DEFINE at == AdvanceFireTime(schedule.rule, schedule.next_fire_at, now)
  <2>1. /\ at \in Nat /\ at > now
        /\ schedule.rule = "interval" => at % STEP = schedule.next_fire_at % STEP
    BY <1>1, AdvancesPast
  <2>2. schedule' = [schedule EXCEPT !.next_fire_at = at, !.last_card_id = c]
    BY <1>4 DEF Fire, Fired
  <2> HIDE DEF at
  <2>3. /\ instances' = [instances EXCEPT ![c] = "open"] /\ instances[c] = "none"
        /\ lastFired' = now /\ ~Skips
        /\ alone' = IF schedule.overlap = "skip" THEN alone \cup {c} ELSE {}
        /\ UNCHANGED <<schedNow, faults, anchor, skipped>>
    BY <1>4 DEF Fire, NewCard
  <2>4. SchedTypeOK'
    <3>1. schedule' \in Schedule
      <4>1. c \in 0 .. MaxCards
        BY ScheduleAssumption DEF Cards
      <4> QED
        BY <2>1, <2>2, <4>1 DEF Schedule
    <3>2. /\ instances' \in [Cards -> {"none", "open", "closed"}]
          /\ alone' \subseteq Cards
      BY <2>3
    <3> QED
      BY <1>1, <2>3, <3>1, <3>2
  <2>5. (lastFired <= schedNow)' /\ FiredBefore' /\ PhaseKept'
    BY <1>1, <2>1, <2>2, <2>3 DEF Schedule, FiredBefore, PhaseKept, Phased
  <2>6. LastAlone'
    <3>1. CASE schedule.overlap = "skip"
      <4>1. \A d \in alone : instances[d] \notin {"none", "open"}
        BY <2>3, <3>1 DEF Skips, InstanceOpen, LastAlone, Cards
      <4> QED
        BY <2>2, <2>3, <3>1, <4>1 DEF LastAlone, Schedule
    <3>2. CASE schedule.overlap # "skip"
      BY <2>3, <3>2 DEF LastAlone
    <3> QED
      BY <3>1, <3>2
  <2> QED
    BY <2>4, <2>5, <2>6
<1> QED
  BY <1>2, <1>3, <1>4

(* A card ends or is taken up again, and time passes. *)
LEMMA CardStep ==
  ASSUME SchedInv,
         SchedTick \/ \E c \in Cards : CloseInstance(c) \/ ReopenInstance(c)
  PROVE  SchedInv'
<1> USE DEF SchedInv, SchedTypeOK
<1>1. CASE SchedTick
  BY <1>1, ScheduleAssumption DEF SchedTick, FiredBefore, LastAlone, PhaseKept, Phased
<1>2. ASSUME NEW c \in Cards, CloseInstance(c) \/ ReopenInstance(c)
      PROVE  SchedInv'
  BY <1>2 DEF CloseInstance, ReopenInstance, FiredBefore, LastAlone, PhaseKept, Phased
<1> QED
  BY <1>1, <1>2

LEMMA SchedStep == SchedInv /\ [SchedNext]_schedVars => SchedInv'
<1> SUFFICES ASSUME SchedInv, [SchedNext]_schedVars PROVE SchedInv'
  OBVIOUS
<1>1. CASE UNCHANGED schedVars
  BY <1>1 DEF schedVars, SchedInv, SchedTypeOK, FiredBefore, LastAlone, PhaseKept, Phased
<1> QED
  BY <1>1, EditStep, SweepStep, CardStep DEF SchedNext

(* A step that remembers another card is a firing by a later clock. *)
LEMMA FiresLater ==
  ASSUME SchedInv, [SchedNext]_schedVars, schedule.last_card_id # schedule'.last_card_id,
         schedule.exists, schedule'.exists
  PROVE  lastFired' > lastFired
<1>1. schedule \in Schedule /\ ~UNCHANGED schedule
  BY DEF SchedInv, SchedTypeOK
<1>2. PICK now \in 1 .. schedNow, c \in Cards : Fire(now, c)
  BY <1>1 DEF SchedNext, schedVars, CreateSchedule, UpdateRule, UpdateSchedule, DeleteSchedule,
              Skip, FireCutShort, CloseInstance, ReopenInstance, SchedTick, Schedule
<1> QED
  BY <1>2 DEF Fire, DueAt, SchedInv, SchedTypeOK, FiredBefore, Schedule

(* The schedule and its cards stay well formed. *)
THEOREM SchedTypeCorrect == SchedSpec => []SchedTypeOK
<1>1. SchedInv => SchedTypeOK
  BY DEF SchedInv
<1> QED
  BY <1>1, SchedStarts, SchedStep, PTL DEF SchedSpec

(* A sweep that is repeated or late fires nothing again (fireDueSchedules  *)
(* is idempotent), for any step, day and number of cards.                  *)
THEOREM OncePerTickCorrect == SchedSpec => OncePerTick
<1>1. SchedInv /\ [SchedNext]_schedVars =>
        [schedule.last_card_id # schedule'.last_card_id /\ schedule.exists /\ schedule'.exists
           => lastFired' > lastFired]_schedVars
  BY FiresLater
<1> QED
  BY <1>1, SchedStarts, SchedStep, PTL DEF SchedSpec, OncePerTick

(* An interval keeps its phase however late its sweeps come                *)
(* (advanceFireTime), for any interval.                                    *)
THEOREM PhaseCorrect == SchedSpec => []PhaseKept
<1>1. SchedInv => PhaseKept
  BY DEF SchedInv
<1> QED
  BY <1>1, SchedStarts, SchedStep, PTL DEF SchedSpec

(* A schedule that skips while its card is open has one card at a time     *)
(* (the overlap policy of fireDueSchedules).                               *)
THEOREM StandsAloneCorrect == SchedSpec => []StandsAlone
<1>1. SchedInv => StandsAlone
  BY DEF SchedInv, LastAlone, StandsAlone
<1> QED
  BY <1>1, SchedStarts, SchedStep, PTL DEF SchedSpec

-----------------------------------------------------------------------------
(* KeepsRinging.  Where it says that the handler is under way or the alarm *)
(* rings in time, the handler may yet fail after a verb armed the alarm,   *)
(* and then nothing calls it again: an alarm that is set has to be in time *)
(* whatever the handler does (InTime).  The alarm was last set no later    *)
(* than now, so a report that a drain puts off is put off past the alarm.  *)

By(t) == \E at \in alarm : at <= t

InTime ==
  /\ \A r \in working : By(heartbeatAt[r] + HEARTBEAT_TIMEOUT_MS)
  /\ \A d \in Waiting \ unarmed : By(armedAt + Backoff(attempts[d]))
  /\ "report" \notin unarmed =>
       \A t \in reportDue : By(IF t > armedAt THEN t ELSE armedAt)

(* The rows that the alarm is armed for, in their types. *)
JobRows ==
  /\ nowMs \in Nat
  /\ working \subseteq WakeRuns
  /\ heartbeatAt \in [WakeRuns -> Nat]
  /\ queued \subseteq WakeDeliveries
  /\ attempts \in [WakeDeliveries -> 0 .. WAKE_ATTEMPTS]
  /\ reportDue \subseteq Nat /\ AtMostOne(reportDue)

(* What scheduleReclaim arms. *)
NextOK ==
  /\ NextAlarm \subseteq Nat /\ AtMostOne(NextAlarm)
  /\ alarm = NextAlarm /\ armedAt = nowMs => InTime

WakeInv ==
  /\ WakeTypeOK
  /\ armedAt <= nowMs
  /\ handler = "idle" \/ alarm # {} => InTime

(* Every set of times that is not empty has a least one. *)
LEMMA LeastTime ==
  ASSUME NEW T \in SUBSET Nat, T # {}
  PROVE  Least(T) \in T /\ \A k \in T : Least(T) <= k
<1>1. \E m \in T : \A k \in T : m <= k
  BY LeastOf
<1> QED
  BY <1>1 DEF Least

LEMMA WakeBounds ==
  /\ HEARTBEAT_TIMEOUT_MS \in Nat /\ WAKE_ATTEMPTS \in Nat /\ WAKE_ATTEMPTS > 0
  /\ MaxReportDelay \in Nat
BY WakeAssumption

(* The alarm as scheduleReclaim sets it is in time for every row. *)
LEMMA NextInTime == JobRows => NextOK
<1> SUFFICES ASSUME JobRows PROVE NextOK
  OBVIOUS
<1> DEFINE Tried == {attempts[d] : d \in Waiting}
<1>1. \A d \in Waiting : attempts[d] \in 0 .. WAKE_ATTEMPTS /\ attempts[d] \in Nat
  BY WakeBounds DEF Waiting, JobRows
<1>2. Waiting # {} => /\ Least(Tried) \in 0 .. WAKE_ATTEMPTS
                      /\ \A d \in Waiting : Backoff(Least(Tried)) <= Backoff(attempts[d])
  <2> SUFFICES ASSUME Waiting # {}
               PROVE  /\ Least(Tried) \in 0 .. WAKE_ATTEMPTS
                      /\ \A d \in Waiting : Backoff(Least(Tried)) <= Backoff(attempts[d])
    OBVIOUS
  <2>1. Tried \in SUBSET Nat /\ Tried # {}
    BY <1>1
  <2>2. Least(Tried) \in Tried /\ \A k \in Tried : Least(Tried) <= k
    BY <2>1, LeastTime
  <2>3. Least(Tried) \in 0 .. WAKE_ATTEMPTS
    BY <1>1, <2>2
  <2> DEFINE l == Least(Tried)
  <2>4. \A d \in Waiting : l <= attempts[d]
    BY <2>2
  <2>5. l \in 0 .. WAKE_ATTEMPTS
    BY <2>3
  <2> HIDE DEF l
  <2>6. \A d \in Waiting : l \in 0 .. attempts[d]
    BY <1>1, <2>4, <2>5
  <2>7. \A d \in Waiting : Backoff(l) <= Backoff(attempts[d])
    BY <1>1, <2>6, BackoffAssumption
  <2> QED
    BY <2>5, <2>7 DEF l
<1>3. Jobs \in SUBSET Nat
  <2>1. Deadlines \subseteq Nat
    BY WakeBounds DEF Deadlines, JobRows
  <2>2. DrainAt \subseteq Nat
    <3>1. CASE Waiting # {}
      <4>1. Backoff(Least(Tried)) \in Nat /\ nowMs \in Nat
        BY <1>2, <3>1, BackoffAssumption DEF JobRows
      <4>2. DrainAt = {nowMs + Backoff(Least(Tried))}
        BY <3>1 DEF DrainAt
      <4> QED
        BY <4>1, <4>2
    <3> QED
      BY <3>1 DEF DrainAt
  <2>3. ReportAt \subseteq Nat
    BY DEF ReportAt, JobRows
  <2> QED
    BY <2>1, <2>2, <2>3 DEF Jobs
<1>4. Jobs # {} => NextAlarm = {Least(Jobs)} /\ Least(Jobs) \in Jobs
                   /\ \A t \in Jobs : Least(Jobs) <= t
  BY <1>3, LeastTime DEF NextAlarm
<1>5. NextAlarm \subseteq Nat /\ AtMostOne(NextAlarm)
  BY <1>3, <1>4 DEF NextAlarm, AtMostOne
<1>6. ASSUME alarm = NextAlarm, armedAt = nowMs
      PROVE  InTime
  <2>1. \A t \in Jobs : By(t)
    BY <1>4, <1>6 DEF By
  <2>2. \A r \in working : By(heartbeatAt[r] + HEARTBEAT_TIMEOUT_MS)
    BY <2>1 DEF Jobs, Deadlines
  <2>3. ASSUME NEW d \in Waiting
        PROVE  By(armedAt + Backoff(attempts[d]))
    <3>1. nowMs + Backoff(Least(Tried)) \in Jobs
      BY <2>3 DEF Jobs, DrainAt
    <3>2. PICK at \in alarm : at <= nowMs + Backoff(Least(Tried))
      BY <2>1, <3>1 DEF By
    <3>3. /\ Backoff(Least(Tried)) <= Backoff(attempts[d])
          /\ Backoff(Least(Tried)) \in Nat /\ Backoff(attempts[d]) \in Nat
      BY <1>1, <1>2, BackoffAssumption
    <3>4. at \in Nat /\ nowMs \in Nat
      BY <1>5, <1>6, <3>2 DEF JobRows
    <3> QED
      BY <1>6, <3>2, <3>3, <3>4 DEF By
  <2>4. \A t \in reportDue : By(IF t > armedAt THEN t ELSE armedAt)
    BY <1>6, <2>1 DEF Jobs, ReportAt
  <2> QED
    BY <2>2, <2>3, <2>4 DEF InTime
<1> QED
  BY <1>5, <1>6 DEF NextOK

(* Once the alarm is armed every row is in time. *)
LEMMA Armed ==
  ASSUME Arm, JobRows', nowMs' = nowMs, unarmed' = {},
         handler' \in {"idle", "pushes", "reports", "failed"}
  PROVE  WakeInv'
<1>1. JobRows' => NextOK'
  BY NextInTime, PTL
<1>2. NextOK' /\ alarm' = NextAlarm' /\ armedAt' = nowMs' /\ nowMs' \in Nat
  BY <1>1 DEF Arm, JobRows
<1>3. InTime' /\ alarm' \subseteq Nat /\ AtMostOne(alarm')
  BY <1>2 DEF NextOK
<1>4. WakeTypeOK'
  BY <1>2, <1>3 DEF JobRows, WakeTypeOK, AtMostOne
<1> QED
  BY <1>2, <1>3, <1>4 DEF WakeInv

LEMMA WakeStarts == WakeInit => WakeInv
<1> SUFFICES ASSUME WakeInit PROVE WakeInv
  OBVIOUS
<1>1. attempts \in [WakeDeliveries -> 0 .. WAKE_ATTEMPTS]
  BY WakeBounds DEF WakeInit
<1> QED
  BY <1>1 DEF WakeInit, WakeInv, WakeTypeOK, AtMostOne, InTime, Waiting

(* JobRows are written and the alarm is left as it is. *)
LEMMA Left ==
  ASSUME WakeInv, JobRows', UNCHANGED <<nowMs, alarm, armedAt>>,
         handler' \in {"idle", "pushes", "reports", "failed"},
         handler' # "idle" \/ handler = "idle" \/ alarm # {},
         unarmed \subseteq unarmed', unarmed' \subseteq WakeDeliveries \cup {"report"},
         \A r \in working' : r \in working /\ heartbeatAt'[r] = heartbeatAt[r],
         \A d \in Waiting' \ unarmed' : d \in Waiting /\ attempts[d] <= attempts'[d],
         "report" \in unarmed' \/ \A t \in reportDue' : \E s \in reportDue : s <= t
  PROVE  WakeInv'
<1>1. WakeTypeOK'
  BY DEF WakeInv, WakeTypeOK, JobRows, AtMostOne
<1>2. ASSUME InTime PROVE InTime'
  <2>1. \A t, u \in Nat : By(t) /\ t <= u => By(u)'
    BY DEF WakeInv, WakeTypeOK, By
  <2>2. \A r \in working' : By(heartbeatAt[r] + HEARTBEAT_TIMEOUT_MS)'
    <3> SUFFICES ASSUME NEW r \in working'
                 PROVE  By(heartbeatAt[r] + HEARTBEAT_TIMEOUT_MS)'
      OBVIOUS
    <3>1. By(heartbeatAt[r] + HEARTBEAT_TIMEOUT_MS)
      BY <1>2 DEF InTime
    <3>2. heartbeatAt[r] + HEARTBEAT_TIMEOUT_MS \in Nat
      BY WakeBounds DEF WakeInv, WakeTypeOK
    <3> QED
      BY <3>1, <3>2 DEF By
  <2>3. \A d \in Waiting' \ unarmed' : By(armedAt + Backoff(attempts[d]))'
    <3> SUFFICES ASSUME NEW d \in Waiting' \ unarmed'
                 PROVE  By(armedAt + Backoff(attempts[d]))'
      OBVIOUS
    <3>1. d \in Waiting \ unarmed
      OBVIOUS
    <3>2. By(armedAt + Backoff(attempts[d]))
      BY <1>2, <3>1 DEF InTime
    <3>3. attempts'[d] \in 0 .. WAKE_ATTEMPTS /\ attempts[d] \in 0 .. attempts'[d]
      BY <3>1, WakeBounds DEF WakeInv, WakeTypeOK, JobRows, Waiting
    <3>4. /\ Backoff(attempts[d]) \in Nat /\ Backoff(attempts'[d]) \in Nat
          /\ Backoff(attempts[d]) <= Backoff(attempts'[d])
      BY <3>3, BackoffAssumption, WakeBounds
    <3>5. armedAt \in Nat
      BY DEF WakeInv, WakeTypeOK
    <3>6. armedAt + Backoff(attempts[d]) <= armedAt + Backoff(attempts'[d])
      BY <3>4, <3>5
    <3> QED
      BY <2>1, <3>2, <3>4, <3>5, <3>6
  <2>4. "report" \notin unarmed' =>
          \A t \in reportDue' : By(IF t > armedAt THEN t ELSE armedAt)'
    <3> SUFFICES ASSUME "report" \notin unarmed', NEW t \in reportDue'
                 PROVE  By(IF t > armedAt THEN t ELSE armedAt)'
      OBVIOUS
    <3>1. armedAt \in Nat /\ nowMs \in Nat /\ armedAt <= nowMs /\ t \in Nat
          /\ reportDue \subseteq Nat /\ "report" \notin unarmed
      BY DEF WakeInv, WakeTypeOK, JobRows
    <3>2. PICK s \in reportDue : s <= t
      BY Zenon
    <3>3. By(IF s > armedAt THEN s ELSE armedAt)
      BY <1>2, <3>1 DEF InTime
    <3> QED
      BY <2>1, <3>1, <3>2, <3>3
  <2> QED
    BY <2>2, <2>3, <2>4 DEF InTime
<1> QED
  BY <1>1, <1>2 DEF WakeInv

(* Reporting a run leaves one time at which the outbox is due. *)
LEMMA OneReport ==
  ASSUME WakeInv, ReportNow \/ reportDue' = reportDue
  PROVE  reportDue' \subseteq Nat /\ AtMostOne(reportDue')
<1>1. nowMs \in Nat /\ reportDue \in SUBSET Nat /\ AtMostOne(reportDue)
  BY DEF WakeInv, WakeTypeOK
<1>2. CASE ReportNow
  <2>1. Least(reportDue \cup {nowMs}) \in reportDue \cup {nowMs}
    <3>1. reportDue \cup {nowMs} \in SUBSET Nat /\ reportDue \cup {nowMs} # {}
      BY <1>1
    <3> QED
      BY <3>1, LeastTime
  <2>2. PICK t \in {nowMs, Least(reportDue \cup {nowMs})} : reportDue' = {t}
    BY <1>2 DEF ReportNow
  <2>3. t \in Nat
    BY <1>1, <2>1
  <2> QED
    BY <2>2, <2>3 DEF AtMostOne
<1> QED
  BY <1>1, <1>2

(* Whichever rows a verb writes, they stay well formed. *)
LEMMA Written ==
  ASSUME WakeInv, UNCHANGED <<nowMs, attempts, handler>>,
         working' \subseteq WakeRuns, heartbeatAt' \in [WakeRuns -> Nat],
         Pushed \/ queued' = queued, ReportNow \/ reportDue' = reportDue
  PROVE  JobRows' /\ handler' \in {"idle", "pushes", "reports", "failed"}
<1>1. reportDue' \subseteq Nat /\ AtMostOne(reportDue')
  BY OneReport
<1>2. queued' \subseteq WakeDeliveries
  BY DEF Pushed, WakeInv, WakeTypeOK
<1> QED
  BY <1>1, <1>2 DEF WakeInv, WakeTypeOK, JobRows, AtMostOne

(* What agents do arms the alarm. *)
LEMMA VerbStep ==
  ASSUME WakeInv, NEW r \in WakeRuns,
         WakeClaim(r) \/ WakeHeartbeat(r) \/ WakeAsk(r) \/ WakeEnd(r)
  PROVE  WakeInv'
<1>1. /\ UNCHANGED <<nowMs, attempts, handler>> /\ Arm
      /\ Pushed \/ queued' = queued
      /\ ReportNow \/ reportDue' = reportDue
  BY DEF WakeClaim, WakeHeartbeat, WakeAsk, WakeEnd
<1>2. working' \subseteq WakeRuns
  BY DEF WakeInv, WakeTypeOK, WakeClaim, WakeHeartbeat, WakeAsk, WakeEnd
<1>3. heartbeatAt' \in [WakeRuns -> Nat]
  BY DEF WakeInv, WakeTypeOK, WakeClaim, WakeHeartbeat, WakeAsk, WakeEnd
<1>4. JobRows' /\ handler' \in {"idle", "pushes", "reports", "failed"}
  BY <1>1, <1>2, <1>3, Written
<1> QED
  BY <1>1, <1>4, Armed DEF Arm

(* So do the changes that people make, and deletions. *)
LEMMA ChangeStep ==
  ASSUME WakeInv, WakeChange \/ WakeDelete
  PROVE  WakeInv'
<1>1. /\ UNCHANGED <<nowMs, attempts, handler>> /\ Arm
      /\ Pushed \/ queued' = queued
      /\ ReportNow \/ reportDue' = reportDue
  BY DEF WakeChange, WakeDelete
<1>2. working' \subseteq WakeRuns
  BY DEF WakeInv, WakeTypeOK, WakeChange, WakeDelete
<1>3. heartbeatAt' \in [WakeRuns -> Nat]
  BY DEF WakeInv, WakeTypeOK, WakeChange, WakeDelete
<1>4. JobRows' /\ handler' \in {"idle", "pushes", "reports", "failed"}
  BY <1>1, <1>2, <1>3, Written
<1> QED
  BY <1>1, <1>4, Armed DEF Arm

(* Archiving makes a report due that the alarm may not be armed for. *)
LEMMA ArchiveStep ==
  ASSUME WakeInv, WakeArchive
  PROVE  WakeInv'
<1>1. /\ UNCHANGED <<nowMs, working, heartbeatAt, attempts, handler>>
      /\ Pushed \/ queued' = queued
      /\ ReportNow
  BY DEF WakeArchive
<1>2. JobRows' /\ handler' \in {"idle", "pushes", "reports", "failed"}
  BY <1>1, Written DEF WakeInv, WakeTypeOK
<1>3. CASE Arm
  BY <1>1, <1>2, <1>3, Armed DEF Arm
<1>4. CASE queued' = queued /\ Leave({"report"})
  <2>1. UNCHANGED <<alarm, armedAt>> /\ unarmed' = unarmed \cup {"report"}
    BY <1>4 DEF Leave
  <2>2. Waiting' = Waiting /\ unarmed \subseteq WakeDeliveries \cup {"report"}
    BY <1>1, <1>4 DEF Waiting, WakeInv, WakeTypeOK
  <2>3. \A d \in Waiting : attempts[d] <= attempts'[d]
    BY <1>1, WakeBounds DEF Waiting, WakeInv, WakeTypeOK
  <2> QED
    BY <1>1, <1>2, <2>1, <2>2, <2>3, Left
<1> QED
  BY <1>3, <1>4 DEF WakeArchive

(* A delivery is queued, or a drain writes what became of it. *)
LEMMA DeliveryStep ==
  ASSUME WakeInv, NEW d \in WakeDeliveries,
         WakePush(d) \/ CronPushes(d) \/ HandlerPushes(d)
  PROVE  WakeInv'
<1>1. JobRows' /\ UNCHANGED <<nowMs, working, heartbeatAt, reportDue, handler>>
  <2>1. UNCHANGED <<nowMs, working, heartbeatAt, reportDue, handler>>
    BY DEF WakePush, CronPushes, HandlerPushes
  <2>2. queued' \subseteq WakeDeliveries
    BY DEF WakeInv, WakeTypeOK, WakePush, CronPushes, HandlerPushes
  <2>3. \/ attempts' = attempts
        \/ \E n \in 1 .. WAKE_ATTEMPTS : attempts' = [attempts EXCEPT ![d] = n]
    BY DEF WakePush, CronPushes, HandlerPushes, Sent
  <2>4. attempts' \in [WakeDeliveries -> 0 .. WAKE_ATTEMPTS]
    BY <2>3, WakeBounds DEF WakeInv, WakeTypeOK
  <2> QED
    BY <2>1, <2>2, <2>4 DEF WakeInv, WakeTypeOK, JobRows, AtMostOne
<1>2. handler' \in {"idle", "pushes", "reports", "failed"}
  BY <1>1 DEF WakeInv, WakeTypeOK
<1>3. \A e \in WakeDeliveries : attempts[e] \in Nat
  BY WakeBounds DEF WakeInv, WakeTypeOK
<1>4. CASE Arm
  BY <1>1, <1>2, <1>4, Armed DEF Arm
<1>5. CASE /\ UNCHANGED <<alarm, armedAt>>
           /\ unarmed \subseteq unarmed' /\ unarmed' \subseteq unarmed \cup {d}
           /\ \A e \in Waiting' \ unarmed' : e \in Waiting /\ attempts[e] <= attempts'[e]
  <2>1. unarmed' \subseteq WakeDeliveries \cup {"report"}
    BY <1>5 DEF WakeInv, WakeTypeOK
  <2>2. \A t \in reportDue' : \E s \in reportDue : s <= t
    BY <1>1 DEF WakeInv, WakeTypeOK
  <2> QED
    BY <1>1, <1>2, <1>5, <2>1, <2>2, Left
<1>6. CASE WakePush(d) /\ ~Arm
  <2>1. /\ queued' = queued \cup {d} /\ attempts' = attempts
        /\ UNCHANGED <<alarm, armedAt>> /\ unarmed' = unarmed \cup {d}
    BY <1>6 DEF WakePush, Leave
  <2>2. \A e \in Waiting' \ unarmed' : e \in Waiting /\ attempts[e] <= attempts'[e]
    BY <1>1, <1>3, <2>1 DEF Waiting, JobRows
  <2> QED
    BY <1>5, <2>1, <2>2
<1>7. CASE CronPushes(d) \/ HandlerPushes(d)
  <2>1. Sent(d) /\ queued' = queued
    BY <1>7 DEF CronPushes, HandlerPushes
  <2>2. PICK n \in 1 .. WAKE_ATTEMPTS :
          /\ attempts' = [attempts EXCEPT ![d] = n]
          /\ unarmed' = unarmed \cup (IF n < attempts[d] THEN {d} ELSE {})
          /\ UNCHANGED <<alarm, armedAt>>
    BY <2>1 DEF Sent, Leave
  <2>3. ASSUME NEW e \in Waiting' \ unarmed'
        PROVE  e \in Waiting /\ attempts[e] <= attempts'[e]
    <3>1. e \in queued /\ e \in WakeDeliveries /\ attempts'[e] < WAKE_ATTEMPTS
      BY <1>1, <2>1 DEF Waiting, JobRows
    <3>2. CASE e = d
      <4>1. attempts'[d] = n /\ ~(n < attempts[d])
        BY <2>2, <2>3, <3>2 DEF WakeInv, WakeTypeOK
      <4> QED
        BY <1>3, <3>1, <3>2, <4>1, WakeBounds DEF Waiting
    <3>3. CASE e # d
      <4>1. attempts'[e] = attempts[e]
        BY <2>2, <3>1, <3>3 DEF WakeInv, WakeTypeOK
      <4> QED
        BY <1>3, <3>1, <4>1 DEF Waiting
    <3> QED
      BY <3>2, <3>3
  <2> QED
    BY <1>5, <2>2, <2>3
<1> QED
  BY <1>4, <1>6, <1>7

(* Drains of the outbox, the parts of alarm(), and time. *)
LEMMA AlarmStep ==
  ASSUME WakeInv,
         CronReports \/ Ring \/ HandlerPushed \/ HandlerEnds \/ HandlerFails \/ WakeTick
  PROVE  WakeInv'
<1>1. CASE CronReports
  <2>1. /\ UNCHANGED <<nowMs, working, heartbeatAt, queued, attempts, handler, alarm, armedAt>>
        /\ OutboxDrained /\ unarmed' = unarmed
    BY <1>1 DEF CronReports, Leave
  <2>2. JobRows' /\ \A t \in reportDue' : \E s \in reportDue : s <= t
    BY <2>1, WakeBounds DEF OutboxDrained, WakeInv, WakeTypeOK, JobRows, AtMostOne
  <2>3. /\ handler' \in {"idle", "pushes", "reports", "failed"}
        /\ unarmed' \subseteq WakeDeliveries \cup {"report"}
        /\ Waiting' = Waiting /\ \A d \in Waiting : attempts[d] <= attempts'[d]
    BY <2>1, WakeBounds DEF Waiting, WakeInv, WakeTypeOK
  <2> QED
    BY <2>1, <2>2, <2>3, Left
<1>2. CASE Ring
  <2>1. /\ UNCHANGED <<nowMs, heartbeatAt, attempts, armedAt, unarmed>>
        /\ alarm' = {} /\ handler' = "pushes" /\ working' \subseteq working
        /\ Pushed \/ queued' = queued
        /\ ReportNow \/ reportDue' = reportDue
    BY <1>2 DEF Ring
  <2>2. reportDue' \subseteq Nat /\ AtMostOne(reportDue')
    BY <2>1, OneReport
  <2>3. queued' \subseteq WakeDeliveries
    BY <2>1 DEF Pushed, WakeInv, WakeTypeOK
  <2> QED
    BY <2>1, <2>2, <2>3 DEF WakeInv, WakeTypeOK, AtMostOne
<1>3. CASE HandlerPushed
  BY <1>3 DEF HandlerPushed, WakeInv, WakeTypeOK, InTime, By, Waiting
<1>4. CASE HandlerEnds
  <2>1. JobRows' /\ nowMs' = nowMs /\ Arm /\ handler' = "idle"
    <3>1. /\ UNCHANGED <<nowMs, working, heartbeatAt, queued, attempts>>
          /\ Arm /\ handler' = "idle"
      BY <1>4 DEF HandlerEnds
    <3>2. reportDue' \subseteq Nat /\ AtMostOne(reportDue)'
      <4>1. CASE OutboxDrained
        BY <4>1, WakeBounds DEF OutboxDrained, WakeInv, WakeTypeOK, AtMostOne
      <4>2. CASE reportDue' = reportDue
        BY <4>2 DEF WakeInv, WakeTypeOK, AtMostOne
      <4> QED
        BY <1>4, <4>1, <4>2 DEF HandlerEnds
    <3> QED
      BY <3>1, <3>2 DEF WakeInv, WakeTypeOK, JobRows
  <2> QED
    BY <2>1, Armed DEF Arm
<1>5. CASE HandlerFails
  BY <1>5 DEF HandlerFails, WakeInv, WakeTypeOK, InTime, By, Waiting
<1>6. CASE WakeTick
  BY <1>6 DEF WakeTick, WakeInv, WakeTypeOK, InTime, By, Waiting
<1> QED
  BY <1>1, <1>2, <1>3, <1>4, <1>5, <1>6

LEMMA WakeStep == WakeInv /\ [WakeNext]_wakeVars => WakeInv'
<1> SUFFICES ASSUME WakeInv, [WakeNext]_wakeVars PROVE WakeInv'
  OBVIOUS
<1>1. CASE UNCHANGED wakeVars
  BY <1>1 DEF wakeVars, WakeInv, WakeTypeOK, InTime, By, Waiting
<1> QED
  BY <1>1, VerbStep, ChangeStep, ArchiveStep, DeliveryStep, AlarmStep DEF WakeNext

(* The rows, the alarm and its handler stay well formed. *)
THEOREM WakeTypeCorrect == WakeSpec => []WakeTypeOK
<1>1. WakeInv => WakeTypeOK
  BY DEF WakeInv
<1> QED
  BY <1>1, WakeStarts, WakeStep, PTL DEF WakeSpec

(* The one alarm of the board's object loses no job: of leases, pushes and *)
(* reports the earliest has it, whoever arms it last (scheduleReclaim), or *)
(* alarm() is under way and will arm it, for any number of runs and        *)
(* deliveries and any lease and backoff.                                   *)
THEOREM KeepsRingingCorrect == WakeSpec => []KeepsRinging
<1>1. WakeInv => KeepsRinging
  BY DEF WakeInv, InTime, By, KeepsRinging, RingsBy
<1> QED
  BY <1>1, WakeStarts, WakeStep, PTL DEF WakeSpec

-----------------------------------------------------------------------------
(* Recurrence.  A wall that clocks jump over is the only one whose instant *)
(* does not show it, and walls further on never have an earlier instant.   *)
(* So the first day whose instant is later than the one asked from is also *)
(* the first whose wall is shown later; and by the second day on every     *)
(* instant is later, so the search always ends in time.                    *)

LEMMA ZoneBounds == Offsets \subseteq Int /\ Changes \subseteq Int
<1>1. Offsets \subseteq Int /\ Changes \subseteq Nat
  BY RecurrenceAssumption, Zenon
<1> QED
  BY <1>1

LEMMA ZoneIs ==
  ASSUME NEW z \in Zone
  PROVE  /\ z.before \in Int /\ z.after \in Int /\ z.at \in Int
         /\ \/ z.after = z.before + 1
            \/ z.after = z.before - 1
<1>1. z \in [before : Offsets, after : Offsets, at : Changes]
  BY DEF Zone
<1>2. z.before \in Offsets /\ z.after \in Offsets /\ z.at \in Changes
  BY <1>1
<1>3. z.before \in Int /\ z.after \in Int /\ z.at \in Int
  BY <1>2, ZoneBounds
<1>4. z.after - z.before = 0 - 1 \/ z.after - z.before = 1
  BY DEF Zone
<1> QED
  BY <1>3, <1>4

(* Where the instant of a wall lies. *)
LEMMA InstantIs ==
  ASSUME NEW z \in Zone, NEW w \in Int
  PROVE  /\ FromZonedWallClock(z, w) \in Int
         /\ w < z.at + z.before /\ w < z.at + z.after =>
              FromZonedWallClock(z, w) = w - z.before
         /\ w >= z.at + z.before /\ w >= z.at + z.after =>
              FromZonedWallClock(z, w) = w - z.after
         /\ w \in Jumped(z) => FromZonedWallClock(z, w) \in {z.at - 1, z.at}
         /\ w \in Twice(z) => \/ FromZonedWallClock(z, w) = z.at - 1 /\ w = z.at - 1 + z.before
                              \/ FromZonedWallClock(z, w) = z.at /\ w = z.at + z.after
<1> DEFINE B == z.before
           A == z.after
           c == z.at
<1>1. B \in Int /\ A \in Int /\ c \in Int /\ (A = B + 1 \/ A = B - 1)
  BY ZoneIs
<1> DEFINE first == IF w < c THEN B ELSE A
           second == IF w - first < c THEN B ELSE A
<1>2. FromZonedWallClock(z, w) = w - first - (second - first)
  BY DEF FromZonedWallClock, OffsetAt
<1>3. Jumped(z) = c + B .. c + A - 1 /\ Twice(z) = c + A .. c + B - 1
  BY DEF Jumped, Twice
<1> HIDE DEF A, B, c
<1>4. FromZonedWallClock(z, w) = w - second
  BY <1>1, <1>2
<1>5. second = IF w < c THEN (IF w < c + B THEN B ELSE A) ELSE (IF w < c + A THEN B ELSE A)
  BY <1>1
<1> HIDE DEF first, second
<1>6. /\ FromZonedWallClock(z, w) \in Int
      /\ w < c + B /\ w < c + A => FromZonedWallClock(z, w) = w - B
      /\ w >= c + B /\ w >= c + A => FromZonedWallClock(z, w) = w - A
      /\ w \in Jumped(z) => FromZonedWallClock(z, w) \in {c - 1, c}
      /\ w \in Twice(z) => \/ FromZonedWallClock(z, w) = c - 1 /\ w = c - 1 + B
                           \/ FromZonedWallClock(z, w) = c /\ w = c + A
  BY <1>1, <1>3, <1>4, <1>5
<1> QED
  BY <1>6 DEF A, B, c

LEMMA WallIs ==
  ASSUME NEW z \in Zone, NEW t \in Int
  PROVE  /\ Wall(z, t) \in Int
         /\ t < z.at => Wall(z, t) = t + z.before
         /\ t >= z.at => Wall(z, t) = t + z.after
BY ZoneIs DEF Wall, OffsetAt

(* A wall falls before the change, after it, in its gap or in its overlap. *)
LEMMA WallsFall ==
  ASSUME NEW z \in Zone, NEW w \in Int
  PROVE  \/ w < z.at + z.before /\ w < z.at + z.after
         \/ w >= z.at + z.before /\ w >= z.at + z.after
         \/ w \in Jumped(z) /\ w = z.at + z.before /\ z.after = z.before + 1
         \/ w \in Twice(z) /\ w = z.at + z.after /\ z.after = z.before - 1
BY ZoneIs DEF Jumped, Twice

(* The instant of a wall shows it, unless the clocks jump over it. *)
LEMMA ShowsIt ==
  ASSUME NEW z \in Zone, NEW w \in Int, w \notin Jumped(z)
  PROVE  Wall(z, FromZonedWallClock(z, w)) = w
<1>1. PICK t \in Int : t = FromZonedWallClock(z, w)
  BY InstantIs
<1>2. Wall(z, t) = w
  BY <1>1, ZoneIs, InstantIs, WallIs, WallsFall
<1> QED
  BY <1>1, <1>2

(* An instant that shows a wall is its instant, unless two show it. *)
LEMMA OneInstant ==
  ASSUME NEW z \in Zone, NEW t \in Int, Wall(z, t) \notin Twice(z)
  PROVE  FromZonedWallClock(z, Wall(z, t)) = t
<1>1. PICK w \in Int : w = Wall(z, t)
  BY WallIs
<1>2. \/ t < z.at /\ w = t + z.before
      \/ t >= z.at /\ w = t + z.after
  BY <1>1, WallIs, ZoneIs
<1>3. w \notin Jumped(z)
  BY <1>2, ZoneIs DEF Jumped
<1>4. FromZonedWallClock(z, w) = t
  BY <1>1, <1>2, <1>3, ZoneIs, InstantIs, WallsFall
<1> QED
  BY <1>1, <1>4

(* Instants follow the order of their walls. *)
LEMMA InOrder ==
  ASSUME NEW z \in Zone, NEW w \in Int, NEW v \in Int, w < v
  PROVE  FromZonedWallClock(z, w) <= FromZonedWallClock(z, v)
<1>1. PICK t \in Int, u \in Int : t = FromZonedWallClock(z, w) /\ u = FromZonedWallClock(z, v)
  BY InstantIs
<1>2. /\ \/ t = w - z.before /\ w < z.at + z.before /\ w < z.at + z.after
         \/ t = w - z.after /\ w >= z.at + z.before /\ w >= z.at + z.after
         \/ t \in {z.at - 1, z.at} /\ w = z.at + z.before /\ z.after = z.before + 1
         \/ t \in {z.at - 1, z.at} /\ w = z.at + z.after /\ z.after = z.before - 1
  BY <1>1, InstantIs, WallsFall
<1>3. /\ \/ u = v - z.before /\ v < z.at + z.before /\ v < z.at + z.after
         \/ u = v - z.after /\ v >= z.at + z.before /\ v >= z.at + z.after
         \/ u \in {z.at - 1, z.at} /\ v = z.at + z.before /\ z.after = z.before + 1
         \/ u \in {z.at - 1, z.at} /\ v = z.at + z.after /\ z.after = z.before - 1
  BY <1>1, InstantIs, WallsFall
<1>4. t <= u
  BY <1>2, <1>3, ZoneIs
<1> QED
  BY <1>1, <1>4

(* A later instant shows no earlier wall, and a wall that is two later has *)
(* a later instant.                                                        *)
LEMMA WallsLater ==
  ASSUME NEW z \in Zone, NEW after \in Int, NEW t \in Int, t > after
  PROVE  Wall(z, t) >= Wall(z, after)
<1>1. PICK w \in Int, v \in Int : w = Wall(z, after) /\ v = Wall(z, t)
  BY WallIs
<1>2. w <= v
  BY <1>1, WallIs, ZoneIs
<1> QED
  BY <1>1, <1>2

LEMMA TwoLater ==
  ASSUME NEW z \in Zone, NEW after \in Int, NEW w \in Int, w >= Wall(z, after) + 2
  PROVE  FromZonedWallClock(z, w) > after
<1>1. PICK t \in Int, v \in Int : t = FromZonedWallClock(z, w) /\ v = Wall(z, after)
  BY InstantIs, WallIs
<1>2. \/ t = w - z.before /\ w < z.at + z.before /\ w < z.at + z.after
      \/ t = w - z.after /\ w >= z.at + z.before /\ w >= z.at + z.after
      \/ t \in {z.at - 1, z.at} /\ w = z.at + z.before /\ z.after = z.before + 1
      \/ t \in {z.at - 1, z.at} /\ w = z.at + z.after /\ z.after = z.before - 1
  BY <1>1, InstantIs, WallsFall
<1>3. \/ after < z.at /\ v = after + z.before
      \/ after >= z.at /\ v = after + z.after
  BY <1>1, WallIs, ZoneIs
<1>4. t > after
  BY <1>1, <1>2, <1>3, ZoneIs
<1> QED
  BY <1>1, <1>4

-----------------------------------------------------------------------------
(* The search of nextClockFireAt.                                          *)

(* The answer is the instant of a day of the rule, later than after, and   *)
(* on no day of the rule before that one, but not before after's, was the  *)
(* instant later.                                                          *)
LEMMA SearchEnds ==
  ASSUME NEW z \in Zone, NEW rule \in Rule, NEW after \in Int
  PROVE  \E day \in Int :
           /\ FallsOn(rule, day)
           /\ NextClockFireAt(rule, z, after)
                = FromZonedWallClock(z, day * UNITS + rule.time)
           /\ FromZonedWallClock(z, day * UNITS + rule.time) > after
           /\ \A d \in Int : /\ Wall(z, after) \div UNITS <= d /\ d < day
                             /\ FallsOn(rule, d)
                => ~(FromZonedWallClock(z, d * UNITS + rule.time) > after)
<1> DEFINE v == Wall(z, after)
           first == v \div UNITS
           At(i) == FromZonedWallClock(z, (first + i) * UNITS + rule.time)
           Fits(i) == FallsOn(rule, first + i) /\ At(i) > after
           Hit(i) == Fits(i) /\ \A j \in 0 .. i - 1 : ~Fits(j)
           answer == CHOOSE i \in 0 .. MAX_DAYS - 1 : Hit(i)
<1>1. /\ UNITS \in Nat \ {0} /\ WEEK \in Nat \ {0} /\ MAX_DAYS \in Nat /\ MAX_DAYS > WEEK + 1
      /\ rule.time \in 0 .. UNITS - 1 /\ rule.time \in Nat /\ rule.dow \in 0 .. WEEK - 1
      /\ v \in Int
  BY RecurrenceAssumption, WallIs DEF Rule
<1>2. first \in Int /\ v = first * UNITS + (v % UNITS) /\ (v % UNITS) \in 0 .. UNITS - 1
  BY <1>1, Divided
<1> HIDE DEF v, first
<1>3. \E i \in 2 .. WEEK + 1 : FallsOn(rule, first + i)
  <2> DEFINE m == (rule.dow - first - 2) % WEEK
             q == (rule.dow - first - 2) \div WEEK
  <2>1. rule.dow - first - 2 = q * WEEK + m /\ m \in 0 .. WEEK - 1 /\ q \in Int
    <3> DEFINE a == rule.dow - first - 2
    <3>1. a \in Int
      BY <1>1, <1>2
    <3> HIDE DEF a
    <3>2. a = (a \div WEEK) * WEEK + (a % WEEK) /\ (a % WEEK) \in 0 .. WEEK - 1
          /\ (a \div WEEK) \in Int
      BY <1>1, <3>1, Divided
    <3> QED
      BY <3>2 DEF a
  <2> HIDE DEF m, q
  <2> DEFINE day == first + (2 + m)
  <2>2. day \in Int /\ q * WEEK \in Int /\ day + q * WEEK = rule.dow
    <3>1. q \in Int /\ WEEK \in Int
      BY <1>1, <2>1
    <3>2. q * WEEK \in Int
      BY <3>1, WholeProduct, Zenon
    <3>3. first \in Int /\ m \in Int /\ rule.dow \in Int
      BY <1>1, <1>2, <2>1
    <3>4. rule.dow - first - 2 = q * WEEK + m
      BY <2>1, Zenon
    <3> DEFINE k == q * WEEK
    <3> HIDE DEF k
    <3>5. k \in Int /\ rule.dow - first - 2 = k + m
      BY <3>2, <3>4 DEF k
    <3>6. day \in Int /\ day + k = rule.dow
      BY ONLY <3>3, <3>5
    <3> QED
      BY <3>2, <3>6 DEF k
  <2> HIDE DEF day
  <2>3. (day + q * WEEK) % WEEK = day % WEEK
    BY <1>1, <2>1, <2>2, ModShift, Zenon
  <2>4. day % WEEK = rule.dow
    <3>1. rule.dow % WEEK = rule.dow
      BY <1>1
    <3> QED
      BY <2>2, <2>3, <3>1, Zenon
  <2>5. 2 + m \in 2 .. WEEK + 1
    BY <1>1, <2>1
  <2> QED
    BY <2>4, <2>5 DEF FallsOn, day
<1>4. PICK i \in 2 .. WEEK + 1 : FallsOn(rule, first + i)
  BY <1>3
<1>5. i \in 0 .. MAX_DAYS - 1 /\ Fits(i)
  <2>1. /\ first + i \in Int /\ first + 1 \in Int /\ first + 1 < first + i
        /\ first < first + 1
    BY <1>2
  <2>2. /\ (first + i) * UNITS >= (first + 1) * UNITS + UNITS
        /\ (first + 1) * UNITS >= first * UNITS + UNITS
    BY <1>1, <1>2, <2>1, Apart
  <2>3. (first + i) * UNITS \in Int /\ (first + 1) * UNITS \in Int /\ first * UNITS \in Int
    BY <1>1, <1>2
  <2> DEFINE w == (first + i) * UNITS + rule.time
  <2>4. w \in Int /\ w >= v + 2
    BY <1>1, <1>2, <2>2, <2>3
  <2> HIDE DEF w
  <2>5. FromZonedWallClock(z, w) > after
    BY <2>4, TwoLater DEF v
  <2> QED
    BY <1>1, <1>4, <2>5 DEF w
<1>6. \E k \in 0 .. MAX_DAYS - 1 : Hit(k)
  <2> HIDE DEF Fits
  <2> DEFINE S == {k \in Nat : Fits(k)}
  <2>1. S \in SUBSET Nat /\ i \in S
    BY <1>1, <1>5
  <2>2. Least(S) \in S /\ \A k \in S : Least(S) <= k
    BY <2>1, LeastTime
  <2>3. PICK k \in S : \A j \in S : k <= j
    BY <2>2
  <2>4. k \in 0 .. MAX_DAYS - 1
    BY <1>1, <1>5, <2>1, <2>3
  <2>5. \A j \in 0 .. k - 1 : ~Fits(j)
    BY <2>3
  <2> QED
    BY <2>3, <2>4, <2>5
<1>7. answer \in 0 .. MAX_DAYS - 1 /\ Hit(answer)
  BY <1>6
<1>8. NextClockFireAt(rule, z, after) = At(answer)
  BY DEF NextClockFireAt, first, v
<1> HIDE DEF answer
<1> DEFINE day == first + answer
<1>9. day \in Int /\ FallsOn(rule, day) /\ answer \in Nat
  BY <1>1, <1>2, <1>7
<1>10. ASSUME NEW d \in Int, first <= d, d < day, FallsOn(rule, d)
       PROVE  ~(FromZonedWallClock(z, d * UNITS + rule.time) > after)
  <2> DEFINE j == d - first
  <2>1. j \in 0 .. answer - 1 /\ first + j = d
    BY <1>2, <1>9, <1>10
  <2>2. ~Fits(j)
    BY <1>7, <2>1
  <2> HIDE DEF j
  <2> QED
    BY <1>10, <2>1, <2>2
<1> QED
  BY <1>7, <1>8, <1>9, <1>10 DEF first, v

(* A wall of the rule is a day of the rule and its time. *)
LEMMA RuleWall ==
  ASSUME NEW rule \in Rule, NEW w \in Int
  PROVE  /\ IsRuleWall(rule, w) => /\ w \div UNITS \in Int /\ FallsOn(rule, w \div UNITS)
                                   /\ w = (w \div UNITS) * UNITS + rule.time
         /\ \A day \in Int : w = day * UNITS + rule.time /\ FallsOn(rule, day)
                             => IsRuleWall(rule, w)
<1>1. UNITS \in Nat \ {0} /\ rule.time \in 0 .. UNITS - 1
  BY RecurrenceAssumption DEF Rule
<1>2. w = (w \div UNITS) * UNITS + (w % UNITS) /\ (w \div UNITS) \in Int
  BY <1>1, Divided
<1>3. ASSUME NEW day \in Int, w = day * UNITS + rule.time
      PROVE  w % UNITS = rule.time /\ w \div UNITS = day
  BY <1>1, <1>3, Remainder, Zenon
<1> QED
  BY <1>2, <1>3 DEF IsRuleWall

LEMMA QueryIs ==
  ASSUME NEW q \in Query
  PROVE  q.zone \in Zone /\ q.rule \in Rule /\ q.after \in Int
<1>1. Afters \subseteq Int
  <2>1. Afters \subseteq Nat
    BY RecurrenceAssumption, Zenon
  <2> QED
    BY <2>1
<1>2. q.zone \in Zone /\ q.rule \in Rule /\ q.after \in Afters
  BY DEF Query
<1> QED
  BY <1>1, <1>2

LEMMA NextIs ==
  ASSUME NEW q \in Query
  PROVE  LET next == NextClockFireAt(q.rule, q.zone, q.after)
         IN  /\ next > q.after
             /\ \/ IsRuleWall(q.rule, Wall(q.zone, next))
                \/ \E w \in Jumped(q.zone) : /\ IsRuleWall(q.rule, w)
                                             /\ next = FromZonedWallClock(q.zone, w)
             /\ \A t \in q.after + 1 .. next - 1 :
                  IsRuleWall(q.rule, Wall(q.zone, t)) => Wall(q.zone, t) \in Twice(q.zone)
<1> DEFINE z == q.zone
           rule == q.rule
           after == q.after
           next == NextClockFireAt(rule, z, after)
<1>1. z \in Zone /\ rule \in Rule /\ after \in Int
  BY QueryIs
<1>2. UNITS \in Nat \ {0} /\ rule.time \in 0 .. UNITS - 1 /\ rule.time \in Int
  BY <1>1, RecurrenceAssumption DEF Rule
<1> HIDE DEF z, rule, after
<1>3. PICK day \in Int :
        /\ FallsOn(rule, day)
        /\ next = FromZonedWallClock(z, day * UNITS + rule.time)
        /\ FromZonedWallClock(z, day * UNITS + rule.time) > after
        /\ \A d \in Int : Wall(z, after) \div UNITS <= d /\ d < day /\ FallsOn(rule, d)
             => ~(FromZonedWallClock(z, d * UNITS + rule.time) > after)
  BY <1>1, SearchEnds
<1> DEFINE w == day * UNITS + rule.time
<1>4. w \in Int /\ IsRuleWall(rule, w)
  <2>1. w \in Int
    BY <1>2
  <2> QED
    BY <1>1, <1>3, <2>1, RuleWall
<1>5. next = FromZonedWallClock(z, w) /\ next > after /\ next \in Int
  BY <1>1, <1>3, <1>4, InstantIs
<1> HIDE DEF next, w
<1>6. \/ IsRuleWall(rule, Wall(z, next))
      \/ w \in Jumped(z)
  BY <1>1, <1>4, <1>5, ShowsIt
<1>7. ASSUME NEW t \in after + 1 .. next - 1, IsRuleWall(rule, Wall(z, t)),
             Wall(z, t) \notin Twice(z)
      PROVE  FALSE
  <2>1. t \in Int /\ t > after /\ t < next
    BY <1>1, <1>5
  <2>2. PICK v \in Int : v = Wall(z, t)
    BY <1>1, <2>1, WallIs
  <2>3. FromZonedWallClock(z, v) = t
    BY <1>1, <1>7, <2>1, <2>2, OneInstant
  <2>4. PICK d \in Int : d = v \div UNITS /\ FallsOn(rule, d) /\ v = d * UNITS + rule.time
    BY <1>1, <1>7, <2>2, RuleWall
  <2>5. Wall(z, after) \div UNITS <= d
    <3>1. PICK u \in Int : u = Wall(z, after)
      BY <1>1, WallIs
    <3>2. u <= v
      BY <1>1, <2>1, <2>2, <3>1, WallsLater
    <3>3. u \div UNITS <= v \div UNITS
      BY <1>2, <3>2, DivGrows
    <3> QED
      BY <2>4, <3>1, <3>3
  <2>6. ~(d < day)
    BY <1>3, <2>1, <2>3, <2>4, <2>5
  <2>7. CASE d = day
    BY <1>5, <2>1, <2>3, <2>4, <2>7 DEF w
  <2>8. CASE day < d
    <3>1. w < v
      <4>1. d * UNITS >= day * UNITS + UNITS
        BY <1>2, <2>8, Apart
      <4>2. d * UNITS \in Int /\ day * UNITS \in Int
        BY <1>2
      <4> QED
        BY <1>2, <2>4, <4>1, <4>2 DEF w
    <3>2. FromZonedWallClock(z, w) <= FromZonedWallClock(z, v)
      BY <1>1, <1>4, <3>1, InOrder
    <3> QED
      BY <1>5, <2>1, <2>3, <3>2
  <2> QED
    BY <2>6, <2>7, <2>8
<1>8. /\ next > after
      /\ \/ IsRuleWall(rule, Wall(z, next))
         \/ \E x \in Jumped(z) : IsRuleWall(rule, x) /\ next = FromZonedWallClock(z, x)
      /\ \A t \in after + 1 .. next - 1 :
           IsRuleWall(rule, Wall(z, t)) => Wall(z, t) \in Twice(z)
  BY <1>4, <1>5, <1>6, <1>7
<1> QED
  BY <1>8 DEF next, z, rule, after

Asked == asked \subseteq Query

(* A rule of the wall clock fires next where it should, in every zone that *)
(* changes once by a unit, with days of any number of units and weeks of   *)
(* any number of days (nextClockFireAt, fromZonedWallClock).               *)
THEOREM NextFireCorrect == RecurrenceSpec => []NextFireIsRight
<1>1. RecurrenceInit => Asked
  BY DEF RecurrenceInit, Asked
<1>2. Asked /\ [RecurrenceNext]_asked => Asked'
  BY DEF RecurrenceNext, Ask, Asked
<1>3. Asked => NextFireIsRight
  BY NextIs DEF NextFireIsRight, Asked
<1> QED
  BY <1>1, <1>2, <1>3, PTL DEF RecurrenceSpec

-----------------------------------------------------------------------------
(* The services together.  A step moves one of them and leaves the others, *)
(* so it is a step or a stutter of each.                                   *)

LEMMA StepsOfEach ==
  ASSUME [ServicesNext]_servicesVars
  PROVE  /\ [PushNext]_pushVars /\ [SchedNext]_schedVars /\ [RecurrenceNext]_asked
         /\ [WakeNext]_wakeVars /\ [ApsNext]_apsVars /\ [LiveNext]_liveVars
         /\ [HookNext]_hookVars /\ [DecNext]_decVars /\ [CredNext]_credVars
         /\ [RefreshNext]_refreshVars /\ [AccNext]_accVars /\ [SearchNext]_searchVars
<1>1. CASE UNCHANGED servicesVars
  BY <1>1 DEF servicesVars
<1>2. CASE ServicesNext
  BY <1>2 DEF ServicesNext, Rests
<1> QED
  BY <1>1, <1>2

(* Every behaviour of the services together is one of each of them, but    *)
(* for the fairness of the push queue.                                     *)
THEOREM ServicesAreEach ==
  ServicesSpec => /\ SchedSpec /\ RecurrenceSpec /\ WakeSpec /\ ApsSpec /\ LiveSpec
                  /\ HookSpec /\ DecSpec /\ CredSpec /\ RefreshSpec /\ AccSpec /\ SearchSpec
                  /\ PushInit /\ [][PushNext]_pushVars
<1>1. ServicesInit => /\ SchedInit /\ RecurrenceInit /\ WakeInit /\ ApsInit /\ LiveInit
                      /\ HookInit /\ DecInit /\ CredInit /\ RefreshInit /\ AccInit /\ SearchInit
                      /\ PushInit
  BY DEF ServicesInit
<1>2. [ServicesNext]_servicesVars =>
         /\ [PushNext]_pushVars /\ [SchedNext]_schedVars /\ [RecurrenceNext]_asked
         /\ [WakeNext]_wakeVars /\ [ApsNext]_apsVars /\ [LiveNext]_liveVars
         /\ [HookNext]_hookVars /\ [DecNext]_decVars /\ [CredNext]_credVars
         /\ [RefreshNext]_refreshVars /\ [AccNext]_accVars /\ [SearchNext]_searchVars
  BY StepsOfEach
<1> QED
  BY <1>1, <1>2, PTL
     DEF ServicesSpec, SchedSpec, RecurrenceSpec, WakeSpec, ApsSpec, LiveSpec, HookSpec, DecSpec,
         CredSpec, RefreshSpec, AccSpec, SearchSpec

(* The service that moves keeps its types, for any size of any of them.    *)
THEOREM ServicesTypesCorrect == ServicesSpec => []TypesOK
<1>1. PInv => PushTypeOK
  BY DEF PInv
<1>2. PushInit /\ [][PushNext]_pushVars => []PushTypeOK
  BY <1>1, PushStarts, PushStep, PTL
<1>3. ASSUME PushTypeOK, SchedTypeOK, WakeTypeOK, ApsTypeOK, LiveTypeOK, HookTypeOK,
             DecTypeOK, CredTypeOK, RefreshTypeOK, AccTypeOK
      PROVE  TypesOK
  BY <1>3 DEF TypesOK
<1> QED
  BY <1>2, <1>3, ServicesAreEach, SchedTypeCorrect, WakeTypeCorrect, ApsTypeCorrect,
     LiveTypeCorrect, HookTypeCorrect, DecTypeCorrect, CredTypeCorrect, RefreshTypeCorrect,
     AccTypeCorrect, PTL

=============================================================================
