----------------------------- MODULE Recurrence -----------------------------
(***************************************************************************)
(* When a wall-clock rule falls next (apps/api/src/board/recurrence.ts),   *)
(* in a zone whose distance from UTC changes once.  Instants, walls and    *)
(* offsets are counted in one unit, the size of the change; a wall is      *)
(* written as the instant at which UTC clocks show it, as the code does    *)
(* with Date.UTC.  A query is one question to nextFireAt.                  *)
(***************************************************************************)
EXTENDS Integers

CONSTANTS
  UNITS,                    \* units of a day
  WEEK,                     \* days of a week
  MAX_DAYS,                 \* days the search looks at: 40
  Offsets, Changes, Afters  \* bounds: the zones and instants asked about

ASSUME RecurrenceAssumption ==
  /\ {UNITS, WEEK, MAX_DAYS} \subseteq Nat \ {0} /\ MAX_DAYS > WEEK + 1
  /\ Offsets \subseteq Int /\ Changes \subseteq Nat /\ Afters \subseteq Nat

VARIABLE asked     \* the question, once it is asked

Zone == {z \in [before : Offsets, after : Offsets, at : Changes] :
           z.after - z.before \in {-1, 1}}
Rule == [kind : {"daily", "weekly"}, dow : 0 .. WEEK - 1, time : 0 .. UNITS - 1]
Query == [zone : Zone, rule : Rule, after : Afters]

OffsetAt(z, t) == IF t < z.at THEN z.before ELSE z.after

(* What the clocks of the zone show at an instant (zonedParts).            *)
Wall(z, t) == t + OffsetAt(z, t)

(* Bug: without the second pass.                                           *)
FromZonedWallClock_bug(z, w) == w - OffsetAt(z, w)

(* The instant of a wall: guessed, corrected, and corrected again.         *)
FromZonedWallClock(z, w) ==
  LET corrected == w - OffsetAt(z, w)
  IN  corrected - (OffsetAt(z, corrected) - OffsetAt(z, w))

FallsOn(rule, day) == rule.kind = "weekly" => day % WEEK = rule.dow

(* The first day from that of after on whose instant is later than after.  *)
NextClockFireAt(rule, z, after) ==
  LET first == Wall(z, after) \div UNITS
      candidate(i) == FromZonedWallClock(z, (first + i) * UNITS + rule.time)
      Fits(i) == FallsOn(rule, first + i) /\ candidate(i) > after
  IN  candidate(CHOOSE i \in 0 .. MAX_DAYS - 1 : Fits(i) /\ \A j \in 0 .. i - 1 : ~Fits(j))

RecurrenceInit == asked = {}
Ask == asked = {} /\ \E q \in Query : asked' = {q}
RecurrenceNext == Ask
RecurrenceSpec == RecurrenceInit /\ [][RecurrenceNext]_asked

-----------------------------------------------------------------------------
(* Walls the clocks jump over, and walls they show twice.                  *)
Jumped(z) == z.at + z.before .. z.at + z.after - 1
Twice(z) == z.at + z.after .. z.at + z.before - 1

IsRuleWall(rule, w) == w % UNITS = rule.time /\ FallsOn(rule, w \div UNITS)

(* The answer is later than the instant asked from, shows the rule's wall  *)
(* unless the clocks jump over that wall, and passes over no instant that  *)
(* shows it, except one of two when the clocks are set back.               *)
NextFireIsRight ==
  \A q \in asked :
    LET next == NextClockFireAt(q.rule, q.zone, q.after)
    IN  /\ next > q.after
        /\ \/ IsRuleWall(q.rule, Wall(q.zone, next))
           \/ \E w \in Jumped(q.zone) : /\ IsRuleWall(q.rule, w)
                                        /\ next = FromZonedWallClock(q.zone, w)
        /\ \A t \in q.after + 1 .. next - 1 :
             IsRuleWall(q.rule, Wall(q.zone, t)) => Wall(q.zone, t) \in Twice(q.zone)
=============================================================================
