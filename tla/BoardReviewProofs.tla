------------------------- MODULE BoardReviewProofs -------------------------
(***************************************************************************)
(* Proofs about what holds a card of a Board, for every number of cards,   *)
(* runs and people: the run that works it, the question it waits on, the   *)
(* review that is pending and the circuit breaker.                         *)
(*                                                                         *)
(* Whatever people do: a question never outlives its asker                 *)
(* (QuestionsAlive), a parked card says what it waits for (ParkedSaysWhy), *)
(* and automatic work makes progress (AutomationProgresses).  While people *)
(* leave working cards alone (~Interrupts): LeasesMatch, GatesMatch,       *)
(* BreakerHolds, OnlyPeopleUnpark and OneWorkingRun.                       *)
(*                                                                         *)
(* Those of the second kind rest on one fact, that a card is held by one   *)
(* thing at a time: a working run, a pending review, a parked question or  *)
(* a deferred advance.  HeldRow says so of a row and of the three sets     *)
(* that refer to it; each action is shown to keep it for the card it is    *)
(* about and to leave it alone for the others, except those its cascade    *)
(* lands.                                                                  *)
(*                                                                         *)
(* The last part shows that Board implements Lease (LeasesLent): what an   *)
(* action lets go of, it gives back, and only Claim lends.                 *)
(***************************************************************************)
EXTENDS BoardOrderProofs

(* The runs that work on c, and those that stopped to wait for an answer. *)
WorkingOn(c) == {r \in RunsOf(c) : Working(r)}
Waiting(c) == {r \in asked \cap RunsOf(c) : ~Working(r)}

(* A card that is queued, worked or not yet created is below the limit. *)
BelowLimit(rec) ==
  /\ rec.state \in {"absent", "submitted", "working"} =>
       rec.failures < CIRCUIT_BREAKER_LIMIT
  /\ rec.returns <= MAX_AUTOMATIC_RETURNS

(* One hold at a time.  rec is the row of a card, G its pending reviews, A *)
(* the runs that wait for an answer about it, W the runs that work on it.  *)
HeldRow(rec, G, A, W) ==
  /\ BelowLimit(rec)
  /\ W \subseteq {rec.run}
  /\ rec.state \in {"working", "auth-required"} => rec.run # None
  /\ rec.run # None =>
       /\ rec.state \in {"working", "input-required", "auth-required"}
       /\ rec.deferred = None
       /\ rec.failures < CIRCUIT_BREAKER_LIMIT
  /\ \A g \in G :
       /\ g.stage = rec.stage
       /\ rec.state = "input-required"
       /\ rec.run = None
       /\ rec.deferred = None
       /\ G = {g}
  /\ A # {} =>
       /\ rec.state = "input-required"
       /\ rec.run = None
       /\ rec.deferred = None
       /\ rec.failures < CIRCUIT_BREAKER_LIMIT
       /\ G = {}

Held(c) == HeldRow(card[c], GatesOf(c), Waiting(c), WorkingOn(c))

AllHeld == \A c \in Cards : Held(c)

(* A parked row says why: G are the pending reviews of the card. *)
SaysWhy(rec, G) ==
  rec.state = "input-required" => G # {} \/ rec.deferred # None \/ rec.needs # "none"

ReviewInv ==
  /\ OrderInv
  /\ QuestionsAlive
  /\ ParkedSaysWhy
  /\ ~Interrupts => AllHeld

-----------------------------------------------------------------------------
(* Rows.                                                                   *)

(* Nothing new refers to the row. *)
LEMMA HeldFewer ==
  ASSUME NEW rec, NEW G, NEW A, NEW W, HeldRow(rec, G, A, W),
         NEW H \in SUBSET G, NEW B \in SUBSET A, NEW V \in SUBSET W
  PROVE  HeldRow(rec, H, B, V)
BY DEF HeldRow

(* Nothing refers to a row that owes an advance. *)
LEMMA OwingIdle ==
  ASSUME NEW rec, NEW G, NEW A, NEW W, HeldRow(rec, G, A, W), None \notin W,
         rec.deferred # None
  PROVE  rec.run = None /\ G = {} /\ A = {} /\ W = {}
BY DEF HeldRow

(* Nothing but its run refers to a row a run works on. *)
LEMMA WorkedIdle ==
  ASSUME NEW rec, NEW G, NEW A, NEW W, HeldRow(rec, G, A, W), NEW r \in W, r # None
  PROVE  /\ rec.run = r /\ G = {} /\ A = {} /\ W = {r}
         /\ rec.deferred = None /\ rec.failures < CIRCUIT_BREAKER_LIMIT
BY DEF HeldRow

(* A row to which nothing refers is held when no run holds it. *)
LEMMA IdleHeld ==
  ASSUME NEW rec, rec.run = None, rec.state \notin {"working", "auth-required"},
         BelowLimit(rec)
  PROVE  HeldRow(rec, {}, {}, {})
BY DEF HeldRow

-----------------------------------------------------------------------------
(* The sets that refer to a card.                                          *)

(* The runs of Working and Waiting are ids. *)
LEMMA NotNone ==
  ASSUME NEW c \in Cards
  PROVE  None \notin WorkingOn(c) /\ WorkingOn(c) \subseteq Runs
BY IdAssumption DEF WorkingOn, RunsOf

(* No run begins or ends. *)
LEMMA KeptRuns ==
  ASSUME TypeOK, QuestionsAlive, asked' \subseteq asked,
         \A q \in Runs : /\ run'[q].card = run[q].card
                         /\ run'[q].status = run[q].status
                         /\ run'[q].outcome = run[q].outcome
  PROVE  /\ QuestionsAlive'
         /\ \A d \in Cards : /\ WorkingOn(d)' = WorkingOn(d)
                             /\ Waiting(d)' \subseteq Waiting(d)
<1>1. asked \subseteq Runs
  BY DEF TypeOK
<1>2. QuestionsAlive'
  BY <1>1 DEF QuestionsAlive, Working, RunsOf
<1>3. \A d \in Cards : /\ WorkingOn(d)' = WorkingOn(d)
                       /\ Waiting(d)' \subseteq Waiting(d)
  BY <1>1 DEF WorkingOn, Waiting, Working, RunsOf
<1> QED
  BY <1>2, <1>3

(* Run r ends and takes its question along. *)
LEMMA EndedRun ==
  ASSUME TypeOK, QuestionsAlive, NEW r \in Runs, NEW outcome, EndRun(r, outcome),
         asked' = asked \ {r}
  PROVE  /\ QuestionsAlive'
         /\ \A d \in Cards : /\ WorkingOn(d)' = WorkingOn(d) \ {r}
                             /\ Waiting(d)' \subseteq Waiting(d)
<1>1. asked \subseteq Runs /\ run \in [Runs -> Run]
  BY DEF TypeOK
<1>2. /\ \A q \in Runs : q # r => run'[q] = run[q]
      /\ run'[r].card = run[r].card
      /\ run'[r].status = "ended"
  BY <1>1 DEF EndRun, Run
<1>3. QuestionsAlive'
  BY <1>1, <1>2 DEF QuestionsAlive, Working, RunsOf
<1>4. \A d \in Cards : /\ WorkingOn(d)' = WorkingOn(d) \ {r}
                       /\ Waiting(d)' \subseteq Waiting(d)
  BY <1>1, <1>2 DEF WorkingOn, Waiting, Working, RunsOf
<1> QED
  BY <1>3, <1>4

-----------------------------------------------------------------------------
(* What a cascade does to a card.                                          *)

(* The reviews of card d among gs. *)
Left(d, gs) == {g \in gs : g.card = d}

(* Card d is as it was in the row old, and so are its reviews. *)
Stays(old, d, gs) == card'[d] = old /\ Left(d, gates') = Left(d, gs)

(* Card d lands from the row old: free, its breaker reset, and with a new  *)
(* review of the stage it lands at if it has to wait there.                *)
Lands(old, d, gs) ==
  /\ card'[d].run = None
  /\ card'[d].deferred = None
  /\ card'[d].failures = 0
  /\ card'[d].returns = old.returns
  /\ \/ /\ card'[d].state = "completed"
        /\ Left(d, gates') = Left(d, gs)
     \/ /\ card'[d].state = "submitted"
        /\ card'[d].stage = old.deferred.from + 1
        /\ Left(d, gates') = Left(d, gs)
     \/ /\ card'[d].state = "input-required"
        /\ \E n : n.stage = card'[d].stage /\ Left(d, gates') = Left(d, gs) \cup {n}

(* Each card lands or stays. *)
LEMMA SettleEffect ==
  ASSUME NEW cs \in [Cards -> Card], NEW gs, NEW L, NEW start,
         Settle(cs, gs, L, start), NEW d \in Cards
  PROVE  IF d \in Replayed(cs, L, start)
         THEN cs[d].deferred # None /\ Lands(cs[d], d, gs)
         ELSE Stays(cs[d], d, gs)
<1> DEFINE R == Replayed(cs, L, start)
           reviewed == {x \in R : /\ ~LandsDone(cs[x].deferred.from)
                                  /\ Gated(cs[x].deferred.from + 1)}
           new == {GateFor(cs, x) : x \in reviewed}
<1>1. /\ card'[d] = IF d \in R THEN Landed(cs[d]) ELSE cs[d]
      /\ gates' = gs \cup new
  BY DEF Settle
<1>2. Left(d, gates') = Left(d, gs) \cup (IF d \in reviewed THEN {GateFor(cs, d)} ELSE {})
  <2>1. \A x : GateFor(cs, x).card = x
    BY DEF GateFor
  <2>2. Left(d, new) = IF d \in reviewed THEN {GateFor(cs, d)} ELSE {}
    BY <2>1 DEF Left
  <2>3. Left(d, gs \cup new) = Left(d, gs) \cup Left(d, new)
    BY DEF Left
  <2> HIDE DEF new
  <2> QED
    BY <1>1, <2>2, <2>3
<1>3. CASE d \notin R
  BY <1>1, <1>2, <1>3 DEF Stays
<1>4. CASE d \in R
  <2> DEFINE s == cs[d].deferred.from
             to == IF s = NStages THEN cs[d].stage ELSE s + 1
  <2>1. cs[d].deferred # None
    BY <1>4, ReplayedOwes
  <2>2. cs[d].deferred \in Order /\ cs[d].stage \in Stages
    BY <2>1 DEF Card
  <2>3. s \in Stages /\ to \in Stages
    <3>1. s \in Stages
      BY <2>2 DEF Order
    <3> QED
      BY <2>2, <3>1, NextStage
  <2>4. PICK free \in Card : free = Free(cs[d])
    BY FreeType
  <2>5. free.run = None /\ free.returns = cs[d].returns
    BY <2>4 DEF Free, Card
  <2>6. PICK base \in Card : base = AtStage(free, to)
    BY <2>3, <2>4, AtStageType
  <2>7. base.run = None /\ base.returns = cs[d].returns /\ base.stage = to
    BY <2>3, <2>4, <2>5, <2>6 DEF AtStage, Card
  <2> DEFINE st == IF LandsDone(s) THEN "completed"
                   ELSE IF Gated(to) THEN "input-required" ELSE "submitted"
  <2>8. card'[d] = [base EXCEPT !.state = st, !.failures = 0, !.deferred = None]
    BY <1>1, <1>4, <2>4, <2>6 DEF Landed
  <2>9. ~LandsDone(s) => to = s + 1
    BY DEF LandsDone
  <2>10. d \in reviewed <=> ~LandsDone(s) /\ Gated(to)
    BY <1>4, <2>9
  <2>11. GateFor(cs, d).stage = s + 1
    BY DEF GateFor
  <2>12. /\ card'[d].state = st /\ card'[d].failures = 0 /\ card'[d].deferred = None
         /\ card'[d].run = None /\ card'[d].returns = cs[d].returns
         /\ card'[d].stage = to
    <3> HIDE DEF st, to
    <3> QED
      BY <2>7, <2>8 DEF Card
  <2> HIDE DEF reviewed
  <2>13. \/ /\ card'[d].state = "completed"
            /\ Left(d, gates') = Left(d, gs)
         \/ /\ card'[d].state = "submitted"
            /\ card'[d].stage = s + 1
            /\ Left(d, gates') = Left(d, gs)
         \/ /\ card'[d].state = "input-required"
            /\ \E n : n.stage = card'[d].stage /\ Left(d, gates') = Left(d, gs) \cup {n}
    <3>1. CASE LandsDone(s)
      BY <1>2, <2>10, <2>12, <3>1
    <3>2. CASE ~LandsDone(s) /\ Gated(to)
      BY <1>2, <2>9, <2>10, <2>11, <2>12, <3>2
    <3>3. CASE ~LandsDone(s) /\ ~Gated(to)
      BY <1>2, <2>9, <2>10, <2>12, <3>3
    <3> QED
      BY <3>1, <3>2, <3>3
  <2> QED
    BY <1>4, <2>1, <2>12, <2>13 DEF Lands
<1> QED
  BY <1>3, <1>4

(* advanceCard defers the advance of its card or lands it, and lands or    *)
(* leaves alone every other.                                               *)
LEMMA AdvanceEffect ==
  ASSUME card \in [Cards -> Card], NEW c \in Cards, NEW gs,
         NEW order \in Order, Advance(c, gs, order)
  PROVE  /\ \A d \in Cards \ {c} : \/ Stays(card[d], d, gs)
                                   \/ card[d].deferred # None /\ Lands(card[d], d, gs)
         /\ \/ /\ card'[c].state = "input-required"
               /\ card'[c].run = None
               /\ card'[c].deferred # None
               /\ card'[c].returns = card[c].returns
               /\ Left(c, gates') = Left(c, gs)
            \/ Lands([card[c] EXCEPT !.deferred = order], c, gs)
<1> DEFINE owing == [card EXCEPT ![c].deferred = order]
<1>1. PICK rec \in Card : rec = card[c]
  OBVIOUS
<1>2. /\ owing \in [Cards -> Card]
      /\ \A d \in Cards : d # c => owing[d] = card[d]
      /\ \A d \in Cards : owing[d].state = card[d].state
      /\ owing[c] = [card[c] EXCEPT !.deferred = order]
      /\ owing[c].deferred = order
      /\ owing[c].returns = card[c].returns
  BY <1>1 DEF Card
<1>3. order # None
  BY IdAssumption
<1>4. CASE OpenChildren(card, links, c) # {}
  <2>1. /\ card' = [owing EXCEPT ![c] = [Free(owing[c]) EXCEPT !.state = "input-required"]]
        /\ gates' = gs
    BY <1>4 DEF Advance
  <2>2. PICK free \in Card : free = Free(owing[c])
    BY <1>2, FreeType
  <2>3. free.run = None /\ free.deferred = order /\ free.returns = card[c].returns
    <3>1. PICK o \in Card : o = owing[c]
      BY <1>2
    <3>2. o.deferred = order /\ o.returns = card[c].returns
      BY <1>2, <3>1
    <3> QED
      BY <2>2, <3>1, <3>2 DEF Free, Card
  <2> DEFINE row == [free EXCEPT !.state = "input-required"]
  <2>4. /\ row.state = "input-required" /\ row.run = None /\ row.deferred = order
        /\ row.returns = card[c].returns
    BY <2>3 DEF Card
  <2>5. card' = [owing EXCEPT ![c] = row]
    BY <2>1, <2>2
  <2> HIDE DEF owing, row
  <2>6. card'[c] = row /\ \A d \in Cards \ {c} : card'[d] = card[d]
    BY <1>2, <2>5
  <2> QED
    BY <1>3, <2>1, <2>4, <2>6 DEF Stays
<1>5. CASE OpenChildren(card, links, c) = {}
  <2>1. Settle(owing, gs, links, {c})
    BY <1>5 DEF Advance
  <2>2. OpenChildren(owing, links, c) = {}
    BY <1>2, <1>5 DEF OpenChildren
  <2> HIDE DEF owing
  <2>3. c \in Replayed(owing, links, {c})
    <3>1. \A S \in SUBSET Cards : c \in Replayable(owing, links, {c}, S)
      BY <1>2, <1>3, <2>2 DEF Replayable
    <3> QED
      BY <3>1 DEF Replayed
  <2>4. Lands([card[c] EXCEPT !.deferred = order], c, gs)
    <3>1. Lands(owing[c], c, gs)
      BY <1>2, <2>1, <2>3, SettleEffect
    <3> QED
      BY <1>2, <3>1
  <2>5. ASSUME NEW d \in Cards \ {c}
        PROVE  \/ Stays(card[d], d, gs)
               \/ card[d].deferred # None /\ Lands(card[d], d, gs)
    <3>1. \/ Stays(owing[d], d, gs)
          \/ owing[d].deferred # None /\ Lands(owing[d], d, gs)
      BY <1>2, <2>1, SettleEffect
    <3>2. owing[d] = card[d]
      BY <1>2
    <3> QED
      BY <3>1, <3>2
  <2> QED
    BY <2>4, <2>5
<1> QED
  BY <1>4, <1>5

-----------------------------------------------------------------------------
(* From the effect on each card to the invariant.                          *)

(* A card that lands is held by its review or by nothing. *)
LEMMA LandsHeld ==
  ASSUME NEW d \in Cards, NEW old, NEW gs, Lands(old, d, gs), Left(d, gs) = {},
         old.returns <= MAX_AUTOMATIC_RETURNS,
         Waiting(d)' = {}, WorkingOn(d)' = {}
  PROVE  Held(d)'
<1>1. 0 < CIRCUIT_BREAKER_LIMIT
  BY LimitAssumption
<1>2. BelowLimit(card'[d])
  BY <1>1 DEF Lands, BelowLimit
<1>3. HeldRow(card'[d], Left(d, gates'), {}, {})
  BY <1>2 DEF Lands, HeldRow
<1> QED
  BY <1>3 DEF Held, GatesOf, Left

(* A card that nobody touched, or that a cascade landed. *)
LEMMA CascadeHeld ==
  ASSUME NEW d \in Cards, Held(d), NEW gs, Left(d, gs) \subseteq Left(d, gates),
         \/ Stays(card[d], d, gs)
         \/ card[d].deferred # None /\ Lands(card[d], d, gs),
         Waiting(d)' \subseteq Waiting(d), WorkingOn(d)' \subseteq WorkingOn(d)
  PROVE  Held(d)'
<1>1. HeldRow(card[d], Left(d, gates), Waiting(d), WorkingOn(d))
  BY DEF Held, GatesOf, Left
<1>2. Held(d)' <=> HeldRow(card'[d], Left(d, gates'), Waiting(d)', WorkingOn(d)')
  BY DEF Held, GatesOf, Left
<1>3. CASE Stays(card[d], d, gs)
  <2>1. HeldRow(card[d], Left(d, gs), Waiting(d)', WorkingOn(d)')
    BY <1>1, HeldFewer
  <2> QED
    BY <1>2, <1>3, <2>1 DEF Stays
<1>4. CASE card[d].deferred # None /\ Lands(card[d], d, gs)
  <2>1. /\ Left(d, gates) = {} /\ Waiting(d) = {} /\ WorkingOn(d) = {}
        /\ card[d].returns <= MAX_AUTOMATIC_RETURNS
    <3>1. card[d].returns <= MAX_AUTOMATIC_RETURNS
      BY <1>1 DEF HeldRow, BelowLimit
    <3> QED
      BY <1>1, <1>4, <3>1, NotNone, OwingIdle
  <2>2. Left(d, gs) = {} /\ Waiting(d)' = {} /\ WorkingOn(d)' = {}
    BY <2>1
  <2> QED
    BY <1>4, <2>1, <2>2, LandsHeld
<1> QED
  BY <1>3, <1>4

(* A step about card c: what it does to c, and a cascade elsewhere. *)
LEMMA OneCard ==
  ASSUME ParkedSaysWhy, ~Interrupts => AllHeld, NEW c \in Cards, NEW gs,
         \A d \in Cards \ {c} : /\ \/ Stays(card[d], d, gs)
                                   \/ card[d].deferred # None /\ Lands(card[d], d, gs)
                                /\ Left(d, gs) = Left(d, gates)
                                /\ Waiting(d)' \subseteq Waiting(d)
                                /\ WorkingOn(d)' \subseteq WorkingOn(d),
         SaysWhy(card'[c], Left(c, gates')), ~Interrupts => Held(c)'
  PROVE  ParkedSaysWhy' /\ (~Interrupts => AllHeld')
<1>1. ASSUME NEW d \in Cards \ {c}
      PROVE  SaysWhy(card'[d], Left(d, gates')) /\ (~Interrupts => Held(d)')
  <2>1. SaysWhy(card'[d], Left(d, gates'))
    <3>1. SaysWhy(card[d], Left(d, gates))
      BY DEF ParkedSaysWhy, SaysWhy, GatesOf, Left
    <3>2. CASE Stays(card[d], d, gs)
      BY <3>1, <3>2 DEF Stays
    <3>3. CASE Lands(card[d], d, gs)
      BY <3>3 DEF Lands, SaysWhy
    <3> QED
      BY <3>2, <3>3
  <2>2. ~Interrupts => Held(d)'
    <3> SUFFICES ASSUME ~Interrupts PROVE Held(d)'
      OBVIOUS
    <3>1. Held(d) /\ d \in Cards
      BY DEF AllHeld
    <3> QED
      BY <3>1, CascadeHeld
  <2> QED
    BY <2>1, <2>2
<1>2. \A d \in Cards : SaysWhy(card'[d], Left(d, gates')) /\ (~Interrupts => Held(d)')
  BY <1>1
<1>3. ParkedSaysWhy'
  BY <1>2 DEF ParkedSaysWhy, SaysWhy, GatesOf, Left
<1> QED
  BY <1>2, <1>3 DEF AllHeld

(* The same when the step writes the row of c alone. *)
LEMMA OneRowReview ==
  ASSUME TypeOK, ParkedSaysWhy, ~Interrupts => AllHeld, NEW c \in Cards, NEW row,
         card' = [card EXCEPT ![c] = row],
         \A d \in Cards \ {c} : /\ Left(d, gates') = Left(d, gates)
                                /\ Waiting(d)' \subseteq Waiting(d)
                                /\ WorkingOn(d)' \subseteq WorkingOn(d),
         SaysWhy(row, Left(c, gates')),
         ~Interrupts => HeldRow(row, Left(c, gates'), Waiting(c)', WorkingOn(c)')
  PROVE  ParkedSaysWhy' /\ (~Interrupts => AllHeld')
<1>1. card'[c] = row /\ \A d \in Cards \ {c} : card'[d] = card[d]
  BY DEF TypeOK
<1>2. \A d \in Cards \ {c} : Stays(card[d], d, gates')
  BY <1>1 DEF Stays
<1>3. ~Interrupts => Held(c)'
  BY <1>1 DEF Held, GatesOf, Left
<1> QED
  BY <1>1, <1>2, <1>3, OneCard

-----------------------------------------------------------------------------
(* What the handlers write in a row.                                       *)

(* The columns that decide where a queued, parked or moved card stands. *)
LEMMA QueueRow ==
  ASSUME NEW rec \in Card
  PROVE  LET new == Queue(rec) IN
         /\ new.run = None /\ new.state = "submitted" /\ new.stage = rec.stage
         /\ new.failures = rec.failures /\ new.returns = rec.returns
         /\ new.deferred = rec.deferred /\ new.needs = rec.needs
BY DEF Queue, Free, Card

LEMMA ParkRow ==
  ASSUME NEW rec \in Card, NEW why
  PROVE  LET new == Park(rec, why) IN
         /\ new.run = None /\ new.state = "input-required" /\ new.stage = rec.stage
         /\ new.failures = rec.failures /\ new.returns = rec.returns
         /\ new.deferred = rec.deferred /\ new.needs = why
BY DEF Park, Free, Card

LEMMA AtStageRow ==
  ASSUME NEW rec \in Card, NEW s
  PROVE  LET new == AtStage(rec, s) IN
         /\ new.run = rec.run /\ new.state = rec.state /\ new.stage = s
         /\ new.failures = rec.failures /\ new.returns = rec.returns
         /\ new.deferred = rec.deferred /\ new.needs = rec.needs
BY DEF AtStage, Card

(* The row left by an attempt that ended with f failures in all: queued    *)
(* below the limit, or parked for a reason.                                *)
Attempted(rec, new, f) ==
  /\ new.run = None
  /\ new.stage = rec.stage
  /\ new.failures = f
  /\ new.returns = rec.returns
  /\ \/ new.state = "submitted" /\ f < CIRCUIT_BREAKER_LIMIT
     \/ new.state = "input-required" /\ new.needs # "none"

(* endAttempt leaves such a row (circuit breaker). *)
LEMMA FailedAttemptRow ==
  ASSUME NEW rec \in Card, NEW n \in Nat, n # 0
  PROVE  Attempted(rec, FailedAttempt(rec, n), rec.failures + n)
<1> DEFINE f == rec.failures + n
<1>1. f \in Nat /\ CIRCUIT_BREAKER_LIMIT \in Nat
  BY LimitAssumption DEF Card
<1>2. CASE f >= CIRCUIT_BREAKER_LIMIT
  <2>1. PICK base \in Card : base = Park(rec, "repeated-failure")
    BY ParkType DEF Needs
  <2>2. FailedAttempt(rec, n) = [base EXCEPT !.failures = f]
    BY <1>2, <2>1 DEF FailedAttempt
  <2>3. /\ base.run = None /\ base.state = "input-required" /\ base.stage = rec.stage
        /\ base.returns = rec.returns /\ base.needs = "repeated-failure"
    BY <2>1, ParkRow
  <2> QED
    BY <2>2, <2>3 DEF Attempted, Card
<1>3. CASE ~(f >= CIRCUIT_BREAKER_LIMIT)
  <2>1. PICK base \in Card : base = Queue(rec)
    BY QueueType
  <2>2. FailedAttempt(rec, n) = [base EXCEPT !.failures = f, !.needs = "none"]
    BY <1>3, <2>1 DEF FailedAttempt
  <2>3. /\ base.run = None /\ base.state = "submitted" /\ base.stage = rec.stage
        /\ base.returns = rec.returns
    BY <2>1, QueueRow
  <2>4. f < CIRCUIT_BREAKER_LIMIT
    BY <1>1, <1>3
  <2> QED
    BY <2>2, <2>3, <2>4 DEF Attempted, Card
<1> QED
  BY <1>2, <1>3

(* reworkOrPark too. *)
LEMMA ReworkOrParkRow ==
  ASSUME NEW rec \in Card
  PROVE  Attempted(rec, ReworkOrPark(rec), rec.failures + 1)
<1> DEFINE f == rec.failures + 1
           base == IF rec.rework THEN Park(rec, "blocked")
                   ELSE IF f >= CIRCUIT_BREAKER_LIMIT THEN Park(rec, "repeated-failure")
                   ELSE [Queue(rec) EXCEPT !.needs = "none", !.rework = TRUE]
<1>1. f \in Nat /\ CIRCUIT_BREAKER_LIMIT \in Nat
  BY LimitAssumption DEF Card
<1>2. ReworkOrPark(rec) = [base EXCEPT !.failures = f]
  BY DEF ReworkOrPark
<1>3. CASE rec.rework \/ f >= CIRCUIT_BREAKER_LIMIT
  <2>1. PICK why \in {"blocked", "repeated-failure"} : base = Park(rec, why)
    BY <1>3
  <2>2. PICK b \in Card : b = Park(rec, why)
    BY ParkType DEF Needs
  <2>3. /\ b.run = None /\ b.state = "input-required" /\ b.stage = rec.stage
        /\ b.returns = rec.returns /\ b.needs = why
    BY <2>2, ParkRow
  <2>4. ReworkOrPark(rec) = [b EXCEPT !.failures = f]
    BY <1>2, <2>1, <2>2
  <2> QED
    BY <2>3, <2>4 DEF Attempted, Card
<1>4. CASE ~(rec.rework \/ f >= CIRCUIT_BREAKER_LIMIT)
  <2>1. PICK b \in Card : b = Queue(rec)
    BY QueueType
  <2>2. ReworkOrPark(rec) = [b EXCEPT !.needs = "none", !.rework = TRUE, !.failures = f]
    BY <1>2, <1>4, <2>1
  <2>3. /\ b.run = None /\ b.state = "submitted" /\ b.stage = rec.stage
        /\ b.returns = rec.returns
    BY <2>1, QueueRow
  <2>4. f < CIRCUIT_BREAKER_LIMIT
    BY <1>1, <1>4
  <2> QED
    BY <2>2, <2>3, <2>4 DEF Attempted, Card
<1> QED
  BY <1>3, <1>4

-----------------------------------------------------------------------------
(* What people do.                                                         *)

(* A new card, or the children of a split, is held by nothing. *)
LEMMA NewReview ==
  ASSUME ReviewInv, NEW kids \in SUBSET Cards, \A k \in kids : card[k].state = "absent",
         \A d \in Cards :
           IF d \in kids
           THEN /\ card'[d].state = "submitted" /\ card'[d].run = card[d].run
                /\ card'[d].failures = card[d].failures /\ card'[d].returns = card[d].returns
           ELSE card'[d] = card[d],
         UNCHANGED <<run, gates, asked>>
  PROVE  QuestionsAlive' /\ ParkedSaysWhy' /\ (~Interrupts => AllHeld')
<1>1. TypeOK /\ LeaseOK
  BY DEF ReviewInv, OrderInv, IInv
<1>2. /\ QuestionsAlive'
      /\ \A d \in Cards : Waiting(d)' = Waiting(d) /\ WorkingOn(d)' = WorkingOn(d)
  BY DEF ReviewInv, QuestionsAlive, Waiting, WorkingOn, Working, RunsOf
<1>3. ParkedSaysWhy'
  BY DEF ReviewInv, ParkedSaysWhy, GatesOf
<1>4. ASSUME ~Interrupts, NEW d \in Cards
      PROVE  Held(d)'
  <2>1. HeldRow(card[d], Left(d, gates), Waiting(d), WorkingOn(d))
    BY <1>4 DEF ReviewInv, AllHeld, Held, GatesOf, Left
  <2>2. HeldRow(card'[d], Left(d, gates), Waiting(d), WorkingOn(d))
    <3>1. CASE d \notin kids
      BY <2>1, <3>1
    <3>2. CASE d \in kids
      <4>1. card[d].run = None
        BY <1>1, <3>2 DEF LeaseOK, Exists
      <4>2. Left(d, gates) = {} /\ Waiting(d) = {} /\ WorkingOn(d) = {}
        BY <2>1, <3>2, <4>1, NotNone DEF HeldRow
      <4>3. BelowLimit(card'[d])
        BY <2>1, <3>2 DEF HeldRow, BelowLimit
      <4> QED
        BY <3>2, <4>1, <4>2, <4>3, IdleHeld
    <3> QED
      BY <3>1, <3>2
  <2> QED
    BY <1>2, <2>2 DEF Held, GatesOf, Left
<1> QED
  BY <1>2, <1>3, <1>4 DEF AllHeld

(* A step that leaves the cards, their reviews and their runs as they are. *)
LEMMA StillReview ==
  ASSUME ReviewInv, card' = card, gates' = gates, asked' = asked,
         \A q \in Runs : /\ run'[q].card = run[q].card
                         /\ run'[q].status = run[q].status
                         /\ run'[q].outcome = run[q].outcome
  PROVE  QuestionsAlive' /\ ParkedSaysWhy' /\ (~Interrupts => AllHeld')
<1>1. TypeOK /\ QuestionsAlive
  BY DEF ReviewInv, OrderInv, IInv
<1>2. /\ QuestionsAlive'
      /\ \A d \in Cards : Waiting(d)' \subseteq Waiting(d) /\ WorkingOn(d)' = WorkingOn(d)
  BY <1>1, KeptRuns
<1>3. ParkedSaysWhy'
  BY DEF ReviewInv, ParkedSaysWhy, GatesOf
<1>4. ASSUME ~Interrupts, NEW d \in Cards
      PROVE  Held(d)'
  <2>1. Held(d)
    BY <1>4 DEF ReviewInv, AllHeld
  <2>2. HeldRow(card[d], GatesOf(d), Waiting(d)', WorkingOn(d)')
    BY <1>2, <2>1, HeldFewer DEF Held
  <2> QED
    BY <2>2 DEF Held, GatesOf
<1> QED
  BY <1>2, <1>3, <1>4 DEF AllHeld

(* createCard and splitCard. *)
LEMMA CreateReview ==
  ASSUME ReviewInv,
         \/ \E c \in Cards, s \in Stages : CreateCard(c, s)
         \/ \E p \in Cards, kids \in SUBSET Cards : Split(p, kids)
  PROVE  QuestionsAlive' /\ ParkedSaysWhy' /\ (~Interrupts => AllHeld')
<1>1. card \in [Cards -> Card]
  BY DEF ReviewInv, OrderInv, IInv, TypeOK
<1>2. ASSUME NEW c \in Cards, NEW s \in Stages, CreateCard(c, s)
      PROVE  QuestionsAlive' /\ ParkedSaysWhy' /\ (~Interrupts => AllHeld')
  <2>1. PICK rec \in Card : rec = card[c]
    BY <1>1
  <2> DEFINE row == [rec EXCEPT !.state = "submitted", !.stage = s]
  <2>2. card' = [card EXCEPT ![c] = row]
    BY <1>1, <1>2, <2>1 DEF CreateCard
  <2>3. /\ row.state = "submitted" /\ row.run = rec.run
        /\ row.failures = rec.failures /\ row.returns = rec.returns
    BY DEF Card
  <2> HIDE DEF row
  <2> DEFINE kids == {c}
  <2>4. \A d \in Cards :
          IF d \in kids
          THEN /\ card'[d].state = "submitted" /\ card'[d].run = card[d].run
               /\ card'[d].failures = card[d].failures /\ card'[d].returns = card[d].returns
          ELSE card'[d] = card[d]
    BY <1>1, <2>1, <2>2, <2>3
  <2>5. /\ kids \in SUBSET Cards /\ \A k \in kids : card[k].state = "absent"
        /\ UNCHANGED <<run, gates, asked>>
    BY <1>2 DEF CreateCard
  <2> HIDE DEF kids
  <2> QED
    BY <2>4, <2>5, NewReview
<1>3. ASSUME NEW p \in Cards, NEW kids \in SUBSET Cards, Split(p, kids)
      PROVE  QuestionsAlive' /\ ParkedSaysWhy' /\ (~Interrupts => AllHeld')
  <2>1. ASSUME NEW d \in Cards
        PROVE  IF d \in kids
               THEN /\ card'[d].state = "submitted" /\ card'[d].run = card[d].run
                    /\ card'[d].failures = card[d].failures /\ card'[d].returns = card[d].returns
               ELSE card'[d] = card[d]
    <3>1. PICK rec \in Card : rec = card[d]
      BY <1>1
    <3>2. card'[d] = IF d \in kids THEN [rec EXCEPT !.state = "submitted"] ELSE rec
      BY <1>3, <3>1 DEF Split
    <3> QED
      BY <3>1, <3>2 DEF Card
  <2>2. (\A k \in kids : card[k].state = "absent") /\ UNCHANGED <<run, gates, asked>>
    BY <1>3 DEF Split
  <2> QED
    BY <2>1, <2>2, NewReview
<1> QED
  BY <1>2, <1>3

(* A step of a person that ends the reviews and the questions of card c or *)
(* finds none, while no run works on it.                                   *)
LEMMA PersonIdle ==
  ASSUME ReviewInv, NEW c \in Cards, run' = run,
         asked' \subseteq asked, asked' \cap RunsOf(c) = {},
         Interrupts \/ WorkingOn(c) = {}
  PROVE  /\ QuestionsAlive'
         /\ \A d \in Cards : /\ Waiting(d)' \subseteq Waiting(d)
                             /\ WorkingOn(d)' \subseteq WorkingOn(d)
         /\ Waiting(c)' = {}
         /\ ~Interrupts => WorkingOn(c)' = {}
<1>1. TypeOK /\ QuestionsAlive
  BY DEF ReviewInv, OrderInv, IInv
<1>2. /\ QuestionsAlive'
      /\ \A d \in Cards : Waiting(d)' \subseteq Waiting(d) /\ WorkingOn(d)' = WorkingOn(d)
  BY <1>1, KeptRuns
<1>3. Waiting(c)' = {}
  BY DEF Waiting, RunsOf
<1> QED
  BY <1>2, <1>3

(* moveCard. *)
LEMMA MoveReview ==
  ASSUME ReviewInv, NEW c \in Cards, NEW s \in Stages, MoveCard(c, s)
  PROVE  QuestionsAlive' /\ ParkedSaysWhy' /\ (~Interrupts => AllHeld')
<1>1. /\ card \in [Cards -> Card] /\ TypeOK /\ ParkedSaysWhy /\ (~Interrupts => AllHeld)
      /\ CIRCUIT_BREAKER_LIMIT \in Nat \ {0} /\ MAX_AUTOMATIC_RETURNS \in Nat
  BY LimitAssumption DEF ReviewInv, OrderInv, IInv, TypeOK
<1>2. PICK rec \in Card : rec = card[c]
  BY <1>1
<1>3. PICK q \in Card : q = Queue(rec)
  BY QueueType
<1>4. PICK base \in Card : base = AtStage(q, s)
  BY AtStageType
<1>5. /\ base.run = None /\ base.state = "submitted" /\ base.returns = rec.returns
      /\ base.deferred = rec.deferred
  BY <1>3, <1>4, QueueRow, AtStageRow
<1>6. rec.deferred = None
  BY <1>2 DEF MoveCard, ReviewInv, OrderInv, Owing, DeferredHeld
<1> DEFINE moved == [base EXCEPT !.needs = "none", !.failures = 0]
           done == [moved EXCEPT !.state = "completed"]
           queued == [moved EXCEPT !.returns = 0]
<1>7. /\ done \in Card /\ done.run = None /\ done.state = "completed"
      /\ done.returns = rec.returns /\ done.deferred = None
  BY <1>5, <1>6 DEF Card, CardStates, Needs
<1>8. /\ queued.run = None /\ queued.state = "submitted"
      /\ queued.failures = 0 /\ queued.returns = 0
  BY <1>5 DEF Card
<1>9. /\ run' = run /\ asked' = asked \ RunsOf(c)
      /\ \/ Settle([card EXCEPT ![c] = done], GatesLeft(c), links, ParentsOf(links, c))
         \/ card' = [card EXCEPT ![c] = queued] /\ gates' = GatesLeft(c)
  BY <1>2, <1>3, <1>4 DEF MoveCard
<1> HIDE DEF done, queued
<1>10. /\ QuestionsAlive'
       /\ \A d \in Cards : /\ Waiting(d)' \subseteq Waiting(d)
                           /\ WorkingOn(d)' \subseteq WorkingOn(d)
       /\ Waiting(c)' = {}
       /\ ~Interrupts => WorkingOn(c)' = {}
  <2>1. Interrupts \/ WorkingOn(c) = {}
    BY DEF MoveCard, Undisturbed, WorkingOn
  <2>2. asked' \subseteq asked /\ asked' \cap RunsOf(c) = {}
    BY <1>9
  <2> QED
    BY <1>9, <2>1, <2>2, PersonIdle
<1>11. /\ Left(c, GatesLeft(c)) = {}
       /\ \A d \in Cards \ {c} : Left(d, GatesLeft(c)) = Left(d, gates)
  BY DEF Left, GatesLeft, GatesOf
<1>12. ~Interrupts => rec.returns <= MAX_AUTOMATIC_RETURNS
  BY <1>1, <1>2 DEF AllHeld, Held, HeldRow, BelowLimit
<1>13. CASE card' = [card EXCEPT ![c] = queued] /\ gates' = GatesLeft(c)
  <2>1. SaysWhy(queued, {})
    BY <1>8 DEF SaysWhy
  <2>2. BelowLimit(queued)
    BY <1>1, <1>8 DEF BelowLimit
  <2>3. HeldRow(queued, {}, {}, {})
    BY <1>8, <2>2, IdleHeld
  <2>4. /\ \A d \in Cards \ {c} : /\ Left(d, gates') = Left(d, gates)
                                  /\ Waiting(d)' \subseteq Waiting(d)
                                  /\ WorkingOn(d)' \subseteq WorkingOn(d)
        /\ SaysWhy(queued, Left(c, gates'))
        /\ ~Interrupts => HeldRow(queued, Left(c, gates'), Waiting(c)', WorkingOn(c)')
    BY <1>10, <1>11, <1>13, <2>1, <2>3
  <2> QED
    BY <1>1, <1>10, <1>13, <2>4, OneRowReview
<1>14. CASE Settle([card EXCEPT ![c] = done], GatesLeft(c), links, ParentsOf(links, c))
  <2> DEFINE cs == [card EXCEPT ![c] = done]
             gs == GatesLeft(c)
             start == ParentsOf(links, c)
  <2>1. cs \in [Cards -> Card] /\ cs[c] = done /\ \A d \in Cards \ {c} : cs[d] = card[d]
    BY <1>1, <1>7
  <2>2. Settle(cs, gs, links, start)
    BY <1>14
  <2> HIDE DEF cs, gs, start
  <2>3. ASSUME NEW d \in Cards \ {c}
        PROVE  \/ Stays(card[d], d, gs)
               \/ card[d].deferred # None /\ Lands(card[d], d, gs)
    <3>1. \/ Stays(cs[d], d, gs)
          \/ cs[d].deferred # None /\ Lands(cs[d], d, gs)
      BY <2>1, <2>2, SettleEffect
    <3>2. cs[d] = card[d]
      BY <2>1
    <3> QED
      BY <3>1, <3>2
  <2>4. Stays(cs[c], c, gs)
    <3>1. cs[c].deferred = None
      BY <1>7, <2>1
    <3> QED
      BY <2>1, <2>2, <3>1, SettleEffect
  <2>5. card'[c] = done /\ Left(c, gates') = {}
    BY <1>11, <2>1, <2>4 DEF Stays, gs
  <2>6. SaysWhy(card'[c], Left(c, gates'))
    BY <1>7, <2>5 DEF SaysWhy
  <2>7. ~Interrupts => Held(c)'
    <3> SUFFICES ASSUME ~Interrupts PROVE Held(c)'
      OBVIOUS
    <3>1. BelowLimit(done)
      BY <1>7, <1>12 DEF BelowLimit
    <3>2. HeldRow(done, {}, {}, {})
      BY <1>7, <3>1, IdleHeld
    <3> QED
      BY <1>10, <2>5, <3>2 DEF Held, GatesOf, Left
  <2>8. \A d \in Cards \ {c} : Left(d, gs) = Left(d, gates)
    BY <1>11 DEF gs
  <2> QED
    BY <1>1, <1>10, <2>3, <2>6, <2>7, <2>8, OneCard
<1> QED
  BY <1>9, <1>13, <1>14

(* resumeCard finds neither review nor question. *)
LEMMA ResumeReview ==
  ASSUME ReviewInv, NEW c \in Cards, NEW s \in Stages, ResumeCard(c, s)
  PROVE  QuestionsAlive' /\ ParkedSaysWhy' /\ (~Interrupts => AllHeld')
<1>1. /\ card \in [Cards -> Card] /\ TypeOK /\ ParkedSaysWhy /\ (~Interrupts => AllHeld)
      /\ CIRCUIT_BREAKER_LIMIT \in Nat \ {0} /\ MAX_AUTOMATIC_RETURNS \in Nat
  BY LimitAssumption DEF ReviewInv, OrderInv, IInv, TypeOK
<1>2. PICK rec \in Card : rec = card[c]
  BY <1>1
<1>3. PICK q \in Card : q = Queue(rec)
  BY QueueType
<1>4. PICK base \in Card : base = AtStage(q, s)
  BY AtStageType
<1>5. base.run = None /\ base.state = "submitted"
  BY <1>3, <1>4, QueueRow, AtStageRow
<1> DEFINE row == [base EXCEPT !.failures = 0, !.needs = "none", !.rework = FALSE,
                     !.deferred = None, !.returns = 0]
<1>6. row.run = None /\ row.state = "submitted" /\ row.failures = 0 /\ row.returns = 0
  BY <1>5 DEF Card
<1>7. /\ card' = [card EXCEPT ![c] = row] /\ gates' = gates
      /\ run' = run /\ asked' = asked /\ asked' \cap RunsOf(c) = {}
      /\ Left(c, gates') = {} /\ (Interrupts \/ WorkingOn(c) = {})
  BY <1>2, <1>3, <1>4 DEF ResumeCard, Left, GatesOf, Undisturbed, WorkingOn
<1> HIDE DEF row
<1>8. /\ QuestionsAlive'
      /\ \A d \in Cards : /\ Waiting(d)' \subseteq Waiting(d)
                          /\ WorkingOn(d)' \subseteq WorkingOn(d)
      /\ Waiting(c)' = {}
      /\ ~Interrupts => WorkingOn(c)' = {}
  BY <1>7, PersonIdle
<1>9. SaysWhy(row, {}) /\ HeldRow(row, {}, {}, {})
  <2>1. BelowLimit(row)
    BY <1>1, <1>6 DEF BelowLimit
  <2> QED
    BY <1>6, <2>1, IdleHeld DEF SaysWhy
<1>10. /\ \A d \in Cards \ {c} : /\ Left(d, gates') = Left(d, gates)
                                 /\ Waiting(d)' \subseteq Waiting(d)
                                 /\ WorkingOn(d)' \subseteq WorkingOn(d)
       /\ SaysWhy(row, Left(c, gates'))
       /\ ~Interrupts => HeldRow(row, Left(c, gates'), Waiting(c)', WorkingOn(c)')
  BY <1>7, <1>8, <1>9
<1> QED
  BY <1>1, <1>7, <1>8, <1>10, OneRowReview

(* Archiving a card ends what people were asked about it, and says so; its *)
(* run goes on.                                                            *)
LEMMA ArchiveReview ==
  ASSUME ReviewInv, NEW c \in Cards, Archive(c) \/ Unarchive(c)
  PROVE  QuestionsAlive' /\ ParkedSaysWhy' /\ (~Interrupts => AllHeld')
<1>1. /\ card \in [Cards -> Card] /\ TypeOK /\ ParkedSaysWhy /\ (~Interrupts => AllHeld)
      /\ QuestionsAlive
  BY DEF ReviewInv, OrderInv, IInv, TypeOK
<1>2. PICK rec \in Card : rec = card[c]
  BY <1>1
<1> DEFINE ended == GatesOf(c) # {} \/ asked \cap RunsOf(c) # {}
           why == IF ended /\ rec.state = "input-required" THEN "blocked" ELSE rec.needs
<1>3. \/ /\ Archive(c)
         /\ card' = [card EXCEPT ![c] = [rec EXCEPT !.archived = TRUE, !.needs = why]]
         /\ gates' = GatesLeft(c)
      \/ /\ Unarchive(c)
         /\ card' = [card EXCEPT ![c] = [rec EXCEPT !.archived = FALSE]]
         /\ gates' = gates
  BY <1>1, <1>2 DEF Archive, Unarchive, Card
<1>4. PICK row : /\ card' = [card EXCEPT ![c] = row]
                 /\ row.run = rec.run /\ row.state = rec.state /\ row.stage = rec.stage
                 /\ row.failures = rec.failures /\ row.returns = rec.returns
                 /\ row.deferred = rec.deferred
                 /\ row.needs = IF Archive(c) THEN why ELSE rec.needs
  <2>1. CASE Archive(c) /\ card' = [card EXCEPT ![c] = [rec EXCEPT !.archived = TRUE, !.needs = why]]
    <3> DEFINE row == [rec EXCEPT !.archived = TRUE, !.needs = why]
    <3> HIDE DEF why
    <3>1. /\ row.run = rec.run /\ row.state = rec.state /\ row.stage = rec.stage
          /\ row.failures = rec.failures /\ row.returns = rec.returns
          /\ row.deferred = rec.deferred /\ row.needs = why
      BY DEF Card
    <3> QED
      BY <2>1, <3>1
  <2>2. CASE ~Archive(c) /\ card' = [card EXCEPT ![c] = [rec EXCEPT !.archived = FALSE]]
    <3> DEFINE row == [rec EXCEPT !.archived = FALSE]
    <3>1. /\ row.run = rec.run /\ row.state = rec.state /\ row.stage = rec.stage
          /\ row.failures = rec.failures /\ row.returns = rec.returns
          /\ row.deferred = rec.deferred /\ row.needs = rec.needs
      BY DEF Card
    <3> QED
      BY <2>2, <3>1
  <2>3. Archive(c) /\ Unarchive(c) => FALSE
    BY <1>1, <1>2, <1>3 DEF Archive, Unarchive, Card
  <2> QED
    BY <1>3, <2>1, <2>2, <2>3
<1>5. /\ run' = run /\ asked' \subseteq asked
      /\ \A d \in Cards \ {c} : Left(d, gates') = Left(d, gates)
      /\ Left(c, gates') = IF Archive(c) THEN {} ELSE Left(c, gates)
  BY <1>3 DEF Archive, Unarchive, Left, GatesLeft, GatesOf
<1>6. /\ QuestionsAlive'
      /\ \A d \in Cards : Waiting(d)' \subseteq Waiting(d) /\ WorkingOn(d)' = WorkingOn(d)
  BY <1>1, <1>5, KeptRuns
<1>7. SaysWhy(row, Left(c, gates'))
  <2>1. SaysWhy(rec, Left(c, gates))
    BY <1>2 DEF ReviewInv, ParkedSaysWhy, SaysWhy, GatesOf, Left
  <2>2. ~ended => Left(c, gates) = {}
    BY DEF GatesOf, Left
  <2> HIDE DEF ended
  <2> QED
    BY <1>4, <1>5, <2>1, <2>2 DEF SaysWhy
<1>8. ~Interrupts => HeldRow(row, Left(c, gates'), Waiting(c)', WorkingOn(c)')
  <2> SUFFICES ASSUME ~Interrupts
               PROVE  HeldRow(row, Left(c, gates'), Waiting(c)', WorkingOn(c)')
    OBVIOUS
  <2>1. HeldRow(rec, Left(c, gates), Waiting(c), WorkingOn(c))
    BY <1>1, <1>2 DEF AllHeld, Held, GatesOf, Left
  <2>2. HeldRow(row, Left(c, gates), Waiting(c), WorkingOn(c))
    BY <1>4, <2>1 DEF HeldRow, BelowLimit
  <2>3. Left(c, gates') \subseteq Left(c, gates)
    BY <1>5
  <2> QED
    BY <1>6, <2>2, <2>3, HeldFewer
<1>9. \A d \in Cards \ {c} : /\ Left(d, gates') = Left(d, gates)
                             /\ Waiting(d)' \subseteq Waiting(d)
                             /\ WorkingOn(d)' \subseteq WorkingOn(d)
  BY <1>5, <1>6
<1> QED
  BY <1>1, <1>4, <1>6, <1>7, <1>8, <1>9, OneRowReview

(* removeLink changes cards by its cascade alone. *)
LEMMA RemoveLinkReview ==
  ASSUME ReviewInv, NEW l \in Link, RemoveLink(l)
  PROVE  QuestionsAlive' /\ ParkedSaysWhy' /\ (~Interrupts => AllHeld')
<1>1. /\ card \in [Cards -> Card] /\ TypeOK /\ ParkedSaysWhy /\ (~Interrupts => AllHeld)
      /\ QuestionsAlive /\ run' = run /\ asked' = asked
  BY DEF ReviewInv, OrderInv, IInv, TypeOK, RemoveLink
<1>2. /\ QuestionsAlive'
      /\ \A d \in Cards : Waiting(d)' \subseteq Waiting(d) /\ WorkingOn(d)' = WorkingOn(d)
  BY <1>1, KeptRuns
<1>3. ASSUME NEW d \in Cards
      PROVE  \/ Stays(card[d], d, gates)
             \/ card[d].deferred # None /\ Lands(card[d], d, gates)
  <2>1. CASE l.kind = "parent"
    <3> DEFINE L == links \ {l}
    <3>1. Settle(card, gates, L, {l.from})
      BY <2>1 DEF RemoveLink
    <3> HIDE DEF L
    <3> QED
      BY <1>1, <3>1, SettleEffect
  <2>2. CASE l.kind # "parent"
    BY <2>2 DEF RemoveLink, Stays
  <2> QED
    BY <2>1, <2>2
<1>4. ASSUME NEW d \in Cards
      PROVE  SaysWhy(card'[d], Left(d, gates')) /\ (~Interrupts => Held(d)')
  <2>1. SaysWhy(card[d], Left(d, gates))
    BY <1>1 DEF ParkedSaysWhy, SaysWhy, GatesOf, Left
  <2>2. SaysWhy(card'[d], Left(d, gates'))
    BY <1>3, <2>1 DEF Stays, Lands, SaysWhy
  <2>3. ~Interrupts => Held(d)'
    BY <1>1, <1>2, <1>3, CascadeHeld DEF AllHeld
  <2> QED
    BY <2>2, <2>3
<1>5. ParkedSaysWhy'
  BY <1>4 DEF ParkedSaysWhy, SaysWhy, GatesOf, Left
<1> QED
  BY <1>2, <1>4, <1>5 DEF AllHeld

(* deleteCard takes the runs, reviews and questions of the card with it. *)
LEMMA DeleteReview ==
  ASSUME ReviewInv, NEW c \in Cards, DeleteCard(c)
  PROVE  QuestionsAlive' /\ ParkedSaysWhy' /\ (~Interrupts => AllHeld')
<1> DEFINE row == [NoCard EXCEPT !.state = "deleted"]
           gone == [NoRun EXCEPT !.status = "deleted"]
           cs == [card EXCEPT ![c] = row]
           gs == GatesLeft(c)
           L == {l \in links : c \notin {l.from, l.to}}
           start == ParentsOf(links, c)
<1>1. /\ card \in [Cards -> Card] /\ asked \subseteq Runs
      /\ ParkedSaysWhy /\ (~Interrupts => AllHeld) /\ QuestionsAlive
      /\ CIRCUIT_BREAKER_LIMIT \in Nat \ {0} /\ MAX_AUTOMATIC_RETURNS \in Nat
  BY LimitAssumption DEF ReviewInv, OrderInv, IInv, TypeOK
<1>2. /\ row \in Card /\ row.state = "deleted" /\ row.run = None /\ row.deferred = None
      /\ row.failures = 0 /\ row.returns = 0
  <2>1. 1 \in Stages
    BY PipelineAssumption DEF Stages
  <2> QED
    BY <2>1 DEF NoCard, Card, CardStates, Needs
<1>3. gone.card = None /\ gone.status = "deleted"
  BY DEF NoRun
<1>4. /\ Settle(cs, gs, L, start)
      /\ run' = [r \in Runs |-> IF r \in RunsOf(c) THEN gone ELSE run[r]]
      /\ asked' = asked \ RunsOf(c)
  BY DEF DeleteCard
<1> HIDE DEF row, gone
<1>5. cs \in [Cards -> Card] /\ cs[c] = row /\ \A d \in Cards \ {c} : cs[d] = card[d]
  BY <1>1, <1>2
<1> HIDE DEF cs, L, start
<1>6. /\ \A d \in Cards \ {c} : Left(d, gs) = Left(d, gates)
      /\ Left(c, gs) = {}
  BY DEF Left, GatesLeft, GatesOf
<1> HIDE DEF gs
<1>7. /\ \A r \in Runs : run[r].card = c => run'[r].card = None /\ run'[r].status = "deleted"
      /\ \A r \in Runs : run[r].card # c => run'[r] = run[r]
      /\ None \notin Cards
  BY <1>3, <1>4, IdAssumption DEF RunsOf
<1>8. QuestionsAlive'
  <2> SUFFICES ASSUME NEW r \in asked'
               PROVE  /\ \/ run'[r].status = "working"
                         \/ run'[r].status = "ended" /\ run'[r].outcome = "blocked"
                      /\ asked' \cap {q \in Runs : run'[q].card = run'[r].card} = {r}
    BY DEF QuestionsAlive, Working, RunsOf
  <2>1. r \in asked /\ r \in Runs /\ run[r].card # c /\ run'[r] = run[r]
    BY <1>1, <1>4, <1>7 DEF RunsOf
  <2>2. /\ Working(r) \/ (run[r].status = "ended" /\ run[r].outcome = "blocked")
        /\ asked \cap RunsOf(run[r].card) = {r}
    BY <1>1, <2>1 DEF QuestionsAlive
  <2>3. \A q \in asked' : q \in asked /\ q \in Runs /\ run'[q] = run[q]
    BY <1>1, <1>4, <1>7 DEF RunsOf
  <2> QED
    BY <2>1, <2>2, <2>3 DEF Working, RunsOf
<1>9. /\ \A d \in Cards \ {c} : /\ Waiting(d)' \subseteq Waiting(d)
                                /\ WorkingOn(d)' \subseteq WorkingOn(d)
      /\ Waiting(c)' = {} /\ WorkingOn(c)' = {}
  BY <1>4, <1>7 DEF Waiting, WorkingOn, Working, RunsOf
<1>10. ASSUME NEW d \in Cards \ {c}
       PROVE  \/ Stays(card[d], d, gs)
              \/ card[d].deferred # None /\ Lands(card[d], d, gs)
  <2>1. \/ Stays(cs[d], d, gs)
        \/ cs[d].deferred # None /\ Lands(cs[d], d, gs)
    BY <1>4, <1>5, SettleEffect
  <2>2. cs[d] = card[d]
    BY <1>5
  <2> QED
    BY <2>1, <2>2
<1>11. card'[c] = row /\ Left(c, gates') = {}
  <2>1. Stays(cs[c], c, gs)
    <3>1. cs[c].deferred = None
      BY <1>2, <1>5
    <3> QED
      BY <1>4, <1>5, <3>1, SettleEffect
  <2> QED
    BY <1>5, <1>6, <2>1 DEF Stays
<1>12. SaysWhy(card'[c], Left(c, gates'))
  BY <1>2, <1>11 DEF SaysWhy
<1>13. Held(c)'
  <2>1. BelowLimit(row)
    BY <1>1, <1>2 DEF BelowLimit
  <2>2. HeldRow(row, {}, {}, {})
    BY <1>2, <2>1, IdleHeld
  <2> QED
    BY <1>9, <1>11, <2>2 DEF Held, GatesOf, Left
<1> QED
  BY <1>1, <1>6, <1>8, <1>9, <1>10, <1>12, <1>13, OneCard

-----------------------------------------------------------------------------
(* What happens to a lease.                                                *)

(* Nothing refers to a queued card. *)
LEMMA QueuedIdle ==
  ASSUME NEW rec, NEW G, NEW A, NEW W, HeldRow(rec, G, A, W), None \notin W,
         rec.state = "submitted"
  PROVE  G = {} /\ A = {} /\ W = {} /\ rec.failures < CIRCUIT_BREAKER_LIMIT
BY DEF HeldRow, BelowLimit

(* claim gives a card that nothing holds to a new run. *)
LEMMA ClaimReview ==
  ASSUME ReviewInv, NEW a \in Agents, NEW c \in Cards, NEW r \in Runs, Claim(a, c, r)
  PROVE  QuestionsAlive' /\ ParkedSaysWhy' /\ (~Interrupts => AllHeld')
<1>1. /\ card \in [Cards -> Card] /\ run \in [Runs -> Run] /\ asked \subseteq Runs /\ TypeOK
      /\ ParkedSaysWhy /\ (~Interrupts => AllHeld) /\ QuestionsAlive
      /\ \A q \in asked : Started(q)
  BY DEF ReviewInv, OrderInv, IInv, TypeOK
<1>2. PICK rec \in Card : rec = card[c]
  BY <1>1
<1> DEFINE row == [rec EXCEPT !.state = "working", !.agent = a, !.run = r, !.seq = NextEpoch(c)]
<1>3. /\ card' = [card EXCEPT ![c] = row]
      /\ rec.state = "submitted" /\ run[r].status = "none"
      /\ OpenChildren(card, links, c) = {}
      /\ gates' = gates /\ asked' = asked
  BY <1>1, <1>2 DEF Claim, MayClaim, Claimable, HeldBack, Card
<1>4. /\ row.run = r /\ row.state = "working" /\ row.stage = rec.stage
      /\ row.failures = rec.failures /\ row.returns = rec.returns
      /\ row.deferred = rec.deferred
  BY DEF Card
<1>5. rec.deferred = None
  BY <1>2, <1>3 DEF ReviewInv, OrderInv, Owing, DeferredHeld
<1> HIDE DEF row
<1>6. /\ \A q \in Runs \ {r} : run'[q] = run[q]
      /\ run'[r].card = c /\ run'[r].status = "working"
  BY <1>1 DEF Claim
<1>7. r \notin asked
  BY <1>1, <1>3 DEF Started
<1>8. QuestionsAlive'
  BY <1>1, <1>3, <1>6, <1>7 DEF QuestionsAlive, Working, RunsOf
<1>9. /\ \A d \in Cards \ {c} : /\ Waiting(d)' \subseteq Waiting(d)
                                /\ WorkingOn(d)' \subseteq WorkingOn(d)
      /\ Waiting(c)' \subseteq Waiting(c)
      /\ WorkingOn(c)' = WorkingOn(c) \cup {r}
  BY <1>1, <1>3, <1>6, <1>7 DEF Waiting, WorkingOn, Working, RunsOf
<1>10. SaysWhy(row, Left(c, gates'))
  BY <1>4 DEF SaysWhy
<1>11. ~Interrupts => HeldRow(row, Left(c, gates'), Waiting(c)', WorkingOn(c)')
  <2> SUFFICES ASSUME ~Interrupts
               PROVE  HeldRow(row, Left(c, gates'), Waiting(c)', WorkingOn(c)')
    OBVIOUS
  <2>1. HeldRow(rec, Left(c, gates), Waiting(c), WorkingOn(c))
    BY <1>1, <1>2 DEF AllHeld, Held, GatesOf, Left
  <2>2. /\ Left(c, gates) = {} /\ Waiting(c) = {} /\ WorkingOn(c) = {}
        /\ rec.failures < CIRCUIT_BREAKER_LIMIT
    BY <1>3, <2>1, NotNone, QueuedIdle
  <2>3. Left(c, gates') = {} /\ Waiting(c)' = {} /\ WorkingOn(c)' = {r}
    BY <1>3, <1>9, <2>2
  <2>4. HeldRow(row, {}, {}, {r})
    BY <1>4, <1>5, <2>1, <2>2, IdAssumption DEF HeldRow, BelowLimit
  <2> QED
    BY <2>3, <2>4
<1> QED
  BY <1>1, <1>3, <1>8, <1>9, <1>10, <1>11, OneRowReview

(* A denied claim parks a card that nothing refers to. *)
LEMMA ClaimDeniedReview ==
  ASSUME ReviewInv, NEW a \in Agents, NEW c \in Cards, ClaimDenied(a, c)
  PROVE  QuestionsAlive' /\ ParkedSaysWhy' /\ (~Interrupts => AllHeld')
<1>1. /\ card \in [Cards -> Card] /\ TypeOK
      /\ ParkedSaysWhy /\ (~Interrupts => AllHeld) /\ QuestionsAlive
  BY DEF ReviewInv, OrderInv, IInv, TypeOK
<1>2. PICK rec \in Card : rec = card[c]
  BY <1>1
<1> DEFINE row == [rec EXCEPT !.state = "input-required", !.needs = "not-authorised"]
<1>3. /\ card' = [card EXCEPT ![c] = row] /\ rec.state = "submitted"
      /\ gates' = gates /\ asked' = asked /\ run' = run
  BY <1>1, <1>2 DEF ClaimDenied, MayClaim, Claimable, Card
<1>4. /\ row.run = rec.run /\ row.state = "input-required" /\ row.needs = "not-authorised"
      /\ row.returns = rec.returns
  BY DEF Card
<1> HIDE DEF row
<1>5. /\ QuestionsAlive'
      /\ \A d \in Cards : Waiting(d)' \subseteq Waiting(d) /\ WorkingOn(d)' = WorkingOn(d)
  BY <1>1, <1>3, KeptRuns
<1>6. SaysWhy(row, Left(c, gates'))
  BY <1>4 DEF SaysWhy
<1>7. ~Interrupts => HeldRow(row, Left(c, gates'), Waiting(c)', WorkingOn(c)')
  <2> SUFFICES ASSUME ~Interrupts
               PROVE  HeldRow(row, Left(c, gates'), Waiting(c)', WorkingOn(c)')
    OBVIOUS
  <2>1. HeldRow(rec, Left(c, gates), Waiting(c), WorkingOn(c))
    BY <1>1, <1>2 DEF AllHeld, Held, GatesOf, Left
  <2>2. Left(c, gates) = {} /\ Waiting(c) = {} /\ WorkingOn(c) = {} /\ rec.run = None
    <3>1. rec.run = None
      BY <1>3, <2>1 DEF HeldRow
    <3> QED
      BY <1>3, <2>1, <3>1, NotNone, QueuedIdle
  <2>3. Left(c, gates') = {} /\ Waiting(c)' = {} /\ WorkingOn(c)' = {}
    BY <1>3, <1>5, <2>2
  <2>4. BelowLimit(row)
    BY <1>4, <2>1 DEF HeldRow, BelowLimit
  <2>5. HeldRow(row, {}, {}, {})
    BY <1>4, <2>2, <2>4, IdleHeld
  <2> QED
    BY <2>3, <2>5
<1>8. \A d \in Cards \ {c} : /\ Left(d, gates') = Left(d, gates)
                             /\ Waiting(d)' \subseteq Waiting(d)
                             /\ WorkingOn(d)' \subseteq WorkingOn(d)
  BY <1>3, <1>5
<1> QED
  BY <1>1, <1>3, <1>5, <1>6, <1>7, <1>8, OneRowReview

(* The alarm ends the runs that went dark and frees their cards. *)
LEMMA ReclaimReview ==
  ASSUME ReviewInv, ReclaimExpired
  PROVE  QuestionsAlive' /\ ParkedSaysWhy' /\ (~Interrupts => AllHeld')
<1> DEFINE n(c) == Cardinality(Expired \cap RunsOf(c))
<1>1. /\ card \in [Cards -> Card] /\ run \in [Runs -> Run] /\ asked \subseteq Runs
      /\ ParkedSaysWhy /\ (~Interrupts => AllHeld) /\ QuestionsAlive
  BY DEF ReviewInv, OrderInv, IInv, TypeOK
<1>2. /\ \A r \in Runs : IF r \in Expired THEN /\ run'[r].card = run[r].card
                                               /\ run'[r].status = "ended"
                         ELSE run'[r] = run[r]
      /\ \A c \in Cards : card'[c] = FailedAttempt(card[c], n(c))
      /\ asked' = asked \ Expired /\ gates' = gates
  <2>1. \A r \in Runs : [run[r] EXCEPT !.status = "ended", !.outcome = "reclaimed"].card = run[r].card
                        /\ [run[r] EXCEPT !.status = "ended", !.outcome = "reclaimed"].status = "ended"
    BY <1>1 DEF Run
  <2> QED
    BY <2>1 DEF ReclaimExpired
<1>3. \A r \in Expired : r \in Runs /\ Working(r)
  BY DEF Expired
<1>4. \A d \in Cards : /\ Waiting(d)' \subseteq Waiting(d)
                       /\ WorkingOn(d)' = WorkingOn(d) \ Expired
  BY <1>1, <1>2, <1>3 DEF Waiting, WorkingOn, Working, RunsOf
<1>5. QuestionsAlive'
  BY <1>1, <1>2, <1>3 DEF QuestionsAlive, Working, RunsOf
<1>6. ASSUME NEW d \in Cards
      PROVE  /\ n(d) \in Nat
             /\ n(d) # 0 => Expired \cap RunsOf(d) # {}
  <2>1. IsFiniteSet(Expired \cap RunsOf(d))
    BY FS_Subset, IdAssumption DEF Expired
  <2> QED
    BY <2>1, FS_CardinalityType, FS_EmptySet
<1> HIDE DEF n
<1>7. ASSUME NEW d \in Cards
      PROVE  SaysWhy(card'[d], Left(d, gates')) /\ (~Interrupts => Held(d)')
  <2>1. SaysWhy(card[d], Left(d, gates))
    BY <1>1 DEF ParkedSaysWhy, SaysWhy, GatesOf, Left
  <2>2. ~Interrupts => HeldRow(card[d], Left(d, gates), Waiting(d), WorkingOn(d))
    BY <1>1 DEF AllHeld, Held, GatesOf, Left
  <2>3. CASE n(d) = 0
    <3>1. card'[d] = card[d]
      BY <1>1, <1>2, <2>3, FailedAttemptType
    <3>2. ~Interrupts => HeldRow(card[d], Left(d, gates), Waiting(d)', WorkingOn(d)')
      <4>1. WorkingOn(d)' \subseteq WorkingOn(d) /\ Waiting(d)' \subseteq Waiting(d)
        BY <1>4
      <4> QED
        BY <2>2, <4>1, HeldFewer
    <3> QED
      BY <1>2, <2>1, <3>1, <3>2 DEF Held, GatesOf, Left
  <2>4. CASE n(d) # 0
    <3> DEFINE f == card[d].failures + n(d)
    <3>1. Attempted(card[d], card'[d], f)
      BY <1>1, <1>2, <1>6, <2>4, FailedAttemptRow
    <3>2. SaysWhy(card'[d], Left(d, gates'))
      BY <3>1 DEF Attempted, SaysWhy
    <3>3. ~Interrupts => Held(d)'
      <4> SUFFICES ASSUME ~Interrupts PROVE Held(d)'
        OBVIOUS
      <4>1. PICK r \in Expired : r \in WorkingOn(d)
        BY <1>3, <1>6, <2>4 DEF WorkingOn
      <4>2. /\ Left(d, gates) = {} /\ Waiting(d) = {} /\ WorkingOn(d) = {r}
        <5>1. r # None
          BY <4>1, NotNone
        <5> QED
          BY <2>2, <4>1, <5>1, WorkedIdle
      <4>3. Left(d, gates') = {} /\ Waiting(d)' = {} /\ WorkingOn(d)' = {}
        BY <1>2, <1>4, <4>1, <4>2
      <4>4. card[d].returns <= MAX_AUTOMATIC_RETURNS
        BY <2>2 DEF HeldRow, BelowLimit
      <4>5. BelowLimit(card'[d])
        BY <3>1, <4>4 DEF BelowLimit, Attempted
      <4>6. HeldRow(card'[d], {}, {}, {})
        BY <3>1, <4>5, IdleHeld DEF Attempted
      <4> QED
        BY <4>3, <4>6 DEF Held, GatesOf, Left
    <3> QED
      BY <3>2, <3>3
  <2> QED
    BY <2>3, <2>4
<1>8. ParkedSaysWhy'
  BY <1>7 DEF ParkedSaysWhy, SaysWhy, GatesOf, Left
<1> QED
  BY <1>5, <1>7, <1>8 DEF AllHeld

(* A heartbeat and its absence change nothing but a run's freshness. *)
LEMMA FreshReview ==
  ASSUME ReviewInv, NEW r \in Runs, Heartbeat(r) \/ Lapse(r)
  PROVE  QuestionsAlive' /\ ParkedSaysWhy' /\ (~Interrupts => AllHeld')
<1>1. run \in [Runs -> Run]
  BY DEF ReviewInv, OrderInv, IInv, TypeOK
<1>2. /\ card' = card /\ gates' = gates /\ asked' = asked
      /\ \E f : run' = [run EXCEPT ![r].fresh = f]
  BY DEF Heartbeat, Lapse
<1>3. \A q \in Runs : /\ run'[q].card = run[q].card
                      /\ run'[q].status = run[q].status
                      /\ run'[q].outcome = run[q].outcome
  BY <1>1, <1>2 DEF Run
<1> QED
  BY <1>2, <1>3, StillReview

-----------------------------------------------------------------------------
(* What a run does.                                                        *)

(* Card c waits for nothing but run r, which works on it. *)
OnlyWorks(r, c) ==
  /\ card[c].run = r
  /\ Left(c, gates) = {}
  /\ Waiting(c) = {}
  /\ WorkingOn(c) = {r}
  /\ card[c].deferred = None
  /\ card[c].failures < CIRCUIT_BREAKER_LIMIT
  /\ card[c].returns <= MAX_AUTOMATIC_RETURNS

(* What the lemmas below start from. *)
LEMMA ReviewParts ==
  ASSUME ReviewInv
  PROVE  /\ card \in [Cards -> Card] /\ run \in [Runs -> Run]
         /\ gates \subseteq Gate /\ asked \subseteq Runs
         /\ TypeOK /\ ParkedSaysWhy /\ QuestionsAlive
         /\ ~Interrupts => AllHeld
BY DEF ReviewInv, OrderInv, IInv, TypeOK

(* A run that works or waits for an answer has a card and an agent. *)
LEMMA RunCard ==
  ASSUME ReviewInv, NEW r \in Runs, Working(r) \/ r \in asked
  PROVE  /\ \E c \in Cards : c = run[r].card
         /\ run[r].agent \in Agents
BY DEF ReviewInv, OrderInv, IInv, TypeOK, Started, Working

(* The card of a working run is held by that run alone. *)
LEMMA WorkedCard ==
  ASSUME ReviewInv, NEW r \in Runs, Working(r), NEW c \in Cards, c = run[r].card
  PROVE  /\ r \in WorkingOn(c)
         /\ ~Interrupts => OnlyWorks(r, c)
<1>1. r \in WorkingOn(c) /\ r # None
  BY IdAssumption DEF WorkingOn, RunsOf
<1>2. ASSUME ~Interrupts
      PROVE  OnlyWorks(r, c)
  <2>1. HeldRow(card[c], Left(c, gates), Waiting(c), WorkingOn(c))
    BY <1>2 DEF ReviewInv, AllHeld, Held, GatesOf, Left
  <2>2. card[c].returns <= MAX_AUTOMATIC_RETURNS
    BY <2>1 DEF HeldRow, BelowLimit
  <2> QED
    BY <1>1, <2>1, <2>2, WorkedIdle DEF OnlyWorks
<1> QED
  BY <1>1, <1>2

(* A question leaves the card with the run that asks. *)
LEMMA AskReview ==
  ASSUME ReviewInv, NEW r \in Runs, NEW state \in {"input-required", "auth-required"},
         Ask(r, state)
  PROVE  QuestionsAlive' /\ ParkedSaysWhy' /\ (~Interrupts => AllHeld')
<1>1. /\ card \in [Cards -> Card] /\ run \in [Runs -> Run] /\ asked \subseteq Runs /\ TypeOK
      /\ ParkedSaysWhy /\ (~Interrupts => AllHeld) /\ QuestionsAlive /\ Working(r)
  BY ReviewParts DEF Ask
<1>2. PICK c \in Cards : c = run[r].card
  BY <1>1, RunCard
<1>3. PICK rec \in Card : rec = card[c]
  BY <1>1
<1> DEFINE row == [rec EXCEPT !.state = state, !.needs = "question"]
<1>4. card' = [card EXCEPT ![c] = row] /\ gates' = gates
      /\ asked' = (asked \ RunsOf(c)) \cup {r}
  BY <1>1, <1>2, <1>3 DEF Ask, Card
<1>5. /\ row.state = state /\ row.needs = "question" /\ row.run = rec.run
      /\ row.stage = rec.stage /\ row.failures = rec.failures /\ row.returns = rec.returns
      /\ row.deferred = rec.deferred
  BY DEF Card
<1>6. \A q \in Runs : /\ run'[q].card = run[q].card
                      /\ run'[q].status = run[q].status
                      /\ run'[q].outcome = run[q].outcome
  BY <1>1 DEF Ask, Run
<1> HIDE DEF row
<1>7. QuestionsAlive'
  BY <1>1, <1>2, <1>4, <1>6 DEF QuestionsAlive, Working, RunsOf
<1>8. /\ \A d \in Cards \ {c} : Waiting(d)' \subseteq Waiting(d)
      /\ \A d \in Cards : WorkingOn(d)' = WorkingOn(d)
      /\ Waiting(c)' = {}
  BY <1>1, <1>2, <1>4, <1>6 DEF Waiting, WorkingOn, Working, RunsOf
<1>9. SaysWhy(row, Left(c, gates'))
  BY <1>5 DEF SaysWhy
<1>10. ~Interrupts => HeldRow(row, Left(c, gates'), Waiting(c)', WorkingOn(c)')
  <2> SUFFICES ASSUME ~Interrupts
               PROVE  HeldRow(row, Left(c, gates'), Waiting(c)', WorkingOn(c)')
    OBVIOUS
  <2>1. /\ rec.run = r /\ Left(c, gates) = {} /\ WorkingOn(c) = {r}
        /\ rec.deferred = None /\ rec.failures < CIRCUIT_BREAKER_LIMIT
        /\ rec.returns <= MAX_AUTOMATIC_RETURNS
    BY <1>1, <1>2, <1>3, WorkedCard DEF OnlyWorks
  <2>2. HeldRow(row, {}, {}, {r})
    BY <1>5, <2>1, IdAssumption DEF HeldRow, BelowLimit
  <2> QED
    BY <1>4, <1>8, <2>1, <2>2
<1>11. \A d \in Cards \ {c} : /\ Left(d, gates') = Left(d, gates)
                              /\ Waiting(d)' \subseteq Waiting(d)
                              /\ WorkingOn(d)' \subseteq WorkingOn(d)
  BY <1>4, <1>8
<1> QED
  BY <1>1, <1>4, <1>7, <1>9, <1>10, <1>11, OneRowReview

(* An answer to a working run gives the card back to it; an answer to one  *)
(* that stopped queues the card, to which nothing refers then.             *)
LEMMA AnswerReview ==
  ASSUME ReviewInv, NEW r \in Runs, AnswerLive(r) \/ AnswerParked(r)
  PROVE  QuestionsAlive' /\ ParkedSaysWhy' /\ (~Interrupts => AllHeld')
<1>1. /\ card \in [Cards -> Card] /\ asked \subseteq Runs /\ TypeOK
      /\ ParkedSaysWhy /\ (~Interrupts => AllHeld) /\ QuestionsAlive
      /\ r \in asked /\ Started(r)
      /\ run' = run /\ asked' = asked \ {r} /\ gates' = gates
  BY ReviewParts DEF TypeOK, AnswerLive, AnswerParked
<1>2. PICK c \in Cards : c = run[r].card
  BY <1>1, RunCard
<1>3. PICK rec \in Card : rec = card[c]
  BY <1>1
<1>4. /\ QuestionsAlive'
      /\ \A d \in Cards : Waiting(d)' \subseteq Waiting(d) /\ WorkingOn(d)' = WorkingOn(d)
  BY <1>1, KeptRuns
<1>5. \A d \in Cards \ {c} : /\ Left(d, gates') = Left(d, gates)
                             /\ Waiting(d)' \subseteq Waiting(d)
                             /\ WorkingOn(d)' \subseteq WorkingOn(d)
  BY <1>1, <1>4
<1>6. CASE AnswerLive(r)
  <2> DEFINE row == [rec EXCEPT !.state = "working", !.needs = "none"]
  <2>1. card' = [card EXCEPT ![c] = row] /\ Working(r)
    BY <1>1, <1>2, <1>3, <1>6 DEF AnswerLive, Card, Started, Working
  <2>2. /\ row.state = "working" /\ row.run = rec.run
        /\ row.stage = rec.stage /\ row.failures = rec.failures /\ row.returns = rec.returns
        /\ row.deferred = rec.deferred
    BY DEF Card
  <2> HIDE DEF row
  <2>3. SaysWhy(row, Left(c, gates'))
    BY <2>2 DEF SaysWhy
  <2>4. ~Interrupts => HeldRow(row, Left(c, gates'), Waiting(c)', WorkingOn(c)')
    <3> SUFFICES ASSUME ~Interrupts
                 PROVE  HeldRow(row, Left(c, gates'), Waiting(c)', WorkingOn(c)')
      OBVIOUS
    <3>1. /\ rec.run = r /\ Left(c, gates) = {} /\ Waiting(c) = {} /\ WorkingOn(c) = {r}
          /\ rec.deferred = None /\ rec.failures < CIRCUIT_BREAKER_LIMIT
          /\ rec.returns <= MAX_AUTOMATIC_RETURNS
      BY <1>2, <1>3, <2>1, WorkedCard DEF OnlyWorks
    <3>2. HeldRow(row, {}, {}, {r})
      BY <2>2, <3>1, IdAssumption DEF HeldRow, BelowLimit
    <3>3. Left(c, gates') = {} /\ Waiting(c)' = {} /\ WorkingOn(c)' = {r}
      BY <1>1, <1>4, <3>1
    <3> QED
      BY <3>2, <3>3
  <2> QED
    BY <1>1, <1>4, <1>5, <2>1, <2>3, <2>4, OneRowReview
<1>7. CASE AnswerParked(r)
  <2>1. PICK q \in Card : q = Queue(rec)
    BY QueueType
  <2> DEFINE row == [q EXCEPT !.needs = "none"]
  <2>2. card' = [card EXCEPT ![c] = row] /\ r \in Waiting(c)
    BY <1>1, <1>2, <1>3, <1>7, <2>1 DEF AnswerParked, Waiting, Working, RunsOf
  <2>3. /\ q.state = "submitted" /\ q.run = None /\ q.failures = rec.failures
        /\ q.returns = rec.returns
    BY <2>1, QueueRow
  <2>4. /\ row.state = "submitted" /\ row.run = None /\ row.failures = rec.failures
        /\ row.returns = rec.returns
    BY <2>3 DEF Card
  <2> HIDE DEF row
  <2>5. SaysWhy(row, Left(c, gates'))
    BY <2>4 DEF SaysWhy
  <2>6. ~Interrupts => HeldRow(row, Left(c, gates'), Waiting(c)', WorkingOn(c)')
    <3> SUFFICES ASSUME ~Interrupts
                 PROVE  HeldRow(row, Left(c, gates'), Waiting(c)', WorkingOn(c)')
      OBVIOUS
    <3>1. HeldRow(rec, Left(c, gates), Waiting(c), WorkingOn(c))
      BY <1>1, <1>3 DEF AllHeld, Held, GatesOf, Left
    <3>2. /\ rec.run = None /\ Left(c, gates) = {} /\ rec.failures < CIRCUIT_BREAKER_LIMIT
          /\ rec.returns <= MAX_AUTOMATIC_RETURNS
      BY <2>2, <3>1 DEF HeldRow, BelowLimit
    <3>3. WorkingOn(c) = {}
      BY <3>1, <3>2, NotNone DEF HeldRow
    <3>4. Waiting(c)' = {}
      BY <1>1, <1>2 DEF QuestionsAlive, Waiting, RunsOf
    <3>5. BelowLimit(row)
      BY <2>4, <3>2 DEF BelowLimit
    <3>6. HeldRow(row, {}, {}, {})
      BY <2>4, <3>5, IdleHeld
    <3>7. Left(c, gates') = {} /\ WorkingOn(c)' = {}
      BY <1>1, <1>4, <3>2, <3>3
    <3> QED
      BY <3>4, <3>6, <3>7
  <2> QED
    BY <1>1, <1>4, <1>5, <2>2, <2>5, <2>6, OneRowReview
<1> QED
  BY <1>6, <1>7

(* The row of a card that is queued again, or parked for a reason, below   *)
(* the limits if rec was.                                                  *)
Released(rec, row) ==
  /\ row.run = None
  /\ \/ row.state = "submitted"
     \/ row.state = "input-required" /\ row.needs # "none"
  /\ /\ rec.failures < CIRCUIT_BREAKER_LIMIT
     /\ rec.returns <= MAX_AUTOMATIC_RETURNS
     => BelowLimit(row)

(* A verb that ends run r, takes its question along and leaves such a row. *)
LEMMA VerbReview ==
  ASSUME ReviewInv, NEW r \in Runs, NEW outcome, EndRun(r, outcome),
         asked' = asked \ {r}, gates' = gates,
         NEW c \in Cards, c = run[r].card,
         NEW row, card' = [card EXCEPT ![c] = row], Released(card[c], row)
  PROVE  QuestionsAlive' /\ ParkedSaysWhy' /\ (~Interrupts => AllHeld')
<1>1. /\ TypeOK /\ ParkedSaysWhy /\ (~Interrupts => AllHeld) /\ QuestionsAlive
      /\ Working(r)
  BY ReviewParts DEF EndRun
<1>2. /\ QuestionsAlive'
      /\ \A d \in Cards : /\ WorkingOn(d)' = WorkingOn(d) \ {r}
                          /\ Waiting(d)' \subseteq Waiting(d)
  BY <1>1, EndedRun
<1>3. SaysWhy(row, Left(c, gates'))
  BY DEF SaysWhy, Released
<1>4. ~Interrupts => HeldRow(row, Left(c, gates'), Waiting(c)', WorkingOn(c)')
  <2> SUFFICES ASSUME ~Interrupts
               PROVE  HeldRow(row, Left(c, gates'), Waiting(c)', WorkingOn(c)')
    OBVIOUS
  <2>1. OnlyWorks(r, c)
    BY <1>1, WorkedCard
  <2>2. BelowLimit(row)
    BY <2>1 DEF OnlyWorks, Released
  <2>3. HeldRow(row, {}, {}, {})
    BY <2>2, IdleHeld DEF Released
  <2>4. Left(c, gates') = {} /\ Waiting(c)' = {} /\ WorkingOn(c)' = {}
    BY <1>2, <2>1 DEF OnlyWorks
  <2> QED
    BY <2>3, <2>4
<1>5. \A d \in Cards \ {c} : /\ Left(d, gates') = Left(d, gates)
                             /\ Waiting(d)' \subseteq Waiting(d)
                             /\ WorkingOn(d)' \subseteq WorkingOn(d)
  BY <1>2
<1> QED
  BY <1>1, <1>2, <1>3, <1>4, <1>5, OneRowReview

(* What block, fail, release, a refused and a parked completion write. *)
LEMMA ReleasedRow ==
  ASSUME NEW rec \in Card
  PROVE  /\ Released(rec, Queue(rec))
         /\ \A why \in Needs \ {"none"} : Released(rec, Park(rec, why))
         /\ Released(rec, FailedAttempt(rec, 1))
         /\ Released(rec, ReworkOrPark(rec))
<1>1. \A row, f : Attempted(rec, row, f) => Released(rec, row)
  BY DEF Attempted, Released, BelowLimit
<1>2. Released(rec, Queue(rec))
  BY QueueRow DEF Released, BelowLimit
<1>3. ASSUME NEW why \in Needs \ {"none"}
      PROVE  Released(rec, Park(rec, why))
  BY ParkRow DEF Released, BelowLimit
<1>4. Attempted(rec, FailedAttempt(rec, 1), rec.failures + 1)
  BY FailedAttemptRow
<1>5. Attempted(rec, ReworkOrPark(rec), rec.failures + 1)
  BY ReworkOrParkRow
<1> QED
  BY <1>1, <1>2, <1>3, <1>4, <1>5

(* What an automatic return writes: the breaker reset, one return more. *)
LEMMA ReturnedRow ==
  ASSUME NEW rec \in Card, NEW s
  PROVE  LET new == [AtStage(Queue(rec), s) EXCEPT
                       !.failures = 0, !.needs = "none", !.returns = @ + 1]
         IN  /\ new.run = None /\ new.state = "submitted" /\ new.stage = s
             /\ new.failures = 0 /\ new.returns = rec.returns + 1
<1>1. PICK q \in Card : q = Queue(rec)
  BY QueueType
<1>2. DOMAIN AtStage(q, s) = DOMAIN q
  BY DEF AtStage, Card
<1>3. AtStage(q, s).run = None /\ AtStage(q, s).state = "submitted"
      /\ AtStage(q, s).stage = s /\ AtStage(q, s).returns = rec.returns
  BY <1>1, QueueRow, AtStageRow
<1>4. DOMAIN q = {"state", "stage", "run", "agent", "seq", "failures", "needs", "rework",
                  "returns", "deferred", "archived"}
  BY DEF Card
<1> QED
  BY <1>1, <1>2, <1>3, <1>4

(* waitOnPerson: the run ends and its question stays. *)
LEMMA AskAndStopReview ==
  ASSUME ReviewInv, NEW r \in Runs, AskAndStop(r)
  PROVE  QuestionsAlive' /\ ParkedSaysWhy' /\ (~Interrupts => AllHeld')
<1>1. /\ card \in [Cards -> Card] /\ run \in [Runs -> Run] /\ asked \subseteq Runs /\ TypeOK
      /\ ParkedSaysWhy /\ (~Interrupts => AllHeld) /\ QuestionsAlive /\ Working(r)
  BY ReviewParts DEF AskAndStop, EndRun
<1>2. PICK c \in Cards : c = run[r].card
  BY <1>1, RunCard
<1>3. PICK rec \in Card : rec = card[c]
  BY <1>1
<1>4. PICK row \in Card : row = Park(rec, "question")
  BY ParkType DEF Needs
<1>5. /\ row.run = None /\ row.state = "input-required" /\ row.needs = "question"
      /\ row.deferred = rec.deferred /\ row.failures = rec.failures
      /\ row.returns = rec.returns
  BY <1>4, ParkRow
<1>6. card' = [card EXCEPT ![c] = row] /\ gates' = gates
      /\ asked' = (asked \ RunsOf(c)) \cup {r}
  BY <1>2, <1>3, <1>4 DEF AskAndStop
<1>7. /\ \A q \in Runs : q # r => run'[q] = run[q]
      /\ run'[r].card = c /\ run'[r].status = "ended" /\ run'[r].outcome = "blocked"
  BY <1>1, <1>2 DEF AskAndStop, EndRun, Run
<1>8. QuestionsAlive'
  BY <1>1, <1>2, <1>6, <1>7 DEF QuestionsAlive, Working, RunsOf
<1>9. /\ \A d \in Cards \ {c} : Waiting(d)' \subseteq Waiting(d)
      /\ \A d \in Cards : WorkingOn(d)' = WorkingOn(d) \ {r}
      /\ Waiting(c)' = {r}
  BY <1>1, <1>2, <1>6, <1>7 DEF Waiting, WorkingOn, Working, RunsOf
<1>10. SaysWhy(row, Left(c, gates'))
  BY <1>5 DEF SaysWhy
<1>11. ~Interrupts => HeldRow(row, Left(c, gates'), Waiting(c)', WorkingOn(c)')
  <2> SUFFICES ASSUME ~Interrupts
               PROVE  HeldRow(row, Left(c, gates'), Waiting(c)', WorkingOn(c)')
    OBVIOUS
  <2>1. /\ Left(c, gates) = {} /\ WorkingOn(c) = {r}
        /\ rec.deferred = None /\ rec.failures < CIRCUIT_BREAKER_LIMIT
        /\ rec.returns <= MAX_AUTOMATIC_RETURNS
    BY <1>1, <1>2, <1>3, WorkedCard DEF OnlyWorks
  <2>2. HeldRow(row, {}, {r}, {})
    BY <1>5, <2>1 DEF HeldRow, BelowLimit
  <2>3. Left(c, gates') = {} /\ WorkingOn(c)' = {}
    BY <1>6, <1>9, <2>1
  <2> QED
    BY <1>9, <2>2, <2>3
<1>12. \A d \in Cards \ {c} : /\ Left(d, gates') = Left(d, gates)
                              /\ Waiting(d)' \subseteq Waiting(d)
                              /\ WorkingOn(d)' \subseteq WorkingOn(d)
  BY <1>6, <1>9
<1> QED
  BY <1>1, <1>6, <1>8, <1>10, <1>11, <1>12, OneRowReview

(* Work that is handed in for review waits for the new gate. *)
LEMMA SubmitReview ==
  ASSUME ReviewInv, NEW r \in Runs, SubmitForReview(r)
  PROVE  QuestionsAlive' /\ ParkedSaysWhy' /\ (~Interrupts => AllHeld')
<1>1. /\ card \in [Cards -> Card] /\ TypeOK
      /\ ParkedSaysWhy /\ (~Interrupts => AllHeld) /\ QuestionsAlive /\ Working(r)
  BY ReviewParts DEF SubmitForReview, EndRun
<1>2. PICK c \in Cards : c = run[r].card
  BY <1>1, RunCard
<1>3. PICK rec \in Card : rec = card[c]
  BY <1>1
<1>4. PICK row \in Card : row = Park(rec, "review")
  BY ParkType DEF Needs
<1>5. /\ row.run = None /\ row.state = "input-required" /\ row.needs = "review"
      /\ row.stage = rec.stage /\ row.deferred = rec.deferred /\ row.returns = rec.returns
  BY <1>4, ParkRow
<1>6. PICK g : /\ g.card = c /\ g.stage = rec.stage
               /\ gates' = gates \cup {g}
  <2> DEFINE new == [card |-> c, stage |-> rec.stage, back |-> rec.stage,
                     by |-> run[r].agent, run |-> r]
  <2>1. new.card = c /\ new.stage = rec.stage /\ gates' = gates \cup {new}
    BY <1>2, <1>3 DEF SubmitForReview
  <2> QED
    BY <2>1
<1>7. card' = [card EXCEPT ![c] = row] /\ asked' = asked \ {r} /\ EndRun(r, "submitted")
  BY <1>2, <1>3, <1>4 DEF SubmitForReview
<1>8. /\ QuestionsAlive'
      /\ \A d \in Cards : /\ WorkingOn(d)' = WorkingOn(d) \ {r}
                          /\ Waiting(d)' \subseteq Waiting(d)
  BY <1>1, <1>7, EndedRun
<1>9. /\ Left(c, gates') = Left(c, gates) \cup {g}
      /\ \A d \in Cards \ {c} : Left(d, gates') = Left(d, gates)
  BY <1>6 DEF Left
<1>10. SaysWhy(row, Left(c, gates'))
  BY <1>9 DEF SaysWhy
<1>11. ~Interrupts => HeldRow(row, Left(c, gates'), Waiting(c)', WorkingOn(c)')
  <2> SUFFICES ASSUME ~Interrupts
               PROVE  HeldRow(row, Left(c, gates'), Waiting(c)', WorkingOn(c)')
    OBVIOUS
  <2>1. /\ Left(c, gates) = {} /\ Waiting(c) = {} /\ WorkingOn(c) = {r}
        /\ rec.deferred = None /\ rec.returns <= MAX_AUTOMATIC_RETURNS
    BY <1>1, <1>2, <1>3, WorkedCard DEF OnlyWorks
  <2>2. HeldRow(row, {g}, {}, {})
    BY <1>5, <1>6, <2>1 DEF HeldRow, BelowLimit
  <2>3. Left(c, gates') = {g} /\ Waiting(c)' = {} /\ WorkingOn(c)' = {}
    BY <1>8, <1>9, <2>1
  <2> QED
    BY <2>2, <2>3
<1>12. \A d \in Cards \ {c} : /\ Left(d, gates') = Left(d, gates)
                              /\ Waiting(d)' \subseteq Waiting(d)
                              /\ WorkingOn(d)' \subseteq WorkingOn(d)
  BY <1>8, <1>9
<1> QED
  BY <1>1, <1>7, <1>8, <1>10, <1>11, <1>12, OneRowReview

(* A card that advances when nothing else refers to it: its advance is     *)
(* deferred, or lands, and others land after it.                           *)
LEMMA AdvanceReview ==
  ASSUME ReviewInv, NEW c \in Cards, NEW gs, NEW order \in Order, Advance(c, gs, order),
         \A d \in Cards : /\ Waiting(d)' \subseteq Waiting(d)
                          /\ WorkingOn(d)' \subseteq WorkingOn(d),
         \A d \in Cards \ {c} : Left(d, gs) = Left(d, gates),
         ~Interrupts => /\ Left(c, gs) = {} /\ Waiting(c)' = {} /\ WorkingOn(c)' = {}
  PROVE  ParkedSaysWhy' /\ (~Interrupts => AllHeld')
<1>1. card \in [Cards -> Card] /\ ParkedSaysWhy /\ (~Interrupts => AllHeld)
  BY ReviewParts
<1>2. PICK old \in Card : old = card[c]
  BY <1>1
<1> DEFINE owing == [old EXCEPT !.deferred = order]
<1>3. owing.returns = old.returns
  BY DEF Card
<1>4. /\ \A d \in Cards \ {c} : \/ Stays(card[d], d, gs)
                                \/ card[d].deferred # None /\ Lands(card[d], d, gs)
      /\ \/ /\ card'[c].state = "input-required"
            /\ card'[c].run = None
            /\ card'[c].deferred # None
            /\ card'[c].returns = old.returns
            /\ Left(c, gates') = Left(c, gs)
         \/ Lands(owing, c, gs)
  BY <1>1, <1>2, AdvanceEffect
<1> HIDE DEF owing
<1>5. SaysWhy(card'[c], Left(c, gates'))
  BY <1>4 DEF SaysWhy, Lands
<1>6. ~Interrupts => Held(c)'
  <2> SUFFICES ASSUME ~Interrupts PROVE Held(c)'
    OBVIOUS
  <2>1. old.returns <= MAX_AUTOMATIC_RETURNS
    BY <1>1, <1>2 DEF AllHeld, Held, HeldRow, BelowLimit
  <2>2. CASE Lands(owing, c, gs)
    BY <1>3, <2>1, <2>2, LandsHeld
  <2>3. CASE /\ card'[c].state = "input-required" /\ card'[c].run = None
             /\ card'[c].returns = old.returns /\ Left(c, gates') = Left(c, gs)
    <3>1. BelowLimit(card'[c])
      BY <2>1, <2>3 DEF BelowLimit
    <3>2. HeldRow(card'[c], {}, {}, {})
      BY <2>3, <3>1, IdleHeld
    <3> QED
      BY <2>3, <3>2 DEF Held, GatesOf, Left
  <2> QED
    BY <1>4, <2>2, <2>3
<1>7. \A d \in Cards \ {c} : /\ \/ Stays(card[d], d, gs)
                                \/ card[d].deferred # None /\ Lands(card[d], d, gs)
                             /\ Left(d, gs) = Left(d, gates)
                             /\ Waiting(d)' \subseteq Waiting(d)
                             /\ WorkingOn(d)' \subseteq WorkingOn(d)
  BY <1>4
<1> QED
  BY <1>1, <1>5, <1>6, <1>7, OneCard

(* complete: refused, returned, parked or advanced. *)
LEMMA CompleteReview ==
  ASSUME ReviewInv, NEW r \in Runs, NEW said \in {"pass", "silent", "changes-needed"},
         NEW met \in BOOLEAN, Complete(r, said, met)
  PROVE  QuestionsAlive' /\ ParkedSaysWhy' /\ (~Interrupts => AllHeld')
<1>1. card \in [Cards -> Card] /\ TypeOK /\ QuestionsAlive /\ Working(r)
  BY ReviewParts DEF Complete
<1>2. PICK c \in Cards : c = run[r].card
  BY <1>1, RunCard
<1>3. PICK rec \in Card : rec = card[c]
  BY <1>1
<1> DEFINE route == RouteOutcome(rec.stage, said, rec.returns)
<1>4. asked' = asked \ {r}
  BY DEF Complete
<1>5. \A row : /\ \E outcome : EndRun(r, outcome)
               /\ gates' = gates /\ card' = [card EXCEPT ![c] = row]
               /\ Released(rec, row)
               => QuestionsAlive' /\ ParkedSaysWhy' /\ (~Interrupts => AllHeld')
  BY <1>1, <1>2, <1>3, <1>4, VerbReview
<1>6. CASE /\ EndRun(r, "blocked") /\ gates' = gates
           /\ card' = [card EXCEPT ![c] = ReworkOrPark(rec)]
  BY <1>5, <1>6, ReleasedRow
<1>7. CASE /\ route = "return" /\ EndRun(r, "completed") /\ gates' = gates
           /\ card' = [card EXCEPT ![c] =
                IF Returns[rec.stage] >= rec.stage THEN Park(rec, "blocked")
                ELSE [AtStage(Queue(rec), Returns[rec.stage]) EXCEPT
                        !.failures = 0, !.needs = "none", !.returns = @ + 1]]
  <2> DEFINE new == [AtStage(Queue(rec), Returns[rec.stage]) EXCEPT
                       !.failures = 0, !.needs = "none", !.returns = @ + 1]
  <2>1. rec.returns \in Nat /\ MAX_AUTOMATIC_RETURNS \in Nat
        /\ CIRCUIT_BREAKER_LIMIT \in Nat \ {0}
    BY LimitAssumption DEF Card
  <2>2. ~(rec.returns >= MAX_AUTOMATIC_RETURNS)
    BY <1>7 DEF RouteOutcome
  <2>3. /\ new.run = None /\ new.state = "submitted"
        /\ new.failures = 0 /\ new.returns = rec.returns + 1
    BY ReturnedRow
  <2> HIDE DEF new
  <2>4. new.failures < CIRCUIT_BREAKER_LIMIT /\ new.returns <= MAX_AUTOMATIC_RETURNS
    BY <2>1, <2>2, <2>3
  <2>5. Released(rec, new)
    BY <2>3, <2>4 DEF Released, BelowLimit
  <2>6. Released(rec, Park(rec, "blocked"))
    BY ReleasedRow DEF Needs
  <2>7. CASE card' = [card EXCEPT ![c] = Park(rec, "blocked")]
    BY <1>5, <1>7, <2>6, <2>7
  <2>8. CASE card' = [card EXCEPT ![c] = new]
    BY <1>5, <1>7, <2>5, <2>8
  <2> QED
    BY <1>7, <2>7, <2>8 DEF new
<1>8. CASE /\ EndRun(r, "completed") /\ gates' = gates
           /\ card' = [card EXCEPT ![c] =
                Park(rec, IF route = "park" THEN "blocked" ELSE "repeated-failure")]
  <2> DEFINE why == IF route = "park" THEN "blocked" ELSE "repeated-failure"
  <2>1. why \in Needs \ {"none"}
    BY DEF Needs
  <2> HIDE DEF why
  <2>2. Released(rec, Park(rec, why))
    BY <2>1, ReleasedRow
  <2> QED
    BY <1>5, <1>8, <2>2 DEF why
<1>9. CASE /\ EndRun(r, "completed")
           /\ Advance(c, gates, [from |-> rec.stage, by |-> run[r].agent, run |-> r])
  <2>1. PICK order \in Order : order = [from |-> rec.stage, by |-> run[r].agent, run |-> r]
    <3>1. rec.stage \in Stages /\ run[r].agent \in Agents
      BY <1>1, RunCard DEF Card
    <3> QED
      BY <3>1 DEF Order
  <2>2. Advance(c, gates, order)
    BY <1>9, <2>1
  <2>3. /\ QuestionsAlive'
        /\ \A d \in Cards : /\ WorkingOn(d)' = WorkingOn(d) \ {r}
                            /\ Waiting(d)' \subseteq Waiting(d)
    BY <1>1, <1>4, <1>9, EndedRun
  <2>4. ~Interrupts => /\ Left(c, gates) = {} /\ Waiting(c)' = {} /\ WorkingOn(c)' = {}
    <3>1. ~Interrupts => /\ Left(c, gates) = {} /\ Waiting(c) = {} /\ WorkingOn(c) = {r}
      BY <1>1, <1>2, WorkedCard DEF OnlyWorks
    <3> QED
      BY <2>3, <3>1
  <2>5. \A d \in Cards : /\ Waiting(d)' \subseteq Waiting(d)
                         /\ WorkingOn(d)' \subseteq WorkingOn(d)
    BY <2>3
  <2> QED
    BY <2>2, <2>3, <2>4, <2>5, AdvanceReview
<1>10. \/ /\ EndRun(r, "blocked") /\ gates' = gates
          /\ card' = [card EXCEPT ![c] = ReworkOrPark(rec)]
       \/ /\ route = "return" /\ EndRun(r, "completed") /\ gates' = gates
          /\ card' = [card EXCEPT ![c] =
               IF Returns[rec.stage] >= rec.stage THEN Park(rec, "blocked")
               ELSE [AtStage(Queue(rec), Returns[rec.stage]) EXCEPT
                       !.failures = 0, !.needs = "none", !.returns = @ + 1]]
       \/ /\ EndRun(r, "completed") /\ gates' = gates
          /\ card' = [card EXCEPT ![c] =
               Park(rec, IF route = "park" THEN "blocked" ELSE "repeated-failure")]
       \/ /\ EndRun(r, "completed")
          /\ Advance(c, gates, [from |-> rec.stage, by |-> run[r].agent, run |-> r])
  BY <1>2, <1>3 DEF Complete
<1> QED
  BY <1>6, <1>7, <1>8, <1>9, <1>10

(* block, fail and release. *)
LEMMA StopReview ==
  ASSUME ReviewInv, NEW r \in Runs, Block(r) \/ Fail(r) \/ Release(r)
  PROVE  QuestionsAlive' /\ ParkedSaysWhy' /\ (~Interrupts => AllHeld')
<1>1. card \in [Cards -> Card] /\ Working(r)
  BY ReviewParts DEF Block, Fail, Release, EndRun
<1>2. PICK c \in Cards : c = run[r].card
  BY <1>1, RunCard
<1>3. PICK rec \in Card : rec = card[c]
  BY <1>1
<1>4. PICK row : card' = [card EXCEPT ![c] = row] /\ Released(rec, row)
  <2>1. /\ Released(rec, Queue(rec)) /\ Released(rec, Park(rec, "blocked"))
        /\ Released(rec, FailedAttempt(rec, 1))
    BY ReleasedRow DEF Needs
  <2>2. \/ card' = [card EXCEPT ![c] = Queue(rec)]
        \/ card' = [card EXCEPT ![c] = Park(rec, "blocked")]
        \/ card' = [card EXCEPT ![c] = FailedAttempt(rec, 1)]
    BY <1>2, <1>3 DEF Block, Fail, Release
  <2> QED
    BY <2>1, <2>2
<1>5. /\ asked' = asked \ {r} /\ gates' = gates
      /\ \E outcome : EndRun(r, outcome)
  BY DEF Block, Fail, Release
<1> QED
  BY <1>2, <1>3, <1>4, <1>5, VerbReview

-----------------------------------------------------------------------------
(* Decisions about reviews.                                                *)

(* The card of a pending review is held by that review alone. *)
LEMMA ReviewedCard ==
  ASSUME ReviewInv, NEW g \in gates, NEW c \in Cards, c = g.card
  PROVE  ~Interrupts => /\ Left(c, gates) = {g} /\ Waiting(c) = {} /\ WorkingOn(c) = {}
                        /\ card[c].returns <= MAX_AUTOMATIC_RETURNS
<1> SUFFICES ASSUME ~Interrupts
             PROVE  /\ Left(c, gates) = {g} /\ Waiting(c) = {} /\ WorkingOn(c) = {}
                    /\ card[c].returns <= MAX_AUTOMATIC_RETURNS
  OBVIOUS
<1>1. HeldRow(card[c], Left(c, gates), Waiting(c), WorkingOn(c))
  BY DEF ReviewInv, AllHeld, Held, GatesOf, Left
<1>2. g \in Left(c, gates)
  BY DEF Left
<1>3. card[c].run = None /\ Left(c, gates) = {g} /\ Waiting(c) = {}
  BY <1>1, <1>2 DEF HeldRow
<1>4. card[c].returns <= MAX_AUTOMATIC_RETURNS
  BY <1>1 DEF HeldRow, BelowLimit
<1> QED
  BY <1>1, <1>3, <1>4, NotNone DEF HeldRow

(* Approval advances the card of the review, the others leave it idle. *)
LEMMA DecisionReview ==
  ASSUME ReviewInv, NEW g \in gates, NEW p \in People,
         Approve(g, p) \/ RequestChanges(g, p) \/ Reject(g, p)
  PROVE  QuestionsAlive' /\ ParkedSaysWhy' /\ (~Interrupts => AllHeld')
<1>1. /\ card \in [Cards -> Card] /\ gates \subseteq Gate /\ TypeOK
      /\ ParkedSaysWhy /\ (~Interrupts => AllHeld) /\ QuestionsAlive
  BY ReviewParts
<1>2. PICK c \in Cards : c = g.card
  BY <1>1 DEF Gate
<1>3. PICK rec \in Card : rec = card[c]
  BY <1>1
<1>4. run' = run /\ asked' = asked
  BY DEF Approve, RequestChanges, Reject
<1>5. /\ QuestionsAlive'
      /\ \A d \in Cards : Waiting(d)' \subseteq Waiting(d) /\ WorkingOn(d)' = WorkingOn(d)
  BY <1>1, <1>4, KeptRuns
<1>6. /\ ~Interrupts => /\ Left(c, gates \ {g}) = {} /\ Waiting(c)' = {} /\ WorkingOn(c)' = {}
                        /\ rec.returns <= MAX_AUTOMATIC_RETURNS
      /\ \A d \in Cards \ {c} : Left(d, gates \ {g}) = Left(d, gates)
  <2>1. Left(c, gates \ {g}) = Left(c, gates) \ {g}
    BY DEF Left
  <2>2. \A d \in Cards \ {c} : Left(d, gates \ {g}) = Left(d, gates)
    BY <1>2 DEF Left
  <2>3. ~Interrupts => /\ Left(c, gates) = {g} /\ Waiting(c) = {} /\ WorkingOn(c) = {}
                       /\ rec.returns <= MAX_AUTOMATIC_RETURNS
    BY <1>2, <1>3, ReviewedCard
  <2> QED
    BY <1>5, <2>1, <2>2, <2>3
<1>7. CASE Approve(g, p)
  <2> DEFINE gs == gates \ {g}
  <2>1. PICK order \in Order : order = [from |-> g.stage, by |-> p, run |-> g.run]
    BY <1>1 DEF Gate, Order
  <2>2. Advance(c, gs, order)
    BY <1>2, <1>7, <2>1 DEF Approve
  <2>3. \A d \in Cards : /\ Waiting(d)' \subseteq Waiting(d)
                         /\ WorkingOn(d)' \subseteq WorkingOn(d)
    BY <1>5
  <2>4. /\ \A d \in Cards \ {c} : Left(d, gs) = Left(d, gates)
        /\ ~Interrupts => /\ Left(c, gs) = {} /\ Waiting(c)' = {} /\ WorkingOn(c)' = {}
    BY <1>6
  <2> HIDE DEF gs
  <2> QED
    BY <1>5, <2>2, <2>3, <2>4, AdvanceReview
<1>8. CASE RequestChanges(g, p) \/ Reject(g, p)
  <2>1. PICK row : /\ card' = [card EXCEPT ![c] = row]
                   /\ row.run = None /\ row.state \in {"submitted", "rejected"}
                   /\ row.state = "submitted" => row.failures = 0
                   /\ row.returns \in {0, rec.returns}
    <3>1. CASE RequestChanges(g, p)
      <4>1. PICK q \in Card : q = Queue(rec)
        BY QueueType
      <4>2. g.back \in Stages
        BY <1>1 DEF Gate
      <4>3. PICK base \in Card : base = AtStage(q, g.back)
        BY <4>2, AtStageType
      <4>4. base.run = None /\ base.state = "submitted"
        BY <4>1, <4>3, QueueRow, AtStageRow
      <4> DEFINE row == [base EXCEPT !.failures = 0, !.returns = 0]
      <4>5. /\ row.run = None /\ row.state = "submitted" /\ row.failures = 0
            /\ row.returns = 0
        BY <4>4 DEF Card
      <4>6. card' = [card EXCEPT ![c] = row]
        BY <1>2, <1>3, <3>1, <4>1, <4>3 DEF RequestChanges
      <4> QED
        BY <4>5, <4>6
    <3>2. CASE Reject(g, p)
      <4>1. PICK free \in Card : free = Free(rec)
        BY FreeType
      <4>2. free.run = None /\ free.returns = rec.returns
        BY <4>1 DEF Free, Card
      <4> DEFINE row == [free EXCEPT !.state = "rejected"]
      <4>3. row.run = None /\ row.state = "rejected" /\ row.returns = rec.returns
        BY <4>2 DEF Card
      <4>4. card' = [card EXCEPT ![c] = row]
        BY <1>2, <1>3, <3>2, <4>1 DEF Reject
      <4> QED
        BY <4>3, <4>4
    <3> QED
      BY <1>8, <3>1, <3>2
  <2>2. gates' = gates \ {g}
    BY <1>8 DEF RequestChanges, Reject
  <2>3. SaysWhy(row, Left(c, gates'))
    BY <2>1 DEF SaysWhy
  <2>4. ~Interrupts => HeldRow(row, Left(c, gates'), Waiting(c)', WorkingOn(c)')
    <3> SUFFICES ASSUME ~Interrupts
                 PROVE  HeldRow(row, Left(c, gates'), Waiting(c)', WorkingOn(c)')
      OBVIOUS
    <3>1. BelowLimit(row)
      BY <1>6, <2>1, LimitAssumption DEF BelowLimit
    <3>2. HeldRow(row, {}, {}, {})
      BY <2>1, <3>1, IdleHeld
    <3> QED
      BY <1>6, <2>2, <3>2
  <2>5. \A d \in Cards \ {c} : /\ Left(d, gates') = Left(d, gates)
                               /\ Waiting(d)' \subseteq Waiting(d)
                               /\ WorkingOn(d)' \subseteq WorkingOn(d)
    BY <1>5, <1>6, <2>2
  <2> QED
    BY <1>1, <1>5, <2>1, <2>3, <2>4, <2>5, OneRowReview
<1> QED
  BY <1>7, <1>8

-----------------------------------------------------------------------------
(* The inductive invariant.                                                *)

LEMMA ReviewInit == Init => ReviewInv
<1> SUFFICES ASSUME Init PROVE ReviewInv
  OBVIOUS
<1>1. OrderInv
  BY OrderInit
<1>2. QuestionsAlive /\ ParkedSaysWhy
  BY DEF Init, QuestionsAlive, ParkedSaysWhy, NoCard
<1>3. ASSUME NEW c \in Cards
      PROVE  Held(c)
  <2>1. GatesOf(c) = {} /\ Waiting(c) = {} /\ WorkingOn(c) = {}
    BY DEF Init, GatesOf, Waiting, WorkingOn, Working, RunsOf, NoRun
  <2>2. card[c] = NoCard
    BY DEF Init
  <2>3. BelowLimit(NoCard) /\ NoCard.run = None /\ NoCard.state = "absent"
    BY LimitAssumption DEF BelowLimit, NoCard
  <2>4. HeldRow(NoCard, {}, {}, {})
    BY <2>3, IdleHeld
  <2> QED
    BY <2>1, <2>2, <2>4 DEF Held
<1> QED
  BY <1>1, <1>2, <1>3 DEF ReviewInv, AllHeld

LEMMA ReviewNext == ReviewInv /\ [Next]_vars => ReviewInv'
<1> DEFINE Kept == QuestionsAlive' /\ ParkedSaysWhy' /\ (~Interrupts => AllHeld')
<1> SUFFICES ASSUME ReviewInv, [Next]_vars PROVE ReviewInv'
  OBVIOUS
<1>1. ASSUME UNCHANGED vars PROVE Kept
  <2>1. /\ card' = card /\ gates' = gates /\ asked' = asked
        /\ \A q \in Runs : /\ run'[q].card = run[q].card
                           /\ run'[q].status = run[q].status
                           /\ run'[q].outcome = run[q].outcome
    BY <1>1 DEF vars
  <2> QED
    BY <2>1, StillReview
<1>2. ASSUME CardNext PROVE Kept
  <2>1. ASSUME NEW f \in Cards, NEW t \in Cards, NEW k \in ORDERING, AddLink(f, t, k)
        PROVE  QuestionsAlive' /\ ParkedSaysWhy' /\ (~Interrupts => AllHeld')
    <3>1. /\ card' = card /\ gates' = gates /\ asked' = asked
          /\ \A q \in Runs : /\ run'[q].card = run[q].card
                             /\ run'[q].status = run[q].status
                             /\ run'[q].outcome = run[q].outcome
      BY <2>1 DEF AddLink
    <3> QED
      BY <3>1, StillReview
  <2> QED
    BY <1>2, <2>1, CreateReview, MoveReview, ResumeReview, RemoveLinkReview,
       DeleteReview, ArchiveReview DEF CardNext
<1>3. ASSUME LeaseNext PROVE Kept
  BY <1>3, ClaimReview, ClaimDeniedReview, FreshReview, ReclaimReview DEF LeaseNext
<1>4. ASSUME RunNext PROVE Kept
  BY <1>4, AskReview, AnswerReview, CompleteReview, AskAndStopReview, SubmitReview,
     StopReview DEF RunNext
<1>5. ASSUME GateNext PROVE Kept
  BY <1>5, DecisionReview DEF GateNext
<1>6. Kept
  BY <1>1, <1>2, <1>3, <1>4, <1>5 DEF Next
<1>7. OrderInv'
  BY OrderNext DEF ReviewInv
<1> QED
  BY <1>6, <1>7 DEF ReviewInv

(* A question never outlives a run that ended in any other way than to     *)
(* wait for its answer (openElicitation, cancelElicitationsForRun).        *)
THEOREM QuestionsCorrect == Spec => []QuestionsAlive
<1>1. ReviewInv => QuestionsAlive
  BY DEF ReviewInv
<1> QED
  BY <1>1, ReviewInit, ReviewNext, PTL DEF Spec

(* A card that waits for a person says what for, also after its review or  *)
(* its question was cancelled (endReviewsOfArchivedCard).                  *)
THEOREM ParkedCorrect == Spec => []ParkedSaysWhy
<1>1. ReviewInv => ParkedSaysWhy
  BY DEF ReviewInv
<1> QED
  BY <1>1, ReviewInit, ReviewNext, PTL DEF Spec

(* While people leave working cards alone, a run works exactly while its   *)
(* card names it (claim, every verb, reclaimExpired).                      *)
THEOREM LeasesCorrect ==
  ASSUME ~Interrupts
  PROVE  Spec => []LeasesMatch
<1>1. ASSUME ReviewInv PROVE LeasesMatch
  <2>1. ASSUME NEW c \in Cards
        PROVE  HeldRow(card[c], GatesOf(c), Waiting(c), WorkingOn(c))
    BY <1>1 DEF ReviewInv, AllHeld, Held
  <2>2. ASSUME NEW r \in Runs, Working(r)
        PROVE  card[run[r].card].run = r
    <3>1. PICK c \in Cards : c = run[r].card
      BY <1>1, <2>2, RunCard
    <3>2. r \in WorkingOn(c)
      BY <2>2, <3>1 DEF WorkingOn, RunsOf
    <3> QED
      BY <2>1, <3>1, <3>2 DEF HeldRow
  <2> QED
    BY <2>1, <2>2 DEF LeasesMatch, HeldRow
<1>2. ReviewInv => LeasesMatch
  BY <1>1
<1> QED
  BY <1>2, ReviewInit, ReviewNext, PTL DEF Spec

(* While people leave working cards alone, a pending review is about the   *)
(* card as it stands (cancelPendingReviews).                               *)
THEOREM GatesCorrect ==
  ASSUME ~Interrupts
  PROVE  Spec => []GatesMatch
<1>1. ASSUME ReviewInv PROVE GatesMatch
  <2>1. ASSUME NEW g \in gates
        PROVE  /\ card[g.card].stage = g.stage
               /\ card[g.card].state = "input-required"
               /\ card[g.card].run = None
               /\ GatesOf(g.card) = {g}
    <3>1. PICK c \in Cards : c = g.card
      BY <1>1, ReviewParts DEF Gate
    <3>2. HeldRow(card[c], GatesOf(c), Waiting(c), WorkingOn(c))
      BY <1>1 DEF ReviewInv, AllHeld, Held
    <3>3. g \in GatesOf(c)
      BY <3>1 DEF GatesOf
    <3> QED
      BY <3>1, <3>2, <3>3 DEF HeldRow
  <2> QED
    BY <2>1 DEF GatesMatch
<1>2. ReviewInv => GatesMatch
  BY <1>1
<1> QED
  BY <1>2, ReviewInit, ReviewNext, PTL DEF Spec

(* While people leave working cards alone, no card at the failure limit is *)
(* queued or worked, and none is returned too often (endAttempt,           *)
(* reworkOrPark, routeOutcome).                                            *)
THEOREM BreakerCorrect ==
  ASSUME ~Interrupts
  PROVE  Spec => []BreakerHolds
<1>1. ReviewInv => BreakerHolds
  BY DEF ReviewInv, AllHeld, Held, HeldRow, BelowLimit, BreakerHolds
<1> QED
  BY <1>1, ReviewInit, ReviewNext, PTL DEF Spec

-----------------------------------------------------------------------------
(* Steps that begin, end or reclaim a run.                                 *)

(* The calls of run r that change which runs there are. *)
Verb(r) ==
  \/ \E said \in {"pass", "silent", "changes-needed"}, met \in BOOLEAN :
       Complete(r, said, met)
  \/ AskAndStop(r) \/ SubmitForReview(r) \/ Block(r) \/ Fail(r) \/ Release(r)

(* A step that writes a run begins one, deletes those of a card, is a call *)
(* of a working run or of its clock, or is the alarm.                      *)
LEMMA RunSteps ==
  ASSUME Next, run' # run
  PROVE  \/ \E c \in Cards : DeleteCard(c)
         \/ \E a \in Agents, c \in Cards, r \in Runs : Claim(a, c, r)
         \/ \E r \in Runs : Heartbeat(r) \/ Lapse(r)
         \/ ReclaimExpired
         \/ \E r \in Runs, state \in {"input-required", "auth-required"} : Ask(r, state)
         \/ \E r \in Runs : Verb(r)
<1>1. CASE CardNext
  BY <1>1 DEF CardNext, CreateCard, MoveCard, ResumeCard, Split, AddLink, RemoveLink,
     Archive, Unarchive
<1>2. CASE LeaseNext
  BY <1>2 DEF LeaseNext, ClaimDenied
<1>3. CASE RunNext
  BY <1>3 DEF RunNext, AnswerLive, AnswerParked, Verb
<1>4. CASE GateNext
  BY <1>4 DEF GateNext, Approve, RequestChanges, Reject
<1> QED
  BY <1>1, <1>2, <1>3, <1>4 DEF Next

(* A call that ends a run leaves the other cards alone, except those that  *)
(* owed an advance.                                                        *)
LEMMA VerbElsewhere ==
  ASSUME ReviewInv, NEW r \in Runs, Verb(r), NEW d \in Cards, d # run[r].card,
         card[d].deferred = None
  PROVE  Working(r) /\ card'[d] = card[d]
<1>1. card \in [Cards -> Card] /\ Working(r)
  BY ReviewParts DEF Verb, Complete, AskAndStop, SubmitForReview, Block, Fail, Release, EndRun
<1>2. PICK c \in Cards : c = run[r].card
  BY <1>1, RunCard
<1>3. CASE \E row : card' = [card EXCEPT ![c] = row]
  BY <1>1, <1>2, <1>3
<1>4. CASE Advance(c, gates, [from |-> card[c].stage, by |-> run[r].agent, run |-> r])
  <2>1. PICK order \in Order :
          order = [from |-> card[c].stage, by |-> run[r].agent, run |-> r]
    <3>1. card[c].stage \in Stages /\ run[r].agent \in Agents
      BY <1>1, RunCard DEF Card
    <3> QED
      BY <3>1 DEF Order
  <2>2. \/ Stays(card[d], d, gates)
        \/ card[d].deferred # None /\ Lands(card[d], d, gates)
    BY <1>1, <1>2, <1>4, <2>1, AdvanceEffect
  <2> QED
    BY <1>1, <2>2 DEF Stays
<1>5. \/ \E row : card' = [card EXCEPT ![c] = row]
      \/ Advance(c, gates, [from |-> card[c].stage, by |-> run[r].agent, run |-> r])
  BY <1>2 DEF Verb, Complete, AskAndStop, SubmitForReview, Block, Fail, Release
<1> QED
  BY <1>3, <1>4, <1>5

(* The deletion of another card too. *)
LEMMA DeleteElsewhere ==
  ASSUME card \in [Cards -> Card], NEW c \in Cards, DeleteCard(c), NEW d \in Cards,
         card[d].deferred = None
  PROVE  card'[d] = card[d] \/ card'[d].state = "deleted"
<1> DEFINE row == [NoCard EXCEPT !.state = "deleted"]
           cs == [card EXCEPT ![c] = row]
           gs == GatesLeft(c)
           L == {l \in links : c \notin {l.from, l.to}}
           start == ParentsOf(links, c)
<1>1. row \in Card /\ row.state = "deleted" /\ row.deferred = None
  <2>1. 1 \in Stages
    BY PipelineAssumption DEF Stages
  <2> QED
    BY <2>1 DEF NoCard, Card, CardStates, Needs
<1>2. Settle(cs, gs, L, start)
  BY DEF DeleteCard
<1> HIDE DEF row
<1>3. /\ cs \in [Cards -> Card]
      /\ cs[d] = IF d = c THEN row ELSE card[d]
      /\ cs[d].deferred = None
  BY <1>1
<1> HIDE DEF cs, gs, L, start
<1>4. Stays(cs[d], d, gs)
  BY <1>2, <1>3, SettleEffect
<1> QED
  BY <1>1, <1>3, <1>4 DEF Stays

(* While people leave working cards alone, no step that begins, ends or    *)
(* reclaims a run takes up a card that waits for a person (claim, every    *)
(* verb, reclaimExpired, deleteCard).                                      *)
THEOREM PeopleUnparkCorrect ==
  ASSUME ~Interrupts
  PROVE  Spec => OnlyPeopleUnpark
<1> DEFINE A == \A c \in Cards :
                  /\ card[c].state = "input-required"
                  /\ card[c].run = None
                  /\ card[c].deferred = None
                  /\ card'[c].state \in {"submitted", "working", "completed"}
                  => UNCHANGED run
<1>1. ASSUME ReviewInv, Next, NEW c \in Cards,
             card[c].state = "input-required", card[c].run = None, card[c].deferred = None,
             card'[c].state \in {"submitted", "working", "completed"}, run' # run
      PROVE  FALSE
  <2>1. /\ card \in [Cards -> Card] /\ card'[c] # card[c]
        /\ card'[c].state # "deleted"
    BY <1>1, ReviewParts
  <2>2. HeldRow(card[c], GatesOf(c), Waiting(c), WorkingOn(c))
    BY <1>1 DEF ReviewInv, AllHeld, Held
  <2>3. WorkingOn(c) = {}
    BY <1>1, <2>2, NotNone DEF HeldRow
  <2>4. ASSUME NEW r \in Runs, Working(r)
        PROVE  run[r].card \in Cards /\ run[r].card # c
    <3>1. PICK d \in Cards : d = run[r].card
      BY <1>1, <2>4, RunCard
    <3>2. r \in WorkingOn(d)
      BY <2>4, <3>1 DEF WorkingOn, RunsOf
    <3> QED
      BY <2>3, <3>1, <3>2
  <2>5. ASSUME NEW d \in Cards, DeleteCard(d)
        PROVE  FALSE
    BY <1>1, <2>1, <2>5, DeleteElsewhere
  <2>6. ASSUME NEW a \in Agents, NEW d \in Cards, NEW r \in Runs, Claim(a, d, r)
        PROVE  FALSE
    <3>1. d # c
      BY <1>1, <2>6 DEF Claim, MayClaim, Claimable
    <3> QED
      BY <2>1, <2>6, <3>1 DEF Claim
  <2>7. ASSUME NEW r \in Runs, Heartbeat(r) \/ Lapse(r)
        PROVE  FALSE
    BY <2>1, <2>7 DEF Heartbeat, Lapse
  <2>8. ASSUME ReclaimExpired
        PROVE  FALSE
    <3>1. Expired \cap RunsOf(c) = {}
      BY <2>4 DEF Expired, RunsOf
    <3>2. card'[c] = FailedAttempt(card[c], 0)
      BY <2>8, <3>1, FS_EmptySet DEF ReclaimExpired
    <3> QED
      BY <2>1, <3>2 DEF FailedAttempt
  <2>9. ASSUME NEW r \in Runs, NEW state, Ask(r, state)
        PROVE  FALSE
    <3>1. run[r].card # c
      BY <2>4, <2>9 DEF Ask
    <3> QED
      BY <2>1, <2>9, <3>1 DEF Ask
  <2>10. ASSUME NEW r \in Runs, Verb(r)
         PROVE  FALSE
    <3>1. Working(r)
      BY <2>10 DEF Verb, Complete, AskAndStop, SubmitForReview, Block, Fail, Release, EndRun
    <3>2. c # run[r].card
      BY <2>4, <3>1
    <3> QED
      BY <1>1, <2>1, <2>10, <3>2, VerbElsewhere
  <2> QED
    BY <1>1, <2>5, <2>6, <2>7, <2>8, <2>9, <2>10, RunSteps
<1>2. ReviewInv /\ [Next]_vars => [A]_vars
  <2> SUFFICES ASSUME ReviewInv, Next PROVE A
    BY DEF vars
  <2> QED
    BY <1>1
<1>3. OnlyPeopleUnpark <=> [][A]_vars
  BY DEF OnlyPeopleUnpark
<1> HIDE DEF A
<1> QED
  BY <1>2, <1>3, ReviewInit, ReviewNext, PTL DEF Spec

(* What AutomationProgresses asks of the row of a queued card. *)
Progress(old, new) ==
  new.state = "submitted" =>
    \/ new.returns > old.returns
    \/ /\ new.returns = old.returns
       /\ \/ new.stage > old.stage
          \/ /\ new.stage = old.stage
             /\ new.failures > old.failures

(* An attempt that failed counts, a card that advanced moved on. *)
LEMMA RowsProgress ==
  ASSUME NEW rec \in Card
  PROVE  /\ \A new : \A n \in Nat \ {0} :
               Attempted(rec, new, rec.failures + n) => Progress(rec, new)
         /\ \A new : new.state # "submitted" => Progress(rec, new)
         /\ \A new : new.returns = rec.returns + 1 => Progress(rec, new)
         /\ \A new : new.returns = rec.returns /\ new.stage = rec.stage + 1 => Progress(rec, new)
<1>1. rec.failures \in Nat /\ rec.returns \in Nat /\ rec.stage \in Nat
  BY DEF Card, Stages
<1> QED
  BY <1>1 DEF Attempted, Progress

(* A completion that ends a run of card c. *)
LEMMA CompleteProgress ==
  ASSUME ReviewInv, NEW r \in Runs, NEW said \in {"pass", "silent", "changes-needed"},
         NEW met \in BOOLEAN, Complete(r, said, met), NEW c \in Cards, c = run[r].card
  PROVE  Progress(card[c], card'[c])
<1>1. card \in [Cards -> Card] /\ Working(r)
  BY ReviewParts DEF Complete
<1>2. PICK rec \in Card : rec = card[c]
  BY <1>1
<1> DEFINE back == [AtStage(Queue(rec), Returns[rec.stage]) EXCEPT
                      !.failures = 0, !.needs = "none", !.returns = @ + 1]
<1>3. \/ card' = [card EXCEPT ![c] = ReworkOrPark(rec)]
      \/ card' = [card EXCEPT ![c] = IF Returns[rec.stage] >= rec.stage THEN Park(rec, "blocked")
                                     ELSE back]
      \/ \E why : card' = [card EXCEPT ![c] = Park(rec, why)]
      \/ Advance(c, gates, [from |-> rec.stage, by |-> run[r].agent, run |-> r])
  BY <1>2 DEF Complete
<1> HIDE DEF back
<1>4. CASE card' = [card EXCEPT ![c] = ReworkOrPark(rec)]
  <2>1. Attempted(rec, card'[c], rec.failures + 1)
    BY <1>1, <1>4, ReworkOrParkRow
  <2> QED
    BY <1>2, <2>1, RowsProgress
<1>5. CASE card' = [card EXCEPT ![c] = back]
  <2>1. back.returns = rec.returns + 1
    BY ReturnedRow DEF back
  <2>2. card'[c] = back
    BY <1>1, <1>5
  <2> QED
    BY <1>2, <2>1, <2>2, RowsProgress
<1>6. CASE \E why : card' = [card EXCEPT ![c] = Park(rec, why)]
  <2>1. card'[c].state = "input-required"
    BY <1>1, <1>6, ParkRow
  <2> QED
    BY <1>2, <2>1, RowsProgress
<1>7. CASE Advance(c, gates, [from |-> rec.stage, by |-> run[r].agent, run |-> r])
  <2> DEFINE new == [from |-> rec.stage, by |-> run[r].agent, run |-> r]
  <2>1. PICK order \in Order : order = new /\ order.from = rec.stage
    <3>1. rec.stage \in Stages /\ run[r].agent \in Agents
      BY <1>1, RunCard DEF Card
    <3>2. new \in Order /\ new.from = rec.stage
      BY <3>1 DEF Order
    <3> QED
      BY <3>2
  <2> DEFINE owing == [rec EXCEPT !.deferred = order]
  <2>2. owing.returns = rec.returns /\ owing.deferred = order
    BY DEF Card
  <2>3. \/ card'[c].state = "input-required"
        \/ Lands(owing, c, gates)
    BY <1>1, <1>2, <1>7, <2>1, AdvanceEffect
  <2> HIDE DEF owing
  <2>4. \/ card'[c].state # "submitted"
        \/ card'[c].returns = rec.returns /\ card'[c].stage = rec.stage + 1
    BY <2>1, <2>2, <2>3 DEF Lands
  <2> QED
    BY <1>2, <2>4, RowsProgress
<1> QED
  BY <1>3, <1>4, <1>5, <1>6, <1>7

(* A call that ends a run of card c, other than its release. *)
LEMMA VerbProgress ==
  ASSUME ReviewInv, NEW r \in Runs, Verb(r), run'[r].outcome # "released",
         NEW c \in Cards, c = run[r].card
  PROVE  Progress(card[c], card'[c])
<1>1. card \in [Cards -> Card] /\ run \in [Runs -> Run]
  BY ReviewParts
<1>2. PICK rec \in Card : rec = card[c]
  BY <1>1
<1>3. ~Release(r)
  BY <1>1 DEF Release, EndRun, Run
<1>4. CASE \E said \in {"pass", "silent", "changes-needed"}, met \in BOOLEAN :
             Complete(r, said, met)
  BY <1>4, CompleteProgress
<1>5. CASE AskAndStop(r) \/ SubmitForReview(r) \/ Block(r)
  <2>1. \E why : card' = [card EXCEPT ![c] = Park(rec, why)]
    BY <1>2, <1>5 DEF AskAndStop, SubmitForReview, Block
  <2>2. card'[c].state = "input-required"
    BY <1>1, <2>1, ParkRow
  <2> QED
    BY <1>2, <2>2, RowsProgress
<1>6. CASE Fail(r)
  <2>1. card'[c] = FailedAttempt(rec, 1)
    BY <1>1, <1>2, <1>6 DEF Fail
  <2>2. Attempted(rec, card'[c], rec.failures + 1)
    BY <2>1, FailedAttemptRow
  <2> QED
    BY <1>2, <2>2, RowsProgress
<1> QED
  BY <1>3, <1>4, <1>5, <1>6 DEF Verb

(* A run that stops working was ended by its own call, by the alarm or by  *)
(* the deletion of its card.                                               *)
LEMMA EndedBy ==
  ASSUME TypeOK, Next, NEW r \in Runs, Working(r), run'[r].status = "ended"
  PROVE  Verb(r) \/ (ReclaimExpired /\ r \in Expired)
<1>1. run \in [Runs -> Run] /\ run' # run
  BY DEF TypeOK, Working
<1>2. ASSUME NEW c \in Cards, DeleteCard(c)
      PROVE  FALSE
  <2>1. [NoRun EXCEPT !.status = "deleted"].status = "deleted"
    BY DEF NoRun
  <2> QED
    BY <1>2, <2>1 DEF DeleteCard, Working
<1>3. ASSUME NEW a \in Agents, NEW c \in Cards, NEW q \in Runs, Claim(a, c, q)
      PROVE  FALSE
  BY <1>1, <1>3 DEF Claim, Working
<1>4. ASSUME NEW q \in Runs, Heartbeat(q) \/ Lapse(q) \/ \E state : Ask(q, state)
      PROVE  FALSE
  <2>1. \E f : run' = [run EXCEPT ![q].fresh = f]
    BY <1>4 DEF Heartbeat, Lapse, Ask
  <2> QED
    BY <1>1, <2>1 DEF Run, Working
<1>5. ASSUME ReclaimExpired
      PROVE  r \in Expired
  BY <1>1, <1>5 DEF ReclaimExpired, Working
<1>6. ASSUME NEW q \in Runs, Verb(q)
      PROVE  q = r
  <2>1. \E outcome : EndRun(q, outcome)
    BY <1>6 DEF Verb, Complete, AskAndStop, SubmitForReview, Block, Fail, Release
  <2> QED
    BY <1>1, <2>1 DEF EndRun, Run, Working
<1> QED
  BY <1>1, <1>2, <1>3, <1>4, <1>5, <1>6, RunSteps

(* Whatever people do, work the board hands out again by itself has used   *)
(* up an automatic return, moved on, or counted a failure (endAttempt,     *)
(* reworkOrPark, routeOutcome, advanceCard).                               *)
THEOREM ProgressCorrect == Spec => AutomationProgresses
<1> DEFINE A == \A c \in Cards :
                  /\ card'[c].state = "submitted"
                  /\ \E r \in RunsOf(c) : /\ Working(r)
                                          /\ run'[r].status = "ended"
                                          /\ run'[r].outcome # "released"
                  => \/ card'[c].returns > card[c].returns
                     \/ /\ card'[c].returns = card[c].returns
                        /\ \/ card'[c].stage > card[c].stage
                           \/ /\ card'[c].stage = card[c].stage
                              /\ card'[c].failures > card[c].failures
<1>1. ASSUME ReviewInv, Next, NEW c \in Cards, NEW r \in RunsOf(c), Working(r),
             run'[r].status = "ended", run'[r].outcome # "released"
      PROVE  Progress(card[c], card'[c])
  <2>1. /\ r \in Runs /\ c = run[r].card
        /\ card \in [Cards -> Card] /\ TypeOK
    BY <1>1, ReviewParts DEF RunsOf
  <2>2. CASE Verb(r)
    BY <1>1, <2>1, <2>2, VerbProgress
  <2>3. CASE ReclaimExpired /\ r \in Expired
    <3> DEFINE n == Cardinality(Expired \cap RunsOf(c))
    <3>1. n \in Nat \ {0}
      <4>1. IsFiniteSet(Expired \cap RunsOf(c))
        BY FS_Subset, IdAssumption DEF Expired
      <4>2. Expired \cap RunsOf(c) # {}
        BY <1>1, <2>3
      <4> QED
        BY <4>1, <4>2, FS_CardinalityType, FS_EmptySet
    <3>2. card'[c] = FailedAttempt(card[c], n)
      BY <2>3 DEF ReclaimExpired
    <3> HIDE DEF n
    <3>3. Attempted(card[c], card'[c], card[c].failures + n)
      BY <2>1, <3>1, <3>2, FailedAttemptRow
    <3> QED
      BY <2>1, <3>1, <3>3, RowsProgress
  <2> QED
    BY <1>1, <2>1, <2>2, <2>3, EndedBy
<1>2. ReviewInv /\ [Next]_vars => [A]_vars
  <2> SUFFICES ASSUME ReviewInv, Next PROVE A
    BY DEF vars
  <2> QED
    BY <1>1 DEF Progress
<1>3. AutomationProgresses <=> [][A]_vars
  BY DEF AutomationProgresses
<1> HIDE DEF A
<1> QED
  BY <1>2, <1>3, ReviewInit, ReviewNext, PTL DEF Spec

-----------------------------------------------------------------------------
(* The board implements Lease.                                             *)

(* The runs of the board that may act are those a card names. *)
Matched == \A r \in Runs : Working(r) => card[run[r].card].run = r

(* Without interruptions they always are. *)
LEMMA WorkingMatched ==
  ASSUME ReviewInv
  PROVE  ~Interrupts => Matched
<1> SUFFICES ASSUME ~Interrupts, NEW r \in Runs, Working(r)
             PROVE  card[run[r].card].run = r
  BY DEF Matched
<1>1. PICK c \in Cards : c = run[r].card
  BY ReviewParts DEF TypeOK, Started, Working
<1>2. HeldRow(card[c], GatesOf(c), Waiting(c), WorkingOn(c)) /\ r \in WorkingOn(c)
  BY <1>1 DEF ReviewInv, AllHeld, Held, WorkingOn, RunsOf
<1> QED
  BY <1>1, <1>2 DEF HeldRow

(* Cards that are freed and runs that stop are given back: a card whose    *)
(* holder stops is freed, by LeaseOK after the step, and a card that is    *)
(* taken from a run that goes on would leave that run unmatched.           *)
LEMMA GivenBack ==
  ASSUME IInv, IInv', (~Interrupts => Matched)',
         \A c \in Cards : card'[c].run \in {card[c].run, None},
         \A r \in Runs : /\ run'[r].status = "none" <=> run[r].status = "none"
                         /\ run'[r].status = "working" => /\ run[r].status = "working"
                                                          /\ run'[r].card = run[r].card
                                                          /\ run'[r].epoch = run[r].epoch
  PROVE  \E over \in SUBSET Runs, freed \in SUBSET Cards : Leases!GiveBack(over, freed)
<1> DEFINE over == {r \in Runs : Working(r) /\ run'[r].status # "working"}
           freed == {c \in Cards : card[c].run # None /\ card'[c].run = None}
<1>1. over \in SUBSET Runs /\ freed \in SUBSET Cards
  OBVIOUS
<1>2. ASSUME NEW c \in Cards, card[c].run # None
      PROVE  /\ card[c].run \in Runs /\ Working(card[c].run)
             /\ run[card[c].run].card = c
  <2>1. card[c].run \in Runs \cup {None}
    BY DEF IInv, TypeOK, Card
  <2> QED
    BY <1>2, <2>1 DEF IInv, LeaseOK
<1>3. ASSUME NEW c \in Cards, card'[c].run # None
      PROVE  run'[card'[c].run].status = "working"
  BY <1>3 DEF IInv, LeaseOK, Working
<1>4. ASSUME NEW c \in Cards, card[c].run \in over
      PROVE  c \in freed
  BY <1>3, <1>4, IdAssumption
<1>5. Interrupts \/ \A c \in freed : card[c].run \in over
  <2> SUFFICES ASSUME ~Interrupts, NEW c \in freed, card[c].run \notin over
               PROVE  FALSE
    OBVIOUS
  <2>1. PICK r \in Runs : r = card[c].run /\ Working(r) /\ run[r].card = c
    BY <1>2
  <2>2. run'[r].status = "working" /\ run'[r].card = c
    BY <2>1
  <2>3. card'[c].run = r
    BY <2>2 DEF Matched, Working
  <2> QED
    BY <2>3, IdAssumption
<1>6. [r \in Runs |-> IF Working(r)'
                      THEN [card |-> run'[r].card, epoch |-> run'[r].epoch] ELSE None]
        = [r \in Runs |-> IF r \in over THEN None
                          ELSE IF Working(r)
                          THEN [card |-> run[r].card, epoch |-> run[r].epoch] ELSE None]
  BY DEF Working
<1>7. [c \in Cards |-> card'[c].run]
        = [c \in Cards |-> IF c \in freed THEN None ELSE card[c].run]
  OBVIOUS
<1>8. {r \in Runs : run'[r].status # "none"} = {r \in Runs : run[r].status # "none"}
  OBVIOUS
<1>9. \A c \in Cards : [d \in Cards |-> card[d].run][c] \in over => c \in freed
  BY <1>4
<1>10. Interrupts \/ \A c \in freed : [d \in Cards |-> card[d].run][c] \in over
  BY <1>5
<1>11. [r \in Runs |-> IF r \in over THEN None
                       ELSE [q \in Runs |-> IF Working(q)
                               THEN [card |-> run[q].card, epoch |-> run[q].epoch]
                               ELSE None][r]]
         = [r \in Runs |-> IF r \in over THEN None
                           ELSE IF Working(r)
                           THEN [card |-> run[r].card, epoch |-> run[r].epoch] ELSE None]
  OBVIOUS
<1>12. [c \in Cards |-> IF c \in freed THEN None ELSE [d \in Cards |-> card[d].run][c]]
         = [c \in Cards |-> IF c \in freed THEN None ELSE card[c].run]
  OBVIOUS
<1> HIDE DEF over, freed
<1> QED
  BY <1>1, <1>6, <1>7, <1>8, <1>9, <1>10, <1>11, <1>12 DEF Leases!GiveBack

(* So every step of the board is a grant, a return or a removal, or does   *)
(* not concern a lease.                                                    *)
LEMMA LentStep == ReviewInv /\ ReviewInv' /\ [Next]_vars => [Leases!Next]_(Leases!vars)
<1> SUFFICES ASSUME ReviewInv, ReviewInv', [Next]_vars PROVE Leases!Next
  OBVIOUS
<1>1. IInv /\ IInv' /\ (~Interrupts => Matched)'
  <2>1. (ReviewInv => (~Interrupts => Matched))'
    BY WorkingMatched, PTL
  <2> QED
    BY <2>1 DEF ReviewInv, OrderInv
<1>2. card \in [Cards -> Card] /\ run \in [Runs -> Run]
  BY ReviewParts
<1>3. CASE LetGo
  <2>1. \E over \in SUBSET Runs, freed \in SUBSET Cards : Leases!GiveBack(over, freed)
    BY <1>1, <1>3, GivenBack DEF LetGo
  <2>2. [c \in Cards |-> card'[c].seq] = [c \in Cards |-> card[c].seq]
    BY <1>3 DEF LetGo
  <2>3. Leases!Return
    BY <2>1, <2>2 DEF Leases!Return
  <2> QED
    BY <2>3 DEF Leases!Next
<1>4. ASSUME NEW a \in Agents, NEW c \in Cards, NEW r \in Runs, Claim(a, c, r)
      PROVE  Leases!Grant(c, r)
  <2>1. /\ run[r].status = "none" /\ card[c].run = None
        /\ card[c].seq \in Nat
    BY <1>1, <1>2, <1>4 DEF Claim, MayClaim, Claimable, IInv, Lendable, Card
  <2>2. /\ card'[c].run = r /\ card'[c].seq = card[c].seq + 1
        /\ \A d \in Cards : d # c => card'[d] = card[d]
    BY <1>2, <1>4 DEF Claim, NextEpoch, Card
  <2>3. /\ run'[r].card = c /\ run'[r].epoch = card[c].seq + 1
        /\ run'[r].status = "working"
        /\ \A q \in Runs : q # r => run'[q] = run[q]
    BY <1>2, <1>4 DEF Claim, NextEpoch
  <2>4. [d \in Cards |-> card'[d].run] = [[d \in Cards |-> card[d].run] EXCEPT ![c] = r]
    BY <2>2
  <2>5. [d \in Cards |-> card'[d].seq] = [[d \in Cards |-> card[d].seq] EXCEPT ![c] = @ + 1]
    BY <2>2
  <2>6. [q \in Runs |-> IF Working(q)'
                        THEN [card |-> run'[q].card, epoch |-> run'[q].epoch] ELSE None]
          = [[q \in Runs |-> IF Working(q)
                             THEN [card |-> run[q].card, epoch |-> run[q].epoch] ELSE None]
               EXCEPT ![r] = [card |-> c, epoch |-> card[c].seq + 1]]
    BY <2>3 DEF Working
  <2>7. /\ {q \in Runs : run'[q].status # "none"} = {q \in Runs : run[q].status # "none"} \cup {r}
        /\ r \notin {q \in Runs : run[q].status # "none"}
    BY <2>1, <2>3
  <2> QED
    BY <2>1, <2>4, <2>5, <2>6, <2>7 DEF Leases!Grant
<1>5. ASSUME NEW c \in Cards, UnlentWith(c)
      PROVE  Leases!Remove(c)
  <2>1. \A r \in Runs : run[r].status = "none" => run[r].card # c
    BY <1>1, IdAssumption DEF IInv, Unused
  <2>2. \E over \in SUBSET Runs, freed \in SUBSET Cards : Leases!GiveBack(over, freed)
    BY <1>1, <1>5, <2>1, GivenBack DEF UnlentWith
  <2>3. [d \in Cards |-> card'[d].seq] = [[d \in Cards |-> card[d].seq] EXCEPT ![c] = 0]
    BY <1>5 DEF UnlentWith
  <2>4. [d \in Cards |-> card'[d].run][c] = None
    BY <1>5 DEF UnlentWith
  <2>5. ASSUME NEW r \in Runs, Working(r)'
        PROVE  run'[r].card # c
    BY <1>5, <2>5 DEF UnlentWith, Working
  <2> QED
    BY <2>2, <2>3, <2>4, <2>5 DEF Leases!Remove
<1>6. CASE \E a \in Agents, c \in Cards, r \in Runs : Claim(a, c, r)
  BY <1>4, <1>6 DEF Leases!Next
<1>7. CASE \E c \in Cards : UnlentWith(c)
  BY <1>5, <1>7 DEF Leases!Next
<1> QED
  BY <1>1, <1>3, <1>6, <1>7, StepKinds

(* The board lends its cards as Lease promises, for every number of cards, *)
(* runs and people, whether or not people interrupt (claim, endAttempt,    *)
(* moveCard, deleteCard, authorizeRun).                                    *)
THEOREM LeasesLentCorrect == Spec => LeasesLent
<1>1. Init => Leases!Init
  BY DEF Init, Leases!Init, NoCard, NoRun, Working
<1> QED
  BY <1>1, LentStep, ReviewInit, ReviewNext, PTL DEF Spec, LeasesLent, Leases!Spec

(* While people leave working cards alone, a card has one working run at a *)
(* time: the promise of the documentation that the run split_brain shows   *)
(* broken when they do not.                                                *)
THEOREM OneRunCorrect ==
  ASSUME ~Interrupts
  PROVE  Spec => []OneWorkingRun
<1>1. ReviewInv => OneWorkingRun
  BY WorkingMatched DEF Matched, OneWorkingRun
<1> QED
  BY <1>1, ReviewInit, ReviewNext, PTL DEF Spec

=============================================================================
