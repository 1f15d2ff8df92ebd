---------------------------- MODULE BoardProofs ----------------------------
(***************************************************************************)
(* Proofs about Board for every number of cards, runs, agents and people,  *)
(* every pipeline and every limit: the type invariant, the agreement of    *)
(* the cards table with the runs table (LeaseOK) and the uniqueness of     *)
(* lease epochs (EpochsDistinct).                                          *)
(*                                                                         *)
(* Every action changes a card in one of two ways that matter to a lease:  *)
(* it frees the card, or it leaves the lease columns alone.  The lemmas of *)
(* the first part say so of each helper of the model, the lemma LeaseStep  *)
(* says that this is enough.  Of every action but Claim they also say      *)
(* LetGo, what an action that lends nothing looks like from outside;       *)
(* BoardReviewProofs shows from it that Board implements Lease.            *)
(***************************************************************************)
EXTENDS Board, FiniteSetTheorems, TLAPS

(* A row no run holds. *)
Freed(new) == new.run = None /\ new.agent = None

(* A row whose lease is as it was in rec. *)
SameLease(rec, new) ==
  /\ new.run = rec.run
  /\ new.agent = rec.agent
  /\ new.seq = rec.seq
  /\ new.stage = rec.stage
  /\ new.state \in {"absent", "deleted", "submitted"} => new.state = rec.state

-----------------------------------------------------------------------------
(* The helpers on rows.                                                    *)

(* A row that is freed is a row that nobody holds, with its epoch kept. *)
LEMMA FreeType ==
  ASSUME NEW rec \in Card
  PROVE  Free(rec) \in Card /\ Freed(Free(rec)) /\ Free(rec).seq = rec.seq
BY DEF Free, Freed, Card

(* Queueing frees the row. *)
LEMMA QueueType ==
  ASSUME NEW rec \in Card
  PROVE  Queue(rec) \in Card /\ Freed(Queue(rec)) /\ Queue(rec).seq = rec.seq
BY DEF Queue, Free, Freed, Card, CardStates

(* Parking frees the row. *)
LEMMA ParkType ==
  ASSUME NEW rec \in Card, NEW why \in Needs
  PROVE  /\ Park(rec, why) \in Card
         /\ Freed(Park(rec, why))
         /\ Park(rec, why).seq = rec.seq
BY DEF Park, Free, Freed, Card, CardStates

(* A change of stage touches no other column of the lease. *)
LEMMA AtStageType ==
  ASSUME NEW rec \in Card, NEW s \in Stages
  PROVE  /\ AtStage(rec, s) \in Card
         /\ Freed(rec) => Freed(AtStage(rec, s))
         /\ AtStage(rec, s).seq = rec.seq
BY DEF AtStage, Freed, Card

(* A failed attempt frees the row, none leaves it alone (endAttempt). *)
LEMMA FailedAttemptType ==
  ASSUME NEW rec \in Card, NEW n \in Nat
  PROVE  /\ FailedAttempt(rec, n) \in Card
         /\ n # 0 => Freed(FailedAttempt(rec, n))
         /\ n = 0 => FailedAttempt(rec, n) = rec
         /\ FailedAttempt(rec, n).seq = rec.seq
<1> DEFINE f == rec.failures + n
<1>1. f \in Nat
  BY DEF Card
<1>2. CASE n = 0
  BY <1>2 DEF FailedAttempt
<1>3. CASE n # 0 /\ f >= CIRCUIT_BREAKER_LIMIT
  <2>1. /\ Park(rec, "repeated-failure") \in Card
        /\ Freed(Park(rec, "repeated-failure"))
        /\ Park(rec, "repeated-failure").seq = rec.seq
    BY ParkType DEF Needs
  <2>2. FailedAttempt(rec, n) = [Park(rec, "repeated-failure") EXCEPT !.failures = f]
    BY <1>3 DEF FailedAttempt
  <2> QED
    BY <1>1, <1>3, <2>1, <2>2 DEF Card, Freed
<1>4. CASE n # 0 /\ ~(f >= CIRCUIT_BREAKER_LIMIT)
  <2>1. FailedAttempt(rec, n) = [Queue(rec) EXCEPT !.failures = f, !.needs = "none"]
    BY <1>4 DEF FailedAttempt
  <2> QED
    BY <1>1, <1>4, <2>1, QueueType DEF Card, Freed, Needs
<1> QED
  BY <1>2, <1>3, <1>4

(* A refused handoff frees the row. *)
LEMMA ReworkOrParkType ==
  ASSUME NEW rec \in Card
  PROVE  /\ ReworkOrPark(rec) \in Card
         /\ Freed(ReworkOrPark(rec))
         /\ ReworkOrPark(rec).seq = rec.seq
<1> DEFINE base == IF rec.rework THEN Park(rec, "blocked")
                   ELSE IF rec.failures + 1 >= CIRCUIT_BREAKER_LIMIT
                        THEN Park(rec, "repeated-failure")
                        ELSE [Queue(rec) EXCEPT !.needs = "none", !.rework = TRUE]
<1>1. base \in Card /\ Freed(base) /\ base.seq = rec.seq
  <2>1. [Queue(rec) EXCEPT !.needs = "none", !.rework = TRUE] \in Card
    BY QueueType DEF Card, Needs
  <2>2. /\ Freed([Queue(rec) EXCEPT !.needs = "none", !.rework = TRUE])
        /\ [Queue(rec) EXCEPT !.needs = "none", !.rework = TRUE].seq = rec.seq
    BY QueueType DEF Freed, Card
  <2> QED
    BY <2>1, <2>2, ParkType DEF Needs
<1>2. ReworkOrPark(rec) = [base EXCEPT !.failures = rec.failures + 1]
  BY DEF ReworkOrPark
<1>3. rec.failures + 1 \in Nat
  BY DEF Card
<1> QED
  BY <1>1, <1>2, <1>3 DEF Card, Freed

(* Every stage but the last has a next one. *)
LEMMA NextStage ==
  ASSUME NEW s \in Stages, s # NStages
  PROVE  s + 1 \in Stages
BY PipelineAssumption DEF Stages

(* A card that lands after its advance is free. *)
LEMMA LandedType ==
  ASSUME NEW rec \in Card, rec.deferred # None
  PROVE  /\ Landed(rec) \in Card
         /\ Freed(Landed(rec))
         /\ Landed(rec).seq = rec.seq
<1> DEFINE s == rec.deferred.from
           to == IF s = NStages THEN rec.stage ELSE s + 1
           base == AtStage(Free(rec), to)
<1>1. s \in Stages /\ to \in Stages
  <2>1. rec.deferred \in Order /\ rec.stage \in Stages
    BY DEF Card
  <2>2. s \in Stages
    BY <2>1 DEF Order
  <2> QED
    BY SMTT(60), <2>1, <2>2, PipelineAssumption DEF Stages
<1>2. base \in Card /\ Freed(base) /\ base.seq = rec.seq
  BY <1>1, FreeType, AtStageType
<1> DEFINE st == IF LandsDone(s) THEN "completed"
                 ELSE IF Gated(to) THEN "input-required" ELSE "submitted"
<1>3. Landed(rec) = [base EXCEPT !.state = st, !.failures = 0, !.deferred = None]
  BY DEF Landed
<1>4. st \in CardStates
  BY DEF CardStates
<1> HIDE DEF base, s, to, st
<1>5. [base EXCEPT !.state = st, !.failures = 0, !.deferred = None] \in Card
  BY <1>2, <1>4 DEF Card
<1>6. /\ Freed([base EXCEPT !.state = st, !.failures = 0, !.deferred = None])
      /\ [base EXCEPT !.state = st, !.failures = 0, !.deferred = None].seq = base.seq
  BY <1>2 DEF Card, Freed
<1> QED
  BY <1>2, <1>3, <1>5, <1>6

-----------------------------------------------------------------------------
(* The cascade.                                                            *)

(* Only cards that owe an advance are replayed. *)
LEMMA ReplayedOwes ==
  ASSUME NEW cs, NEW L, NEW start, NEW x \in Replayed(cs, L, start)
  PROVE  x \in Cards /\ cs[x].deferred # None
<1> DEFINE owing == {y \in Cards : cs[y].deferred # None}
<1>1. Replayable(cs, L, start, owing) \subseteq owing
  BY DEF Replayable
<1>2. x \in owing
  BY <1>1 DEF Replayed
<1> QED
  BY <1>2

(* A cascade leaves a card as it was or lands it free. *)
LEMMA SettleType ==
  ASSUME NEW cs \in [Cards -> Card], NEW gs \in SUBSET Gate, NEW L, NEW start,
         Settle(cs, gs, L, start)
  PROVE  /\ card' \in [Cards -> Card]
         /\ gates' \in SUBSET Gate
         /\ \A c \in Cards : /\ card'[c] = cs[c] \/ Freed(card'[c])
                             /\ card'[c].seq = cs[c].seq
<1> DEFINE R == Replayed(cs, L, start)
           reviewed == {x \in R : /\ ~LandsDone(cs[x].deferred.from)
                                  /\ Gated(cs[x].deferred.from + 1)}
<1>1. card' = [x \in Cards |-> IF x \in R THEN Landed(cs[x]) ELSE cs[x]]
  BY DEF Settle
<1>2. gates' = gs \cup {GateFor(cs, x) : x \in reviewed}
  BY DEF Settle
<1>3. ASSUME NEW x \in R
      PROVE  /\ x \in Cards
             /\ Landed(cs[x]) \in Card
             /\ Freed(Landed(cs[x]))
             /\ Landed(cs[x]).seq = cs[x].seq
  BY ReplayedOwes, LandedType
<1>4. ASSUME NEW x \in reviewed
      PROVE  GateFor(cs, x) \in Gate
  <2>1. x \in Cards /\ cs[x].deferred \in Order
    BY ReplayedOwes DEF Card
  <2>2. cs[x].deferred.from \in Stages /\ cs[x].deferred.from # NStages
    BY <2>1 DEF Order, LandsDone
  <2>3. cs[x].deferred.from + 1 \in Stages
    BY <2>2, NextStage
  <2>4. /\ cs[x].deferred.by \in Agents \cup People
        /\ cs[x].deferred.run \in Runs
    BY <2>1 DEF Order
  <2> QED
    BY <2>1, <2>2, <2>3, <2>4 DEF GateFor, Gate
<1> HIDE DEF R, reviewed
<1> QED
  BY <1>1, <1>2, <1>3, <1>4

(* advanceCard always frees the card it advances. *)
LEMMA AdvanceType ==
  ASSUME card \in [Cards -> Card], NEW c \in Cards, NEW gs \in SUBSET Gate,
         NEW order \in Order, Advance(c, gs, order)
  PROVE  /\ card' \in [Cards -> Card]
         /\ gates' \in SUBSET Gate
         /\ Freed(card'[c])
         /\ \A d \in Cards : /\ d # c => card'[d] = card[d] \/ Freed(card'[d])
                             /\ card'[d].seq = card[d].seq
<1> DEFINE owing == [card EXCEPT ![c].deferred = order]
<1>1. /\ owing \in [Cards -> Card]
      /\ \A d \in Cards : d # c => owing[d] = card[d]
      /\ \A d \in Cards : owing[d].seq = card[d].seq /\ owing[d].state = card[d].state
      /\ owing[c].deferred = order
  BY DEF Card
<1>2. CASE OpenChildren(card, links, c) # {}
  <2>1. /\ card' = [owing EXCEPT ![c] = [Free(@) EXCEPT !.state = "input-required"]]
        /\ gates' = gs
    BY <1>2 DEF Advance
  <2>2. [Free(owing[c]) EXCEPT !.state = "input-required"] \in Card
    BY <1>1, FreeType DEF Card, CardStates
  <2>3. /\ Freed([Free(owing[c]) EXCEPT !.state = "input-required"])
        /\ [Free(owing[c]) EXCEPT !.state = "input-required"].seq = owing[c].seq
    BY <1>1, FreeType DEF Card, Freed
  <2> HIDE DEF owing
  <2> QED
    BY <1>1, <2>1, <2>2, <2>3
<1>3. CASE OpenChildren(card, links, c) = {}
  <2>1. Settle(owing, gs, links, {c})
    BY <1>3 DEF Advance
  <2>2. OpenChildren(owing, links, c) = {}
    BY <1>1, <1>3 DEF OpenChildren
  <2>3. c \in Replayed(owing, links, {c})
    <3> HIDE DEF owing
    <3>1. \A S \in SUBSET Cards : c \in Replayable(owing, links, {c}, S)
      BY <1>1, <2>2, IdAssumption DEF Replayable
    <3> QED
      BY <3>1 DEF Replayed
  <2>4. Freed(card'[c])
    <3>1. card'[c] = Landed(owing[c])
      BY <2>1, <2>3 DEF Settle
    <3> HIDE DEF owing
    <3> QED
      BY <1>1, <3>1, LandedType, IdAssumption
  <2> HIDE DEF owing
  <2> QED
    BY <1>1, <2>1, <2>4, SettleType
<1> QED
  BY <1>2, <1>3

-----------------------------------------------------------------------------
(* The inductive invariant.  LeaseOK and EpochsDistinct say what the two   *)
(* tables promise each other; to be added are the types, that a card that  *)
(* may be claimed is held by nobody, and that a run that never started     *)
(* belongs to no card.                                                     *)

Lendable == \A c \in Cards : card[c].state = "submitted" => card[c].run = None

Unused == \A r \in Runs : run[r].status = "none" => run[r].card = None

IInv == TypeOK /\ LeaseOK /\ EpochsDistinct /\ Lendable /\ Unused

(* What every step does but a claim and a deletion: runs may end and cards *)
(* may be freed, and that is all that happens to a lease.                  *)
LetGo ==
  /\ \A c \in Cards : /\ card'[c].seq = card[c].seq
                       /\ card'[c].run \in {card[c].run, None}
  /\ \A r \in Runs : /\ run'[r].card = run[r].card
                      /\ run'[r].epoch = run[r].epoch
                      /\ \/ run'[r].status = run[r].status
                         \/ run[r].status = "working" /\ run'[r].status = "ended"

(* Every step but a claim and a deletion: some runs end, and each card is  *)
(* freed or keeps a lease that does not end.                               *)
LEMMA LeaseStep ==
  ASSUME IInv, NEW ended \in SUBSET Runs,
         card' \in [Cards -> Card],
         run' \in [Runs -> Run],
         gates' \in SUBSET Gate,
         links' \in SUBSET Link,
         asked' \in SUBSET Runs,
         \A r \in asked' : Started(r),
         \A r \in Runs : /\ run'[r].card = run[r].card
                         /\ run'[r].agent = run[r].agent
                         /\ run'[r].stage = run[r].stage
                         /\ run'[r].epoch = run[r].epoch
                         /\ \/ run'[r].status = run[r].status
                            \/ /\ r \in ended
                               /\ run[r].status = "working"
                               /\ run'[r].status = "ended",
         \A c \in Cards : /\ card'[c].seq = card[c].seq
                          /\ \/ Freed(card'[c])
                             \/ SameLease(card[c], card'[c]) /\ card[c].run \notin ended
  PROVE  IInv' /\ LetGo
<1>1. TypeOK'
  BY DEF IInv, TypeOK, Started
<1>2. LeaseOK'
  <2> SUFFICES ASSUME NEW c \in Cards
               PROVE  LET r == card'[c].run IN
                      IF r = None THEN card'[c].agent = None
                      ELSE /\ card'[c].state \notin {"absent", "deleted"}
                           /\ run'[r].status = "working"
                           /\ run'[r].card = c
                           /\ run'[r].agent = card'[c].agent
                           /\ run'[r].stage = card'[c].stage
                           /\ run'[r].epoch = card'[c].seq
    BY DEF LeaseOK, Working, Exists
  <2>1. CASE Freed(card'[c])
    BY <2>1 DEF Freed
  <2>2. CASE SameLease(card[c], card'[c]) /\ card[c].run \notin ended
    <3>1. card[c].run \in Runs \cup {None}
      BY DEF IInv, TypeOK, Card
    <3> QED
      BY <2>2, <3>1 DEF IInv, LeaseOK, SameLease, Working, Exists
  <2> QED
    BY <2>1, <2>2
<1>3. EpochsDistinct'
  <2>1. \A r \in Runs : run[r].card \in Cards \cup {None}
    BY DEF IInv, TypeOK, Run
  <2> QED
    BY <2>1 DEF IInv, EpochsDistinct
<1>4. Lendable'
  BY DEF IInv, Lendable, Freed, SameLease
<1>5. Unused'
  BY DEF IInv, Unused
<1>6. LetGo
  BY DEF LetGo, Freed, SameLease
<1> QED
  BY <1>1, <1>2, <1>3, <1>4, <1>5, <1>6 DEF IInv

(* A step of a person, or of a run that goes on: no run ends. *)
LEMMA NoRunEnds ==
  ASSUME IInv, run' = run,
         card' \in [Cards -> Card],
         gates' \in SUBSET Gate,
         links' \in SUBSET Link,
         asked' \subseteq asked,
         \A c \in Cards : /\ card'[c].seq = card[c].seq
                          /\ Freed(card'[c]) \/ SameLease(card[c], card'[c])
  PROVE  IInv' /\ LetGo
<1>1. /\ run \in [Runs -> Run]
      /\ asked' \in SUBSET Runs
      /\ \A r \in asked' : Started(r)
  BY DEF IInv, TypeOK
<1>2. \A r \in Runs : /\ run'[r].card = run[r].card
                      /\ run'[r].agent = run[r].agent
                      /\ run'[r].stage = run[r].stage
                      /\ run'[r].epoch = run[r].epoch
                      /\ run'[r].status = run[r].status
  OBVIOUS
<1>3. run' \in [Runs -> Run]
  BY <1>1
<1>4. {} \in SUBSET Runs /\ \A c \in Cards : card[c].run \notin {}
  OBVIOUS
<1> QED
  BY <1>1, <1>2, <1>3, <1>4, LeaseStep

(* A verb that ends run r frees its card, and no other card held r. *)
LEMMA RunEnds ==
  ASSUME IInv, NEW r \in Runs, NEW outcome \in RunOutcomes, EndRun(r, outcome),
         card' \in [Cards -> Card],
         gates' \in SUBSET Gate,
         links' = links,
         asked' \subseteq asked \cup {r},
         Freed(card'[run[r].card]),
         \A c \in Cards : /\ card'[c].seq = card[c].seq
                          /\ c # run[r].card => card'[c] = card[c] \/ Freed(card'[c])
  PROVE  IInv' /\ LetGo
<1>1. /\ run \in [Runs -> Run]
      /\ links \in SUBSET Link
      /\ asked \in SUBSET Runs
      /\ \A q \in asked : Started(q)
  BY DEF IInv, TypeOK
<1>2. /\ run' = [run EXCEPT ![r].status = "ended", ![r].outcome = outcome]
      /\ run[r].status = "working"
  BY DEF EndRun, Working
<1>3. run' \in [Runs -> Run]
  <2> DEFINE row == [run[r] EXCEPT !.status = "ended", !.outcome = outcome]
  <2>1. run[r] \in Run /\ "ended" \in RunStatuses
    BY <1>1 DEF RunStatuses
  <2>2. row \in Run
    BY <2>1 DEF Run
  <2>3. run' = [run EXCEPT ![r] = row]
    BY <1>1, <1>2 DEF Run
  <2> HIDE DEF row
  <2> QED
    BY <1>1, <2>2, <2>3
<1>4. \A q \in Runs : /\ run'[q].card = run[q].card
                      /\ run'[q].agent = run[q].agent
                      /\ run'[q].stage = run[q].stage
                      /\ run'[q].epoch = run[q].epoch
                      /\ \/ run'[q].status = run[q].status
                         \/ q \in {r} /\ run[q].status = "working" /\ run'[q].status = "ended"
  BY <1>1, <1>2 DEF Run
<1>5. \A c \in Cards : Freed(card'[c]) \/ (SameLease(card[c], card'[c]) /\ card[c].run # r)
  <2> SUFFICES ASSUME NEW c \in Cards, ~Freed(card'[c])
               PROVE  SameLease(card[c], card'[c]) /\ card[c].run # r
    OBVIOUS
  <2>1. card'[c] = card[c] /\ c # run[r].card
    OBVIOUS
  <2>2. card[c].run # r
    BY <2>1, IdAssumption DEF IInv, LeaseOK
  <2> QED
    BY <2>1, <2>2 DEF SameLease
<1>6. \A q \in asked' : q \in Runs /\ Started(q)
  BY <1>1, <1>2 DEF Started
<1>7. /\ links' \in SUBSET Link
      /\ asked' \in SUBSET Runs
      /\ {r} \in SUBSET Runs
      /\ \A c \in Cards : card[c].run \notin {r} <=> card[c].run # r
  BY <1>1, <1>6
<1> QED
  BY <1>3, <1>4, <1>5, <1>6, <1>7, LeaseStep

(* A step that writes one row. *)
LEMMA OneRow ==
  ASSUME card \in [Cards -> Card], NEW c \in Cards, NEW row \in Card,
         card' = [card EXCEPT ![c] = row],
         row.seq = card[c].seq, Freed(row) \/ SameLease(card[c], row)
  PROVE  /\ card' \in [Cards -> Card]
         /\ card'[c] = row
         /\ \A d \in Cards : /\ card'[d].seq = card[d].seq
                             /\ Freed(card'[d]) \/ SameLease(card[d], card'[d])
                             /\ d # c => card'[d] = card[d]
BY DEF SameLease

-----------------------------------------------------------------------------
(* The actions, one lemma each.                                            *)

(* createCard fills a row that was empty. *)
LEMMA CreateCardStep ==
  ASSUME IInv, NEW c \in Cards, NEW s \in Stages, CreateCard(c, s)
  PROVE  IInv' /\ LetGo
<1> DEFINE row == [card[c] EXCEPT !.state = "submitted", !.stage = s]
<1>1. card \in [Cards -> Card] /\ gates \in SUBSET Gate /\ links \in SUBSET Link
  BY DEF IInv, TypeOK
<1>2. PICK rec \in Card : rec = card[c]
  BY <1>1
<1>3. row \in Card /\ row.seq = card[c].seq /\ row.run = card[c].run /\ row.agent = card[c].agent
  BY <1>2 DEF Card, CardStates
<1>4. card' = [card EXCEPT ![c] = row] /\ UNCHANGED <<run, gates, asked, links>>
  BY <1>1 DEF CreateCard
<1>5. Freed(row)
  <2>1. card[c].run = None /\ card[c].agent = None
    BY DEF IInv, LeaseOK, Exists, CreateCard
  <2> QED
    BY <1>3, <2>1 DEF Freed
<1> HIDE DEF row
<1> QED
  BY <1>1, <1>3, <1>4, <1>5, OneRow, NoRunEnds

(* splitCard fills several. *)
LEMMA SplitStep ==
  ASSUME IInv, NEW p \in Cards, NEW kids \in SUBSET Cards, Split(p, kids)
  PROVE  IInv' /\ LetGo
<1> DEFINE row(c) == [card[c] EXCEPT !.state = "submitted"]
<1>1. card \in [Cards -> Card] /\ gates \in SUBSET Gate /\ links \in SUBSET Link
  BY DEF IInv, TypeOK
<1>2. ASSUME NEW c \in Cards
      PROVE  /\ row(c) \in Card /\ row(c).seq = card[c].seq
             /\ row(c).run = card[c].run /\ row(c).agent = card[c].agent
  <2>1. PICK rec \in Card : rec = card[c]
    BY <1>1
  <2> QED
    BY <2>1 DEF Card, CardStates
<1>3. /\ card' = [c \in Cards |-> IF c \in kids THEN row(c) ELSE card[c]]
      /\ UNCHANGED <<run, gates, asked>>
      /\ links' = links \cup {[from |-> p, to |-> k, kind |-> "parent"] : k \in kids}
  BY DEF Split
<1>4. links' \in SUBSET Link
  BY <1>1, <1>3 DEF Link, ORDERING
<1> HIDE DEF row
<1>5. card' \in [Cards -> Card]
  BY <1>1, <1>2, <1>3
<1>6. ASSUME NEW c \in Cards
      PROVE  /\ card'[c].seq = card[c].seq
             /\ Freed(card'[c]) \/ SameLease(card[c], card'[c])
  <2>1. CASE c \in kids
    <3>1. card[c].run = None /\ card[c].agent = None
      BY <2>1 DEF IInv, LeaseOK, Exists, Split
    <3> QED
      BY <1>2, <1>3, <2>1, <3>1 DEF Freed
  <2>2. CASE c \notin kids
    BY <1>3, <2>2 DEF SameLease
  <2> QED
    BY <2>1, <2>2
<1> QED
  BY <1>1, <1>3, <1>4, <1>5, <1>6, NoRunEnds

(* Links alone touch no lease. *)
LEMMA AddLinkStep ==
  ASSUME IInv, NEW f \in Cards, NEW t \in Cards, NEW k \in ORDERING, AddLink(f, t, k)
  PROVE  IInv' /\ LetGo
<1>1. links' \in SUBSET Link /\ card \in [Cards -> Card] /\ gates \in SUBSET Gate
  BY DEF IInv, TypeOK, AddLink, Link
<1>2. \A c \in Cards : SameLease(card[c], card[c])
  BY DEF SameLease
<1> QED
  BY <1>1, <1>2, NoRunEnds DEF AddLink

(* Removing the last open child replays the parent's advance. *)
LEMMA RemoveLinkStep ==
  ASSUME IInv, NEW l \in Link, RemoveLink(l)
  PROVE  IInv' /\ LetGo
<1>1. /\ card \in [Cards -> Card]
      /\ gates \in SUBSET Gate
      /\ links' \in SUBSET Link
      /\ UNCHANGED <<run, asked>>
  BY DEF IInv, TypeOK, RemoveLink
<1>2. /\ card' \in [Cards -> Card]
      /\ gates' \in SUBSET Gate
      /\ \A c \in Cards : /\ card'[c] = card[c] \/ Freed(card'[c])
                          /\ card'[c].seq = card[c].seq
  <2>1. CASE l.kind = "parent"
    <3>1. Settle(card, gates, links', {l.from})
      BY <2>1 DEF RemoveLink
    <3> QED
      BY <1>1, <3>1, SettleType
  <2>2. CASE l.kind # "parent"
    BY <1>1, <2>2 DEF RemoveLink
  <2> QED
    BY <2>1, <2>2
<1>3. \A c \in Cards : Freed(card'[c]) \/ SameLease(card[c], card'[c])
  BY <1>2 DEF SameLease
<1> QED
  BY <1>1, <1>2, <1>3, NoRunEnds

(* Archiving leaves the lease of the card alone. *)
LEMMA ArchiveStep ==
  ASSUME IInv, NEW c \in Cards, Archive(c)
  PROVE  IInv' /\ LetGo
<1> DEFINE why == IF /\ GatesOf(c) # {} \/ asked \cap RunsOf(c) # {}
                     /\ card[c].state = "input-required"
                  THEN "blocked" ELSE card[c].needs
           row == [card[c] EXCEPT !.archived = TRUE, !.needs = why]
<1>1. /\ card \in [Cards -> Card]
      /\ gates' \in SUBSET Gate
      /\ links' \in SUBSET Link
      /\ asked' \subseteq asked
      /\ run' = run
  BY DEF IInv, TypeOK, Archive, GatesLeft
<1>2. card' = [card EXCEPT ![c] = row]
  BY <1>1 DEF Archive, Card
<1>3. row \in Card /\ row.seq = card[c].seq /\ SameLease(card[c], row)
  <2>1. PICK rec \in Card : rec = card[c]
    BY <1>1
  <2>2. why \in Needs
    BY <2>1 DEF Card, Needs
  <2> HIDE DEF why
  <2> QED
    BY <2>1, <2>2 DEF Card, SameLease
<1> HIDE DEF row
<1> QED
  BY <1>1, <1>2, <1>3, OneRow, NoRunEnds

(* So does taking it out of the archive. *)
LEMMA UnarchiveStep ==
  ASSUME IInv, NEW c \in Cards, Unarchive(c)
  PROVE  IInv' /\ LetGo
<1> DEFINE row == [card[c] EXCEPT !.archived = FALSE]
<1>1. /\ card \in [Cards -> Card]
      /\ gates' \in SUBSET Gate
      /\ links' \in SUBSET Link
      /\ asked' \subseteq asked
      /\ run' = run
  BY DEF IInv, TypeOK, Unarchive
<1>2. card' = [card EXCEPT ![c] = row]
  BY <1>1 DEF Unarchive
<1>3. row \in Card /\ row.seq = card[c].seq /\ SameLease(card[c], row)
  <2>1. PICK rec \in Card : rec = card[c]
    BY <1>1
  <2> QED
    BY <2>1 DEF Card, SameLease
<1> HIDE DEF row
<1> QED
  BY <1>1, <1>2, <1>3, OneRow, NoRunEnds

(* moveCard frees the card and cascades to its parents when it completes. *)
LEMMA MoveCardStep ==
  ASSUME IInv, NEW c \in Cards, NEW s \in Stages, MoveCard(c, s)
  PROVE  IInv' /\ LetGo
<1> DEFINE rec == [AtStage(Queue(card[c]), s) EXCEPT !.needs = "none", !.failures = 0]
           done == [rec EXCEPT !.state = "completed"]
           queued == [rec EXCEPT !.returns = 0]
<1>1. /\ card \in [Cards -> Card]
      /\ GatesLeft(c) \in SUBSET Gate
      /\ links' \in SUBSET Link
      /\ asked' \subseteq asked
      /\ run' = run
  BY DEF IInv, TypeOK, MoveCard, GatesLeft
<1>2. rec \in Card /\ Freed(rec) /\ rec.seq = card[c].seq
  <2>1. PICK base \in Card : base = AtStage(Queue(card[c]), s)
    BY <1>1, QueueType, AtStageType
  <2>2. Freed(base) /\ base.seq = card[c].seq
    BY <1>1, <2>1, QueueType, AtStageType
  <2>3. rec = [base EXCEPT !.needs = "none", !.failures = 0]
    BY <2>1
  <2> HIDE DEF rec
  <2> QED
    BY <2>1, <2>2, <2>3 DEF Card, Freed, Needs
<1>3. /\ done \in Card /\ Freed(done) /\ done.seq = card[c].seq
      /\ queued \in Card /\ Freed(queued) /\ queued.seq = card[c].seq
  <2> HIDE DEF rec
  <2> QED
    BY <1>2 DEF Card, Freed, CardStates
<1>4. \/ Settle([card EXCEPT ![c] = done], GatesLeft(c), links, ParentsOf(links, c))
      \/ card' = [card EXCEPT ![c] = queued] /\ gates' = GatesLeft(c)
  BY DEF MoveCard
<1> HIDE DEF rec, done, queued
<1>5. CASE card' = [card EXCEPT ![c] = queued] /\ gates' = GatesLeft(c)
  BY <1>1, <1>3, <1>5, OneRow, NoRunEnds
<1>6. CASE Settle([card EXCEPT ![c] = done], GatesLeft(c), links, ParentsOf(links, c))
  <2> DEFINE cs == [card EXCEPT ![c] = done]
  <2>1. cs \in [Cards -> Card] /\ cs[c] = done /\ \A d \in Cards : d # c => cs[d] = card[d]
    BY <1>1, <1>3
  <2>2. Settle(cs, GatesLeft(c), links, ParentsOf(links, c))
    BY <1>6
  <2> HIDE DEF cs
  <2>3. /\ card' \in [Cards -> Card]
        /\ gates' \in SUBSET Gate
        /\ \A d \in Cards : /\ card'[d] = cs[d] \/ Freed(card'[d])
                            /\ card'[d].seq = cs[d].seq
    BY <1>1, <2>1, <2>2, SettleType
  <2>4. \A d \in Cards : /\ card'[d].seq = card[d].seq
                         /\ Freed(card'[d]) \/ SameLease(card[d], card'[d])
    BY <1>3, <2>1, <2>3 DEF SameLease, Freed
  <2> QED
    BY <1>1, <2>3, <2>4, NoRunEnds
<1> QED
  BY <1>4, <1>5, <1>6

(* resumeCard frees the card. *)
LEMMA ResumeCardStep ==
  ASSUME IInv, NEW c \in Cards, NEW s \in Stages, ResumeCard(c, s)
  PROVE  IInv' /\ LetGo
<1> DEFINE row == [AtStage(Queue(card[c]), s) EXCEPT !.failures = 0, !.needs = "none",
                     !.rework = FALSE, !.deferred = None, !.returns = 0]
<1>1. /\ card \in [Cards -> Card]
      /\ gates' \in SUBSET Gate
      /\ links' \in SUBSET Link
      /\ asked' \subseteq asked
      /\ run' = run
  BY DEF IInv, TypeOK, ResumeCard
<1>2. row \in Card /\ Freed(row) /\ row.seq = card[c].seq
  <2>1. PICK base \in Card : base = AtStage(Queue(card[c]), s)
    BY <1>1, QueueType, AtStageType
  <2>2. Freed(base) /\ base.seq = card[c].seq
    BY <1>1, <2>1, QueueType, AtStageType
  <2>3. row = [base EXCEPT !.failures = 0, !.needs = "none", !.rework = FALSE,
                 !.deferred = None, !.returns = 0]
    BY <2>1
  <2> HIDE DEF row
  <2> QED
    BY <2>1, <2>2, <2>3 DEF Card, Freed, Needs
<1>3. card' = [card EXCEPT ![c] = row]
  BY DEF ResumeCard
<1> HIDE DEF row
<1> QED
  BY <1>1, <1>2, <1>3, OneRow, NoRunEnds

(* What a deletion does to the leases: those of the card's runs are gone,  *)
(* and the others are let go or left alone.                                *)
UnlentWith(c) ==
  /\ card'[c].run = None
  /\ card'[c].seq = 0
  /\ \A d \in Cards : d # c => /\ card'[d].seq = card[d].seq
                               /\ card'[d].run \in {card[d].run, None}
  /\ \A r \in Runs : IF run[r].card = c THEN run'[r].status = "deleted" ELSE run'[r] = run[r]

(* deleteCard takes the runs of the card with it, and only those. *)
LEMMA DeleteCardStep ==
  ASSUME IInv, NEW c \in Cards, DeleteCard(c)
  PROVE  IInv' /\ UnlentWith(c)
<1> DEFINE row == [NoCard EXCEPT !.state = "deleted"]
           cs == [card EXCEPT ![c] = row]
           L == {l \in links : c \notin {l.from, l.to}}
           gone == [NoRun EXCEPT !.status = "deleted"]
<1>1. /\ card \in [Cards -> Card]
      /\ run \in [Runs -> Run]
      /\ GatesLeft(c) \in SUBSET Gate
      /\ links \in SUBSET Link
      /\ asked \in SUBSET Runs
      /\ \A r \in asked : Started(r)
      /\ \A r \in Runs : Started(r) => run[r].card \in Cards /\ run[r].agent \in Agents
  BY DEF IInv, TypeOK, GatesLeft
<1>2. row \in Card /\ Freed(row) /\ row.seq = 0
  <2>1. 1 \in Stages
    BY PipelineAssumption DEF Stages
  <2> QED
    BY <2>1 DEF NoCard, Card, CardStates, Needs, Freed
<1>3. gone \in Run /\ gone.card = None /\ gone.status = "deleted"
  <2>1. 1 \in Stages
    BY PipelineAssumption DEF Stages
  <2> QED
    BY <2>1 DEF NoRun, Run, RunStatuses, RunOutcomes
<1>4. /\ links' = L
      /\ Settle(cs, GatesLeft(c), L, ParentsOf(links, c))
      /\ run' = [r \in Runs |-> IF r \in RunsOf(c) THEN gone ELSE run[r]]
      /\ asked' = asked \ RunsOf(c)
  BY DEF DeleteCard
<1>5. cs \in [Cards -> Card] /\ cs[c] = row /\ \A d \in Cards : d # c => cs[d] = card[d]
  BY <1>1, <1>2
<1> HIDE DEF cs, row, gone
<1>6. /\ card' \in [Cards -> Card]
      /\ gates' \in SUBSET Gate
      /\ \A d \in Cards : /\ card'[d] = cs[d] \/ Freed(card'[d])
                          /\ card'[d].seq = cs[d].seq
  BY <1>1, <1>4, <1>5, SettleType
<1>7. Freed(card'[c])
  BY <1>2, <1>5, <1>6
<1>8. \A r \in Runs : IF run[r].card = c THEN run'[r] = gone ELSE run'[r] = run[r]
  BY <1>4 DEF RunsOf
<1>9. TypeOK'
  <2>1. run' \in [Runs -> Run]
    BY <1>1, <1>3, <1>4
  <2>2. links' \in SUBSET Link
    BY <1>1, <1>4
  <2>3. asked' \in SUBSET Runs /\ \A r \in asked' : Started(r) /\ run[r].card # c
    BY <1>1, <1>4 DEF RunsOf
  <2> QED
    BY <1>1, <1>3, <1>6, <1>8, <2>1, <2>2, <2>3 DEF TypeOK, Started
<1>10. LeaseOK'
  <2> SUFFICES ASSUME NEW d \in Cards, ~Freed(card'[d])
               PROVE  LET r == card'[d].run IN
                      IF r = None THEN card'[d].agent = None
                      ELSE /\ card'[d].state \notin {"absent", "deleted"}
                           /\ run'[r].status = "working"
                           /\ run'[r].card = d
                           /\ run'[r].agent = card'[d].agent
                           /\ run'[r].stage = card'[d].stage
                           /\ run'[r].epoch = card'[d].seq
    BY DEF LeaseOK, Working, Exists, Freed
  <2>1. d # c /\ card'[d] = card[d] /\ card[d].run \in Runs \cup {None}
    BY <1>1, <1>5, <1>6, <1>7 DEF Card
  <2> QED
    BY <1>8, <2>1 DEF IInv, LeaseOK, Working, Exists
<1>11. EpochsDistinct'
  <2>1. \A d \in Cards : d # c => card'[d].seq = card[d].seq
    BY <1>5, <1>6
  <2>2. \A r \in Runs : run[r].card \in Cards \cup {None}
    BY <1>1 DEF Run
  <2> QED
    BY <1>3, <1>8, <2>1, <2>2 DEF IInv, EpochsDistinct
<1>12. Lendable'
  BY <1>5, <1>6, <1>7 DEF IInv, Lendable, Freed
<1>13. Unused'
  BY <1>3, <1>8 DEF IInv, Unused
<1>14. UnlentWith(c)
  <2>1. card'[c].seq = 0
    BY <1>2, <1>5, <1>6
  <2> QED
    BY <1>3, <1>5, <1>6, <1>7, <1>8, <2>1 DEF UnlentWith, Freed
<1> QED
  BY <1>9, <1>10, <1>11, <1>12, <1>13, <1>14 DEF IInv

-----------------------------------------------------------------------------
(* Leases.                                                                 *)

(* claim starts a run under a new epoch and hands it the card. *)
LEMMA ClaimStep ==
  ASSUME IInv, NEW a \in Agents, NEW c \in Cards, NEW r \in Runs, Claim(a, c, r)
  PROVE  IInv'
<1> DEFINE row == [card[c] EXCEPT !.state = "working", !.agent = a, !.run = r,
                                  !.seq = card[c].seq + 1]
           new == [card |-> c, stage |-> card[c].stage, agent |-> a,
                   epoch |-> card[c].seq + 1, status |-> "working",
                   outcome |-> "none", fresh |-> TRUE]
<1>1. /\ card \in [Cards -> Card]
      /\ run \in [Runs -> Run]
      /\ gates \in SUBSET Gate
      /\ links \in SUBSET Link
      /\ asked \in SUBSET Runs
      /\ \A q \in asked : Started(q)
      /\ \A q \in Runs : Started(q) => run[q].card \in Cards /\ run[q].agent \in Agents
  BY DEF IInv, TypeOK
<1>2. /\ run' = [run EXCEPT ![r] = new]
      /\ run[r].status = "none"
      /\ card[c].state = "submitted"
      /\ UNCHANGED <<gates, asked, links>>
  BY DEF Claim, MayClaim, Claimable, NextEpoch
<1>3. PICK rec \in Card : rec = card[c]
  BY <1>1
<1>4. /\ row \in Card /\ row.seq = card[c].seq + 1 /\ row.run = r /\ row.agent = a
      /\ row.stage = card[c].stage /\ row.state = "working"
  <2>1. rec.seq + 1 \in Nat
    BY DEF Card
  <2>2. [rec EXCEPT !.state = "working", !.agent = a, !.run = r, !.seq = rec.seq + 1] \in Card
    BY <2>1 DEF Card, CardStates
  <2> QED
    BY <1>3, <2>2 DEF Card
<1>5. card' = [card EXCEPT ![c] = row]
  BY <1>1, <1>3 DEF Claim, NextEpoch, Card
<1>6. /\ new \in Run /\ new.card = c /\ new.agent = a /\ new.stage = card[c].stage
      /\ new.epoch = card[c].seq + 1 /\ new.status = "working"
  BY <1>3 DEF Card, Run, RunStatuses, RunOutcomes
<1> HIDE DEF row, new
<1>7. /\ card'[c] = row /\ \A d \in Cards : d # c => card'[d] = card[d]
      /\ run'[r] = new /\ \A q \in Runs : q # r => run'[q] = run[q]
  BY <1>1, <1>2, <1>5
<1>8. TypeOK'
  <2>1. card' \in [Cards -> Card] /\ run' \in [Runs -> Run]
    BY <1>1, <1>2, <1>4, <1>5, <1>6
  <2>2. r \notin asked
    BY <1>1, <1>2 DEF Started
  <2> QED
    BY <1>1, <1>2, <1>6, <1>7, <2>1, <2>2 DEF TypeOK, Started
<1>9. LeaseOK'
  <2> SUFFICES ASSUME NEW d \in Cards
               PROVE  LET q == card'[d].run IN
                      IF q = None THEN card'[d].agent = None
                      ELSE /\ card'[d].state \notin {"absent", "deleted"}
                           /\ run'[q].status = "working"
                           /\ run'[q].card = d
                           /\ run'[q].agent = card'[d].agent
                           /\ run'[q].stage = card'[d].stage
                           /\ run'[q].epoch = card'[d].seq
    BY DEF LeaseOK, Working, Exists
  <2>1. CASE d = c
    BY <1>4, <1>6, <1>7, <2>1, IdAssumption
  <2>2. CASE d # c
    <3>1. card[d].run \in Runs \cup {None}
      BY <1>1 DEF Card
    <3> QED
      BY <1>2, <1>7, <2>2, <3>1 DEF IInv, LeaseOK, Working, Exists
  <2> QED
    BY <2>1, <2>2
<1>10. EpochsDistinct'
  <2>1. \A q \in Runs : run[q].card \in Cards \cup {None} /\ run[q].epoch \in Nat
    BY <1>1 DEF Run
  <2>2. \A d \in Cards : card[d].seq \in Nat
    BY <1>1 DEF Card
  <2>3. \A q \in Runs : run[q].card = c => run[q].epoch <= card[c].seq
    BY IdAssumption DEF IInv, EpochsDistinct
  <2>4. \A q \in Runs : q # r /\ run[q].card = c => run'[q].epoch < card'[c].seq
    BY <1>4, <1>7, <2>1, <2>2, <2>3
  <2> SUFFICES ASSUME NEW p \in Runs, NEW q \in Runs, run'[p].card # None
               PROVE  /\ run'[p].epoch <= card'[run'[p].card].seq
                      /\ (p # q /\ run'[q].card = run'[p].card) =>
                           run'[q].epoch # run'[p].epoch
    BY DEF EpochsDistinct
  <2>5. CASE run'[p].card = c
    <3>1. CASE p = r
      BY <1>4, <1>6, <1>7, <2>1, <2>2, <2>4, <2>5, <3>1
    <3>2. CASE p # r
      BY <1>4, <1>6, <1>7, <2>1, <2>2, <2>3, <2>4, <2>5, <3>2 DEF IInv, EpochsDistinct
    <3> QED
      BY <3>1, <3>2
  <2>6. CASE run'[p].card # c
    BY <1>6, <1>7, <2>1, <2>6 DEF IInv, EpochsDistinct
  <2> QED
    BY <2>5, <2>6
<1>11. Lendable'
  BY <1>4, <1>7 DEF IInv, Lendable
<1>12. Unused'
  BY <1>6, <1>7 DEF IInv, Unused
<1> QED
  BY <1>8, <1>9, <1>10, <1>11, <1>12 DEF IInv

(* A denied claim parks the card as it is. *)
LEMMA ClaimDeniedStep ==
  ASSUME IInv, NEW a \in Agents, NEW c \in Cards, ClaimDenied(a, c)
  PROVE  IInv' /\ LetGo
<1> DEFINE row == [card[c] EXCEPT !.state = "input-required", !.needs = "not-authorised"]
<1>1. /\ card \in [Cards -> Card]
      /\ gates' \in SUBSET Gate
      /\ links' \in SUBSET Link
      /\ asked' \subseteq asked
      /\ run' = run
  BY DEF IInv, TypeOK, ClaimDenied
<1>2. PICK rec \in Card : rec = card[c]
  BY <1>1
<1>3. row \in Card /\ row.seq = card[c].seq /\ SameLease(card[c], row)
  BY <1>2 DEF Card, CardStates, Needs, SameLease
<1>4. card' = [card EXCEPT ![c] = row]
  BY <1>1 DEF ClaimDenied, Card
<1> HIDE DEF row
<1> QED
  BY <1>1, <1>3, <1>4, OneRow, NoRunEnds

(* A heartbeat, its absence and an activity change only a run's freshness. *)
LEMMA FreshStep ==
  ASSUME IInv, NEW r \in Runs, NEW f \in BOOLEAN,
         run' = [run EXCEPT ![r].fresh = f],
         card' \in [Cards -> Card],
         gates' \in SUBSET Gate,
         links' \in SUBSET Link,
         asked' \in SUBSET Runs,
         \A q \in asked' : Started(q),
         \A c \in Cards : /\ card'[c].seq = card[c].seq
                          /\ Freed(card'[c]) \/ SameLease(card[c], card'[c])
  PROVE  IInv' /\ LetGo
<1> DEFINE row == [run[r] EXCEPT !.fresh = f]
<1>1. run \in [Runs -> Run]
  BY DEF IInv, TypeOK
<1>2. PICK rec \in Run : rec = run[r]
  BY <1>1
<1>3. /\ row \in Run /\ row.card = run[r].card /\ row.agent = run[r].agent
      /\ row.stage = run[r].stage /\ row.epoch = run[r].epoch
      /\ row.status = run[r].status
  BY <1>2 DEF Run
<1>4. run' = [run EXCEPT ![r] = row]
  OBVIOUS
<1> HIDE DEF row
<1>5. run' \in [Runs -> Run]
  BY <1>1, <1>3, <1>4
<1>6. \A q \in Runs : /\ run'[q].card = run[q].card
                      /\ run'[q].agent = run[q].agent
                      /\ run'[q].stage = run[q].stage
                      /\ run'[q].epoch = run[q].epoch
                      /\ run'[q].status = run[q].status
  BY <1>1, <1>3, <1>4
<1>7. \A c \in Cards : /\ card'[c].seq = card[c].seq
                       /\ \/ Freed(card'[c])
                          \/ SameLease(card[c], card'[c]) /\ card[c].run \notin {}
  OBVIOUS
<1>8. {} \in SUBSET Runs
  OBVIOUS
<1> QED
  BY <1>5, <1>6, <1>7, <1>8, LeaseStep

(* So a heartbeat and its absence keep every lease. *)
LEMMA HeartbeatStep ==
  ASSUME IInv, NEW r \in Runs, Heartbeat(r) \/ Lapse(r)
  PROVE  IInv' /\ LetGo
<1>1. /\ card' = card /\ gates' = gates /\ asked' = asked /\ links' = links
      /\ \E f \in BOOLEAN : run' = [run EXCEPT ![r].fresh = f]
  BY DEF Heartbeat, Lapse
<1>2. /\ card \in [Cards -> Card]
      /\ gates \in SUBSET Gate
      /\ links \in SUBSET Link
      /\ asked \in SUBSET Runs
      /\ \A q \in asked : Started(q)
  BY DEF IInv, TypeOK
<1>3. \A c \in Cards : SameLease(card[c], card[c])
  BY DEF SameLease
<1> QED
  BY <1>1, <1>2, <1>3, FreshStep

(* The alarm frees exactly the cards of the runs it ends, and perhaps some *)
(* that held another run.                                                  *)
LEMMA ReclaimStep ==
  ASSUME IInv, ReclaimExpired
  PROVE  IInv' /\ LetGo
<1> DEFINE row(r) == [run[r] EXCEPT !.status = "ended", !.outcome = "reclaimed"]
           n(c) == Cardinality(Expired \cap RunsOf(c))
<1>1. /\ card \in [Cards -> Card]
      /\ run \in [Runs -> Run]
      /\ gates \in SUBSET Gate
      /\ links \in SUBSET Link
      /\ asked \in SUBSET Runs
      /\ \A r \in asked : Started(r)
  BY DEF IInv, TypeOK
<1>2. /\ run' = [r \in Runs |-> IF r \in Expired THEN row(r) ELSE run[r]]
      /\ card' = [c \in Cards |-> FailedAttempt(card[c], n(c))]
      /\ asked' = asked \ Expired
      /\ gates' = gates /\ links' = links
  BY DEF ReclaimExpired
<1>3. ASSUME NEW r \in Runs
      PROVE  /\ row(r) \in Run /\ row(r).card = run[r].card /\ row(r).agent = run[r].agent
             /\ row(r).stage = run[r].stage /\ row(r).epoch = run[r].epoch
             /\ row(r).status = "ended"
  <2>1. PICK rec \in Run : rec = run[r]
    BY <1>1
  <2> QED
    BY <2>1 DEF Run, RunStatuses, RunOutcomes
<1>4. ASSUME NEW c \in Cards
      PROVE  n(c) \in Nat /\ (n(c) = 0 => \A r \in Expired : run[r].card # c)
  <2>1. IsFiniteSet(Expired \cap RunsOf(c))
    BY FS_Subset, IdAssumption DEF Expired
  <2>2. n(c) \in Nat /\ (n(c) = 0 <=> Expired \cap RunsOf(c) = {})
    BY <2>1, FS_CardinalityType, FS_EmptySet
  <2> QED
    BY <2>2 DEF RunsOf, Expired
<1>5. Expired \in SUBSET Runs /\ \A r \in Expired : run[r].status = "working"
  BY DEF Expired, Working
<1> HIDE DEF row, n
<1>6. ASSUME NEW c \in Cards
      PROVE  /\ card'[c] \in Card
             /\ card'[c].seq = card[c].seq
             /\ \/ Freed(card'[c])
                \/ SameLease(card[c], card'[c]) /\ card[c].run \notin Expired
  <2>1. card'[c] = FailedAttempt(card[c], n(c)) /\ card[c] \in Card
    BY <1>1, <1>2
  <2>2. CASE n(c) = 0
    <3>1. card'[c] = card[c] /\ \A r \in Expired : run[r].card # c
      BY <1>4, <2>1, <2>2, FailedAttemptType
    <3>2. card[c].run \notin Expired
      BY <1>5, <3>1, IdAssumption DEF IInv, LeaseOK
    <3> QED
      BY <1>1, <3>1, <3>2 DEF SameLease
  <2>3. CASE n(c) # 0
    BY <1>4, <2>1, <2>3, FailedAttemptType
  <2> QED
    BY <2>2, <2>3
<1>7. card' \in [Cards -> Card]
  BY <1>2, <1>6
<1>8. run' \in [Runs -> Run]
  BY <1>1, <1>2, <1>3
<1>9. \A r \in Runs : /\ run'[r].card = run[r].card
                      /\ run'[r].agent = run[r].agent
                      /\ run'[r].stage = run[r].stage
                      /\ run'[r].epoch = run[r].epoch
                      /\ \/ run'[r].status = run[r].status
                         \/ /\ r \in Expired
                            /\ run[r].status = "working"
                            /\ run'[r].status = "ended"
  BY <1>2, <1>3, <1>5
<1>10. asked' \in SUBSET Runs /\ \A r \in asked' : Started(r)
  BY <1>1, <1>2
<1> QED
  <2>1. PICK ended \in SUBSET Runs : ended = Expired
    BY <1>5
  <2>2. \A c \in Cards : /\ card'[c].seq = card[c].seq
                         /\ \/ Freed(card'[c])
                            \/ SameLease(card[c], card'[c]) /\ card[c].run \notin ended
    BY <1>6, <2>1
  <2> QED
    BY <1>1, <1>2, <1>7, <1>8, <1>9, <1>10, <2>1, <2>2, LeaseStep

-----------------------------------------------------------------------------
(* Verbs and answers.                                                      *)

(* A question leaves the lease with the run that asks. *)
LEMMA AskStep ==
  ASSUME IInv, NEW r \in Runs, NEW state \in {"input-required", "auth-required"},
         Ask(r, state)
  PROVE  IInv' /\ LetGo
<1> DEFINE c == run[r].card
           row == [card[c] EXCEPT !.state = state, !.needs = "question"]
<1>1. /\ card \in [Cards -> Card]
      /\ gates \in SUBSET Gate
      /\ links \in SUBSET Link
      /\ asked \in SUBSET Runs
      /\ \A q \in asked : Started(q)
      /\ Started(r)
      /\ c \in Cards
  BY DEF IInv, TypeOK, Ask, Working, Started
<1>2. PICK rec \in Card : rec = card[c]
  BY <1>1
<1>3. row \in Card /\ row.seq = card[c].seq /\ SameLease(card[c], row)
  BY ZenonT(60), <1>2 DEF Card, CardStates, Needs, SameLease
<1>4. /\ card' = [card EXCEPT ![c] = row]
      /\ run' = [run EXCEPT ![r].fresh = TRUE]
      /\ gates' = gates /\ links' = links
      /\ asked' \subseteq asked \cup {r}
  BY <1>1 DEF Ask, Card
<1>5. asked' \in SUBSET Runs /\ \A q \in asked' : Started(q)
  BY <1>1, <1>4
<1> HIDE DEF row, c
<1> QED
  BY <1>1, <1>3, <1>4, <1>5, OneRow, FreshStep

(* An answer to a working run gives the card back to it. *)
LEMMA AnswerLiveStep ==
  ASSUME IInv, NEW r \in Runs, AnswerLive(r)
  PROVE  IInv' /\ LetGo
<1> DEFINE c == run[r].card
           row == [card[c] EXCEPT !.state = "working", !.needs = "none"]
<1>1. /\ card \in [Cards -> Card]
      /\ gates' \in SUBSET Gate
      /\ links' \in SUBSET Link
      /\ asked' \subseteq asked
      /\ run' = run
      /\ c \in Cards
  BY DEF IInv, TypeOK, AnswerLive
<1>2. PICK rec \in Card : rec = card[c]
  BY <1>1
<1>3. row \in Card /\ row.seq = card[c].seq /\ SameLease(card[c], row)
  BY <1>2 DEF Card, CardStates, Needs, SameLease
<1>4. card' = [card EXCEPT ![c] = row]
  BY <1>1 DEF AnswerLive, Card
<1> HIDE DEF row, c
<1> QED
  BY <1>1, <1>3, <1>4, OneRow, NoRunEnds

(* An answer to a run that stopped queues the card. *)
LEMMA AnswerParkedStep ==
  ASSUME IInv, NEW r \in Runs, AnswerParked(r)
  PROVE  IInv' /\ LetGo
<1> DEFINE c == run[r].card
           row == [Queue(card[c]) EXCEPT !.needs = "none"]
<1>1. /\ card \in [Cards -> Card]
      /\ gates' \in SUBSET Gate
      /\ links' \in SUBSET Link
      /\ asked' \subseteq asked
      /\ run' = run
      /\ c \in Cards
  BY DEF IInv, TypeOK, AnswerParked
<1>2. row \in Card /\ row.seq = card[c].seq /\ Freed(row)
  BY <1>1, QueueType DEF Card, Needs, Freed
<1>3. card' = [card EXCEPT ![c] = row]
  BY DEF AnswerParked
<1> HIDE DEF row, c
<1> QED
  BY <1>1, <1>2, <1>3, OneRow, NoRunEnds

(* The verbs that end a run and write its card's row alone: refused,       *)
(* returned and parked completions, questions that stop, blocks, failures  *)
(* and releases.                                                           *)
LEMMA VerbStep ==
  ASSUME IInv, NEW r \in Runs, NEW outcome \in RunOutcomes, EndRun(r, outcome),
         NEW row \in Card, Freed(row), row.seq = card[run[r].card].seq,
         card' = [card EXCEPT ![run[r].card] = row],
         gates' \in SUBSET Gate,
         links' = links,
         asked' \subseteq asked \cup {r}
  PROVE  IInv' /\ LetGo
<1>1. card \in [Cards -> Card] /\ run[r].card \in Cards
  BY DEF IInv, TypeOK, EndRun, Working, Started
<1>2. /\ card' \in [Cards -> Card]
      /\ Freed(card'[run[r].card])
      /\ \A d \in Cards : /\ card'[d].seq = card[d].seq
                          /\ d # run[r].card => card'[d] = card[d]
  BY <1>1, OneRow
<1> QED
  BY <1>2, RunEnds

(* complete, on each of its four routes. *)
LEMMA CompleteStep ==
  ASSUME IInv, NEW r \in Runs, NEW said \in {"pass", "silent", "changes-needed"},
         NEW met \in BOOLEAN, Complete(r, said, met)
  PROVE  IInv' /\ LetGo
<1> DEFINE c == run[r].card
           rec == card[c]
           back == Returns[rec.stage]
           returned == [AtStage(Queue(rec), back) EXCEPT
                          !.failures = 0, !.needs = "none", !.returns = @ + 1]
           order == [from |-> rec.stage, by |-> run[r].agent, run |-> r]
<1>1. /\ card \in [Cards -> Card]
      /\ gates \in SUBSET Gate
      /\ c \in Cards
      /\ run[r].agent \in Agents
      /\ rec \in Card
      /\ asked' \subseteq asked \cup {r}
      /\ links' = links
  BY DEF IInv, TypeOK, Complete, EndRun, Working, Started
<1>2. rec.stage \in Stages /\ back \in Nat
  BY <1>1, PipelineAssumption DEF Card
<1>3. \/ /\ EndRun(r, "blocked")
         /\ card' = [card EXCEPT ![c] = ReworkOrPark(rec)]
         /\ gates' = gates
      \/ /\ EndRun(r, "completed")
         /\ gates' = gates
         /\ \/ card' = [card EXCEPT ![c] = Park(rec, "blocked")]
            \/ card' = [card EXCEPT ![c] = Park(rec, "repeated-failure")]
            \/ back # 0 /\ ~(back >= rec.stage) /\ card' = [card EXCEPT ![c] = returned]
      \/ EndRun(r, "completed") /\ Advance(c, gates, order)
  BY DEF Complete, RouteOutcome
<1>4. {"blocked", "completed"} \subseteq RunOutcomes
  BY DEF RunOutcomes
<1>5. CASE EndRun(r, "blocked") /\ card' = [card EXCEPT ![c] = ReworkOrPark(rec)] /\ gates' = gates
  BY <1>1, <1>4, <1>5, ReworkOrParkType, VerbStep
<1>6. CASE EndRun(r, "completed") /\ card' = [card EXCEPT ![c] = Park(rec, "blocked")] /\ gates' = gates
  <2>1. "blocked" \in Needs
    BY DEF Needs
  <2> QED
    BY <1>1, <1>4, <1>6, <2>1, ParkType, VerbStep
<1>7. CASE EndRun(r, "completed") /\ card' = [card EXCEPT ![c] = Park(rec, "repeated-failure")]
             /\ gates' = gates
  <2>1. "repeated-failure" \in Needs
    BY DEF Needs
  <2> QED
    BY <1>1, <1>4, <1>7, <2>1, ParkType, VerbStep
<1>8. CASE /\ EndRun(r, "completed") /\ gates' = gates
           /\ back # 0 /\ ~(back >= rec.stage) /\ card' = [card EXCEPT ![c] = returned]
  <2>1. back \in Stages
    BY SMTT(60), <1>2, <1>8, PipelineAssumption DEF Stages
  <2>2. PICK base \in Card : base = AtStage(Queue(rec), back)
    BY <1>1, <2>1, QueueType, AtStageType
  <2>3. Freed(base) /\ base.seq = rec.seq
    BY <1>1, <2>1, <2>2, QueueType, AtStageType
  <2>4. returned = [base EXCEPT !.failures = 0, !.needs = "none", !.returns = @ + 1]
    BY <2>2
  <2> HIDE DEF returned, rec, back, c
  <2>5. returned \in Card /\ Freed(returned) /\ returned.seq = rec.seq
    <3>1. base.returns + 1 \in Nat /\ "none" \in Needs
      BY <2>2 DEF Card, Needs
    <3>2. [base EXCEPT !.failures = 0, !.needs = "none", !.returns = base.returns + 1] \in Card
      BY <2>2, <3>1 DEF Card
    <3> QED
      BY <2>2, <2>3, <2>4, <3>2 DEF Card, Freed
  <2> QED
    BY <1>1, <1>4, <1>8, <2>5, VerbStep DEF rec, c
<1>9. CASE EndRun(r, "completed") /\ Advance(c, gates, order)
  <2>1. order \in Order
    BY <1>1, <1>2 DEF Order
  <2>2. /\ card' \in [Cards -> Card]
        /\ gates' \in SUBSET Gate
        /\ Freed(card'[c])
        /\ \A d \in Cards : /\ d # c => card'[d] = card[d] \/ Freed(card'[d])
                            /\ card'[d].seq = card[d].seq
    BY <1>1, <1>9, <2>1, AdvanceType
  <2> QED
    BY <1>1, <1>4, <1>9, <2>2, RunEnds
<1> HIDE DEF c, rec, back, returned, order
<1> QED
  BY <1>3, <1>5, <1>6, <1>7, <1>8, <1>9

(* The other verbs of a run. *)
LEMMA EndingStep ==
  ASSUME IInv, NEW r \in Runs,
         \/ AskAndStop(r) \/ SubmitForReview(r) \/ Block(r) \/ Fail(r) \/ Release(r)
  PROVE  IInv' /\ LetGo
<1> DEFINE c == run[r].card
<1>1. /\ card \in [Cards -> Card]
      /\ gates \in SUBSET Gate
      /\ c \in Cards
      /\ run[r].agent \in Agents
      /\ card[c] \in Card
      /\ asked' \subseteq asked \cup {r}
      /\ links' = links
  BY DEF IInv, TypeOK, EndRun, Working, Started,
         AskAndStop, SubmitForReview, Block, Fail, Release
<1>2. \A why \in Needs : /\ Park(card[c], why) \in Card
                         /\ Freed(Park(card[c], why))
                         /\ Park(card[c], why).seq = card[c].seq
  BY <1>1, ParkType
<1>3. {"question", "review", "blocked"} \subseteq Needs
  BY DEF Needs
<1>4. {"blocked", "submitted", "crashed", "released"} \subseteq RunOutcomes
  BY DEF RunOutcomes
<1>5. CASE AskAndStop(r)
  BY <1>1, <1>2, <1>3, <1>4, <1>5, VerbStep DEF AskAndStop
<1>6. CASE SubmitForReview(r)
  <2>1. gates' \in SUBSET Gate
    <3>1. [card |-> c, stage |-> card[c].stage, back |-> card[c].stage,
           by |-> run[r].agent, run |-> r] \in Gate
      BY <1>1 DEF Gate, Card
    <3> QED
      BY <1>1, <1>6, <3>1 DEF SubmitForReview
  <2> QED
    BY <1>1, <1>2, <1>3, <1>4, <1>6, <2>1, VerbStep DEF SubmitForReview
<1>7. CASE Block(r)
  BY <1>1, <1>2, <1>3, <1>4, <1>7, VerbStep DEF Block
<1>8. CASE Fail(r)
  <2>1. /\ FailedAttempt(card[c], 1) \in Card
        /\ Freed(FailedAttempt(card[c], 1))
        /\ FailedAttempt(card[c], 1).seq = card[c].seq
    BY <1>1, FailedAttemptType
  <2> QED
    BY <1>1, <1>4, <1>8, <2>1, VerbStep DEF Fail
<1>9. CASE Release(r)
  BY <1>1, <1>4, <1>9, QueueType, VerbStep DEF Release
<1> QED
  BY <1>5, <1>6, <1>7, <1>8, <1>9

(* A decision frees the card: advanced, sent back or rejected. *)
LEMMA GateStep ==
  ASSUME IInv, NEW g \in gates, NEW p \in People,
         Approve(g, p) \/ RequestChanges(g, p) \/ Reject(g, p)
  PROVE  IInv' /\ LetGo
<1>1. /\ card \in [Cards -> Card]
      /\ gates \ {g} \in SUBSET Gate
      /\ links \in SUBSET Link
      /\ g \in Gate
      /\ UNCHANGED <<run, asked, links>>
  BY DEF IInv, TypeOK, Approve, RequestChanges, Reject
<1>2. /\ g.card \in Cards /\ g.stage \in Stages /\ g.back \in Stages /\ g.run \in Runs
      /\ card[g.card] \in Card
  BY <1>1 DEF Gate
<1>3. CASE Approve(g, p)
  <2> DEFINE order == [from |-> g.stage, by |-> p, run |-> g.run]
  <2>1. order \in Order
    BY <1>2 DEF Order
  <2>2. Advance(g.card, gates \ {g}, order)
    BY <1>3 DEF Approve
  <2> HIDE DEF order
  <2>3. /\ card' \in [Cards -> Card]
        /\ gates' \in SUBSET Gate
        /\ Freed(card'[g.card])
        /\ \A d \in Cards : /\ d # g.card => card'[d] = card[d] \/ Freed(card'[d])
                            /\ card'[d].seq = card[d].seq
    BY <1>1, <1>2, <2>1, <2>2, AdvanceType
  <2>4. \A d \in Cards : Freed(card'[d]) \/ SameLease(card[d], card'[d])
    BY <2>3 DEF SameLease
  <2> QED
    BY <1>1, <2>3, <2>4, NoRunEnds
<1>4. CASE RequestChanges(g, p)
  <2> DEFINE row == [AtStage(Queue(card[g.card]), g.back) EXCEPT !.failures = 0, !.returns = 0]
  <2>1. PICK base \in Card : base = AtStage(Queue(card[g.card]), g.back)
    BY <1>2, QueueType, AtStageType
  <2>2. Freed(base) /\ base.seq = card[g.card].seq
    BY <1>2, <2>1, QueueType, AtStageType
  <2>3. row = [base EXCEPT !.failures = 0, !.returns = 0]
    BY <2>1
  <2>4. card' = [card EXCEPT ![g.card] = row] /\ gates' = gates \ {g}
    BY <1>4 DEF RequestChanges
  <2> HIDE DEF row
  <2>5. row \in Card /\ Freed(row) /\ row.seq = card[g.card].seq
    BY <2>1, <2>2, <2>3 DEF Card, Freed
  <2> QED
    BY <1>1, <1>2, <2>4, <2>5, OneRow, NoRunEnds
<1>5. CASE Reject(g, p)
  <2> DEFINE row == [Free(card[g.card]) EXCEPT !.state = "rejected"]
  <2>1. row \in Card /\ Freed(row) /\ row.seq = card[g.card].seq
    BY <1>2, FreeType DEF Card, CardStates, Freed
  <2>2. card' = [card EXCEPT ![g.card] = row] /\ gates' = gates \ {g}
    BY <1>5 DEF Reject
  <2> HIDE DEF row
  <2> QED
    BY <1>1, <1>2, <2>1, <2>2, OneRow, NoRunEnds
<1> QED
  BY <1>3, <1>4, <1>5

-----------------------------------------------------------------------------
(* The theorems.                                                           *)

(* The empty board satisfies the invariant. *)
LEMMA InitStep == Init => IInv
<1> SUFFICES ASSUME Init PROVE IInv
  OBVIOUS
<1>1. 1 \in Stages
  BY PipelineAssumption DEF Stages
<1>2. NoCard \in Card /\ NoCard.run = None /\ NoCard.agent = None
  BY <1>1 DEF NoCard, Card, CardStates, Needs
<1>3. NoRun \in Run /\ NoRun.status = "none" /\ NoRun.card = None
  BY <1>1 DEF NoRun, Run, RunStatuses, RunOutcomes
<1>4. card = [c \in Cards |-> NoCard] /\ run = [r \in Runs |-> NoRun]
      /\ gates = {} /\ asked = {} /\ links = {}
  BY DEF Init
<1>5. TypeOK
  BY <1>2, <1>3, <1>4 DEF TypeOK, Started
<1>6. LeaseOK
  BY <1>2, <1>4 DEF LeaseOK
<1>7. EpochsDistinct
  BY <1>3, <1>4 DEF EpochsDistinct
<1>8. Lendable /\ Unused
  BY <1>2, <1>3, <1>4 DEF Lendable, Unused
<1> QED
  BY <1>5, <1>6, <1>7, <1>8 DEF IInv

(* A step that changes nothing lets nothing go. *)
LEMMA IdleStep ==
  ASSUME IInv, UNCHANGED vars
  PROVE  IInv' /\ LetGo
<1>1. /\ card' = card /\ run' = run /\ gates' = gates /\ asked' = asked /\ links' = links
      /\ card \in [Cards -> Card] /\ gates \in SUBSET Gate /\ links \in SUBSET Link
  BY DEF vars, IInv, TypeOK
<1>2. \A c \in Cards : SameLease(card[c], card[c])
  BY DEF SameLease
<1> QED
  BY <1>1, <1>2, NoRunEnds

(* Every step of the board keeps the invariant, and is a claim, a deletion *)
(* or a step that lets some cards go.                                      *)
LEMMA StepKinds ==
  ASSUME IInv, [Next]_vars
  PROVE  /\ IInv'
         /\ \/ LetGo
            \/ \E a \in Agents, c \in Cards, r \in Runs : Claim(a, c, r)
            \/ \E c \in Cards : UnlentWith(c)
<1>1. CASE UNCHANGED vars
  BY <1>1, IdleStep
<1>2. CASE CardNext
  BY <1>2, CreateCardStep, MoveCardStep, ResumeCardStep, SplitStep, AddLinkStep,
     RemoveLinkStep, DeleteCardStep, ArchiveStep, UnarchiveStep DEF CardNext
<1>3. CASE LeaseNext
  BY <1>3, ClaimStep, ClaimDeniedStep, HeartbeatStep, ReclaimStep DEF LeaseNext
<1>4. CASE RunNext
  <2>1. PICK r \in Runs :
          \/ \E state \in {"input-required", "auth-required"} : Ask(r, state)
          \/ AnswerLive(r)
          \/ AnswerParked(r)
          \/ \E said \in {"pass", "silent", "changes-needed"}, met \in BOOLEAN :
               Complete(r, said, met)
          \/ AskAndStop(r) \/ SubmitForReview(r) \/ Block(r) \/ Fail(r) \/ Release(r)
    BY <1>4 DEF RunNext
  <2> QED
    BY <2>1, AskStep, AnswerLiveStep, AnswerParkedStep, CompleteStep, EndingStep
<1>5. CASE GateNext
  BY <1>5, GateStep DEF GateNext
<1> QED
  BY <1>1, <1>2, <1>3, <1>4, <1>5 DEF Next

(* So the invariant is inductive. *)
LEMMA NextStep == IInv /\ [Next]_vars => IInv'
BY StepKinds

(* Every row of the board is well formed, and a started run always belongs *)
(* to a card and an agent.                                                 *)
THEOREM TypeCorrect == Spec => []TypeOK
<1>1. IInv => TypeOK
  BY DEF IInv
<1> QED
  BY <1>1, InitStep, NextStep, PTL DEF Spec

(* The lease a card names is always that of a working run of its own, at   *)
(* its stage, for its agent, with its newest epoch.                        *)
THEOREM LeaseCorrect == Spec => []LeaseOK
<1>1. IInv => LeaseOK
  BY DEF IInv
<1> QED
  BY <1>1, InitStep, NextStep, PTL DEF Spec

(* No lease epoch of a card is ever given out twice. *)
THEOREM EpochsCorrect == Spec => []EpochsDistinct
<1>1. IInv => EpochsDistinct
  BY DEF IInv
<1> QED
  BY <1>1, InitStep, NextStep, PTL DEF Spec

=============================================================================
