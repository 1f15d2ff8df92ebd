------------------------------- MODULE Board -------------------------------
(***************************************************************************)
(* One board: the cards of a Kanban board, the runs agents hold on them,   *)
(* the review gates and questions people answer, and the links that order  *)
(* the cards.  It models the Durable Object of apps/api/src/board: one     *)
(* single-threaded actor over one SQLite file, so that each method is one  *)
(* atomic step, and the interleavings are those of the calls of agents,    *)
(* people and the reclaim alarm.                                           *)
(*                                                                         *)
(* Time is abstracted to one bit per run: "fresh" says that the last       *)
(* heartbeat is younger than HEARTBEAT_TIMEOUT_MS.                         *)
(*                                                                         *)
(* A definition whose name ends in _bug is a faulty variant of the one     *)
(* that follows it.  None is used by the specification: each is there to   *)
(* show that a property fails when the code has that fault.                *)
(***************************************************************************)
EXTENDS Links, Integers

CONSTANTS
  Cards,          \* ids of the cards that may ever be created
  Runs,           \* ids of the runs that may ever be started
  Agents, People,
  None,           \* SQL NULL
  NStages,        \* the pipeline is stages 1 .. NStages, in order
  AgentStages,    \* stages an agent or a capability owns (isAgentClaimable)
  GateStages,     \* stages with gate = 'approval'
  Returns,        \* stage -> the stage its judge returns work to, 0 if none
  WipLimit,       \* stage -> wipLimit, 0 if it has none
  CanWork,        \* agent -> the agent stages whose owner it matches
  MaxConcurrency, \* the maxConcurrency agents claim with
  CIRCUIT_BREAKER_LIMIT,
  MAX_AUTOMATIC_RETURNS,
  ControlPair,    \* isControlPairEnforced: the deployment checks grants
  Interrupts      \* do people move or resume a card whose run still works?

Stages == 1 .. NStages

ASSUME PipelineAssumption ==
  /\ NStages \in Nat \ {0}
  /\ AgentStages \subseteq Stages
  /\ GateStages \subseteq Stages
  /\ Returns \in [Stages -> Nat]
  /\ WipLimit \in [Stages -> Nat]
  /\ CanWork \in [Agents -> SUBSET AgentStages]

ASSUME LimitAssumption ==
  /\ MaxConcurrency \in Nat \ {0}
  /\ CIRCUIT_BREAKER_LIMIT \in Nat \ {0}
  /\ MAX_AUTOMATIC_RETURNS \in Nat
  /\ ControlPair \in BOOLEAN
  /\ Interrupts \in BOOLEAN

VARIABLES
  card,   \* the cards table: id -> row
  run,    \* the runs table: id -> row
  gates,  \* the pending rows of the gates table
  asked,  \* the runs with a pending row in the elicitations table
  links   \* the card_links table

vars == <<card, run, gates, asked, links>>

-----------------------------------------------------------------------------
(* The rows.                                                               *)

CardStates == {"absent", "submitted", "working", "input-required",
               "auth-required", "completed", "rejected", "deleted"}
Needs == {"none", "question", "review", "blocked", "repeated-failure",
          "not-authorised"}
RunStatuses == {"none", "working", "ended", "deleted"}
RunOutcomes == {"none", "completed", "submitted", "blocked", "crashed",
                "released", "reclaimed"}

(* pending_advance_json: the advance a parent owes when its children end.  *)
Order == [from : Stages, by : Agents \cup People, run : Runs]

ASSUME IdAssumption ==
  /\ IsFiniteSet(Runs)
  /\ None \notin Cards \cup Runs \cup Agents \cup People \cup Order

Card == [state : CardStates, stage : Stages, run : Runs \cup {None},
         agent : Agents \cup {None}, seq : Nat, failures : Nat,
         needs : Needs, rework : BOOLEAN, returns : Nat,
         deferred : Order \cup {None}, archived : BOOLEAN]

Run == [card : Cards \cup {None}, stage : Stages, agent : Agents \cup {None},
        epoch : Nat, status : RunStatuses, outcome : RunOutcomes,
        fresh : BOOLEAN]

Gate == [card : Cards, stage : Stages, back : Stages,
         by : Agents \cup People, run : Runs]

Link == [from : Cards, to : Cards, kind : ORDERING]

Started(r) == run[r].status \in {"working", "ended"}

(* The rows, and the columns a started run never leaves empty. *)
TypeOK ==
  /\ card \in [Cards -> Card]
  /\ run \in [Runs -> Run]
  /\ gates \subseteq Gate
  /\ asked \subseteq Runs
  /\ links \subseteq Link
  /\ \A r \in Runs : Started(r) => run[r].card \in Cards /\ run[r].agent \in Agents
  /\ \A r \in asked : Started(r)

NoCard == [state |-> "absent", stage |-> 1, run |-> None, agent |-> None,
           seq |-> 0, failures |-> 0, needs |-> "none", rework |-> FALSE,
           returns |-> 0, deferred |-> None, archived |-> FALSE]

NoRun == [card |-> None, stage |-> 1, agent |-> None, epoch |-> 0,
          status |-> "none", outcome |-> "none", fresh |-> FALSE]

-----------------------------------------------------------------------------
(* State formulae.                                                         *)

Exists(c) == card[c].state \notin {"absent", "deleted"}
RunsOf(c) == {r \in Runs : run[r].card = c}
Working(r) == run[r].status = "working"
GatesOf(c) == {g \in gates : g.card = c}
ParentsOf(L, c) == {p \in Cards : [from |-> p, to |-> c, kind |-> "parent"] \in L}

(* A rejected child would count as resolved. *)
OpenChildren_bug(cs, L, x) ==
  {y \in Cards : /\ [from |-> x, to |-> y, kind |-> "parent"] \in L
                 /\ cs[y].state \notin {"completed", "rejected"}}

(* The children that still hold x back: only 'completed' counts as         *)
(* resolved (nothing in the code writes 'canceled').                       *)
OpenChildren(cs, L, x) ==
  {y \in Cards : /\ [from |-> x, to |-> y, kind |-> "parent"] \in L
                 /\ cs[y].state # "completed"}

OpenBlockers(x) ==
  {y \in Cards : /\ [from |-> y, to |-> x, kind |-> "blocks"] \in links
                 /\ card[y].state # "completed"}

HeldBack(x) == OpenBlockers(x) \cup OpenChildren(card, links, x) # {}

Claimable(c) ==
  /\ card[c].state = "submitted"
  /\ ~card[c].archived
  /\ ~HeldBack(c)

(* The runs the alarm would end if it spared those whose card waits. *)
Expired_bug == {r \in Runs : Working(r) /\ ~run[r].fresh /\ card[run[r].card].state = "working"}

Expired == {r \in Runs : Working(r) /\ ~run[r].fresh}

(* The epoch of the next lease of a card. *)
NextEpoch_bug(c) == Cardinality({r \in RunsOf(c) : Working(r)}) + 1

NextEpoch(c) == card[c].seq + 1

(* cancelPendingReviews: what is left of the gates. *)
GatesLeft_bug(c) == gates

GatesLeft(c) == gates \ GatesOf(c)

(* The cards of a stage, whatever their state. *)
InStage(s) == {c \in Cards : Exists(c) /\ card[c].stage = s}

(* A last stage nobody works and nobody reviews: arriving there is done. *)
CompletesOnArrival(s) == s = NStages /\ s \notin AgentStages \cup GateStages

(* Is the card at peace: nobody works it, or people do not wait for that?  *)
Undisturbed(c) == Interrupts \/ \A r \in RunsOf(c) : ~Working(r)

-----------------------------------------------------------------------------
(* How the handlers change one card's row.                                 *)

Free(rec) == [rec EXCEPT !.run = None, !.agent = None]

(* The lease would be forgotten on the row. *)
Queue_bug(rec) == [rec EXCEPT !.state = "submitted"]

Queue(rec) == [Free(rec) EXCEPT !.state = "submitted"]

Park(rec, why) == [Free(rec) EXCEPT !.state = "input-required", !.needs = why]

(* A change of stage gives the one automatic rework back: the trigger      *)
(* cards_state_since clears completion_rework_json.                        *)
AtStage(rec, s) ==
  [rec EXCEPT !.stage = s, !.rework = IF s = rec.stage THEN @ ELSE FALSE]

(* The breaker would open one failure late. *)
FailedAttempt_bug(rec, n) ==
  LET f == rec.failures + n IN
  IF n = 0 THEN rec
  ELSE IF f > CIRCUIT_BREAKER_LIMIT
       THEN [Park(rec, "repeated-failure") EXCEPT !.failures = f]
       ELSE [Queue(rec) EXCEPT !.failures = f, !.needs = "none"]

(* endAttempt, n times: each failed attempt counts, and the attempt that   *)
(* reaches the limit parks the card instead of queueing it again.          *)
FailedAttempt(rec, n) ==
  LET f == rec.failures + n IN
  IF n = 0 THEN rec
  ELSE IF f >= CIRCUIT_BREAKER_LIMIT
       THEN [Park(rec, "repeated-failure") EXCEPT !.failures = f]
       ELSE [Queue(rec) EXCEPT !.failures = f, !.needs = "none"]

(* The refusal would not count as a failure. *)
ReworkOrPark_bug(rec) ==
  IF rec.rework THEN Park(rec, "blocked")
  ELSE [Queue(rec) EXCEPT !.needs = "none", !.rework = TRUE]

(* reworkOrPark: a refused handoff goes back to the same stage once. *)
ReworkOrPark(rec) ==
  LET f == rec.failures + 1 IN
  [ IF rec.rework THEN Park(rec, "blocked")
    ELSE IF f >= CIRCUIT_BREAKER_LIMIT THEN Park(rec, "repeated-failure")
    ELSE [Queue(rec) EXCEPT !.needs = "none", !.rework = TRUE]
    EXCEPT !.failures = f ]

-----------------------------------------------------------------------------
(* advanceCard and what it sets off.  A card with an open child defers its *)
(* advance; a card that completes lets its parent replay the advance it    *)
(* deferred, which may complete the parent and free the parent's parent.   *)

(* Does an advance from stage s complete the card? *)
LandsDone(s) == s = NStages \/ CompletesOnArrival(s + 1)

Gated(s) == s \in GateStages \ AgentStages

(* The last stage would be left for one past it. *)
Landed_bug(rec) ==
  [AtStage(Free(rec), rec.deferred.from + 1) EXCEPT
     !.state = IF LandsDone(rec.deferred.from) THEN "completed"
               ELSE IF Gated(rec.deferred.from + 1) THEN "input-required" ELSE "submitted",
     !.failures = 0, !.deferred = None]

(* What the advance a card owes does to its row. *)
Landed(rec) ==
  LET s == rec.deferred.from
      to == IF s = NStages THEN rec.stage ELSE s + 1
  IN  [AtStage(Free(rec), to) EXCEPT
         !.state = IF LandsDone(s) THEN "completed"
                   ELSE IF Gated(to) THEN "input-required" ELSE "submitted",
         !.failures = 0, !.deferred = None]

(* resumeParentAdvanceIfFree, tried on the cards of start: the cards whose *)
(* deferred advance is replayed when those of S are.                       *)
Completing(cs, S) ==
  {x \in S : cs[x].deferred # None /\ LandsDone(cs[x].deferred.from)}

Replayable(cs, L, start, S) ==
  {x \in Cards :
     /\ cs[x].deferred # None
     /\ x \in start \/ \E y \in Completing(cs, S) : x \in ParentsOf(L, y)
     /\ OpenChildren(cs, L, x) \subseteq Completing(cs, S)}

(* Only the first card of a cascade would be replayed. *)
Replayed_bug(cs, L, start) == Replayable(cs, L, start, {})

(* The least set of cards the cascade replays. *)
Replayed(cs, L, start) ==
  {x \in Cards : \A S \in SUBSET Cards :
                   Replayable(cs, L, start, S) \subseteq S => x \in S}

(* The gate createGate opens for the advance card x owes in cs. *)
GateFor(cs, x) ==
  [card |-> x, stage |-> cs[x].deferred.from + 1, back |-> cs[x].deferred.from,
   by |-> cs[x].deferred.by, run |-> cs[x].deferred.run]

Settle(cs, gs, L, start) ==
  LET R == Replayed(cs, L, start)
      reviewed == {x \in R : /\ ~LandsDone(cs[x].deferred.from)
                             /\ Gated(cs[x].deferred.from + 1)}
  IN  /\ card' = [x \in Cards |-> IF x \in R THEN Landed(cs[x]) ELSE cs[x]]
      /\ gates' = gs \cup {GateFor(cs, x) : x \in reviewed}

(* advanceCard.  Without open children the order is replayed at once: the  *)
(* code does not pass through pending_advance_json then, which is the same *)
(* because a card owes nothing unless a child is open (DeferredHeld).      *)
Advance(c, gs, order) ==
  LET owing == [card EXCEPT ![c].deferred = order] IN
  IF OpenChildren(card, links, c) # {}
  THEN /\ card' = [owing EXCEPT ![c] = [Free(@) EXCEPT !.state = "input-required"]]
       /\ gates' = gs
  ELSE Settle(owing, gs, links, {c})

-----------------------------------------------------------------------------
(* Cards and links.                                                        *)

Init ==
  /\ card = [c \in Cards |-> NoCard]
  /\ run = [r \in Runs |-> NoRun]
  /\ gates = {}
  /\ asked = {}
  /\ links = {}

(* createCard, at the first stage or at one the caller names.  An absent   *)
(* card already has the default value of every other column.               *)
CreateCard(c, s) ==
  /\ card[c].state = "absent"
  /\ card' = [card EXCEPT ![c].state = "submitted", ![c].stage = s]
  /\ UNCHANGED <<run, gates, asked, links>>

(* splitCard and createChildCard: any card, by its agent or by a person. *)
Split(p, kids) ==
  /\ Exists(p)
  /\ kids # {}
  /\ \A k \in kids : card[k].state = "absent"
  /\ card' = [c \in Cards |-> IF c \in kids THEN [card[c] EXCEPT !.state = "submitted"]
                                             ELSE card[c]]
  /\ links' = links \cup {[from |-> p, to |-> k, kind |-> "parent"] : k \in kids}
  /\ UNCHANGED <<run, gates, asked>>

AddLink(f, t, k) ==
  /\ Exists(f) /\ Exists(t)
  /\ k = "parent" => ParentsOf(links, t) \subseteq {f}
  /\ ~WouldCycle(Cards, links, [from |-> f, to |-> t, kind |-> k])
  /\ links' = links \cup {[from |-> f, to |-> t, kind |-> k]}
  /\ UNCHANGED <<card, run, gates, asked>>

RemoveLink(l) ==
  /\ l \in links
  /\ links' = links \ {l}
  /\ IF l.kind = "parent" THEN Settle(card, gates, links', {l.from})
                          ELSE UNCHANGED <<card, gates>>
  /\ UNCHANGED <<run, asked>>

DeleteCard(c) ==
  /\ Exists(c)
  /\ LET gone == [card EXCEPT ![c] = [NoCard EXCEPT !.state = "deleted"]]
         L == {l \in links : c \notin {l.from, l.to}}
     IN  /\ links' = L
         /\ Settle(gone, GatesLeft(c), L, ParentsOf(links, c))
  /\ run' = [r \in Runs |-> IF r \in RunsOf(c)
                            THEN [NoRun EXCEPT !.status = "deleted"] ELSE run[r]]
  /\ asked' = asked \ RunsOf(c)

(* The card would not say that its review was cancelled. *)
Archive_bug(c) ==
  /\ Exists(c)
  /\ card' = [card EXCEPT ![c].archived = TRUE]
  /\ gates' = GatesLeft(c)
  /\ asked' = asked \ RunsOf(c)
  /\ UNCHANGED <<run, links>>

(* updateCard with an archivedAt: archiving ends the reviews and questions *)
(* of the card, and says so when a person was being waited for.            *)
Archive(c) ==
  /\ Exists(c)
  /\ LET ended == GatesOf(c) # {} \/ asked \cap RunsOf(c) # {} IN
     card' = [card EXCEPT ![c].archived = TRUE,
                          ![c].needs = IF ended /\ card[c].state = "input-required"
                                       THEN "blocked" ELSE @]
  /\ gates' = GatesLeft(c)
  /\ asked' = asked \ RunsOf(c)
  /\ UNCHANGED <<run, links>>

Unarchive(c) ==
  /\ card[c].archived
  /\ card' = [card EXCEPT ![c].archived = FALSE]
  /\ UNCHANGED <<run, gates, asked, links>>

(* moveCard.  It ends the card's reviews and questions, never its run. *)
MoveCard(c, s) ==
  /\ Exists(c)
  /\ s # card[c].stage
  /\ WipLimit[s] = 0 \/ Cardinality(InStage(s)) < WipLimit[s]
  /\ OpenChildren(card, links, c) = {}
  /\ Undisturbed(c)
  /\ LET rec == [AtStage(Queue(card[c]), s) EXCEPT !.needs = "none", !.failures = 0]
     IN  IF CompletesOnArrival(s)
         THEN Settle([card EXCEPT ![c] = [rec EXCEPT !.state = "completed"]],
                     GatesLeft(c), links, ParentsOf(links, c))
         ELSE /\ card' = [card EXCEPT ![c] = [rec EXCEPT !.returns = 0]]
              /\ gates' = GatesLeft(c)
  /\ asked' = asked \ RunsOf(c)
  /\ UNCHANGED <<run, links>>

(* resumeCard: back to its stage or an earlier one, every counter reset. *)
ResumeCard(c, s) ==
  /\ card[c].state = "input-required"
  /\ asked \cap RunsOf(c) = {}
  /\ GatesOf(c) = {}
  /\ OpenChildren(card, links, c) = {}
  /\ s <= card[c].stage
  /\ Undisturbed(c)
  /\ card' = [card EXCEPT ![c] =
       [AtStage(Queue(@), s) EXCEPT !.failures = 0, !.needs = "none",
          !.rework = FALSE, !.deferred = None, !.returns = 0]]
  /\ UNCHANGED <<run, gates, asked, links>>

-----------------------------------------------------------------------------
(* Leases: claim, heartbeat, expiry.                                       *)

(* What claim checks before it picks a card for agent a. *)
MayClaim(a, c) ==
  /\ Cardinality({r \in Runs : run[r].agent = a /\ Working(r)}) < MaxConcurrency
  /\ Claimable(c)
  /\ card[c].stage \in CanWork[a]

Claim(a, c, r) ==
  /\ MayClaim(a, c)
  /\ run[r].status = "none"
  /\ card' = [card EXCEPT ![c].state = "working", ![c].agent = a,
                          ![c].run = r, ![c].seq = NextEpoch(c)]
  /\ run' = [run EXCEPT ![r] =
       [card |-> c, stage |-> card[c].stage, agent |-> a, epoch |-> NextEpoch(c),
        status |-> "working", outcome |-> "none", fresh |-> TRUE]]
  /\ UNCHANGED <<gates, asked, links>>

(* The grant the card was queued with does not let a be dispatched. *)
ClaimDenied(a, c) ==
  /\ ControlPair
  /\ MayClaim(a, c)
  /\ card' = [card EXCEPT ![c].state = "input-required", ![c].needs = "not-authorised"]
  /\ UNCHANGED <<run, gates, asked, links>>

(* heartbeat, and every activity that is not a question. *)
Heartbeat(r) ==
  /\ Working(r)
  /\ run' = [run EXCEPT ![r].fresh = TRUE]
  /\ UNCHANGED <<card, gates, asked, links>>

(* HEARTBEAT_TIMEOUT_MS passes without one. *)
Lapse(r) ==
  /\ Working(r)
  /\ run[r].fresh
  /\ run' = [run EXCEPT ![r].fresh = FALSE]
  /\ UNCHANGED <<card, gates, asked, links>>

(* The alarm: every run that has gone dark ends, and its card's attempt    *)
(* has failed.                                                             *)
ReclaimExpired ==
  /\ Expired # {}
  /\ run' = [r \in Runs |-> IF r \in Expired
                            THEN [run[r] EXCEPT !.status = "ended", !.outcome = "reclaimed"]
                            ELSE run[r]]
  /\ asked' = asked \ Expired
  /\ card' = [c \in Cards |-> FailedAttempt(card[c], Cardinality(Expired \cap RunsOf(c)))]
  /\ UNCHANGED <<gates, links>>

-----------------------------------------------------------------------------
(* What a run may do while it is authorised.  Agents call with the run id  *)
(* and lease epoch they were given; authorizeRun lets the call pass while  *)
(* the run's own row says 'working'.                                       *)

(* Nothing would fence a run that has ended. *)
EndRun_bug(r, outcome) ==
  /\ Started(r)
  /\ run' = [run EXCEPT ![r].status = "ended", ![r].outcome = outcome]

EndRun(r, outcome) ==
  /\ Working(r)
  /\ run' = [run EXCEPT ![r].status = "ended", ![r].outcome = outcome]

(* Asking would park the card as a finished run does. *)
Ask_bug(r, state) ==
  /\ Working(r)
  /\ run' = [run EXCEPT ![r].fresh = TRUE]
  /\ card' = [card EXCEPT ![run[r].card] = Park(@, "question")]
  /\ asked' = (asked \ RunsOf(run[r].card)) \cup {r}
  /\ UNCHANGED <<gates, links>>

(* postActivity of type 'elicitation': the run asks and keeps working. *)
Ask(r, state) ==
  /\ Working(r)
  /\ run' = [run EXCEPT ![r].fresh = TRUE]
  /\ card' = [card EXCEPT ![run[r].card].state = state, ![run[r].card].needs = "question"]
  /\ asked' = (asked \ RunsOf(run[r].card)) \cup {r}
  /\ UNCHANGED <<gates, links>>

(* answerElicitation while the run that asked still works. *)
AnswerLive(r) ==
  /\ r \in asked
  /\ run[r].status # "ended"
  /\ card[run[r].card].state \in {"input-required", "auth-required"}
  /\ card' = [card EXCEPT ![run[r].card].state = "working", ![run[r].card].needs = "none"]
  /\ asked' = asked \ {r}
  /\ UNCHANGED <<run, gates, links>>

(* resumeParkedQuestion: the run that asked has stopped to wait. *)
AnswerParked(r) ==
  /\ r \in asked
  /\ run[r].status = "ended"
  /\ card[run[r].card].state = "input-required"
  /\ card[run[r].card].stage = run[r].stage
  /\ card' = [card EXCEPT ![run[r].card] = [Queue(@) EXCEPT !.needs = "none"]]
  /\ asked' = asked \ {r}
  /\ UNCHANGED <<run, gates, links>>

(* routeOutcome: where a finished turn at stage s sends the card. *)
RouteOutcome(s, said, returnsSoFar) ==
  CASE said = "pass" -> "advance"
    [] said = "silent" -> IF Returns[s] # 0 THEN "refuse" ELSE "advance"
    [] said = "changes-needed" ->
         IF Returns[s] = 0 THEN "park"
         ELSE IF returnsSoFar >= MAX_AUTOMATIC_RETURNS THEN "exhausted"
         ELSE "return"

(* complete: met is what evaluateCompletion says of the handoff. *)
Complete(r, said, met) ==
  LET c == run[r].card
      rec == card[c]
      route == RouteOutcome(rec.stage, said, rec.returns)
  IN
  /\ Working(r)
  /\ asked' = asked \ {r}
  /\ UNCHANGED links
  /\ \/ /\ ~met \/ route = "refuse"
        /\ EndRun(r, "blocked")
        /\ card' = [card EXCEPT ![c] = ReworkOrPark(rec)]
        /\ UNCHANGED gates
     \/ /\ met /\ route = "return"
        /\ EndRun(r, "completed")
        /\ card' = [card EXCEPT ![c] =
             IF Returns[rec.stage] >= rec.stage THEN Park(rec, "blocked")
             ELSE [AtStage(Queue(rec), Returns[rec.stage]) EXCEPT
                     !.failures = 0, !.needs = "none", !.returns = @ + 1]]
        /\ UNCHANGED gates
     \/ /\ met /\ route \in {"park", "exhausted"}
        /\ EndRun(r, "completed")
        /\ card' = [card EXCEPT ![c] =
             Park(rec, IF route = "park" THEN "blocked" ELSE "repeated-failure")]
        /\ UNCHANGED gates
     \/ /\ met /\ route = "advance"
        /\ EndRun(r, "completed")
        /\ Advance(c, gates, [from |-> rec.stage, by |-> run[r].agent, run |-> r])

(* complete with outcome "needs-person" (waitOnPerson): the run ends and   *)
(* its question stays.                                                     *)
AskAndStop(r) ==
  /\ EndRun(r, "blocked")
  /\ card' = [card EXCEPT ![run[r].card] = Park(@, "question")]
  /\ asked' = (asked \ RunsOf(run[r].card)) \cup {r}
  /\ UNCHANGED <<gates, links>>

SubmitForReview(r) ==
  LET c == run[r].card IN
  /\ EndRun(r, "submitted")
  /\ card' = [card EXCEPT ![c] = Park(@, "review")]
  /\ gates' = gates \cup {[card |-> c, stage |-> card[c].stage, back |-> card[c].stage,
                           by |-> run[r].agent, run |-> r]}
  /\ asked' = asked \ {r}
  /\ UNCHANGED links

Block(r) ==
  /\ EndRun(r, "blocked")
  /\ card' = [card EXCEPT ![run[r].card] = Park(@, "blocked")]
  /\ asked' = asked \ {r}
  /\ UNCHANGED <<gates, links>>

Fail(r) ==
  /\ EndRun(r, "crashed")
  /\ card' = [card EXCEPT ![run[r].card] = FailedAttempt(@, 1)]
  /\ asked' = asked \ {r}
  /\ UNCHANGED <<gates, links>>

(* The question of the released run would stay open. *)
Release_bug(r) ==
  /\ EndRun(r, "released")
  /\ card' = [card EXCEPT ![run[r].card] = Queue(@)]
  /\ UNCHANGED <<gates, asked, links>>

Release(r) ==
  /\ EndRun(r, "released")
  /\ card' = [card EXCEPT ![run[r].card] = Queue(@)]
  /\ asked' = asked \ {r}
  /\ UNCHANGED <<gates, links>>

-----------------------------------------------------------------------------
(* Review gates: resolveGate, by anyone but the producer.                  *)

Approve(g, p) ==
  /\ p # g.by
  /\ Advance(g.card, gates \ {g}, [from |-> g.stage, by |-> p, run |-> g.run])
  /\ UNCHANGED <<run, asked, links>>

RequestChanges(g, p) ==
  /\ p # g.by
  /\ card' = [card EXCEPT ![g.card] =
       [AtStage(Queue(@), g.back) EXCEPT !.failures = 0, !.returns = 0]]
  /\ gates' = gates \ {g}
  /\ UNCHANGED <<run, asked, links>>

Reject(g, p) ==
  /\ p # g.by
  /\ card' = [card EXCEPT ![g.card] = [Free(@) EXCEPT !.state = "rejected"]]
  /\ gates' = gates \ {g}
  /\ UNCHANGED <<run, asked, links>>

-----------------------------------------------------------------------------
CardNext ==
  \/ \E c \in Cards, s \in Stages : CreateCard(c, s) \/ MoveCard(c, s) \/ ResumeCard(c, s)
  \/ \E p \in Cards, kids \in SUBSET Cards : Split(p, kids)
  \/ \E f, t \in Cards, k \in ORDERING : AddLink(f, t, k)
  \/ \E l \in Link : RemoveLink(l)
  \/ \E c \in Cards : DeleteCard(c) \/ Archive(c) \/ Unarchive(c)

LeaseNext ==
  \/ \E a \in Agents, c \in Cards, r \in Runs : Claim(a, c, r)
  \/ \E a \in Agents, c \in Cards : ClaimDenied(a, c)
  \/ \E r \in Runs : Heartbeat(r) \/ Lapse(r)
  \/ ReclaimExpired

RunNext ==
  \E r \in Runs :
    \/ \E state \in {"input-required", "auth-required"} : Ask(r, state)
    \/ AnswerLive(r)
    \/ AnswerParked(r)
    \/ \E said \in {"pass", "silent", "changes-needed"}, met \in BOOLEAN :
         Complete(r, said, met)
    \/ AskAndStop(r)
    \/ SubmitForReview(r)
    \/ Block(r)
    \/ Fail(r)
    \/ Release(r)

GateNext ==
  \E g \in gates, p \in People : Approve(g, p) \/ RequestChanges(g, p) \/ Reject(g, p)

Next == CardNext \/ LeaseNext \/ RunNext \/ GateNext

Spec == Init /\ [][Next]_vars

(* The alarm of the Durable Object is armed whenever a run works           *)
(* (scheduleReclaim) and the platform delivers alarms at least once, and   *)
(* time passes.  Nothing is assumed of agents and people.                  *)
Fairness == WF_vars(ReclaimExpired) /\ \A r \in Runs : WF_vars(Lapse(r))

FairSpec == Spec /\ Fairness

-----------------------------------------------------------------------------
(* Safety, whatever people do.                                             *)

(* The lease an existing card names is a run that works on it, at the stage *)
(* the card is in, for the agent the card is delegated to, and holds the   *)
(* newest epoch: claim, every verb and every move keep the two tables      *)
(* in step.                                                                *)
LeaseOK ==
  \A c \in Cards :
    LET r == card[c].run IN
    IF r = None THEN card[c].agent = None
    ELSE /\ Exists(c)
         /\ Working(r)
         /\ run[r].card = c
         /\ run[r].agent = card[c].agent
         /\ run[r].stage = card[c].stage
         /\ run[r].epoch = card[c].seq

(* No two runs of a card were ever given the same lease epoch (claim_seq   *)
(* is bumped by claim alone), so an epoch names one holder.                *)
EpochsDistinct ==
  \A r, q \in Runs :
    run[r].card # None =>
      /\ run[r].epoch <= card[run[r].card].seq
      /\ (r # q /\ run[q].card = run[r].card) => run[q].epoch # run[r].epoch

(* The board implements what Lease promises: of all the handlers only      *)
(* claim lends a card, only one that nobody holds, with an epoch no lease  *)
(* of it had; a run that ended stays fenced; and unless people interrupt,  *)
(* a card is never taken from a run that may still act on it (claims.ts,   *)
(* authorizeRun).                                                          *)
Leases == INSTANCE Lease WITH
  Nobody <- None,
  Preempts <- Interrupts,
  holder <- [c \in Cards |-> card[c].run],
  last <- [c \in Cards |-> card[c].seq],
  lease <- [r \in Runs |-> IF Working(r)
                           THEN [card |-> run[r].card, epoch |-> run[r].epoch] ELSE None],
  used <- {r \in Runs : run[r].status # "none"}

LeasesLent == Leases!Spec

(* A card has at most one pending question, and its asker either still     *)
(* works or stopped to wait for the answer: a question never outlives a    *)
(* run that ended in any other way (openElicitation,                       *)
(* cancelElicitationsForRun).                                              *)
QuestionsAlive ==
  \A r \in asked :
    /\ Working(r) \/ (run[r].status = "ended" /\ run[r].outcome = "blocked")
    /\ asked \cap RunsOf(run[r].card) = {r}

(* A parent owes a deferred advance only while a child of it is open: the  *)
(* completion, the deletion and the unlinking of the last open child all   *)
(* replay it (resumeParentAdvanceIfFree), so none is forgotten.            *)
DeferredHeld ==
  \A c \in Cards : card[c].deferred # None => OpenChildren(card, links, c) # {}

(* A card completes only when none of its children is open, also when the  *)
(* completion comes from a cascade (advanceCard, moveCard).                *)
ParentAfterChildren ==
  [][\A c \in Cards :
       card[c].state # "completed" /\ card'[c].state = "completed" =>
         \A l \in links' : l.from = c /\ l.kind = "parent" =>
           card'[l.to].state = "completed"]_vars

(* The ordering links never close a cycle and a card has one parent        *)
(* (addLink, splitCard).                                                   *)
LinksOrdered ==
  /\ Acyclic(Cards, Edges(links))
  /\ \A c \in Cards : \A p, q \in ParentsOf(links, c) : p = q

(* Work the board hands out again by itself always makes progress: when a  *)
(* run ends other than by a voluntary release and its card is queued, the  *)
(* card has used up an automatic return, or moved on, or counted a         *)
(* failure.  With the bounds on the three counts no loop of agents runs    *)
(* for ever without a person (circuit breaker, automatic returns, the one  *)
(* rework).                                                                *)
AutomationProgresses ==
  [][\A c \in Cards :
       /\ card'[c].state = "submitted"
       /\ \E r \in RunsOf(c) : /\ Working(r)
                               /\ run'[r].status = "ended"
                               /\ run'[r].outcome # "released"
       => \/ card'[c].returns > card[c].returns
          \/ /\ card'[c].returns = card[c].returns
             /\ \/ card'[c].stage > card[c].stage
                \/ /\ card'[c].stage = card[c].stage
                   /\ card'[c].failures > card[c].failures]_vars

-----------------------------------------------------------------------------
(* Safety while people leave working cards alone (Interrupts = FALSE).     *)

(* A run works exactly while a card names it, and a card that is being     *)
(* worked, or waits for an account, names its run: no orphan on either     *)
(* side.                                                                   *)
LeasesMatch ==
  /\ \A r \in Runs : Working(r) => card[run[r].card].run = r
  /\ \A c \in Cards : card[c].state \in {"working", "auth-required"} => card[c].run # None

(* A pending review is about the card as it stands: at the gate's stage,   *)
(* waiting, held by no run, one review at a time.  Else an approval would  *)
(* advance a card from a stage it has left (cancelPendingReviews).         *)
GatesMatch ==
  \A g \in gates :
    /\ card[g.card].stage = g.stage
    /\ card[g.card].state = "input-required"
    /\ card[g.card].run = None
    /\ GatesOf(g.card) = {g}

(* A card that waits for a person says what for: a pending review, a       *)
(* deferred advance or needs_human, also after its review or its question  *)
(* was cancelled by archiving it (endReviewsOfArchivedCard).               *)
ParkedSaysWhy ==
  \A c \in Cards :
    card[c].state = "input-required" =>
      GatesOf(c) # {} \/ card[c].deferred # None \/ card[c].needs # "none"

(* The circuit breaker: a card whose failures reached the limit is not     *)
(* handed out again, nor is one with more automatic returns than allowed.  *)
BreakerHolds ==
  \A c \in Cards :
    /\ card[c].state \in {"submitted", "working"} =>
         card[c].failures < CIRCUIT_BREAKER_LIMIT
    /\ card[c].returns <= MAX_AUTOMATIC_RETURNS

(* Once parked with no run and nothing deferred, a card is taken up again  *)
(* only by a person's answer, decision, move or resume: never by a step    *)
(* that begins, ends or reclaims a run.                                    *)
OnlyPeopleUnpark ==
  [][\A c \in Cards :
       /\ card[c].state = "input-required"
       /\ card[c].run = None
       /\ card[c].deferred = None
       /\ card'[c].state \in {"submitted", "working", "completed"}
       => UNCHANGED run]_vars

-----------------------------------------------------------------------------
(* Liveness.                                                               *)

(* A run that works for ever is one that heartbeats for ever: when its     *)
(* agent goes dark, the alarm ends it (reclaimExpired, scheduleReclaim).   *)
DarkRunsEnd ==
  \A r \in Runs : <>[](run[r].status = "working") => []<>(run[r].fresh)

-----------------------------------------------------------------------------
(* What the repository says and the code does not do.                      *)

(* moves.ts on setNeedsHuman: needs_human is cleared "wherever a card      *)
(* stops waiting - answered, moved, claimed".                              *)
NoStaleNeeds ==
  \A c \in Cards : card[c].state = "working" => card[c].needs = "none"

(* links.ts and addLink: the cycle check is there so that ordering links   *)
(* cannot deadlock.  No set of open cards waits only on itself.            *)
NoMutualHold ==
  \A S \in SUBSET {c \in Cards : Exists(c) /\ card[c].state # "completed"} :
    S # {} => \E c \in S : (OpenBlockers(c) \cup OpenChildren(card, links, c)) \cap S = {}

(* docs/02 and docs/04: WIP limits are enforced when a card is claimed.    *)
WipAtClaim ==
  \A s \in Stages :
    WipLimit[s] # 0 =>
      Cardinality({c \in InStage(s) : card[c].state = "working"}) <= WipLimit[s]

(* docs/04 and docs/08: one agent works a card, the lease fences the rest. *)
OneWorkingRun ==
  \A r, q \in Runs : Working(r) /\ Working(q) /\ run[r].card = run[q].card => r = q

=============================================================================
