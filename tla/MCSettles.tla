----------------------------- MODULE MCSettles -----------------------------
(***************************************************************************)
(* What must come to an end, for TLC: the retries of the push queue, the   *)
(* reports owed to superwitness and the runs of agents that went dark.  A  *)
(* behaviour runs one of the three, its part, under the fairness its own   *)
(* module states, and the others rest in their initial states.             *)
(***************************************************************************)
EXTENDS PushQueue, RunReports

CONSTANTS Cards, Agents, People  \* of Board, whose runs are those of RunReports

VARIABLES
  part,
  card, run, gates, asked, links

boardVars == <<card, run, gates, asked, links>>
settleVars == <<part, pushVars, boardVars, vars>>

(* Delivery 1 is of one subscription, 2 of another.                        *)
SubscriptionOf == [d \in Deliveries |-> IF d = 2 THEN "b" ELSE "a"]

(* A board of two stages: work and done.                                   *)
Dark == INSTANCE Board WITH
  NStages <- 2, AgentStages <- {1}, GateStages <- {},
  Returns <- [s \in 1 .. 2 |-> 0], WipLimit <- [s \in 1 .. 2 |-> 0],
  CanWork <- [a \in Agents |-> {1}], MaxConcurrency <- 2,
  CIRCUIT_BREAKER_LIMIT <- 2, MAX_AUTOMATIC_RETURNS <- 1,
  ControlPair <- FALSE, Interrupts <- TRUE

SettleInit ==
  /\ part \in {"push", "dark", "reports"}
  /\ PushInit /\ Dark!Init /\ Init
  /\ part # "reports" => enabled

Rests(p, v) == part # p => UNCHANGED v

SettleNext ==
  /\ UNCHANGED part
  /\ \/ part = "push" /\ PushNext
     \/ part = "dark" /\ Dark!Next
     \/ part = "reports" /\ Next
  /\ Rests("push", pushVars)
  /\ Rests("dark", boardVars)
  /\ Rests("reports", vars)

(* The fairness of PushQueue, Board and RunReports, each of its own part.  *)
SettleFairness ==
  /\ \A w \in PushDrains :
       /\ WF_pushVars(part = "push" /\ StartDrain(w))
       /\ WF_pushVars(part = "push" /\ SendSome(w))
       /\ WF_pushVars(part = "push" /\ FinishDrain(w))
  /\ WF_boardVars(part = "dark" /\ Dark!ReclaimExpired)
  /\ \A r \in Runs : WF_boardVars(part = "dark" /\ Dark!Lapse(r))
  /\ WF_vars(part = "reports" /\ \E d \in Drains : Take(d))
  /\ SF_vars(part = "reports" /\ \E d \in Drains : Answer(d))
  /\ \A r \in Runs :
       /\ SF_vars(/\ part = "reports"
                        /\ \E d \in Drains, B \in SUBSET Runs :
                             r \in B /\ Send(d, B))
       /\ WF_vars(part = "reports" /\ BackoffEnds(r))

SettleSpec == SettleInit /\ [][SettleNext]_settleVars /\ SettleFairness

(* A run whose agent falls silent for good does not stay working: the      *)
(* board's alarm reclaims it (Board's DarkRunsEnd; claims.ts).             *)
DarkRunsEnd == Dark!DarkRunsEnd
=============================================================================
