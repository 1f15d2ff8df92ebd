------------------------------ MODULE Decisions ------------------------------
(***************************************************************************)
(* The questions of one card: ordinary ones, and strict decisions, whose   *)
(* requests carry an id, a deadline and exact options and are retried by   *)
(* the agent until it hears an answer (apps/api/src/board/elicitations.ts  *)
(* and postStrictDecision of run-verbs.ts).  Each operation is one step:   *)
(* the transaction is synchronous, and what follows it only sets an alarm. *)
(*                                                                         *)
(* Where the pipeline takes a card when a run ends is Board's affair: here *)
(* the card may go back to the queue, on or stay.  A payload is its        *)
(* deadline, and an answer's text and options are left out.                *)
(***************************************************************************)
EXTENDS Naturals

CONSTANTS
  Requests,                 \* ids of strict decisions
  AskRuns,
  Askers,                   \* agents
  Questions,                \* ids of elicitations: 1 .. n, in order of creation
  Expiries,                 \* expires_at of a request
  LEASE_MS,                 \* HEARTBEAT_TIMEOUT_MS
  MaxDecTime                \* bound: readings of the clock

ASSUME DecisionAssumption ==
  /\ Questions \subseteq Nat \ {0} /\ Expiries \subseteq Nat
  /\ LEASE_MS \in Nat \ {0} /\ MaxDecTime \in Nat
  /\ "-" \notin Requests \cup AskRuns \cup Askers

VARIABLES
  decNow,
  task,         \* the card: its state and stage
  asker,        \* the runs
  question,     \* elicitations
  request,      \* strict_decision_requests
  reply         \* what the last request heard, if it is one that was saved

decVars == <<decNow, task, asker, question, request, reply>>

TaskStates == {"submitted", "working", "input-required"}
DecStages == {1, 2}

Question == [status : {"none", "pending", "answered", "cancelled"},
             run : AskRuns \cup {"-"}, stage : DecStages, request : Requests \cup {"-"}]
Saved == [agent : Askers \cup {"-"}, expires_at : Expiries \cup {0}, question : Questions \cup {0}]

DecTypeOK ==
  /\ decNow \in 0 .. MaxDecTime
  /\ task \in [state : TaskStates, stage : DecStages]
  /\ asker \in [AskRuns -> [status : {"none", "working", "ended"}, agent : Askers \cup {"-"},
                            stage : DecStages, beat : 0 .. MaxDecTime]]
  /\ question \in [Questions -> Question]
  /\ request \in [Requests -> Saved]
  /\ reply \in [request : Requests \cup {"-"}, question : Questions \cup {0}]
  /\ \A e, f \in Questions :
       question[e].status = "pending" /\ question[f].status = "pending" => e = f

NotSaved == [agent |-> "-", expires_at |-> 0, question |-> 0]

DecInit ==
  /\ decNow = 0 /\ task = [state |-> "submitted", stage |-> 1]
  /\ asker = [r \in AskRuns |-> [status |-> "none", agent |-> "-", stage |-> 1, beat |-> 0]]
  /\ question = [e \in Questions |-> [status |-> "none", run |-> "-", stage |-> 1, request |-> "-"]]
  /\ request = [q \in Requests |-> NotSaved]
  /\ reply = [request |-> "-", question |-> 0]

-----------------------------------------------------------------------------
(* Runs.                                                                   *)

Active(r) == asker[r].status = "working"
LeaseOver(r) == asker[r].beat + LEASE_MS <= decNow

Tick ==
  /\ decNow < MaxDecTime
  /\ decNow' = decNow + 1
  /\ UNCHANGED <<task, asker, question, request, reply>>

ClaimTask(r, a) ==
  /\ task.state = "submitted" /\ asker[r].status = "none"
  /\ asker' = [asker EXCEPT ![r] = [status |-> "working", agent |-> a, stage |-> task.stage,
                                    beat |-> decNow]]
  /\ task' = [task EXCEPT !.state = "working"]
  /\ UNCHANGED <<decNow, question, request, reply>>

HeartbeatOf(r) ==
  /\ Active(r)
  /\ asker' = [asker EXCEPT ![r].beat = decNow]
  /\ UNCHANGED <<decNow, task, question, request, reply>>

(* Bug: an answered question is cancelled too.                             *)
Cancellable_bug(e) == question[e].status # "none"

Cancellable(e) == question[e].status = "pending"

(* cancelElicitationsForRun and cancelElicitationsForCard.                 *)
Cancelled(S) ==
  [e \in Questions |-> IF e \in S /\ Cancellable(e)
                       THEN [question[e] EXCEPT !.status = "cancelled"] ELSE question[e]]
OfRun(r) == {e \in Questions : question[e].run = r}
Unasked == {e \in Questions : question[e].status = "none"}

(* A run completes, is released, crashes or goes dark.                     *)
EndRun(r) ==
  /\ Active(r)
  /\ asker' = [asker EXCEPT ![r].status = "ended"]
  /\ question' = Cancelled(OfRun(r))
  /\ task' \in {task} \cup [state : {"submitted"}, stage : DecStages]
  /\ UNCHANGED <<decNow, request, reply>>

(* A person moves the card: nothing is waited for any more.                *)
MoveTask(s) ==
  /\ task' = [state |-> "submitted", stage |-> s]
  /\ question' = Cancelled(Questions)
  /\ UNCHANGED <<decNow, asker, request, reply>>

-----------------------------------------------------------------------------
(* openElicitation: a new question supersedes the card's pending one.      *)
Open(e, r, q) ==
  /\ e \in Unasked /\ \A f \in Unasked : e <= f
  /\ question' = [Cancelled(Questions) EXCEPT ![e] =
       [status |-> "pending", run |-> r, stage |-> asker[r].stage, request |-> q]]
  /\ task' = [task EXCEPT !.state = "input-required"]

AskQuestion(r, e) ==
  /\ Active(r)
  /\ Open(e, r, "-")
  /\ asker' = [asker EXCEPT ![r].beat = decNow]
  /\ UNCHANGED <<decNow, request, reply>>

(* complete with needs-person: the run ends with its question pending.     *)
WaitOnPerson(r, e) ==
  /\ Active(r)
  /\ Open(e, r, "-")
  /\ asker' = [asker EXCEPT ![r].status = "ended"]
  /\ UNCHANGED <<decNow, request, reply>>

(* Bug: the lease is asked for before the request is looked up.            *)
Known_bug(q, r) == request[q] # NotSaved /\ Active(r) /\ ~LeaseOver(r)

Known(q, r) == request[q] # NotSaved

Same(q, a, x) == request[q].agent = a /\ request[q].expires_at = x
Reply(q, a, x, e) == reply' = IF Same(q, a, x)' THEN [request |-> q, question |-> e]
                              ELSE [request |-> "-", question |-> 0]

(* The request was saved: the same answer to the same agent and payload,   *)
(* and otherwise NOT_RUN_OWNER or DECISION_CONFLICT.                       *)
RetryStrict(q, r, a, x) ==
  /\ Known(q, r)
  /\ UNCHANGED <<decNow, task, asker, question, request>>
  /\ Reply(q, a, x, IF Same(q, a, x) THEN request[q].question ELSE 0)

MayAsk(r, a, x) == Active(r) /\ asker[r].agent = a /\ ~LeaseOver(r) /\ x > decNow

(* NOT_RUN_OWNER, STALE_LEASE, DECISION_EXPIRED.                           *)
RefuseStrict(q, r, a, x) ==
  /\ ~Known(q, r) /\ ~MayAsk(r, a, x)
  /\ UNCHANGED <<decNow, task, asker, question, request>>
  /\ Reply(q, a, x, 0)

PostStrict(q, r, a, x, e) ==
  /\ ~Known(q, r) /\ MayAsk(r, a, x)
  /\ Open(e, r, q)
  /\ request' = [request EXCEPT ![q] = [agent |-> a, expires_at |-> x, question |-> e]]
  /\ asker' = [asker EXCEPT ![r].beat = decNow]
  /\ Reply(q, a, x, e)
  /\ UNCHANGED decNow

-----------------------------------------------------------------------------
(* A strict decision is answered within the asking run's lease, at its     *)
(* stage and before its deadline.                                          *)
StillAsked(e) ==
  question[e].request # "-" =>
    /\ Active(question[e].run) /\ ~LeaseOver(question[e].run)
    /\ task.stage = question[e].stage
    /\ request[question[e].request].expires_at > decNow

Answered(e) == question' = [question EXCEPT ![e].status = "answered"]

AnswerQuestion(e) ==
  /\ question[e].status = "pending" /\ StillAsked(e)
  /\ asker[question[e].run].status # "ended" /\ task.state = "input-required"
  /\ Answered(e)
  /\ task' = [task EXCEPT !.state = "working"]
  /\ UNCHANGED <<decNow, asker, request, reply>>

(* resumeParkedQuestion: the card goes back to the queue.                  *)
ResumeParked(e) ==
  /\ question[e].status = "pending" /\ StillAsked(e)
  /\ asker[question[e].run].status = "ended"
  /\ task.state = "input-required" /\ task.stage = question[e].stage
  /\ Answered(e)
  /\ task' = [task EXCEPT !.state = "submitted"]
  /\ UNCHANGED <<decNow, asker, request, reply>>

DecNext ==
  \/ Tick
  \/ \E r \in AskRuns, a \in Askers : ClaimTask(r, a)
  \/ \E r \in AskRuns : HeartbeatOf(r) \/ EndRun(r)
  \/ \E s \in DecStages : MoveTask(s)
  \/ \E r \in AskRuns, e \in Questions : AskQuestion(r, e) \/ WaitOnPerson(r, e)
  \/ \E q \in Requests, r \in AskRuns, a \in Askers, x \in Expiries :
       \/ RetryStrict(q, r, a, x) \/ RefuseStrict(q, r, a, x)
       \/ \E e \in Questions : PostStrict(q, r, a, x, e)
  \/ \E e \in Questions : AnswerQuestion(e) \/ ResumeParked(e)

DecSpec == DecInit /\ [][DecNext]_decVars

-----------------------------------------------------------------------------
(* An agent that repeats a request it was given a question for, after a    *)
(* lost answer, is given that question again: also when its lease is over, *)
(* the deadline has passed, or the question is settled                     *)
(* (strict_decision_requests).                                             *)
RetryHeard == reply.request # "-" => reply.question = request[reply.request].question

(* What a person answered stays there for the agent to read: no end of a   *)
(* run, move or later question takes an answer back, and nothing settles a *)
(* question twice (elicitations.ts: "a double-click cannot move a card     *)
(* twice").                                                                *)
SettledStays ==
  [][\A e \in Questions :
       question[e].status \in {"answered", "cancelled"} => question'[e] = question[e]]_decVars
=============================================================================
