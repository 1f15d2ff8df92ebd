----------------------------- MODULE RunReports -----------------------------
(***************************************************************************)
(* The run reports of a board (apps/api/src/board/run-reports.ts).  Every  *)
(* change of a run rewrites its one row of the outbox; a drain, started by *)
(* the alarm or by the cron job, sends due rows to superwitness and        *)
(* settles them by its answer.  A drain awaits twice, for the executors'   *)
(* names and for the answer, and everything else runs in between.          *)
(*                                                                         *)
(* A run's reported state is the number of times it has changed.           *)
(* superwitness, which is not in this repository, is modelled by the rule  *)
(* run-reports.ts relies on: it keeps a report whose reported_at is        *)
(* strictly newer than that of the one it holds.                           *)
(***************************************************************************)
EXTENDS Naturals

CONSTANTS
  Runs,
  Drains,                   \* those who start drains: the alarm, the cron job
  None,
  RUN_REPORT_MAX_ATTEMPTS,
  MaxChanges,               \* bound: changes of one run
  MaxClock,                 \* bound: readings of the clock
  MaxGen                    \* bound: a backfill rewrites rows below this gen

ASSUME LimitAssumption == RUN_REPORT_MAX_ATTEMPTS \in Nat \ {0}

VARIABLES
  state,        \* each run's reported state
  updatedAt,    \* runs.updated_at, 0 for a run that has not started
  runReports,   \* the outbox: a run's row or None
  reportDrain,  \* each caller's drain and the rows it has in hand
  held,         \* what superwitness holds of each run
  late,         \* reports of requests whose answer nobody awaits any more
  enabled,      \* whether reporting is configured
  missed        \* runs that changed while it was not, since last enqueued

vars == <<state, updatedAt, runReports, reportDrain, held, late, enabled, missed>>

(* A snapshot of a run, and a row of the outbox holding one. *)
Snapshot == [at : Nat, state : Nat]
Row == [gen : Nat \ {0}, at : Nat, state : Nat, status : {"pending", "dead"},
        attempts : 0 .. RUN_REPORT_MAX_ATTEMPTS, next_attempt_at : {"now", "later"}]
Letter == [run : Runs, at : Nat, state : Nat]

ASSUME NoneAssumption == None \notin Row

(* A drain selects rows ("taken"), posts them ("posted"), and from the     *)
(* time superwitness has dealt with the request ("handled") an answer may  *)
(* arrive.  batch holds the rows as they were when selected.               *)
Phases == {"idle", "taken", "posted", "handled"}
NoBatch == [r \in Runs |-> None]
Idle == [phase |-> "idle", batch |-> NoBatch]
InHand(d) == {r \in Runs : reportDrain[d].batch[r] # None}

(* What a reader of the outbox may rely on: a pending row has attempts     *)
(* left.                                                                   *)
TypeOK ==
  /\ state \in [Runs -> Nat]
  /\ updatedAt \in [Runs -> Nat]
  /\ runReports \in [Runs -> Row \cup {None}]
  /\ \A r \in Runs : runReports[r] # None /\ runReports[r].status = "pending"
       => runReports[r].attempts < RUN_REPORT_MAX_ATTEMPTS
  /\ reportDrain \in [Drains -> [phase : Phases, batch : [Runs -> Row \cup {None}]]]
  /\ held \in [Runs -> Snapshot]
  /\ late \subseteq Letter
  /\ enabled \in BOOLEAN
  /\ missed \subseteq Runs

Init ==
  /\ state = [r \in Runs |-> 0]
  /\ updatedAt = [r \in Runs |-> 0]
  /\ runReports = [r \in Runs |-> None]
  /\ reportDrain = [d \in Drains |-> Idle]
  /\ held = [r \in Runs |-> [at |-> 0, state |-> 0]]
  /\ late = {}
  /\ enabled \in BOOLEAN
  /\ missed = {}

-----------------------------------------------------------------------------
(* Writing the outbox.                                                     *)

(* Faulty variant: the plain clock, which may stand still or go back. *)
NextStamp_bug(previous, now) == now

(* updated_at is strictly increasing, whatever the clock reads. *)
NextStamp(previous, now) == IF now > previous THEN now ELSE previous + 1

(* A run's row once rewritten with a new snapshot (enqueueRunReport). *)
Enqueued(row, at, st) ==
  [gen |-> IF row = None THEN 1 ELSE row.gen + 1, at |-> at, state |-> st,
   status |-> "pending", attempts |-> 0, next_attempt_at |-> "now"]

(* A run changes, while the clock reads now.  Its row is written in the    *)
(* same transaction.                                                       *)
ReportRun(r, now) ==
  /\ state[r] < MaxChanges
  /\ state' = [state EXCEPT ![r] = @ + 1]
  /\ updatedAt' = [updatedAt EXCEPT ![r] = NextStamp(@, now)]
  /\ \/ /\ enabled
        /\ runReports' = [runReports EXCEPT ![r] = Enqueued(@, updatedAt'[r], state'[r])]
        /\ missed' = missed \ {r}
     \/ /\ ~enabled
        /\ missed' = missed \cup {r}
        /\ UNCHANGED runReports
  /\ UNCHANGED <<reportDrain, held, late, enabled>>

(* The backfill and repair tool: every run is enqueued as it is now, at    *)
(* the time it last changed.                                               *)
EnqueueAllRunReports ==
  /\ enabled
  /\ \A r \in Runs : runReports[r] # None => runReports[r].gen < MaxGen
  /\ runReports' = [r \in Runs |->
       IF updatedAt[r] = 0 THEN runReports[r]
       ELSE Enqueued(runReports[r], updatedAt[r], state[r])]
  /\ missed' = {}
  /\ UNCHANGED <<state, updatedAt, reportDrain, held, late, enabled>>

-----------------------------------------------------------------------------
(* A drain.                                                                *)

Due(r) ==
  /\ runReports[r] # None
  /\ runReports[r].status = "pending"
  /\ runReports[r].next_attempt_at = "now"

(* Faulty variant: each caller looks only at its own drain. *)
MayStart_bug(d) == reportDrain[d].phase = "idle"

(* One drain at a time: a second caller gets the promise of the first. *)
MayStart(d) == \A e \in Drains : reportDrain[e].phase = "idle"

(* The due rows are selected. *)
Take(d) ==
  /\ enabled
  /\ MayStart(d)
  /\ \E r \in Runs : Due(r)
  /\ reportDrain' = [reportDrain EXCEPT ![d] =
       [phase |-> "taken",
        batch |-> [r \in Runs |-> IF Due(r) THEN runReports[r] ELSE None]]]
  /\ UNCHANGED <<state, updatedAt, runReports, held, late, enabled, missed>>

(* The request goes out with as many of them as fit. *)
Send(d, B) ==
  /\ reportDrain[d].phase = "taken"
  /\ B # {} /\ B \subseteq InHand(d)
  /\ reportDrain' = [reportDrain EXCEPT ![d] =
       [phase |-> "posted",
        batch |-> [r \in Runs |-> IF r \in B THEN @.batch[r] ELSE None]]]
  /\ UNCHANGED <<state, updatedAt, runReports, held, late, enabled, missed>>

(* What superwitness holds after a report with snapshot new. *)
Keep(old, new) ==
  IF new.at > old.at THEN [at |-> new.at, state |-> new.state] ELSE old

(* superwitness deals with a request. *)
Handle(d) ==
  /\ reportDrain[d].phase = "posted"
  /\ held' = [r \in Runs |->
       IF r \in InHand(d) THEN Keep(held[r], reportDrain[d].batch[r]) ELSE held[r]]
  /\ reportDrain' = [reportDrain EXCEPT ![d].phase = "handled"]
  /\ UNCHANGED <<state, updatedAt, runReports, late, enabled, missed>>

(* ... or with a report of a request that was given up on. *)
HandleLate(m) ==
  /\ late' = late \ {m}
  /\ held' = [held EXCEPT ![m.run] = Keep(@, m)]
  /\ UNCHANGED <<state, updatedAt, runReports, reportDrain, enabled, missed>>

(* Faulty variant: the row is settled by run alone. *)
Settles_bug(d, r) ==
  /\ r \in InHand(d)
  /\ runReports[r] # None

(* The guard of every write that settles a row: run_id = ? AND gen = ?. *)
Settles(d, r) ==
  /\ r \in InHand(d)
  /\ runReports[r] # None
  /\ runReports[r].gen = reportDrain[d].batch[r].gen

(* The drain ends or goes on with the next batch. *)
Finish(d) == reportDrain' = [reportDrain EXCEPT ![d] = Idle]

(* A row that is kept and never retried. *)
Parked(row) == [row EXCEPT !.status = "dead", !.attempts = @ + 1]

(* Faulty variants: one attempt too many, and none counted. *)
Retried_bug(row, attempts) ==
  IF attempts > RUN_REPORT_MAX_ATTEMPTS THEN Parked(row)
  ELSE [row EXCEPT !.attempts = attempts, !.next_attempt_at = "later"]

RetriedForever_bug(row, attempts) == [row EXCEPT !.next_attempt_at = "later"]

(* A row after its attempts-th failure: backed off or, at the limit, parked. *)
Retried(row, attempts) ==
  IF attempts >= RUN_REPORT_MAX_ATTEMPTS THEN Parked(row)
  ELSE [row EXCEPT !.attempts = attempts, !.next_attempt_at = "later"]

(* A 2xx answer: the rows sent are deleted. *)
ReceiveOk(d) ==
  /\ reportDrain[d].phase = "handled"
  /\ runReports' = [r \in Runs |-> IF Settles(d, r) THEN None ELSE runReports[r]]
  /\ Finish(d)
  /\ UNCHANGED <<state, updatedAt, held, late, enabled, missed>>

(* The reports of a request that is out and not dealt with yet. *)
OnTheWay(d) ==
  {[run |-> r, at |-> reportDrain[d].batch[r].at, state |-> reportDrain[d].batch[r].state] :
     r \in {q \in InHand(d) : reportDrain[d].phase = "posted"}}

(* A retryable failure: before the request, of the configuration, the      *)
(* catalog or the token; after it, a timeout, a lost or a 401, 429, 5xx    *)
(* answer.  A request that timed out may still be dealt with.              *)
GiveUp(d) ==
  /\ reportDrain[d].phase # "idle"
  /\ runReports' = [r \in Runs |->
       IF Settles(d, r) THEN Retried(runReports[r], reportDrain[d].batch[r].attempts + 1)
       ELSE runReports[r]]
  /\ late' = late \cup OnTheWay(d)
  /\ Finish(d)
  /\ UNCHANGED <<state, updatedAt, held, enabled, missed>>

(* Any other 4xx answer: the named report is refused, or the whole batch. *)
Refuse(d, S) ==
  /\ reportDrain[d].phase \in {"posted", "handled"}
  /\ S \subseteq InHand(d)
  /\ S = InHand(d) \/ \E r \in Runs : S = {r}
  /\ runReports' = [r \in Runs |->
       IF r \in S /\ Settles(d, r) THEN Parked(runReports[r]) ELSE runReports[r]]
  /\ Finish(d)
  /\ UNCHANGED <<state, updatedAt, held, late, enabled, missed>>

(* A row's backoff is over. *)
BackoffEnds(r) ==
  /\ runReports[r] # None
  /\ runReports[r].status = "pending"
  /\ runReports[r].next_attempt_at = "later"
  /\ runReports' = [runReports EXCEPT ![r].next_attempt_at = "now"]
  /\ UNCHANGED <<state, updatedAt, reportDrain, held, late, enabled, missed>>

(* The board's process is replaced, by a crash or by a deployment that may *)
(* turn reporting on or off: drains are forgotten, the tables stay.        *)
Restart(on) ==
  /\ enabled' = on
  /\ reportDrain' = [d \in Drains |-> Idle]
  /\ late' = late \cup UNION {OnTheWay(d) : d \in Drains}
  /\ UNCHANGED <<state, updatedAt, runReports, held, missed>>

-----------------------------------------------------------------------------
Answer(d) ==
  \/ ReceiveOk(d)
  \/ GiveUp(d)
  \/ \E S \in SUBSET Runs : Refuse(d, S)

Next ==
  \/ \E r \in Runs, now \in 1 .. MaxClock : ReportRun(r, now)
  \/ EnqueueAllRunReports
  \/ \E d \in Drains : Take(d) \/ Handle(d) \/ Answer(d)
  \/ \E d \in Drains, B \in SUBSET Runs : Send(d, B)
  \/ \E m \in late : HandleLate(m)
  \/ \E r \in Runs : BackoffEnds(r)
  \/ \E on \in BOOLEAN : Restart(on)

Spec == Init /\ [][Next]_vars

(* The alarm and the cron job keep starting drains; due rows are sent in   *)
(* the order they became due, so none is passed over for ever; requests    *)
(* time out, and not every drain is cut short by a crash.                  *)
Fairness ==
  /\ WF_vars(\E d \in Drains : Take(d))
  /\ SF_vars(\E d \in Drains : Answer(d))
  /\ \A r \in Runs :
       /\ SF_vars(\E d \in Drains, B \in SUBSET Runs : r \in B /\ Send(d, B))
       /\ WF_vars(BackoffEnds(r))

FairSpec == Spec /\ Fairness

-----------------------------------------------------------------------------
(* Properties.                                                             *)

(* A run that has no row is one whose present state superwitness holds, or *)
(* one that changed while reporting was off: no answer, crash or rewrite   *)
(* drops a report that was still owed (run-reports.ts, the gen guard, R6). *)
NothingLost ==
  \A r \in Runs :
    runReports[r] = None /\ r \notin missed
      => held[r] = [at |-> updatedAt[r], state |-> state[r]]

(* superwitness follows every run forward, through duplicates, reordering, *)
(* a clock that stands still and requests handled after they were given up *)
(* on (run-reports.ts, the comment of reportRun, R4).                      *)
Latest == INSTANCE LatestReport WITH
  actual <- state, known <- [r \in Runs |-> held[r].state]

Follows == Latest!Spec

(* A row is deleted, backed off or parked only by the answer to the very   *)
(* snapshot it holds: the answer to an older one leaves a rewritten row    *)
(* alone, although gen starts from 1 again once a row was deleted          *)
(* (run-reports.ts, lines 265 to 270 and 311 to 330).                      *)
OwnSnapshot(d, r) ==
  /\ r \in InHand(d)
  /\ reportDrain[d].batch[r].at = runReports[r].at
  /\ reportDrain[d].batch[r].state = runReports[r].state

SettledByOwn(r) ==
  /\ runReports[r] # None
  /\ \/ runReports'[r] = None
     \/ runReports'[r].attempts > runReports[r].attempts
  => \E d \in Drains : OwnSnapshot(d, r)

OwnAnswers == [][\A r \in Runs : SettledByOwn(r)]_vars

(* Every change of a run reaches superwitness, itself or a later one, or   *)
(* its row is parked for an operator to see, or reporting was off.         *)
Reported ==
  \A r \in Runs : \A n \in 1 .. MaxChanges :
    state[r] = n ~>
      \/ held[r].state >= n
      \/ runReports[r] # None /\ runReports[r].status = "dead"
      \/ r \in missed
      \/ ~enabled
=============================================================================
