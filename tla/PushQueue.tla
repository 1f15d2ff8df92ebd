------------------------------ MODULE PushQueue ------------------------------
(***************************************************************************)
(* The push deliveries of a board (apps/api/src/board/push.ts,             *)
(* push/deliver.ts).  An event inserts one row per subscription.  A drain  *)
(* selects a batch, sends it one row after the other and writes each row's *)
(* fate from the attempts it selected.  Unlike the run reports' drain it   *)
(* has no single flight: the alarm, the cron job and a route may each have *)
(* one under way, and everything else runs while a drain awaits an answer. *)
(***************************************************************************)
EXTENDS Naturals, FiniteSets

CONSTANTS
  Deliveries,               \* ids of push_deliveries: 1 .. n, in order of insertion
  Configs,                  \* ids of push_configs
  ConfigOf,                 \* each delivery's subscription
  PushDrains,               \* those who start drains
  MAX_PUSH_ATTEMPTS,
  FETCHED,                  \* LIMIT of the selection: 500
  MAX_PUSH_PER_CONFIG_PER_DRAIN,
  PER_DRAIN,                \* deliveries sent by one drain: 50
  KEPT,                     \* terminal rows kept: 100
  MaxEvictions              \* bound: evictions of the board's object

ASSUME PushAssumption ==
  /\ Deliveries \subseteq Nat
  /\ ConfigOf \in [Deliveries -> Configs]
  /\ {MAX_PUSH_ATTEMPTS, FETCHED, MAX_PUSH_PER_CONFIG_PER_DRAIN, PER_DRAIN, KEPT}
       \subseteq Nat \ {0}
  /\ MaxEvictions \in Nat

VARIABLES
  delivery,     \* each row; "unqueued" before its insertion, "pruned" once deleted
  drain,        \* each caller's drain: the rows it selected and has not sent
  tries,        \* sends whose outcome was written, counted up to the limit
  acked,        \* deliveries whose success was written
  evictions

pushVars == <<delivery, drain, tries, acked, evictions>>

Statuses == {"unqueued", "pending", "failed", "sent", "dead", "pruned"}
DeliveryRow == [status : Statuses, attempts : Nat]

(* A row in hand: its id and its attempts when it was selected.            *)
Held == [id : Deliveries, attempts : Nat]

PushTypeOK ==
  /\ delivery \in [Deliveries -> DeliveryRow]
  /\ drain \in [PushDrains -> [busy : BOOLEAN, hand : SUBSET Held]]
  /\ tries \in [Deliveries -> 0 .. MAX_PUSH_ATTEMPTS]
  /\ acked \subseteq Deliveries
  /\ evictions \in 0 .. MaxEvictions
  /\ \A d \in Deliveries : delivery[d].attempts <= tries[d]
  /\ \A w \in PushDrains : \A h \in drain[w].hand : h.attempts <= tries[h.id]

NoDrain == [busy |-> FALSE, hand |-> {}]

PushInit ==
  /\ delivery = [d \in Deliveries |-> [status |-> "unqueued", attempts |-> 0]]
  /\ drain = [w \in PushDrains |-> NoDrain]
  /\ tries = [d \in Deliveries |-> 0]
  /\ acked = {}
  /\ evictions = 0

-----------------------------------------------------------------------------
(* An event inserts a row, with the next id.                               *)
Queue(d) ==
  /\ delivery[d].status = "unqueued"
  /\ \A e \in Deliveries : e < d => delivery[e].status # "unqueued"
  /\ delivery' = [delivery EXCEPT ![d].status = "pending"]
  /\ UNCHANGED <<drain, tries, acked, evictions>>

Retryable(d) == /\ delivery[d].status \in {"pending", "failed"}
                /\ delivery[d].attempts < MAX_PUSH_ATTEMPTS

(* Bug: in order of insertion alone.                                       *)
Before_bug(d, e) == d < e

(* Fresh deliveries first: by attempts, then by id.                        *)
Before(d, e) ==
  \/ delivery[d].attempts < delivery[e].attempts
  \/ delivery[d].attempts = delivery[e].attempts /\ d < e

Foremost(n, S) == {d \in S : Cardinality({e \in S : Before(e, d)}) < n}

(* What a drain selects, each config's share of it, and what it sends.     *)
Fetched == Foremost(FETCHED, {d \in Deliveries : Retryable(d)})
Shares == UNION {Foremost(MAX_PUSH_PER_CONFIG_PER_DRAIN, {d \in Fetched : ConfigOf[d] = c})
                   : c \in Configs}
Batch == Foremost(PER_DRAIN, Shares)

StartDrain(w) ==
  /\ ~drain[w].busy
  /\ drain' = [drain EXCEPT ![w] =
       [busy |-> TRUE, hand |-> {[id |-> d, attempts |-> delivery[d].attempts] : d \in Batch}]]
  /\ UNCHANGED <<delivery, tries, acked, evictions>>

(* The first row in hand: they are sent in the order of the selection.     *)
IsNext(h, hand) ==
  h \in hand /\ \A g \in hand : \/ h.attempts < g.attempts
                                \/ h.attempts = g.attempts /\ h.id <= g.id

(* Bugs: given up an attempt early; an attempt without answer not counted. *)
Attempted_bug(outcome, n) ==
  [status |-> IF outcome = "ok" THEN "sent"
              ELSE IF n + 1 >= MAX_PUSH_ATTEMPTS THEN "dead" ELSE "failed",
   attempts |-> n]
Uncounted_bug(outcome, n) ==
  [status |-> IF outcome = "ok" THEN "sent"
              ELSE IF n >= MAX_PUSH_ATTEMPTS /\ outcome # "lost" THEN "dead" ELSE "failed",
   attempts |-> IF outcome = "lost" THEN n - 1 ELSE n]

(* A row after an attempt, of which there have now been n.                 *)
Attempted(outcome, n) ==
  [status |-> IF outcome = "ok" THEN "sent"
              ELSE IF n >= MAX_PUSH_ATTEMPTS THEN "dead" ELSE "failed",
   attempts |-> n]

(* One row was sent: the subscriber took it, refused it, or no answer came *)
(* in time.  The update of a row that was pruned meanwhile changes none.   *)
SendOne(w, h, outcome) ==
  /\ IsNext(h, drain[w].hand)
  /\ drain' = [drain EXCEPT ![w].hand = @ \ {h}]
  /\ delivery' = [delivery EXCEPT ![h.id] =
       IF @.status = "pruned" THEN @ ELSE Attempted(outcome, h.attempts + 1)]
  /\ tries' = [tries EXCEPT ![h.id] = IF @ < MAX_PUSH_ATTEMPTS THEN @ + 1 ELSE @]
  /\ acked' = IF outcome = "ok" THEN acked \cup {h.id} ELSE acked
  /\ UNCHANGED evictions

Terminal == {d \in Deliveries : delivery[d].status \in {"sent", "dead"}}

(* What the end of a drain deletes: all terminal rows but the newest.      *)
Prunable == {d \in Terminal : Cardinality({e \in Terminal : e > d}) >= KEPT}

FinishDrain(w) ==
  /\ drain[w].busy /\ drain[w].hand = {}
  /\ drain' = [drain EXCEPT ![w] = NoDrain]
  /\ delivery' = [d \in Deliveries |->
       IF d \in Prunable THEN [delivery[d] EXCEPT !.status = "pruned"] ELSE delivery[d]]
  /\ UNCHANGED <<tries, acked, evictions>>

(* The object is evicted: its drains are gone and the rows stay as they    *)
(* were last written, a row that was just sent among them.                 *)
EvictDrains ==
  /\ evictions < MaxEvictions
  /\ evictions' = evictions + 1
  /\ drain' = [w \in PushDrains |-> NoDrain]
  /\ UNCHANGED <<delivery, tries, acked>>

Outcomes == {"ok", "refused", "lost"}

SendSome(w) == \E h \in drain[w].hand, outcome \in Outcomes : SendOne(w, h, outcome)

PushNext ==
  \/ \E d \in Deliveries : Queue(d)
  \/ \E w \in PushDrains : StartDrain(w) \/ SendSome(w) \/ FinishDrain(w)
  \/ EvictDrains

(* Cron jobs keep starting drains; a send is answered or times out.        *)
PushFairness ==
  \A w \in PushDrains : /\ WF_pushVars(StartDrain(w))
                        /\ WF_pushVars(SendSome(w))
                        /\ WF_pushVars(FinishDrain(w))

PushSpec == PushInit /\ [][PushNext]_pushVars /\ PushFairness

-----------------------------------------------------------------------------
(* A delivery is given up only after it was taken or after                 *)
(* MAX_PUSH_ATTEMPTS sends, whatever drains overlap and whenever the       *)
(* object goes away.  docs/05-board-mutation-pipeline.md: at-least-once,   *)
(* within a cap.                                                           *)
AtLeastOnce ==
  \A d \in Deliveries : delivery[d].status = "unqueued" \/ Retryable(d)
                          \/ d \in acked \/ tries[d] = MAX_PUSH_ATTEMPTS

(* A drain sends a retry only when every fresh delivery it leaves belongs  *)
(* to a subscription whose full share of this drain is fresh ones: what an *)
(* endpoint that is down still has to retry starves nobody (push.ts).      *)
Starts(w) == ~drain[w].busy /\ drain'[w].busy
Taken(w) == {h.id : h \in drain'[w].hand}
Fresh(d) == Retryable(d) /\ delivery[d].attempts = 0
RetriesYield ==
  [][\A w \in PushDrains : Starts(w) /\ (\E d \in Taken(w) : ~Fresh(d)) =>
       \A d \in Deliveries : Fresh(d) /\ d \notin Taken(w) =>
         Cardinality({e \in Taken(w) : ConfigOf[e] = ConfigOf[d] /\ Fresh(e)})
           = MAX_PUSH_PER_CONFIG_PER_DRAIN]_pushVars

(* Retries end: although overlapping drains write attempts from stale      *)
(* values and can bring a settled row back, every delivery is in the end   *)
(* no longer retried.                                                      *)
PushSettles == \A d \in Deliveries : <>[](~Retryable(d))
=============================================================================
