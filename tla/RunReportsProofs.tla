-------------------------- MODULE RunReportsProofs --------------------------
(***************************************************************************)
(* Proofs about RunReports for every number of runs and of drains' callers *)
(* and every limit of attempts: no report is lost (NothingLost), only the  *)
(* answer to a row's own snapshot settles it (OwnAnswers), and what        *)
(* superwitness knows follows the runs (Follows, a refinement).            *)
(*                                                                         *)
(* The heart of the invariant is Ordered: of all the snapshots of a run    *)
(* that are anywhere, in the outbox, in hand, on the way or kept, a newer  *)
(* stamp means a newer state, and the run's present one is the newest.     *)
(* Every step but a change of the run only moves snapshots around.         *)
(***************************************************************************)
EXTENDS RunReports, TLAPS

(* A snapshot of r, stamped at and with state st, is somewhere. *)
Seen(r, at, st) ==
  \/ at = updatedAt[r] /\ st = state[r]
  \/ at = held[r].at /\ st = held[r].state
  \/ runReports[r] # None /\ at = runReports[r].at /\ st = runReports[r].state
  \/ \E d \in Drains :
       /\ reportDrain[d].batch[r] # None
       /\ at = reportDrain[d].batch[r].at
       /\ st = reportDrain[d].batch[r].state
  \/ \E m \in late : m.run = r /\ at = m.at /\ st = m.state

Ordered ==
  \A r \in Runs : \A a, s \in Nat : Seen(r, a, s) =>
    /\ a <= updatedAt[r]
    /\ \A b, t \in Nat : Seen(r, b, t) /\ a <= b => s <= t

(* At most one drain is under way, and only it has rows in hand. *)
SingleFlight ==
  /\ \A d, e \in Drains :
       reportDrain[d].phase # "idle" /\ reportDrain[e].phase # "idle" => d = e
  /\ \A d \in Drains : \A r \in Runs :
       reportDrain[d].phase = "idle" => reportDrain[d].batch[r] = None

(* Unless the run changed while reporting was off, its row is up to date. *)
Fresh ==
  \A r \in Runs : runReports[r] # None /\ r \notin missed =>
    runReports[r].at = updatedAt[r] /\ runReports[r].state = state[r]

(* A row in hand is still in the outbox, rewritten or as it was selected. *)
OwnGen ==
  \A d \in Drains : \A r \in Runs : reportDrain[d].batch[r] # None =>
    /\ runReports[r] # None
    /\ reportDrain[d].batch[r].gen <= runReports[r].gen
    /\ reportDrain[d].batch[r].gen = runReports[r].gen =>
         /\ reportDrain[d].batch[r].at = runReports[r].at
         /\ reportDrain[d].batch[r].state = runReports[r].state
         /\ runReports[r].status = "pending"

(* What superwitness has dealt with it holds, or something newer. *)
HandledIsHeld ==
  \A d \in Drains : \A r \in Runs :
    reportDrain[d].phase = "handled" /\ reportDrain[d].batch[r] # None
      => reportDrain[d].batch[r].at <= held[r].at

(* A run that has not started has nothing to report. *)
Unstarted ==
  \A r \in Runs : updatedAt[r] = 0 => runReports[r] = None /\ r \notin missed

IInv ==
  /\ TypeOK
  /\ Ordered
  /\ SingleFlight
  /\ Fresh
  /\ OwnGen
  /\ HandledIsHeld
  /\ Unstarted
  /\ NothingLost

-----------------------------------------------------------------------------
(* Helpers.                                                                *)

LEMMA EnqueuedType ==
  ASSUME NEW row \in Row \cup {None}, NEW at \in Nat, NEW st \in Nat
  PROVE  Enqueued(row, at, st) \in Row /\ Enqueued(row, at, st) # None
<1>1. Enqueued(row, at, st) \in Row
  BY LimitAssumption DEF Enqueued, Row
<1> QED
  BY <1>1, NoneAssumption

LEMMA EnqueuedFields ==
  ASSUME NEW row, NEW at, NEW st
  PROVE  /\ Enqueued(row, at, st).at = at
         /\ Enqueued(row, at, st).state = st
         /\ Enqueued(row, at, st).attempts = 0
         /\ row # None => Enqueued(row, at, st).gen = row.gen + 1
BY DEF Enqueued

(* Parking and retrying keep the snapshot and the generation. *)
LEMMA ParkedType ==
  ASSUME NEW row \in Row, row.attempts < RUN_REPORT_MAX_ATTEMPTS
  PROVE  /\ Parked(row) \in Row
         /\ Parked(row).status = "dead"
         /\ Parked(row).gen = row.gen
         /\ Parked(row).at = row.at
         /\ Parked(row).state = row.state
<1>1. row.attempts + 1 \in 0 .. RUN_REPORT_MAX_ATTEMPTS
  BY LimitAssumption DEF Row
<1>2. Parked(row) \in Row
  BY <1>1 DEF Parked, Row
<1> QED
  BY <1>2 DEF Parked, Row

LEMMA RetriedType ==
  ASSUME NEW row \in Row, row.attempts < RUN_REPORT_MAX_ATTEMPTS, NEW n \in Nat
  PROVE  /\ Retried(row, n) \in Row
         /\ Retried(row, n).status = "pending" => Retried(row, n).attempts < RUN_REPORT_MAX_ATTEMPTS
         /\ Retried(row, n).gen = row.gen
         /\ Retried(row, n).at = row.at
         /\ Retried(row, n).state = row.state
<1>1. CASE n >= RUN_REPORT_MAX_ATTEMPTS
  BY <1>1, ParkedType DEF Retried
<1>2. CASE n < RUN_REPORT_MAX_ATTEMPTS
  <2>1. n \in 0 .. RUN_REPORT_MAX_ATTEMPTS
    BY <1>2, LimitAssumption
  <2>2. Retried(row, n) = [row EXCEPT !.attempts = n, !.next_attempt_at = "later"]
    BY <1>2, LimitAssumption DEF Retried
  <2>3. Retried(row, n) \in Row
    BY <2>1, <2>2 DEF Row
  <2> QED
    BY <1>2, <2>2, <2>3 DEF Row
<1> QED
  BY <1>1, <1>2, LimitAssumption

(* A step that brings no new snapshot keeps them in order. *)
LEMMA QuietStep ==
  ASSUME Ordered,
         UNCHANGED <<state, updatedAt>>,
         \A r \in Runs : \A a, s \in Nat : Seen(r, a, s)' => Seen(r, a, s)
  PROVE  Ordered'
<1> SUFFICES ASSUME NEW r \in Runs, NEW a \in Nat, NEW s \in Nat, Seen(r, a, s)'
             PROVE  /\ a <= updatedAt'[r]
                    /\ \A b, t \in Nat : Seen(r, b, t)' /\ a <= b => s <= t
  BY DEF Ordered
<1>1. Seen(r, a, s) /\ updatedAt'[r] = updatedAt[r]
  OBVIOUS
<1>2. \A b, t \in Nat : Seen(r, b, t)' => Seen(r, b, t)
  OBVIOUS
<1> QED
  BY <1>1, <1>2 DEF Ordered

(* Superwitness moves forward with a snapshot that is in order. *)
LEMMA KeepForward ==
  ASSUME IInv, NEW r \in Runs, NEW a \in Nat, NEW s \in Nat, Seen(r, a, s),
         NEW new, new.at = a, new.state = s
  PROVE  /\ Keep(held[r], new) \in Snapshot
         /\ Keep(held[r], new).state \in held[r].state .. state[r]
         /\ Keep(held[r], new).at >= held[r].at
         /\ Keep(held[r], new).at >= a
         /\ Seen(r, Keep(held[r], new).at, Keep(held[r], new).state)
         /\ held[r].at = updatedAt[r] => Keep(held[r], new) = held[r]
<1>1. /\ held[r] \in Snapshot
      /\ updatedAt[r] \in Nat
      /\ state[r] \in Nat
      /\ held[r].at \in Nat
      /\ held[r].state \in Nat
  BY DEF IInv, TypeOK, Snapshot
<1>2. Seen(r, held[r].at, held[r].state) /\ Seen(r, updatedAt[r], state[r])
  BY DEF Seen
<1>3. a <= updatedAt[r] /\ s <= state[r]
  BY <1>1, <1>2 DEF IInv, Ordered
<1>4. held[r].at <= updatedAt[r] /\ held[r].state <= state[r]
  BY <1>1, <1>2 DEF IInv, Ordered
<1>5. CASE a > held[r].at
  <2>1. \A b, t \in Nat : Seen(r, b, t) /\ held[r].at <= b => held[r].state <= t
    BY <1>1, <1>2 DEF IInv, Ordered
  <2>3. held[r].state <= s
    BY <1>1, <1>5, <2>1
  <2>2. Keep(held[r], new) = [at |-> a, state |-> s]
    BY <1>5 DEF Keep
  <2> QED
    BY <1>1, <1>3, <1>5, <2>2, <2>3 DEF Snapshot
<1>6. CASE ~(a > held[r].at)
  <2>1. Keep(held[r], new) = held[r]
    BY <1>6 DEF Keep
  <2> QED
    BY <1>1, <1>2, <1>4, <1>6, <2>1
<1> QED
  BY <1>5, <1>6

(* Every snapshot in hand is in order, and so is every late one. *)
LEMMA InHandSeen ==
  ASSUME TypeOK, NEW d \in Drains, NEW r \in Runs, reportDrain[d].batch[r] # None
  PROVE  /\ reportDrain[d].batch[r] \in Row
         /\ reportDrain[d].batch[r].at \in Nat
         /\ reportDrain[d].batch[r].state \in Nat
         /\ reportDrain[d].batch[r].attempts \in Nat
         /\ Seen(r, reportDrain[d].batch[r].at, reportDrain[d].batch[r].state)
<1>1. reportDrain[d].batch[r] \in Row
  BY DEF TypeOK
<1> QED
  BY <1>1, LimitAssumption DEF Row, Seen

-----------------------------------------------------------------------------
(* The steps that write the outbox.                                        *)

LEMMA InitStep == Init => IInv
<1> SUFFICES ASSUME Init PROVE IInv
  OBVIOUS
<1>1. TypeOK
  BY LimitAssumption, NoneAssumption DEF Init, TypeOK, Idle, NoBatch, Phases, Snapshot
<1>2. SingleFlight /\ OwnGen /\ HandledIsHeld
  BY DEF Init, SingleFlight, OwnGen, HandledIsHeld, Idle, NoBatch
<1>3. Ordered
  BY DEF Init, Ordered, Seen, Idle, NoBatch
<1>4. Fresh /\ Unstarted /\ NothingLost
  BY DEF Init, Fresh, Unstarted, NothingLost
<1> QED
  BY <1>1, <1>2, <1>3, <1>4 DEF IInv

(* A change of a run is stamped later than anything seen of it. *)
LEMMA ReportRunStep ==
  ASSUME IInv, NEW q \in Runs, NEW now \in 1 .. MaxClock, ReportRun(q, now)
  PROVE  IInv'
<1> DEFINE at == NextStamp(updatedAt[q], now)
<1> DEFINE st == state[q] + 1
<1>1. /\ TypeOK /\ state[q] \in Nat /\ updatedAt[q] \in Nat
      /\ at \in Nat /\ st \in Nat /\ at > updatedAt[q] /\ now \in Nat
  BY DEF IInv, TypeOK, NextStamp
<1>2. /\ updatedAt' = [updatedAt EXCEPT ![q] = at]
      /\ state' = [state EXCEPT ![q] = st]
      /\ UNCHANGED <<reportDrain, held, late, enabled>>
  BY DEF ReportRun
<1> DEFINE row == Enqueued(runReports[q], at, st)
<1>3. \/ /\ runReports' = [runReports EXCEPT ![q] = row]
         /\ missed' = missed \ {q}
      \/ /\ runReports' = runReports
         /\ missed' = missed \cup {q}
  BY <1>1, <1>2 DEF ReportRun, TypeOK
<1>4. /\ row \in Row /\ row # None /\ row.at = at /\ row.state = st /\ row.attempts = 0
      /\ runReports[q] # None => row.gen = runReports[q].gen + 1
  <2>1. runReports[q] \in Row \cup {None}
    BY <1>1 DEF TypeOK
  <2> HIDE DEF at, st
  <2>2. row \in Row /\ row # None
    BY <1>1, <2>1, EnqueuedType
  <2>3. /\ row.at = at /\ row.state = st /\ row.attempts = 0
        /\ runReports[q] # None => row.gen = runReports[q].gen + 1
    BY EnqueuedFields
  <2> QED
    BY <2>2, <2>3
<1> HIDE DEF at, st, row
<1>5. TypeOK'
  BY <1>1, <1>2, <1>3, <1>4, LimitAssumption DEF TypeOK
<1>6. \A r \in Runs : \A a, s \in Nat : Seen(r, a, s)' =>
        Seen(r, a, s) \/ (r = q /\ a = at /\ s = st)
  BY <1>1, <1>2, <1>3, <1>4 DEF Seen, TypeOK
<1>7. Ordered'
  <2> SUFFICES ASSUME NEW r \in Runs, NEW a \in Nat, NEW s \in Nat, Seen(r, a, s)'
               PROVE  /\ a <= updatedAt'[r]
                      /\ \A b, t \in Nat : Seen(r, b, t)' /\ a <= b => s <= t
    BY DEF Ordered
  <2>1. CASE r # q
    BY <1>1, <1>2, <1>6, <2>1 DEF IInv, Ordered, TypeOK
  <2>2. CASE r = q
    <3>1. Seen(q, updatedAt[q], state[q])
      BY DEF Seen
    <3>2. \A b, t \in Nat : Seen(q, b, t) => b <= updatedAt[q] /\ t <= state[q]
      BY <1>1, <3>1 DEF IInv, Ordered
    <3>3. \A b, t \in Nat : Seen(q, b, t)' => (Seen(q, b, t) \/ (b = at /\ t = st))
      BY <1>6
    <3>4. updatedAt'[q] = at /\ st = state[q] + 1
      BY <1>1, <1>2 DEF TypeOK, st
    <3>5. CASE Seen(q, a, s)
      <4>1. a <= updatedAt[q] /\ s <= state[q]
        BY <3>2, <3>5
      <4>2. \A b, t \in Nat : Seen(q, b, t) /\ a <= b => s <= t
        BY <3>5 DEF IInv, Ordered
      <4> QED
        BY <1>1, <2>2, <3>3, <3>4, <4>1, <4>2
    <3>6. CASE a = at /\ s = st
      <4>1. \A b, t \in Nat : Seen(q, b, t) => ~(a <= b)
        BY <1>1, <3>2, <3>6
      <4> QED
        BY <1>1, <2>2, <3>3, <3>4, <3>6, <4>1
    <3> QED
      BY <2>2, <3>3, <3>5, <3>6
  <2> QED
    BY <2>1, <2>2
<1>8. SingleFlight' /\ HandledIsHeld'
  BY <1>2 DEF IInv, SingleFlight, HandledIsHeld
<1>9. Fresh'
  BY <1>1, <1>2, <1>3, <1>4 DEF IInv, Fresh, TypeOK, st
<1>10. OwnGen'
  <2> SUFFICES ASSUME NEW d \in Drains, NEW r \in Runs, reportDrain[d].batch[r] # None
               PROVE  /\ runReports'[r] # None
                      /\ reportDrain[d].batch[r].gen <= runReports'[r].gen
                      /\ reportDrain[d].batch[r].gen = runReports'[r].gen =>
                           /\ reportDrain[d].batch[r].at = runReports'[r].at
                           /\ reportDrain[d].batch[r].state = runReports'[r].state
                           /\ runReports'[r].status = "pending"
    BY <1>2 DEF OwnGen
  <2>1. CASE runReports'[r] = runReports[r]
    BY <2>1 DEF IInv, OwnGen
  <2>2. CASE r = q /\ runReports'[r] = row
    <3>1. /\ runReports[q] # None
          /\ reportDrain[d].batch[q].gen <= runReports[q].gen
          /\ row.gen = runReports[q].gen + 1
      BY <1>4, <2>2 DEF IInv, OwnGen
    <3>2. reportDrain[d].batch[q].gen \in Nat /\ runReports[q].gen \in Nat
      BY <1>1, <2>2, <3>1 DEF TypeOK, Row
    <3> QED
      BY <1>4, <2>2, <3>1, <3>2
  <2> QED
    BY <1>1, <1>3, <2>1, <2>2 DEF TypeOK
<1>11. NothingLost'
  BY <1>1, <1>2, <1>3, <1>4 DEF IInv, NothingLost, TypeOK
<1>12. Unstarted'
  BY <1>1, <1>2, <1>3 DEF IInv, Unstarted, TypeOK
<1> QED
  BY <1>5, <1>7, <1>8, <1>9, <1>10, <1>11, <1>12 DEF IInv

(* The backfill brings every row up to date. *)
LEMMA EnqueueAllStep ==
  ASSUME IInv, EnqueueAllRunReports
  PROVE  IInv'
<1> DEFINE row(r) == Enqueued(runReports[r], updatedAt[r], state[r])
<1>1. /\ TypeOK
      /\ UNCHANGED <<state, updatedAt, reportDrain, held, late, enabled>>
      /\ missed' = {}
      /\ runReports' = [r \in Runs |-> IF updatedAt[r] = 0 THEN runReports[r] ELSE row(r)]
  BY DEF EnqueueAllRunReports, IInv
<1>2. \A r \in Runs :
        /\ row(r) \in Row /\ row(r) # None /\ row(r).attempts = 0
        /\ row(r).at = updatedAt[r] /\ row(r).state = state[r]
        /\ runReports[r] # None => row(r).gen = runReports[r].gen + 1
  <2>1. \A r \in Runs :
          /\ runReports[r] \in Row \cup {None}
          /\ updatedAt[r] \in Nat
          /\ state[r] \in Nat
    BY <1>1 DEF TypeOK
  <2>2. \A r \in Runs : row(r) \in Row /\ row(r) # None
    BY <2>1, EnqueuedType
  <2>3. \A r \in Runs :
          /\ row(r).at = updatedAt[r] /\ row(r).state = state[r] /\ row(r).attempts = 0
          /\ runReports[r] # None => row(r).gen = runReports[r].gen + 1
    BY EnqueuedFields
  <2> QED
    BY <2>2, <2>3
<1> HIDE DEF row
<1>3. TypeOK'
  BY <1>1, <1>2, LimitAssumption DEF TypeOK
<1>4. Ordered'
  <2>1. ASSUME NEW r \in Runs, NEW a \in Nat, NEW s \in Nat, Seen(r, a, s)'
        PROVE  Seen(r, a, s)
    <3>1. CASE runReports'[r] = runReports[r]
      BY <1>1, <2>1, <3>1 DEF Seen
    <3>2. CASE runReports'[r] = row(r)
      BY <1>1, <1>2, <2>1, <3>2 DEF Seen
    <3> QED
      BY <1>1, <3>1, <3>2
  <2> QED
    BY <1>1, <2>1, QuietStep DEF IInv
<1>5. SingleFlight' /\ HandledIsHeld'
  BY <1>1 DEF IInv, SingleFlight, HandledIsHeld
<1>6. \A r \in Runs : updatedAt[r] = 0 => runReports'[r] = None /\ r \notin missed
  BY <1>1 DEF IInv, Unstarted
<1>7. Fresh' /\ Unstarted'
  BY <1>1, <1>2, <1>6 DEF Fresh, Unstarted
<1>8. NothingLost'
  BY <1>1, <1>2, <1>6 DEF IInv, NothingLost, Unstarted
<1>9. OwnGen'
  <2>1. ASSUME NEW d \in Drains, NEW r \in Runs, reportDrain[d].batch[r] # None
        PROVE  /\ runReports'[r] # None
               /\ reportDrain[d].batch[r].gen \in Nat
               /\ runReports'[r].gen \in Nat
               /\ reportDrain[d].batch[r].gen < runReports'[r].gen
    <3>1. runReports[r] # None /\ reportDrain[d].batch[r].gen <= runReports[r].gen
      BY <2>1 DEF IInv, OwnGen
    <3>2. runReports'[r] = row(r)
      BY <1>1, <3>1 DEF IInv, Unstarted
    <3>3. reportDrain[d].batch[r].gen \in Nat /\ runReports[r].gen \in Nat
      BY <1>1, <2>1, <3>1 DEF TypeOK, Row
    <3> QED
      BY <1>2, <3>1, <3>2, <3>3
  <2>2. \A m, n \in Nat : m < n => m <= n /\ m # n
    OBVIOUS
  <2> QED
    BY <1>1, <2>1, <2>2 DEF OwnGen
<1> QED
  BY <1>3, <1>4, <1>5, <1>7, <1>8, <1>9 DEF IInv

(* A row that is due again is otherwise as it was. *)
LEMMA BackoffEndsStep ==
  ASSUME IInv, NEW q \in Runs, BackoffEnds(q)
  PROVE  IInv'
<1> DEFINE row == [runReports[q] EXCEPT !.next_attempt_at = "now"]
<1>1. /\ TypeOK /\ runReports[q] \in Row
      /\ UNCHANGED <<state, updatedAt, reportDrain, held, late, enabled, missed>>
      /\ runReports' = [runReports EXCEPT ![q] = row]
  BY DEF BackoffEnds, IInv, TypeOK
<1>2. /\ row \in Row /\ row # None
      /\ row.gen = runReports[q].gen /\ row.at = runReports[q].at
      /\ row.state = runReports[q].state /\ row.status = runReports[q].status
      /\ row.attempts = runReports[q].attempts
  BY <1>1, NoneAssumption DEF Row
<1> HIDE DEF row
<1>3. \A r \in Runs :
        /\ runReports'[r] \in Row \cup {None}
        /\ runReports'[r] = None <=> runReports[r] = None
        /\ runReports[r] # None =>
             /\ runReports'[r].gen = runReports[r].gen
             /\ runReports'[r].at = runReports[r].at
             /\ runReports'[r].state = runReports[r].state
             /\ runReports'[r].status = runReports[r].status
             /\ runReports'[r].attempts = runReports[r].attempts
  BY <1>1, <1>2, NoneAssumption DEF TypeOK
<1>4. TypeOK'
  BY <1>1, <1>2, <1>3 DEF TypeOK
<1>5. Ordered'
  <2>1. \A r \in Runs : \A a, s \in Nat : Seen(r, a, s)' => Seen(r, a, s)
    BY <1>1, <1>3 DEF Seen
  <2> QED
    BY <1>1, <2>1, QuietStep DEF IInv
<1>6. SingleFlight' /\ HandledIsHeld'
  BY <1>1 DEF IInv, SingleFlight, HandledIsHeld
<1>7. Fresh' /\ Unstarted' /\ NothingLost'
  BY <1>1, <1>3 DEF IInv, Fresh, Unstarted, NothingLost
<1>8. OwnGen'
  BY <1>1, <1>3 DEF IInv, OwnGen
<1> QED
  BY <1>4, <1>5, <1>6, <1>7, <1>8 DEF IInv

-----------------------------------------------------------------------------
(* The steps of a drain.                                                   *)

LEMMA TakeStep ==
  ASSUME IInv, NEW d \in Drains, Take(d)
  PROVE  IInv'
<1> DEFINE batch == [r \in Runs |-> IF Due(r) THEN runReports[r] ELSE None]
<1>1. /\ TypeOK
      /\ UNCHANGED <<state, updatedAt, runReports, held, late, enabled, missed>>
      /\ reportDrain' = [reportDrain EXCEPT ![d] = [phase |-> "taken", batch |-> batch]]
      /\ \A e \in Drains : reportDrain[e].phase = "idle"
  BY DEF Take, MayStart, IInv
<1>2. /\ batch \in [Runs -> Row \cup {None}]
      /\ \A r \in Runs : batch[r] # None =>
           /\ batch[r] = runReports[r]
           /\ runReports[r].status = "pending"
  BY <1>1 DEF TypeOK, Due
<1> HIDE DEF batch
<1>3. /\ reportDrain'[d] = [phase |-> "taken", batch |-> batch]
      /\ \A e \in Drains : e # d => reportDrain'[e] = reportDrain[e]
  BY <1>1 DEF TypeOK
<1>4. TypeOK'
  BY <1>1, <1>2 DEF TypeOK, Phases
<1>5. \A e \in Drains : \A r \in Runs : reportDrain'[e].batch[r] # None =>
        /\ e = d
        /\ reportDrain'[e].batch[r] = runReports[r]
        /\ runReports[r].status = "pending"
        /\ runReports[r] \in Row
        /\ runReports[r] # None
  BY <1>1, <1>2, <1>3 DEF IInv, SingleFlight, TypeOK
<1>6. Ordered'
  <2>1. \A r \in Runs : \A a, s \in Nat : Seen(r, a, s)' => Seen(r, a, s)
    BY <1>1, <1>5 DEF Seen
  <2> QED
    BY <1>1, <2>1, QuietStep DEF IInv
<1>7. SingleFlight'
  BY <1>1, <1>3 DEF IInv, SingleFlight
<1>8. HandledIsHeld'
  BY <1>1, <1>3 DEF HandledIsHeld
<1>9. OwnGen'
  BY <1>1, <1>5 DEF OwnGen, Row
<1>10. Fresh' /\ Unstarted' /\ NothingLost'
  BY <1>1 DEF IInv, Fresh, Unstarted, NothingLost
<1> QED
  BY <1>4, <1>6, <1>7, <1>8, <1>9, <1>10 DEF IInv

(* Rows that do not fit are put back. *)
LEMMA SendStep ==
  ASSUME IInv, NEW d \in Drains, NEW B \in SUBSET Runs, Send(d, B)
  PROVE  IInv'
<1> DEFINE batch == [r \in Runs |-> IF r \in B THEN reportDrain[d].batch[r] ELSE None]
<1>1. /\ TypeOK
      /\ UNCHANGED <<state, updatedAt, runReports, held, late, enabled, missed>>
      /\ reportDrain[d].phase = "taken"
      /\ reportDrain' = [reportDrain EXCEPT ![d] = [phase |-> "posted", batch |-> batch]]
  BY DEF Send, IInv
<1>2. /\ batch \in [Runs -> Row \cup {None}]
      /\ \A r \in Runs : batch[r] # None => batch[r] = reportDrain[d].batch[r]
  BY <1>1 DEF TypeOK
<1> HIDE DEF batch
<1>3. /\ reportDrain'[d] = [phase |-> "posted", batch |-> batch]
      /\ \A e \in Drains : e # d => reportDrain'[e] = reportDrain[e]
  BY <1>1 DEF TypeOK
<1>4. TypeOK'
  BY <1>1, <1>2 DEF TypeOK, Phases
<1>5. \A e \in Drains : \A r \in Runs : reportDrain'[e].batch[r] # None =>
        reportDrain[e].batch[r] # None /\ reportDrain'[e].batch[r] = reportDrain[e].batch[r]
  BY <1>2, <1>3
<1>6. Ordered'
  <2>1. \A r \in Runs : \A a, s \in Nat : Seen(r, a, s)' => Seen(r, a, s)
    BY <1>1, <1>5 DEF Seen
  <2> QED
    BY <1>1, <2>1, QuietStep DEF IInv
<1>7. SingleFlight'
  BY <1>1, <1>3 DEF IInv, SingleFlight
<1>8. HandledIsHeld'
  BY <1>1, <1>3 DEF IInv, HandledIsHeld
<1>9. OwnGen'
  BY <1>1, <1>5 DEF IInv, OwnGen
<1>10. Fresh' /\ Unstarted' /\ NothingLost'
  BY <1>1 DEF IInv, Fresh, Unstarted, NothingLost
<1> QED
  BY <1>4, <1>6, <1>7, <1>8, <1>9, <1>10 DEF IInv

(* superwitness keeps the newer of what it held and what it is sent. *)
LEMMA HandleStep ==
  ASSUME IInv, NEW d \in Drains, Handle(d)
  PROVE  IInv'
<1> DEFINE kept(r) == Keep(held[r], reportDrain[d].batch[r])
<1>1. /\ TypeOK
      /\ UNCHANGED <<state, updatedAt, runReports, late, enabled, missed>>
      /\ reportDrain[d].phase = "posted"
      /\ held' = [r \in Runs |-> IF reportDrain[d].batch[r] # None THEN kept(r) ELSE held[r]]
      /\ reportDrain' = [reportDrain EXCEPT ![d].phase = "handled"]
  BY DEF Handle, InHand, IInv
<1>2. \A r \in Runs : reportDrain[d].batch[r] # None =>
        /\ kept(r) \in Snapshot
        /\ kept(r).at >= held[r].at
        /\ kept(r).at >= reportDrain[d].batch[r].at
        /\ Seen(r, kept(r).at, kept(r).state)
        /\ held[r].at = updatedAt[r] => kept(r) = held[r]
  BY <1>1, InHandSeen, KeepForward
<1> HIDE DEF kept
<1>3. /\ reportDrain'[d].phase = "handled"
      /\ reportDrain'[d].batch = reportDrain[d].batch
      /\ \A e \in Drains : e # d => reportDrain'[e] = reportDrain[e]
      /\ reportDrain' \in [Drains -> [phase : Phases, batch : [Runs -> Row \cup {None}]]]
  BY <1>1 DEF TypeOK, Phases
<1>4. \A e \in Drains : reportDrain'[e].batch = reportDrain[e].batch
  BY <1>3
<1>5. TypeOK'
  BY <1>1, <1>2, <1>3 DEF TypeOK
<1>6. Ordered'
  <2>1. \A r \in Runs : \A a, s \in Nat : Seen(r, a, s)' => Seen(r, a, s)
    BY <1>1, <1>2, <1>4 DEF Seen
  <2> QED
    BY <1>1, <2>1, QuietStep DEF IInv
<1>7. SingleFlight'
  BY <1>1, <1>3, <1>4 DEF IInv, SingleFlight
<1>8. HandledIsHeld'
  <2> SUFFICES ASSUME NEW e \in Drains, NEW r \in Runs,
                      reportDrain'[e].phase = "handled", reportDrain[e].batch[r] # None
               PROVE  reportDrain[e].batch[r].at <= held'[r].at
    BY <1>4 DEF HandledIsHeld
  <2>1. e = d
    BY <1>1, <1>3 DEF IInv, SingleFlight
  <2>2. held'[r] = kept(r) /\ kept(r).at >= reportDrain[d].batch[r].at
    BY <1>1, <1>2, <2>1
  <2>3. kept(r).at \in Nat /\ reportDrain[d].batch[r].at \in Nat
    BY <1>1, <1>2, <2>1, InHandSeen DEF Snapshot
  <2> QED
    BY <2>1, <2>2, <2>3
<1>9. OwnGen'
  BY <1>1, <1>4 DEF IInv, OwnGen
<1>10. Fresh' /\ Unstarted'
  BY <1>1 DEF IInv, Fresh, Unstarted
<1>11. NothingLost'
  BY <1>1, <1>2 DEF IInv, NothingLost
<1> QED
  BY <1>5, <1>6, <1>7, <1>8, <1>9, <1>10, <1>11 DEF IInv

LEMMA HandleLateStep ==
  ASSUME IInv, NEW m \in late, HandleLate(m)
  PROVE  IInv'
<1> DEFINE kept == Keep(held[m.run], m)
<1>1. /\ TypeOK
      /\ UNCHANGED <<state, updatedAt, runReports, reportDrain, enabled, missed>>
      /\ held' = [held EXCEPT ![m.run] = kept]
      /\ late' = late \ {m}
  BY DEF HandleLate, IInv
<1>2. m.run \in Runs /\ m.at \in Nat /\ m.state \in Nat
  BY <1>1 DEF TypeOK, Letter
<1>3. Seen(m.run, m.at, m.state)
  BY DEF Seen
<1>4. /\ kept \in Snapshot
      /\ kept.at >= held[m.run].at
      /\ Seen(m.run, kept.at, kept.state)
      /\ held[m.run].at = updatedAt[m.run] => kept = held[m.run]
  BY <1>2, <1>3, KeepForward
<1> HIDE DEF kept
<1>5. TypeOK'
  BY <1>1, <1>2, <1>4 DEF TypeOK
<1>6. held'[m.run] = kept /\ \A r \in Runs : r # m.run => held'[r] = held[r]
  BY <1>1, <1>2 DEF TypeOK
<1>7. Ordered'
  <2>1. \A r \in Runs : \A a, s \in Nat : Seen(r, a, s)' => Seen(r, a, s)
    BY <1>1, <1>4, <1>6 DEF Seen
  <2> QED
    BY <1>1, <2>1, QuietStep DEF IInv
<1>8. SingleFlight' /\ OwnGen' /\ Fresh' /\ Unstarted'
  BY <1>1 DEF IInv, SingleFlight, OwnGen, Fresh, Unstarted
<1>9. HandledIsHeld'
  <2> SUFFICES ASSUME NEW d \in Drains, NEW r \in Runs,
                      reportDrain[d].phase = "handled", reportDrain[d].batch[r] # None
               PROVE  reportDrain[d].batch[r].at <= held'[r].at
    BY <1>1 DEF HandledIsHeld
  <2>1. reportDrain[d].batch[r].at <= held[r].at
    BY DEF IInv, HandledIsHeld
  <2>2. held[r].at \in Nat /\ held'[r].at \in Nat /\ reportDrain[d].batch[r].at \in Nat
    BY <1>1, <1>5, InHandSeen DEF TypeOK, Snapshot
  <2>3. held'[r].at >= held[r].at
    BY <1>4, <1>6, <2>2
  <2> QED
    BY <2>1, <2>2, <2>3
<1>10. NothingLost'
  BY <1>1, <1>4, <1>6 DEF IInv, NothingLost
<1> QED
  BY <1>5, <1>7, <1>8, <1>9, <1>10 DEF IInv

(* Forgetting every drain loses no row: they are all still in the outbox. *)
LEMMA RestartStep ==
  ASSUME IInv, NEW on \in BOOLEAN, Restart(on)
  PROVE  IInv'
<1>1. /\ TypeOK
      /\ UNCHANGED <<state, updatedAt, runReports, held, missed>>
      /\ enabled' \in BOOLEAN
      /\ reportDrain' = [d \in Drains |-> Idle]
      /\ late' = late \cup UNION {OnTheWay(d) : d \in Drains}
  BY DEF Restart, IInv
<1>2. \A m \in late' : m \in late \/ \E d \in Drains : m \in OnTheWay(d)
  BY <1>1
<1>3. \A d \in Drains : \A m \in OnTheWay(d) :
        /\ m \in Letter
        /\ reportDrain[d].batch[m.run] # None
        /\ m.at = reportDrain[d].batch[m.run].at
        /\ m.state = reportDrain[d].batch[m.run].state
  BY <1>1, InHandSeen DEF OnTheWay, InHand, Letter
<1>4. \A d \in Drains : /\ reportDrain'[d].phase = "idle"
                        /\ \A r \in Runs : reportDrain'[d].batch[r] = None
  BY <1>1 DEF Idle, NoBatch
<1>5. TypeOK'
  <2>1. late' \subseteq Letter
    BY <1>1, <1>2, <1>3 DEF TypeOK
  <2>2. reportDrain' \in [Drains -> [phase : Phases, batch : [Runs -> Row \cup {None}]]]
    BY <1>1 DEF Idle, NoBatch, Phases
  <2> QED
    BY <1>1, <2>1, <2>2 DEF TypeOK
<1>6. Ordered'
  <2>1. \A r \in Runs : \A a, s \in Nat : Seen(r, a, s)' => Seen(r, a, s)
    BY <1>1, <1>2, <1>3, <1>4 DEF Seen
  <2> QED
    BY <1>1, <2>1, QuietStep DEF IInv
<1>7. SingleFlight' /\ HandledIsHeld' /\ OwnGen'
  BY <1>4 DEF SingleFlight, HandledIsHeld, OwnGen
<1>8. Fresh' /\ Unstarted' /\ NothingLost'
  BY <1>1 DEF IInv, Fresh, Unstarted, NothingLost
<1> QED
  BY <1>5, <1>6, <1>7, <1>8 DEF IInv

-----------------------------------------------------------------------------
(* The steps that settle rows.                                             *)

(* What an answer may do to the row of r: nothing, or, if the row is the   *)
(* one in hand, keep its snapshot or delete what superwitness holds.       *)
Settled(d, r) ==
  \/ runReports'[r] = runReports[r]
  \/ /\ Settles(d, r)
     /\ runReports'[r] \in Row
     /\ runReports'[r].status = "pending" => runReports'[r].attempts < RUN_REPORT_MAX_ATTEMPTS
     /\ runReports'[r].at = runReports[r].at
     /\ runReports'[r].state = runReports[r].state
  \/ /\ Settles(d, r)
     /\ reportDrain[d].phase = "handled"
     /\ runReports'[r] = None

(* The row an answer settles is pending and has the snapshot in hand.      *)
LEMMA SettlesOwn ==
  ASSUME IInv, NEW d \in Drains, NEW r \in Runs, Settles(d, r)
  PROVE  /\ reportDrain[d].batch[r] # None
         /\ runReports[r] # None
         /\ runReports[r] \in Row
         /\ runReports[r].at = reportDrain[d].batch[r].at
         /\ runReports[r].state = reportDrain[d].batch[r].state
         /\ runReports[r].attempts < RUN_REPORT_MAX_ATTEMPTS
<1>1. reportDrain[d].batch[r] # None /\ runReports[r] # None
      /\ runReports[r].gen = reportDrain[d].batch[r].gen
  BY DEF Settles, InHand
<1>2. runReports[r].status = "pending"
  BY <1>1 DEF IInv, OwnGen
<1> QED
  BY <1>1, <1>2 DEF IInv, OwnGen, TypeOK

LEMMA SettleStep ==
  ASSUME IInv, NEW d \in Drains, reportDrain[d].phase # "idle", Finish(d),
         UNCHANGED <<state, updatedAt, held, enabled, missed>>,
         late' \subseteq late \cup OnTheWay(d),
         runReports' = [r \in Runs |-> runReports'[r]],
         \A r \in Runs : Settled(d, r)
  PROVE  IInv'
<1>1. TypeOK
  BY DEF IInv
<1>2. /\ reportDrain' = [reportDrain EXCEPT ![d] = Idle]
      /\ \A e \in Drains : /\ reportDrain'[e].phase = "idle"
                           /\ \A r \in Runs : reportDrain'[e].batch[r] = None
  BY <1>1 DEF Finish, IInv, SingleFlight, TypeOK, Idle, NoBatch
<1>3. \A m \in OnTheWay(d) :
        /\ m \in Letter
        /\ reportDrain[d].batch[m.run] # None
        /\ m.at = reportDrain[d].batch[m.run].at
        /\ m.state = reportDrain[d].batch[m.run].state
  BY <1>1, InHandSeen DEF OnTheWay, InHand, Letter
<1>4. \A r \in Runs :
        /\ runReports'[r] \in Row \cup {None}
        /\ runReports'[r] # None =>
             /\ runReports[r] # None
             /\ runReports'[r].at = runReports[r].at
             /\ runReports'[r].state = runReports[r].state
             /\ runReports'[r].status = "pending" => runReports'[r].attempts < RUN_REPORT_MAX_ATTEMPTS
  BY <1>1, SettlesOwn DEF Settled, TypeOK
<1>5. TypeOK'
  <2>1. late' \subseteq Letter
    BY <1>1, <1>3 DEF TypeOK
  <2>2. reportDrain' \in [Drains -> [phase : Phases, batch : [Runs -> Row \cup {None}]]]
    BY <1>1, <1>2 DEF TypeOK, Idle, NoBatch, Phases
  <2>3. runReports' \in [Runs -> Row \cup {None}]
    BY <1>4
  <2> QED
    BY <1>1, <1>4, <2>1, <2>2, <2>3 DEF TypeOK
<1>6. Ordered'
  <2>1. \A r \in Runs : \A a, s \in Nat : Seen(r, a, s)' => Seen(r, a, s)
    BY <1>2, <1>3, <1>4 DEF Seen
  <2> QED
    BY <2>1, QuietStep DEF IInv
<1>7. SingleFlight' /\ HandledIsHeld' /\ OwnGen'
  BY <1>2 DEF SingleFlight, HandledIsHeld, OwnGen
<1>8. Fresh' /\ Unstarted'
  BY <1>4 DEF IInv, Fresh, Unstarted
<1>9. NothingLost'
  <2> SUFFICES ASSUME NEW r \in Runs, runReports'[r] = None, r \notin missed
               PROVE  held[r] = [at |-> updatedAt[r], state |-> state[r]]
    BY DEF NothingLost
  <2>1. CASE runReports[r] = None
    BY <2>1 DEF IInv, NothingLost
  <2>2. CASE runReports[r] # None
    <3>1. Settles(d, r) /\ reportDrain[d].phase = "handled"
      BY <2>2, NoneAssumption DEF Settled
    <3>2. /\ reportDrain[d].batch[r] # None
          /\ reportDrain[d].batch[r].at = updatedAt[r]
      BY <2>2, <3>1, SettlesOwn DEF IInv, Fresh
    <3>3. updatedAt[r] <= held[r].at
      BY <3>1, <3>2 DEF IInv, HandledIsHeld
    <3>4. /\ held[r] \in Snapshot /\ held[r].at \in Nat /\ held[r].state \in Nat
          /\ updatedAt[r] \in Nat /\ state[r] \in Nat
      BY <1>1 DEF TypeOK, Snapshot
    <3>5. Seen(r, held[r].at, held[r].state) /\ Seen(r, updatedAt[r], state[r])
      BY DEF Seen
    <3>6. held[r].at <= updatedAt[r]
      BY <3>4, <3>5 DEF IInv, Ordered
    <3>7. held[r].state <= state[r]
      BY <3>4, <3>5, <3>6 DEF IInv, Ordered
    <3>8. state[r] <= held[r].state
      BY <3>3, <3>4, <3>5 DEF IInv, Ordered
    <3> QED
      BY <3>3, <3>4, <3>6, <3>7, <3>8 DEF Snapshot
  <2> QED
    BY <2>1, <2>2
<1> QED
  BY <1>5, <1>6, <1>7, <1>8, <1>9 DEF IInv

LEMMA ReceiveOkStep ==
  ASSUME IInv, NEW d \in Drains, ReceiveOk(d)
  PROVE  IInv'
<1>1. \A r \in Runs : Settled(d, r)
  BY DEF ReceiveOk, Settled
<1> QED
  BY <1>1, SettleStep DEF ReceiveOk

LEMMA GiveUpStep ==
  ASSUME IInv, NEW d \in Drains, GiveUp(d)
  PROVE  IInv'
<1>1. ASSUME NEW r \in Runs
      PROVE  Settled(d, r)
  <2>1. CASE Settles(d, r)
    <3>1. runReports'[r] = Retried(runReports[r], reportDrain[d].batch[r].attempts + 1)
      BY <2>1 DEF GiveUp
    <3>2. reportDrain[d].batch[r].attempts + 1 \in Nat
      BY <2>1, SettlesOwn, InHandSeen DEF IInv
    <3> QED
      BY <2>1, <3>1, <3>2, SettlesOwn, RetriedType DEF Settled
  <2>2. CASE ~Settles(d, r)
    BY <2>2 DEF GiveUp, Settled
  <2> QED
    BY <2>1, <2>2
<1> QED
  BY <1>1, SettleStep DEF GiveUp

LEMMA RefuseStep ==
  ASSUME IInv, NEW d \in Drains, NEW S \in SUBSET Runs, Refuse(d, S)
  PROVE  IInv'
<1>1. ASSUME NEW r \in Runs
      PROVE  Settled(d, r)
  <2>1. CASE r \in S /\ Settles(d, r)
    <3>1. runReports'[r] = Parked(runReports[r])
      BY <2>1 DEF Refuse
    <3> QED
      BY <2>1, <3>1, SettlesOwn, ParkedType DEF Settled
  <2>2. CASE ~(r \in S /\ Settles(d, r))
    BY <2>2 DEF Refuse, Settled
  <2> QED
    BY <2>1, <2>2
<1> QED
  BY <1>1, SettleStep DEF Refuse

LEMMA NextStep == IInv /\ [Next]_vars => IInv'
<1> SUFFICES ASSUME IInv, [Next]_vars PROVE IInv'
  OBVIOUS
<1>1. CASE \E r \in Runs, now \in 1 .. MaxClock : ReportRun(r, now)
  BY <1>1, ReportRunStep
<1>2. CASE EnqueueAllRunReports
  BY <1>2, EnqueueAllStep
<1>3. CASE \E d \in Drains : Take(d) \/ Handle(d)
  BY <1>3, TakeStep, HandleStep
<1>4. CASE \E d \in Drains : Answer(d)
  BY <1>4, ReceiveOkStep, GiveUpStep, RefuseStep DEF Answer
<1>5. CASE \E d \in Drains, B \in SUBSET Runs : Send(d, B)
  BY <1>5, SendStep
<1>6. CASE \E m \in late : HandleLate(m)
  BY <1>6, HandleLateStep
<1>7. CASE \E r \in Runs : BackoffEnds(r)
  BY <1>7, BackoffEndsStep
<1>8. CASE \E on \in BOOLEAN : Restart(on)
  BY <1>8, RestartStep
<1>9. CASE UNCHANGED vars
  BY <1>9 DEF vars, IInv, TypeOK, Ordered, Seen, SingleFlight, Fresh, OwnGen,
              HandledIsHeld, Unstarted, NothingLost
<1> QED
  BY <1>1, <1>2, <1>3, <1>4, <1>5, <1>6, <1>7, <1>8, <1>9 DEF Next

-----------------------------------------------------------------------------
(* The theorems.                                                           *)

LEMMA InvCorrect == Spec => []IInv
BY InitStep, NextStep, PTL DEF Spec

(* The outbox is well formed; a row that is still pending has attempts     *)
(* left (run-reports.ts, retryRunReports).                                 *)
THEOREM ReportsTypeCorrect == Spec => []TypeOK
<1>1. IInv => TypeOK
  BY DEF IInv
<1> QED
  BY <1>1, InvCorrect, PTL

(* No report that is owed is ever dropped: a run without a row is one      *)
(* superwitness is up to date with (run-reports.ts, the gen guard, R6).    *)
THEOREM NothingLostCorrect == Spec => []NothingLost
<1>1. IInv => NothingLost
  BY DEF IInv
<1> QED
  BY <1>1, InvCorrect, PTL

LEMMA OwnAnswersStep ==
  ASSUME IInv, Next, NEW r \in Runs
  PROVE  SettledByOwn(r)
<1>1. TypeOK
  BY DEF IInv
<1>2. CASE runReports'[r] = runReports[r]
  BY <1>1, <1>2, LimitAssumption DEF SettledByOwn, TypeOK, Row
<1>3. CASE \E d \in Drains : Settles(d, r)
  BY <1>3, SettlesOwn DEF SettledByOwn, OwnSnapshot, InHand
<1>4. CASE \E at, st \in Nat : runReports'[r] = Enqueued(runReports[r], at, st)
  <2>1. PICK at \in Nat, st \in Nat : runReports'[r] = Enqueued(runReports[r], at, st)
    BY <1>4
  <2>2. runReports'[r] # None
    BY <1>1, <2>1, EnqueuedType DEF TypeOK
  <2>4. runReports'[r].attempts = 0
    BY <2>1, EnqueuedFields
  <2>3. runReports[r] # None => runReports[r].attempts \in Nat
    BY <1>1, LimitAssumption DEF TypeOK, Row
  <2> QED
    BY <2>2, <2>3, <2>4 DEF SettledByOwn
<1>5. CASE BackoffEnds(r)
  <2>1. runReports[r] \in Row /\ runReports'[r] = [runReports[r] EXCEPT !.next_attempt_at = "now"]
    BY <1>1, <1>5 DEF BackoffEnds, TypeOK
  <2>2. runReports'[r] \in Row /\ runReports'[r].attempts = runReports[r].attempts
    BY <2>1 DEF Row
  <2>3. runReports[r].attempts \in Nat
    BY <2>1, LimitAssumption DEF Row
  <2> QED
    BY <2>2, <2>3, NoneAssumption DEF SettledByOwn
<1>6. ASSUME NEW q \in Runs, NEW now \in 1 .. MaxClock, ReportRun(q, now)
      PROVE  \/ runReports'[r] = runReports[r]
             \/ \E at, st \in Nat : runReports'[r] = Enqueued(runReports[r], at, st)
  <2>1. NextStamp(updatedAt[q], now) \in Nat /\ state[q] + 1 \in Nat
    BY <1>1 DEF TypeOK, NextStamp
  <2>2. /\ updatedAt'[q] = NextStamp(updatedAt[q], now)
        /\ state'[q] = state[q] + 1
    BY <1>1, <1>6 DEF ReportRun, TypeOK
  <2>3. \/ runReports' = runReports
        \/ runReports' = [runReports EXCEPT ![q] = Enqueued(@, updatedAt'[q], state'[q])]
    BY <1>6 DEF ReportRun
  <2> QED
    BY <1>1, <2>1, <2>2, <2>3 DEF TypeOK
<1>7. ASSUME EnqueueAllRunReports
      PROVE  \/ runReports'[r] = runReports[r]
             \/ \E at, st \in Nat : runReports'[r] = Enqueued(runReports[r], at, st)
  BY <1>1, <1>7 DEF EnqueueAllRunReports, TypeOK
<1>8. ASSUME NEW d \in Drains, Answer(d)
      PROVE  runReports'[r] = runReports[r] \/ Settles(d, r)
  BY <1>8 DEF Answer, ReceiveOk, GiveUp, Refuse
<1>9. ASSUME NEW q \in Runs, BackoffEnds(q), q # r
      PROVE  runReports'[r] = runReports[r]
  BY <1>1, <1>9 DEF BackoffEnds, TypeOK
<1>10. \/ \E q \in Runs, now \in 1 .. MaxClock : ReportRun(q, now)
       \/ EnqueueAllRunReports
       \/ \E d \in Drains : Answer(d)
       \/ \E q \in Runs : BackoffEnds(q)
       \/ runReports' = runReports
  BY DEF Next, Take, Handle, Send, HandleLate, Restart
<1> QED
  BY <1>2, <1>3, <1>4, <1>5, <1>6, <1>7, <1>8, <1>9, <1>10

(* Only the answer to the snapshot a row holds deletes the row, backs it   *)
(* off or parks it (run-reports.ts, the gen guard, R6).                    *)
THEOREM OwnAnswersCorrect == Spec => OwnAnswers
<1>1. IInv /\ [Next]_vars => [\A r \in Runs : SettledByOwn(r)]_vars
  BY OwnAnswersStep
<1> QED
  BY <1>1, InvCorrect, PTL DEF Spec, OwnAnswers

(* What superwitness knows changes only by moving forward. *)
LEMMA FollowsStep == IInv /\ [Next]_vars => [Latest!Next]_(Latest!vars)
<1> SUFFICES ASSUME IInv, [Next]_vars PROVE [Latest!Next]_(Latest!vars)
  OBVIOUS
<1>1. TypeOK
  BY DEF IInv
<1>2. CASE \E r \in Runs, now \in 1 .. MaxClock : ReportRun(r, now)
  <2>1. PICK r \in Runs : state' = [state EXCEPT ![r] = @ + 1] /\ held' = held
    BY <1>2 DEF ReportRun
  <2>2. Latest!Change(r)
    BY <2>1 DEF Latest!Change
  <2> QED
    BY <2>2 DEF Latest!Next
<1>3. ASSUME state' = state, held' \in [Runs -> Snapshot],
             \A r \in Runs : held'[r].state \in held[r].state .. state[r]
      PROVE  Latest!Next
  BY <1>3 DEF Latest!Next, Latest!Learn
<1>4. \A r \in Runs : held[r].state \in held[r].state .. state[r]
  <2> TAKE r \in Runs
  <2>1. /\ held[r].at \in Nat /\ held[r].state \in Nat
        /\ updatedAt[r] \in Nat /\ state[r] \in Nat
    BY <1>1 DEF TypeOK, Snapshot
  <2>2. Seen(r, held[r].at, held[r].state) /\ Seen(r, updatedAt[r], state[r])
    BY DEF Seen
  <2> QED
    BY <2>1, <2>2 DEF IInv, Ordered
<1>5. CASE \E d \in Drains : Handle(d)
  <2>1. PICK d \in Drains : Handle(d)
    BY <1>5
  <2>2. \A r \in Runs : reportDrain[d].batch[r] # None =>
          /\ Keep(held[r], reportDrain[d].batch[r]) \in Snapshot
          /\ Keep(held[r], reportDrain[d].batch[r]).state \in held[r].state .. state[r]
    BY <1>1, InHandSeen, KeepForward
  <2>3. /\ state' = state
        /\ held' = [r \in Runs |-> IF reportDrain[d].batch[r] # None
                                   THEN Keep(held[r], reportDrain[d].batch[r]) ELSE held[r]]
    BY <2>1 DEF Handle, InHand
  <2>4. held' \in [Runs -> Snapshot]
    BY <1>1, <2>2, <2>3 DEF TypeOK
  <2>5. \A r \in Runs : held'[r].state \in held[r].state .. state[r]
    BY <1>4, <2>2, <2>3
  <2> QED
    BY <1>3, <2>3, <2>4, <2>5
<1>6. CASE \E m \in late : HandleLate(m)
  <2>1. PICK m \in late : HandleLate(m)
    BY <1>6
  <2>2. m.run \in Runs /\ m.at \in Nat /\ m.state \in Nat /\ Seen(m.run, m.at, m.state)
    BY <1>1 DEF TypeOK, Letter, Seen
  <2>3. /\ Keep(held[m.run], m) \in Snapshot
        /\ Keep(held[m.run], m).state \in held[m.run].state .. state[m.run]
    BY <2>2, KeepForward
  <2>4. state' = state /\ held' = [held EXCEPT ![m.run] = Keep(held[m.run], m)]
    BY <2>1 DEF HandleLate
  <2>5. held' \in [Runs -> Snapshot]
    BY <1>1, <2>2, <2>3, <2>4 DEF TypeOK
  <2>6. \A r \in Runs : held'[r].state \in held[r].state .. state[r]
    BY <1>1, <1>4, <2>2, <2>3, <2>4 DEF TypeOK
  <2> QED
    BY <1>3, <2>4, <2>5, <2>6
<1>7. CASE state' = state /\ held' = held
  BY <1>7 DEF Latest!vars
<1> QED
  BY <1>2, <1>5, <1>6, <1>7 DEF Next, vars, EnqueueAllRunReports, Take, Answer, ReceiveOk,
     GiveUp, Refuse, Send, BackoffEnds, Restart

(* The outbox, the drains and superwitness implement what LatestReport     *)
(* promises: superwitness follows every run forward (R4).                  *)
THEOREM FollowsCorrect == Spec => Follows
<1>1. Init => Latest!Init
  BY DEF Init, Latest!Init
<1> QED
  BY <1>1, InvCorrect, FollowsStep, PTL DEF Spec, Follows, Latest!Spec
=============================================================================
