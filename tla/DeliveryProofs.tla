-------------------------- MODULE DeliveryProofs ---------------------------
(***************************************************************************)
(* Proofs about what comes in and goes out beside the runs: push           *)
(* deliveries, webhooks and the live feed of a browser tab; for any number *)
(* of deliveries, subscriptions, drains, evictions, repeated webhooks,     *)
(* boards and loads, and for any limits.                                   *)
(***************************************************************************)
EXTENDS PushQueue, Webhooks, LiveBoard, FiniteSetTheorems, WellFoundedInduction, TLAPS

-----------------------------------------------------------------------------
(* AtLeastOnce. A drain writes a row's fate from the attempts it saw when  *)
(* it selected the row, and those never exceed the sends that happened     *)
(* since (PushTypeOK), so the write that reaches the limit comes after as  *)
(* many sends. It takes that every row in hand was below the limit         *)
(* (InReach): a row at its limit is in no drain's hands.                   *)

InReach == \A w \in PushDrains : \A h \in drain[w].hand : h.attempts < MAX_PUSH_ATTEMPTS

PInv == PushTypeOK /\ InReach /\ AtLeastOnce

-----------------------------------------------------------------------------
LEMMA BatchRetryable == Batch \subseteq {d \in Deliveries : Retryable(d)}
PROOF
  <1>1. Fetched \subseteq {d \in Deliveries : Retryable(d)}
    BY DEF Fetched, Foremost
  <1>2. Shares \subseteq Fetched
    BY DEF Shares, Foremost
  <1>3. Batch \subseteq Shares
    BY DEF Batch, Foremost
  <1> QED BY <1>1, <1>2, <1>3

LEMMA Bounds ==
  /\ MAX_PUSH_ATTEMPTS \in Nat /\ MAX_PUSH_ATTEMPTS > 0 /\ MaxEvictions \in Nat
PROOF
  BY PushAssumption

LEMMA Between ==
  ASSUME NEW m \in Nat, NEW n \in Nat, NEW t \in 0 .. m, n <= t, ~(n < m)
  PROVE  t = m
PROOF
  OBVIOUS

(* A row after an attempt.                                                 *)
LEMMA AttemptedRow ==
  ASSUME NEW outcome \in Outcomes, NEW n \in Nat
  PROVE  /\ Attempted(outcome, n) \in DeliveryRow
         /\ Attempted(outcome, n).attempts = n
         /\ outcome = "ok" => Attempted(outcome, n).status = "sent"
         /\ outcome # "ok" /\ n < MAX_PUSH_ATTEMPTS =>
              Attempted(outcome, n).status = "failed"
PROOF
  BY Bounds DEF Attempted, DeliveryRow, Statuses

-----------------------------------------------------------------------------
LEMMA PushStarts == PushInit => PInv
PROOF
  BY Bounds DEF PushInit, PInv, PushTypeOK, InReach, AtLeastOnce, DeliveryRow, Statuses, NoDrain

LEMMA QueueStep ==
  ASSUME PInv, NEW d \in Deliveries, Queue(d)
  PROVE  PInv'
PROOF
  <1> USE DEF PInv, PushTypeOK
  <1>1. /\ delivery' \in [Deliveries -> DeliveryRow]
        /\ \A e \in Deliveries : delivery'[e].attempts = delivery[e].attempts
        /\ delivery'[d].status = "pending"
        /\ \A e \in Deliveries \ {d} : delivery'[e] = delivery[e]
    BY DEF Queue, DeliveryRow, Statuses
  <1>2. InReach'
    BY DEF InReach, Queue
  <1>3. AtLeastOnce'
    <2> SUFFICES ASSUME NEW e \in Deliveries
                 PROVE  (\/ delivery[e].status = "unqueued" \/ Retryable(e)
                         \/ e \in acked \/ tries[e] = MAX_PUSH_ATTEMPTS)'
      BY DEF AtLeastOnce
    <2>1. CASE e = d
      <3>1. delivery[d].attempts <= tries[d] /\ tries[d] \in 0 .. MAX_PUSH_ATTEMPTS
            /\ delivery[d].attempts \in Nat
        BY DEF DeliveryRow
      <3>2. delivery[d].attempts < MAX_PUSH_ATTEMPTS \/ tries[d] = MAX_PUSH_ATTEMPTS
        BY <3>1, Bounds
      <3> QED BY <1>1, <2>1, <3>2 DEF Retryable, Queue
    <2>2. CASE e # d
      BY <1>1, <2>2 DEF AtLeastOnce, Retryable, Queue
    <2> QED BY <2>1, <2>2
  <1> QED BY <1>1, <1>2, <1>3 DEF Queue

LEMMA StartStep ==
  ASSUME PInv, NEW w \in PushDrains, StartDrain(w)
  PROVE  PInv'
PROOF
  <1> USE DEF PInv, PushTypeOK
  <1> DEFINE hand == {[id |-> d, attempts |-> delivery[d].attempts] : d \in Batch}
  <1>1. \A h \in hand : /\ h \in Held /\ h.attempts < MAX_PUSH_ATTEMPTS
                        /\ h.attempts <= tries[h.id]
    <2> SUFFICES ASSUME NEW d \in Batch
                 PROVE  /\ d \in Deliveries /\ delivery[d].attempts \in Nat
                        /\ delivery[d].attempts < MAX_PUSH_ATTEMPTS
                        /\ delivery[d].attempts <= tries[d]
      BY DEF Held
    <2> QED BY BatchRetryable DEF Retryable, DeliveryRow
  <1>2. drain' = [drain EXCEPT ![w] = [busy |-> TRUE, hand |-> hand]]
    BY DEF StartDrain
  <1> HIDE DEF hand
  <1>3. drain' \in [PushDrains -> [busy : BOOLEAN, hand : SUBSET Held]]
    BY <1>1, <1>2
  <1>4. \A x \in PushDrains : drain'[x].hand = IF x = w THEN hand ELSE drain[x].hand
    BY <1>2
  <1>5. InReach' /\ \A x \in PushDrains : \A h \in drain'[x].hand : h.attempts <= tries[h.id]
    BY <1>1, <1>4 DEF InReach
  <1>6. AtLeastOnce'
    BY DEF AtLeastOnce, Retryable, StartDrain
  <1> QED BY <1>3, <1>5, <1>6 DEF StartDrain

(* A send is counted, and what is written counts no more than happened.    *)
LEMMA SendStep ==
  ASSUME PInv, NEW w \in PushDrains, NEW h \in drain[w].hand, NEW outcome \in Outcomes,
         SendOne(w, h, outcome)
  PROVE  PInv'
PROOF
  <1> USE DEF PInv, PushTypeOK
  <1> DEFINE d == h.id
             n == h.attempts + 1
             row == IF delivery[d].status = "pruned" THEN delivery[d] ELSE Attempted(outcome, n)
  <1>1. /\ d \in Deliveries /\ n \in Nat /\ h.attempts \in Nat
        /\ h.attempts < MAX_PUSH_ATTEMPTS /\ h.attempts <= tries[d]
    BY DEF Held, InReach
  <1>2. /\ drain' = [drain EXCEPT ![w].hand = drain[w].hand \ {h}]
        /\ delivery' = [delivery EXCEPT ![d] = row]
        /\ tries' = [tries EXCEPT ![d] = IF @ < MAX_PUSH_ATTEMPTS THEN @ + 1 ELSE @]
        /\ acked' = IF outcome = "ok" THEN acked \cup {d} ELSE acked
        /\ evictions' = evictions
    BY DEF SendOne
  <1>3. /\ tries' \in [Deliveries -> 0 .. MAX_PUSH_ATTEMPTS]
        /\ \A e \in Deliveries : tries[e] <= tries'[e]
        /\ tries[d] = MAX_PUSH_ATTEMPTS => tries'[d] = MAX_PUSH_ATTEMPTS
        /\ n <= tries'[d]
    BY <1>1, <1>2, Bounds
  <1>4. /\ row \in DeliveryRow /\ row.attempts <= tries'[d]
    BY <1>1, <1>3, AttemptedRow DEF DeliveryRow
  <1>5. \/ row.status = "unqueued"
        \/ row.status \in {"pending", "failed"} /\ row.attempts < MAX_PUSH_ATTEMPTS
        \/ d \in acked' \/ tries'[d] = MAX_PUSH_ATTEMPTS
    <2>1. CASE delivery[d].status = "pruned"
      BY <1>1, <1>2, <1>3, <2>1 DEF AtLeastOnce, Retryable
    <2>2. CASE delivery[d].status # "pruned" /\ outcome = "ok"
      BY <1>2, <2>2
    <2>3. CASE delivery[d].status # "pruned" /\ outcome # "ok" /\ n < MAX_PUSH_ATTEMPTS
      <3>1. row = Attempted(outcome, n)
        BY <2>3
      <3>2. Attempted(outcome, n).attempts = n /\ Attempted(outcome, n).status = "failed"
        BY <1>1, <2>3, AttemptedRow
      <3> HIDE DEF row, n
      <3> QED BY <2>3, <3>1, <3>2
    <2>4. CASE ~(n < MAX_PUSH_ATTEMPTS)
      <3>1. tries'[d] \in 0 .. MAX_PUSH_ATTEMPTS /\ n <= tries'[d] /\ n \in Nat
        BY <1>1, <1>3
      <3> HIDE DEF row, n
      <3>2. tries'[d] = MAX_PUSH_ATTEMPTS
        BY <2>4, <3>1, Bounds, Between
      <3> QED BY <3>2
    <2> QED BY <2>1, <2>2, <2>3, <2>4
  <1> HIDE DEF row
  <1>6. /\ delivery' \in [Deliveries -> DeliveryRow]
        /\ \A e \in Deliveries : delivery'[e] = IF e = d THEN row ELSE delivery[e]
    BY <1>1, <1>2, <1>4
  <1>7. \A e \in Deliveries : delivery'[e].attempts <= tries'[e]
    <2> SUFFICES ASSUME NEW e \in Deliveries, e # d
                 PROVE  delivery'[e].attempts <= tries'[e]
      BY <1>4, <1>6
    <2> QED BY <1>1, <1>2, <1>6
  <1>8. /\ drain' \in [PushDrains -> [busy : BOOLEAN, hand : SUBSET Held]]
        /\ \A x \in PushDrains : drain'[x].hand \subseteq drain[x].hand
    BY <1>2
  <1>9. InReach'
    BY <1>8 DEF InReach
  <1>10. \A x \in PushDrains : \A g \in drain'[x].hand : g.attempts <= tries'[g.id]
    <2> SUFFICES ASSUME NEW x \in PushDrains, NEW g \in drain[x].hand
                 PROVE  g.attempts <= tries'[g.id]
      BY <1>8
    <2>1. g.id \in Deliveries /\ g.attempts \in Nat /\ g.attempts <= tries[g.id]
      BY DEF Held
    <2>2. tries[g.id] \in 0 .. MAX_PUSH_ATTEMPTS /\ tries'[g.id] \in 0 .. MAX_PUSH_ATTEMPTS
      BY <1>3, <2>1
    <2> QED BY <1>3, <2>1, <2>2, Bounds
  <1>11. AtLeastOnce'
    <2> SUFFICES ASSUME NEW e \in Deliveries
                 PROVE  (\/ delivery[e].status = "unqueued" \/ Retryable(e)
                         \/ e \in acked \/ tries[e] = MAX_PUSH_ATTEMPTS)'
      BY DEF AtLeastOnce
    <2>1. CASE e = d
      BY <1>5, <1>6, <2>1 DEF Retryable
    <2>2. CASE e # d
      BY <1>1, <1>2, <1>6, <2>2 DEF AtLeastOnce, Retryable
    <2> QED BY <2>1, <2>2
  <1>12. acked' \subseteq Deliveries /\ evictions' \in 0 .. MaxEvictions
    BY <1>1, <1>2
  <1> QED BY <1>3, <1>6, <1>7, <1>8, <1>9, <1>10, <1>11, <1>12

(* Only terminal rows are pruned, and those were taken or tried enough.    *)
LEMMA FinishDrainStep ==
  ASSUME PInv, NEW w \in PushDrains, FinishDrain(w)
  PROVE  PInv'
PROOF
  <1> USE DEF PInv, PushTypeOK
  <1>1. /\ delivery' \in [Deliveries -> DeliveryRow]
        /\ \A e \in Deliveries : delivery'[e].attempts = delivery[e].attempts
        /\ \A e \in Deliveries : e \notin Prunable => delivery'[e] = delivery[e]
    BY DEF FinishDrain, DeliveryRow, Statuses
  <1>2. /\ drain' \in [PushDrains -> [busy : BOOLEAN, hand : SUBSET Held]]
        /\ \A x \in PushDrains : drain'[x].hand \subseteq drain[x].hand
    BY DEF FinishDrain, NoDrain
  <1>3. InReach' /\ \A x \in PushDrains : \A g \in drain'[x].hand : g.attempts <= tries[g.id]
    BY <1>2 DEF InReach
  <1>4. AtLeastOnce'
    <2>1. ASSUME NEW e \in Deliveries, e \in Prunable
          PROVE  e \in acked \/ tries[e] = MAX_PUSH_ATTEMPTS
      BY <2>1 DEF Prunable, Terminal, AtLeastOnce, Retryable
    <2> QED BY <1>1, <2>1 DEF AtLeastOnce, Retryable, FinishDrain
  <1> QED BY <1>1, <1>2, <1>3, <1>4 DEF FinishDrain

LEMMA EvictStep ==
  ASSUME PInv, EvictDrains
  PROVE  PInv'
PROOF
  <1> USE DEF PInv, PushTypeOK
  <1>1. /\ drain' \in [PushDrains -> [busy : BOOLEAN, hand : SUBSET Held]]
        /\ \A x \in PushDrains : drain'[x].hand = {}
    BY DEF EvictDrains, NoDrain
  <1>2. evictions' \in 0 .. MaxEvictions
    BY Bounds DEF EvictDrains
  <1> QED BY <1>1, <1>2 DEF EvictDrains, InReach, AtLeastOnce, Retryable

LEMMA PushStep == PInv /\ [PushNext]_pushVars => PInv'
PROOF
  <1> SUFFICES ASSUME PInv, [PushNext]_pushVars PROVE PInv'
    OBVIOUS
  <1>1. CASE UNCHANGED pushVars
    BY <1>1 DEF pushVars, PInv, PushTypeOK, InReach, AtLeastOnce, Retryable
  <1> QED BY <1>1, QueueStep, StartStep, SendStep, FinishDrainStep, EvictStep DEF PushNext, SendSome

(* The table stays well formed, and no row or drain counts more attempts   *)
(* than there were sends, for any number of deliveries and drains.         *)
THEOREM PushTypeCorrect == PushSpec => []PushTypeOK
PROOF
  <1>1. PInv => PushTypeOK
    BY DEF PInv
  <1> QED BY <1>1, PushStarts, PushStep, PTL DEF PushSpec

(* No delivery is given up before it was taken or tried MAX_PUSH_ATTEMPTS  *)
(* times, whatever drains overlap and whenever the object goes away.       *)
THEOREM AtLeastOnceCorrect == PushSpec => []AtLeastOnce
PROOF
  <1>1. PInv => AtLeastOnce
    BY DEF PInv
  <1> QED BY <1>1, PushStarts, PushStep, PTL DEF PushSpec

-----------------------------------------------------------------------------
(* RetriesYield.  Before is a strict order of the deliveries, so the       *)
(* foremost n of a finite set that has more of them are n; the rows that   *)
(* can be retried are finitely many because those that were queued are.    *)

(* Every set of naturals that is not empty has a least one. *)
LEMMA LeastOf ==
  ASSUME NEW T \in SUBSET Nat, T # {}
  PROVE  \E m \in T : \A k \in T : m <= k
<1>1. PICK m \in T : \A k \in T : <<k, m>> \notin OpToRel(<, Nat)
  BY NatLessThanWellFounded, WFMin
<1>2. \A k \in T : ~(k < m)
  BY <1>1 DEF OpToRel
<1>3. \A k \in T : m <= k
  <2>1. \A k \in T : k \in Nat
    OBVIOUS
  <2> QED
    BY <1>2, <2>1
<1> QED
  BY <1>3

Preds(S, d) == {e \in S : Before(e, d)}

LEMMA OrderedDeliveries ==
  ASSUME PushTypeOK
  PROVE  /\ \A x, y, z \in Deliveries : Before(x, y) /\ Before(y, z) => Before(x, z)
         /\ \A x \in Deliveries : ~Before(x, x)
         /\ \A x, y \in Deliveries : x # y => Before(x, y) \/ Before(y, x)
<1>1. \A x \in Deliveries : x \in Nat /\ delivery[x].attempts \in Nat
  BY PushAssumption DEF PushTypeOK, DeliveryRow
<1> QED
  BY <1>1 DEF Before

(* Who comes later has more before it. *)
LEMMA MoreBefore ==
  ASSUME PushTypeOK, NEW S \in SUBSET Deliveries, IsFiniteSet(S)
  PROVE  /\ \A x \in S : IsFiniteSet(Preds(S, x)) /\ Cardinality(Preds(S, x)) \in Nat
         /\ \A x, y \in S : Before(x, y) =>
              Cardinality(Preds(S, x)) < Cardinality(Preds(S, y))
<1>1. \A x \in S : IsFiniteSet(Preds(S, x)) /\ Cardinality(Preds(S, x)) \in Nat
  BY FS_Subset, FS_CardinalityType DEF Preds
<1>2. ASSUME NEW x \in S, NEW y \in S, Before(x, y)
      PROVE  Cardinality(Preds(S, x)) < Cardinality(Preds(S, y))
  <2>1. Preds(S, x) \in SUBSET Preds(S, y) /\ x \in Preds(S, y) /\ x \notin Preds(S, x)
    BY <1>2, OrderedDeliveries DEF Preds
  <2>2. /\ Cardinality(Preds(S, x)) <= Cardinality(Preds(S, y))
        /\ Cardinality(Preds(S, x)) # Cardinality(Preds(S, y))
    BY <1>1, <2>1, FS_Subset
  <2> QED
    BY <1>1, <2>2
<1> QED
  BY <1>1, <1>2

(* Whoever comes before one of the foremost is one of them. *)
LEMMA ForemostClosed ==
  ASSUME PushTypeOK, NEW S \in SUBSET Deliveries, IsFiniteSet(S), NEW n \in Nat,
         NEW x \in S, NEW y \in Foremost(n, S), Before(x, y)
  PROVE  x \in Foremost(n, S)
<1>1. y \in S /\ Cardinality(Preds(S, y)) < n
  BY DEF Foremost, Preds
<1>2. Cardinality(Preds(S, x)) < n
  BY <1>1, MoreBefore
<1> QED
  BY <1>2 DEF Foremost, Preds

(* The foremost n are n, when one is left out. *)
LEMMA ForemostMany ==
  ASSUME PushTypeOK, NEW S \in SUBSET Deliveries, IsFiniteSet(S), NEW n \in Nat,
         NEW d \in S, d \notin Foremost(n, S)
  PROVE  Cardinality(Foremost(n, S)) = n
<1> DEFINE F == Foremost(n, S)
           Rank(x) == Cardinality(Preds(S, x))
<1>1. /\ F \in SUBSET S /\ IsFiniteSet(F) /\ Cardinality(F) \in Nat
      /\ \A x \in S : x \in F <=> Rank(x) < n
      /\ \A x \in S : IsFiniteSet(Preds(S, x)) /\ Rank(x) \in Nat
      /\ \A x, y \in S : Before(x, y) => Rank(x) < Rank(y)
      /\ \A x, y \in S : x # y => Before(x, y) \/ Before(y, x)
  <2>1. F \in SUBSET S /\ \A x \in S : x \in F <=> Rank(x) < n
    BY DEF Foremost, Preds
  <2> QED
    BY <2>1, MoreBefore, OrderedDeliveries, FS_Subset, FS_CardinalityType
<1> HIDE DEF F, Rank
<1>2. n <= Cardinality(F)
  <2>1. PICK k \in {Rank(x) : x \in S \ F} : \A j \in {Rank(x) : x \in S \ F} : k <= j
    <3>1. {Rank(x) : x \in S \ F} \in SUBSET Nat /\ {Rank(x) : x \in S \ F} # {}
      BY <1>1 DEF F
    <3> QED
      BY <3>1, LeastOf
  <2>2. PICK m \in S \ F : k = Rank(m)
    BY <2>1
  <2>3. \A x \in S \ F : Rank(m) <= Rank(x)
    BY <2>1, <2>2
  <2>4. F \in SUBSET Preds(S, m) /\ Preds(S, m) \in SUBSET F
    <3>1. ASSUME NEW x \in F PROVE x \in Preds(S, m)
      <4>1. x \in S /\ x # m /\ Rank(x) < n /\ ~(Rank(m) < n) /\ Rank(m) \in Nat /\ Rank(x) \in Nat
        BY <1>1, <2>2, <3>1
      <4>2. ~Before(m, x)
        BY <1>1, <4>1
      <4> QED
        BY <1>1, <4>1, <4>2 DEF Preds
    <3>2. ASSUME NEW x \in Preds(S, m) PROVE x \in F
      <4>1. x \in S /\ Rank(x) < Rank(m) /\ Rank(m) \in Nat /\ Rank(x) \in Nat
        BY <1>1, <3>2 DEF Preds
      <4> QED
        BY <2>3, <4>1
    <3> QED
      BY <3>1, <3>2
  <2>5. Cardinality(F) = Rank(m)
    <3>1. F = Preds(S, m)
      BY <2>4
    <3> QED
      BY <3>1 DEF Rank
  <2>6. ~(Rank(m) < n) /\ Rank(m) \in Nat
    BY <1>1, <2>2
  <2> QED
    BY <2>5, <2>6
<1>3. Cardinality(F) <= n
  <2>1. CASE F = {}
    BY <2>1, FS_EmptySet
  <2>2. CASE F # {}
    <3>1. PICK k \in {n - Rank(x) : x \in F} : \A j \in {n - Rank(x) : x \in F} : k <= j
      <4>1. \A x \in F : n - Rank(x) \in Nat
        BY <1>1
      <4>2. {n - Rank(x) : x \in F} \in SUBSET Nat /\ {n - Rank(x) : x \in F} # {}
        BY <2>2, <4>1
      <4> QED
        BY <4>2, LeastOf
    <3>2. PICK l \in F : k = n - Rank(l)
      BY <3>1
    <3>3. \A x \in F : n - Rank(l) <= n - Rank(x)
      BY <3>1, <3>2
    <3>4. F \in SUBSET (Preds(S, l) \cup {l})
      <4> SUFFICES ASSUME NEW x \in F, x # l PROVE x \in Preds(S, l)
        OBVIOUS
      <4>1. x \in S /\ l \in S /\ Rank(x) \in Nat /\ Rank(l) \in Nat
        BY <1>1
      <4>2. ~Before(l, x)
        BY <1>1, <3>3, <4>1
      <4> QED
        BY <1>1, <4>1, <4>2 DEF Preds
    <3>5. /\ IsFiniteSet(Preds(S, l) \cup {l})
          /\ Cardinality(Preds(S, l) \cup {l}) \in {Rank(l), Rank(l) + 1}
      <4>1. IsFiniteSet(Preds(S, l)) /\ Rank(l) \in Nat
        BY <1>1
      <4> QED
        BY <4>1, FS_AddElement DEF Rank
    <3>6. Cardinality(F) <= Cardinality(Preds(S, l) \cup {l})
      BY <3>4, <3>5, FS_Subset
    <3>7. Rank(l) < n /\ Rank(l) \in Nat
      BY <1>1
    <3> QED
      BY <1>1, <3>5, <3>6, <3>7
  <2> QED
    BY <2>1, <2>2
<1> QED
  BY <1>1, <1>2, <1>3 DEF F

(* Deliveries that were queued are finitely many. *)
Queued == {d \in Deliveries : delivery[d].status # "unqueued"}

LEMMA QueuedStarts == PushInit => IsFiniteSet(Queued)
<1>1. PushInit => Queued = {}
  BY DEF PushInit, Queued
<1> QED
  BY <1>1, FS_EmptySet

LEMMA QueuedStep ==
  ASSUME PushTypeOK, IsFiniteSet(Queued), [PushNext]_pushVars
  PROVE  IsFiniteSet(Queued')
<1>1. PICK Q : Q = Queued
  OBVIOUS
<1>2. IsFiniteSet(Q)
  BY <1>1
<1>3. CASE \E d \in Deliveries : Queue(d)
  <2>1. PICK d \in Deliveries : Queue(d)
    BY <1>3
  <2>2. Queued' \subseteq Q \cup {d}
    BY <1>1, <2>1 DEF Queue, Queued, PushTypeOK, DeliveryRow
  <2> QED
    BY <1>2, <2>2, FS_AddElement, FS_Subset
<1>4. CASE Queued' \subseteq Q
  BY <1>2, <1>4, FS_Subset
<1>5. CASE \E w \in PushDrains : SendSome(w)
  <2> PICK w \in PushDrains : SendSome(w)
    BY <1>5
  <2>1. PICK h \in drain[w].hand, outcome \in Outcomes : SendOne(w, h, outcome)
    BY DEF SendSome
  <2>2. h.id \in Deliveries
    BY <2>1 DEF PushTypeOK, Held
  <2>3. Queued' \subseteq Q \cup {h.id}
    BY <1>1, <2>1, <2>2 DEF SendOne, Queued, PushTypeOK
  <2> QED
    BY <1>2, <2>3, FS_AddElement, FS_Subset
<1>6. CASE \E w \in PushDrains : FinishDrain(w)
  <2>1. ASSUME NEW d \in Deliveries, d \in Queued'
        PROVE  d \in Queued
    BY <1>6, <2>1 DEF FinishDrain, Queued, Prunable, Terminal
  <2> QED
    BY <1>1, <1>4, <2>1 DEF Queued
<1>7. CASE UNCHANGED delivery
  BY <1>1, <1>4, <1>7 DEF Queued
<1> QED
  BY <1>3, <1>5, <1>6, <1>7 DEF PushNext, pushVars, StartDrain, EvictDrains

(* A drain that starts with a retry holds the full share of every          *)
(* subscription it leaves a fresh delivery of.                             *)
LEMMA BatchYields ==
  ASSUME PushTypeOK, IsFiniteSet(Queued), NEW old \in Batch, ~Fresh(old),
         NEW d \in Deliveries \ Batch, Fresh(d)
  PROVE  Cardinality({e \in Batch : ConfigOf[e] = ConfigOf[d] /\ Fresh(e)})
           = MAX_PUSH_PER_CONFIG_PER_DRAIN
<1> DEFINE R == {x \in Deliveries : Retryable(x)}
           c == ConfigOf[d]
           Own == {x \in Fetched : ConfigOf[x] = c}
           Share == Foremost(MAX_PUSH_PER_CONFIG_PER_DRAIN, Own)
<1>1. /\ FETCHED \in Nat /\ MAX_PUSH_PER_CONFIG_PER_DRAIN \in Nat /\ PER_DRAIN \in Nat
      /\ c \in Configs
  BY PushAssumption
<1>2. Batch \subseteq Shares /\ Shares \subseteq Fetched /\ Fetched \subseteq R
  BY DEF Batch, Shares, Fetched, Foremost
<1>3. /\ IsFiniteSet(R) /\ IsFiniteSet(Shares) /\ IsFiniteSet(Own)
      /\ Shares \subseteq Deliveries /\ Own \subseteq Deliveries
  <2>1. R \subseteq Queued
    BY DEF Retryable, Queued
  <2> QED
    BY <1>2, <2>1, FS_Subset
<1>4. \A x \in R : x \in Deliveries /\ delivery[x].attempts \in Nat
  BY DEF PushTypeOK, DeliveryRow
<1>5. \A x \in R : Fresh(x) => Before(x, old)
  BY <1>2, <1>4 DEF Fresh, Before
<1>6. d \in R /\ Before(d, old) /\ old \in Shares /\ old \in Fetched
  BY <1>2, <1>5 DEF Fresh
<1>7. d \notin Shares
  BY <1>1, <1>3, <1>6, ForemostClosed DEF Batch
<1>8. d \in Fetched /\ d \in Own
  BY <1>1, <1>3, <1>6, ForemostClosed DEF Fetched
<1>9. Share \subseteq Shares /\ Share \subseteq Own
  BY <1>1 DEF Shares, Foremost
<1>10. d \notin Share
  BY <1>7, <1>9
<1>11. Cardinality(Share) = MAX_PUSH_PER_CONFIG_PER_DRAIN
  BY <1>1, <1>3, <1>8, <1>10, ForemostMany
<1>12. ASSUME NEW e \in Share
       PROVE  e \in Batch /\ ConfigOf[e] = c /\ Fresh(e)
  <2>1. e \in Own /\ e \in Shares /\ e \in R /\ ConfigOf[e] = c
    BY <1>2, <1>9
  <2>2. ~Before(d, e)
    BY <1>1, <1>3, <1>8, <1>10, ForemostClosed
  <2>3. Before(e, d)
    BY <1>4, <1>6, <1>10, <2>1, <2>2, OrderedDeliveries
  <2>4. Fresh(e)
    BY <1>4, <1>6, <2>1, <2>3 DEF Fresh, Before
  <2>5. Before(e, old)
    BY <1>5, <2>1, <2>4
  <2>6. e \in Batch
    BY <1>1, <1>3, <2>1, <2>5, ForemostClosed DEF Batch
  <2> QED
    BY <2>1, <2>4, <2>6
<1>13. ASSUME NEW e \in Batch, ConfigOf[e] = c
       PROVE  e \in Share
  <2>1. PICK b \in Configs :
           e \in Foremost(MAX_PUSH_PER_CONFIG_PER_DRAIN, {x \in Fetched : ConfigOf[x] = b})
    BY <1>2 DEF Shares
  <2>2. b = c
    BY <1>13, <2>1 DEF Foremost
  <2> QED
    BY <2>1, <2>2
<1>14. {e \in Batch : ConfigOf[e] = c /\ Fresh(e)} = Share
  BY <1>12, <1>13
<1> QED
  BY <1>11, <1>14

LEMMA YieldStep ==
  ASSUME PushTypeOK, IsFiniteSet(Queued), [PushNext]_pushVars, NEW w \in PushDrains, Starts(w),
         NEW old \in Taken(w), ~Fresh(old), NEW d \in Deliveries, Fresh(d), d \notin Taken(w)
  PROVE  Cardinality({e \in Taken(w) : ConfigOf[e] = ConfigOf[d] /\ Fresh(e)})
           = MAX_PUSH_PER_CONFIG_PER_DRAIN
<1>1. StartDrain(w)
  <2>1. drain[w].busy # drain'[w].busy /\ drain'[w].busy
    BY DEF Starts
  <2>2. ~UNCHANGED drain
    BY <2>1
  <2>3. PICK u \in PushDrains : StartDrain(u) \/ SendSome(u) \/ FinishDrain(u)
    BY <2>1, <2>2 DEF PushNext, pushVars, Queue, EvictDrains, NoDrain
  <2>4. ASSUME FinishDrain(u) PROVE FALSE
    BY <2>1, <2>4 DEF FinishDrain, NoDrain, PushTypeOK
  <2>5. ASSUME SendSome(u) PROVE FALSE
    <3>1. PICK h \in drain[u].hand : drain' = [drain EXCEPT ![u].hand = @ \ {h}]
      BY <2>5 DEF SendSome, SendOne
    <3>2. drain'[w].busy = drain[w].busy
      BY <3>1 DEF PushTypeOK
    <3> QED
      BY <2>1, <3>2
  <2>6. StartDrain(u)
    BY <2>3, <2>4, <2>5
  <2>7. u = w
    BY <2>1, <2>6 DEF StartDrain, PushTypeOK
  <2> QED
    BY <2>6, <2>7
<1>2. Taken(w) = Batch
  <2>1. drain'[w].hand = {[id |-> x, attempts |-> delivery[x].attempts] : x \in Batch}
    BY <1>1 DEF StartDrain, PushTypeOK
  <2>2. \A x \in Batch : [id |-> x, attempts |-> delivery[x].attempts].id = x
    OBVIOUS
  <2>3. ASSUME NEW x \in Batch PROVE x \in Taken(w)
    BY <2>1, <2>2, Zenon DEF Taken
  <2>4. ASSUME NEW x \in Taken(w) PROVE x \in Batch
    <3>1. PICK h \in drain'[w].hand : x = h.id
      BY <2>4 DEF Taken
    <3> QED
      BY <2>1, <3>1
  <2> QED
    BY <2>3, <2>4
<1> QED
  BY <1>2, BatchYields

(* A drain sends a retry only when every fresh delivery it leaves belongs  *)
(* to a subscription whose full share of the drain is fresh ones (the      *)
(* selection of dispatchPushDeliveries), whatever the limits.                      *)
THEOREM RetriesYieldCorrect == PushSpec => RetriesYield
<1>1. PInv => PushTypeOK
  BY DEF PInv
<1>2. PushTypeOK /\ IsFiniteSet(Queued) /\ [PushNext]_pushVars => IsFiniteSet(Queued)'
  BY QueuedStep
<1>3. PushTypeOK /\ IsFiniteSet(Queued) /\ [PushNext]_pushVars =>
        [\A w \in PushDrains : Starts(w) /\ (\E d \in Taken(w) : ~Fresh(d)) =>
           \A d \in Deliveries : Fresh(d) /\ d \notin Taken(w) =>
             Cardinality({e \in Taken(w) : ConfigOf[e] = ConfigOf[d] /\ Fresh(e)})
               = MAX_PUSH_PER_CONFIG_PER_DRAIN]_pushVars
  BY YieldStep
<1> QED
  BY <1>1, <1>2, <1>3, PushStarts, PushStep, QueuedStarts, PTL DEF PushSpec, RetriesYield

-----------------------------------------------------------------------------
(* AppliedOnce.  A delivery was acted on exactly when its id is recorded   *)
(* (Counted).  A card that GitHub made references the issue until somebody *)
(* deletes it or rewrites that reference (KnownMade), so while one is      *)
(* there no other is made.                                                 *)

Counted == \A i \in HookIds : applied[i] = IF i \in seenIds THEN 1 ELSE 0

(* Cards made by GitHub that nobody deleted or rewrote.                    *)
Made == {x \in HookCards : cardsOf[x] = "github" /\ x \notin rewritten}

KnownMade == \A c \in Made : reference[c] = "github"

(* What is being verified has come in.                                     *)
Came == \A v \in verifying : sent[v.id] # NoMessage

HookInv ==
  /\ HookTypeOK
  /\ Came
  /\ Counted
  /\ KnownMade
  /\ \A c, d \in Made : c = d

LEMMA HookStarts == HookInit => HookInv
<1> SUFFICES ASSUME HookInit PROVE HookInv
  OBVIOUS
<1>1. HookTypeOK
  <2>1. sent \in [HookIds -> Message \cup {NoMessage}] /\ issueTrigger \in BOOLEAN
    BY Zenon DEF HookInit
  <2> QED
    BY <2>1 DEF HookInit, HookTypeOK
<1>2. Made = {} /\ Came /\ Counted
  BY DEF HookInit, Made, Came, Counted
<1> QED
  BY <1>1, <1>2 DEF HookInv, KnownMade

(* A message says something. *)
LEMMA MessageIs ==
  /\ NoMessage \notin Message
  /\ \A m \in Message : m.provider \in Providers
  /\ Providers = {"github", "forge"}
BY DEF Message, NoMessage, Providers, Actions

(* Requests come in and are refused, secrets and triggers are set. *)
LEMMA RequestStep ==
  ASSUME HookInv,
         \/ \E p \in Providers : SetSecret(p)
         \/ SetIssueTrigger
         \/ \E i \in HookIds, m \in Message, k \in 1 .. MaxCopies : Receive(i, m, k)
         \/ \E v \in verifying : Refuse(v) \/ Deduped(v)
  PROVE  HookInv'
<1>1. /\ UNCHANGED <<seenIds, cardVars, applied>>
      /\ issueTrigger' \in BOOLEAN /\ configured' \subseteq Providers
  BY DEF HookInv, HookTypeOK, SetSecret, SetIssueTrigger, Receive, Refuse, Deduped
<1>2. /\ sent' \in [HookIds -> Message \cup {NoMessage}]
      /\ verifying' \subseteq [copy : 1 .. MaxCopies, id : HookIds, known : BOOLEAN]
      /\ Came'
      /\ \A i \in HookIds : sent[i] # NoMessage => sent'[i] # NoMessage
  <2>1. ASSUME NEW i \in HookIds, NEW m \in Message, NEW k \in 1 .. MaxCopies, Receive(i, m, k)
        PROVE  /\ sent' \in [HookIds -> Message \cup {NoMessage}]
               /\ verifying' \subseteq [copy : 1 .. MaxCopies, id : HookIds, known : BOOLEAN]
               /\ Came'
               /\ \A j \in HookIds : sent[j] # NoMessage => sent'[j] # NoMessage
    <3> DEFINE new == [copy |-> k, id |-> i, known |-> i \in seenIds]
    <3>1. /\ sent' = [sent EXCEPT ![i] = m] /\ verifying' = verifying \cup {new}
          /\ m # NoMessage /\ sent \in [HookIds -> Message \cup {NoMessage}]
      BY <2>1, MessageIs DEF Receive, HookInv, HookTypeOK
    <3>2. new \in [copy : 1 .. MaxCopies, id : HookIds, known : BOOLEAN] /\ new.id = i
      OBVIOUS
    <3> HIDE DEF new
    <3>3. \A v \in verifying : v.id \in HookIds
      BY DEF HookInv, HookTypeOK
    <3> QED
      BY <3>1, <3>2, <3>3 DEF HookInv, HookTypeOK, Came
  <2>2. CASE sent' = sent /\ verifying' \subseteq verifying
    BY <2>2 DEF HookInv, HookTypeOK, Came
  <2> QED
    BY <2>1, <2>2 DEF SetSecret, SetIssueTrigger, Refuse, Deduped
<1>3. HookTypeOK'
  BY <1>1, <1>2 DEF HookInv, HookTypeOK, cardVars
<1> QED
  BY <1>1, <1>2, <1>3 DEF HookInv, Counted, KnownMade, Made, cardVars

(* A delivery that is new is acted on, and makes a card when none is       *)
(* referenced.                                                             *)
LEMMA HandleHookStep ==
  ASSUME HookInv, NEW v \in verifying, Handle(v)
  PROVE  HookInv'
<1> DEFINE m == sent[v.id]
<1>1. /\ v.id \in HookIds /\ m \in Message /\ m.provider \in Providers
      /\ v.id \notin seenIds /\ HookTypeOK
      /\ UNCHANGED <<configured, issueTrigger, sent, rewritten>>
  BY MessageIs DEF HookInv, HookTypeOK, Came, Handle, Seen
<1>2. /\ verifying' \subseteq verifying
      /\ seenIds' = seenIds \cup {v.id}
      /\ applied' = [applied EXCEPT ![v.id] = @ + 1]
  BY DEF Handle
<1>3. \/ UNCHANGED <<cardsOf, reference>>
      \/ \E c \in HookCards : /\ cardsOf[c] = "none"
                              /\ cardsOf' = [cardsOf EXCEPT ![c] = "github"]
                              /\ reference' = [reference EXCEPT ![c] = "github"]
                              /\ ~Referenced
  BY DEF Handle, Triggers, NewHookCard, Unmade
<1>4. enriched' \subseteq enriched \cup {c \in HookCards : reference'[c] \in Providers}
  BY <1>1 DEF Handle
<1>5. /\ cardsOf' \in [HookCards -> {"none", "person", "github", "deleted"}]
      /\ reference' \in [HookCards -> Providers \cup {"none"}]
      /\ enriched' \subseteq {c \in HookCards : reference'[c] # "none"}
  <2>1. /\ cardsOf' \in [HookCards -> {"none", "person", "github", "deleted"}]
        /\ reference' \in [HookCards -> Providers \cup {"none"}]
        /\ \A c \in HookCards : reference[c] # "none" => reference'[c] # "none"
    BY <1>1, <1>3, MessageIs DEF HookTypeOK
  <2>2. ASSUME NEW c \in enriched'
        PROVE  c \in HookCards /\ reference'[c] # "none"
    <3>1. "none" \notin Providers
      BY MessageIs
    <3> QED
      BY <1>1, <1>4, <2>1, <3>1 DEF HookTypeOK
  <2>3. enriched' \subseteq {c \in HookCards : reference'[c] # "none"}
    BY ONLY <2>2
  <2> QED
    BY ONLY <2>1, <2>3
<1>6. HookTypeOK'
  <2>1. sent[v.id] # NoMessage
    BY DEF HookInv, Came
  <2>2. /\ seenIds' \subseteq {i \in HookIds : sent'[i] # NoMessage}
        /\ applied' \in [HookIds -> Nat]
    BY <1>1, <1>2, <2>1 DEF HookTypeOK
  <2>3. /\ verifying' \subseteq [copy : 1 .. MaxCopies, id : HookIds, known : BOOLEAN]
        /\ configured' \subseteq Providers /\ issueTrigger' \in BOOLEAN
        /\ sent' \in [HookIds -> Message \cup {NoMessage}] /\ rewritten' \subseteq HookCards
    BY <1>1, <1>2 DEF HookTypeOK
  <2> QED
    BY ONLY <1>5, <2>2, <2>3 DEF HookTypeOK
<1>7. Came' /\ Counted'
  BY <1>1, <1>2 DEF HookInv, HookTypeOK, Came, Counted
<1>8. KnownMade' /\ \A c, d \in Made' : c = d
  <2>1. CASE UNCHANGED <<cardsOf, reference>>
    BY <1>1, <2>1 DEF HookInv, KnownMade, Made
  <2>2. ASSUME NEW c \in HookCards, cardsOf' = [cardsOf EXCEPT ![c] = "github"],
               reference' = [reference EXCEPT ![c] = "github"], ~Referenced
        PROVE  KnownMade' /\ \A x, y \in Made' : x = y
    <3>1. Made = {}
      BY <2>2 DEF HookInv, KnownMade, Made, Referenced
    <3>2. Made' \subseteq {c}
      BY <1>1, <2>2, <3>1 DEF HookTypeOK, Made
    <3> QED
      BY <1>1, <2>2, <3>2 DEF HookTypeOK, KnownMade
  <2> QED
    BY <1>3, <2>1, <2>2
<1> QED
  BY <1>6, <1>7, <1>8 DEF HookInv

(* What people do to cards and references. *)
LEMMA ByPeopleStep ==
  ASSUME HookInv, NEW c \in HookCards,
         PersonCreates(c) \/ PersonDeletes(c) \/ \E p \in Providers : AddReference(c, p)
  PROVE  HookInv'
<1>1. /\ UNCHANGED <<configured, issueTrigger, sent, verifying, seenIds, applied>>
      /\ HookTypeOK
  BY DEF HookInv, PersonCreates, PersonDeletes, AddReference
<1>2. CASE PersonCreates(c)
  BY <1>1, <1>2 DEF PersonCreates, HookInv, HookTypeOK, Came, Counted, KnownMade, Made
<1>3. CASE PersonDeletes(c)
  <2>1. HookTypeOK'
    BY <1>1, <1>3 DEF PersonDeletes, HookTypeOK
  <2>2. Made' \subseteq Made /\ c \notin Made'
    BY <1>1, <1>3 DEF PersonDeletes, Made, HookTypeOK
  <2>3. KnownMade'
    BY <1>1, <1>3, <2>2 DEF HookInv, KnownMade, PersonDeletes, HookTypeOK, Made
  <2> QED
    BY <1>1, <2>1, <2>2, <2>3 DEF HookInv, Came, Counted
<1>4. CASE \E p \in Providers : AddReference(c, p)
  <2>1. HookTypeOK'
    BY <1>1, <1>4 DEF AddReference, HookTypeOK
  <2>2. Made' \subseteq Made /\ c \notin Made'
    BY <1>1, <1>4 DEF AddReference, Made, HookTypeOK
  <2>3. KnownMade'
    BY <1>1, <1>4, <2>2 DEF HookInv, KnownMade, AddReference, HookTypeOK, Made
  <2> QED
    BY <1>1, <2>1, <2>2, <2>3 DEF HookInv, Came, Counted
<1> QED
  BY <1>2, <1>3, <1>4

LEMMA HookStep == HookInv /\ [HookNext]_hookVars => HookInv'
<1> SUFFICES ASSUME HookInv, [HookNext]_hookVars PROVE HookInv'
  OBVIOUS
<1>1. CASE UNCHANGED hookVars
  BY <1>1 DEF hookVars, HookInv, HookTypeOK, Came, Counted, KnownMade, Made
<1>2. CASE HookNext
  BY <1>2, RequestStep, HandleHookStep, ByPeopleStep DEF HookNext
<1> QED
  BY <1>1, <1>2

(* Every variable of the webhooks keeps its type. *)
THEOREM HookTypeCorrect == HookSpec => []HookTypeOK
<1>1. HookInv => HookTypeOK
  BY DEF HookInv
<1> QED
  BY <1>1, HookStarts, HookStep, PTL DEF HookSpec

(* A delivery is acted on once, however often it is sent, and an issue     *)
(* makes one card (handleGithubWebhook and handleForgeWebhook, triggers.ts).*)
THEOREM AppliedOnceCorrect == HookSpec => []AppliedOnce
<1>1. HookInv => AppliedOnce
  BY DEF HookInv, Counted, Made, AppliedOnce
<1> QED
  BY <1>1, HookStarts, HookStep, PTL DEF HookSpec

-----------------------------------------------------------------------------
(* Informed.  What is on the way has to be of use: a read that was not     *)
(* answered yet, one that failed (the tab will say so) or one that was     *)
(* answered with the board as it still is.  A change makes the answers on  *)
(* the way old, but puts a message on the feed.  The bounds on versions    *)
(* and loads play no part, so the types here are wider than LiveTypeOK.    *)

LoadShape == [board : WebBoards, phase : {"reading", "answered", "failed", "listing"},
              got : Nat, for : {"refresh", "open", "retry"}]

LiveShape ==
  /\ version \in [WebBoards -> Nat]
  /\ onServer \subseteq WebBoards
  /\ boardId \in WebBoards \cup {NoBoard}
  /\ loads \subseteq LoadShape
  /\ deleting \subseteq WebBoards
  /\ feed \in [board : WebBoards \cup {NoBoard}, status : FeedStatus]

OfUse(load) ==
  /\ load.board = boardId
  /\ \/ load.phase \in {"reading", "failed"}
     \/ load.phase = "answered" /\ load.got = version[boardId]

Heard == feed.board = boardId /\ feed.status \in {"opened", "live"}

Aware == boardId \in onServer /\ Heard
         => version[boardId] \in seen \/ inbox \/ failed \/ \E load \in loads : OfUse(load)

LiveInv == LiveShape /\ ShowsOpenBoard /\ Aware

LEMMA LiveStarts == LiveInit => LiveInv
<1> SUFFICES ASSUME LiveInit PROVE LiveInv
  OBVIOUS
<1>1. LiveShape
  <2>1. feed \in [board : WebBoards \cup {NoBoard}, status : FeedStatus]
    BY DEF LiveInit, FeedStatus
  <2> QED
    BY <2>1 DEF LiveInit, LiveShape
<1> QED
  BY <1>1 DEF LiveInit, LiveInv, ShowsOpenBoard, Aware, Heard

(* A load that is started is of use to the board it reads. *)
LEMMA Starting ==
  ASSUME NEW b \in WebBoards, NEW for \in {"refresh", "open", "retry"},
         Start(NewLoad(b, for)), loads \subseteq LoadShape
  PROVE  /\ loads' \subseteq LoadShape
         /\ boardId' = b => \E load \in loads' : OfUse(load)'
<1>1. NewLoad(b, for) \in LoadShape /\ NewLoad(b, for) \in loads'
  BY DEF NewLoad, LoadShape, Start
<1>2. NewLoad(b, for).board = b /\ NewLoad(b, for).phase = "reading"
  BY DEF NewLoad
<1> QED
  BY <1>1, <1>2 DEF Start, OfUse

(* A board is opened, by hand or because the one before was deleted. *)
LEMMA OpenStep ==
  ASSUME LiveInv, NEW b \in WebBoards, OpenBoard(b),
         UNCHANGED <<version, shown, feed, inbox>>, onServer' \subseteq onServer,
         deleting' \subseteq deleting
  PROVE  LiveInv'
<1>1. loads' \subseteq LoadShape /\ \E load \in loads' : OfUse(load)'
  BY Starting DEF LiveInv, LiveShape, OpenBoard
<1>2. LiveShape'
  BY <1>1 DEF LiveInv, LiveShape, OpenBoard
<1>3. ShowsOpenBoard'
  BY DEF LiveInv, ShowsOpenBoard, OpenBoard
<1> QED
  BY <1>1, <1>2, <1>3 DEF LiveInv, Aware

(* The open board is read again. *)
LEMMA RereadStep ==
  ASSUME LiveInv,
         SaveAndRefresh \/ Retry \/ FeedMessage \/ Reconnect
  PROVE  LiveInv'
<1>1. /\ UNCHANGED <<version, onServer, boardId, shown, deleting, seen>>
      /\ feed' \in [board : WebBoards \cup {NoBoard}, status : FeedStatus]
  BY DEF LiveInv, LiveShape, FeedStatus, SaveAndRefresh, Retry, FeedMessage, Reconnect,
         Connect, serverVars, feedVars
<1>2. /\ loads' \subseteq LoadShape
      /\ boardId # NoBoard => \E load \in loads' : OfUse(load)'
  <2>1. CASE boardId = NoBoard
    BY <2>1 DEF LiveInv, LiveShape, SaveAndRefresh, Retry, FeedMessage, Reconnect, Refresh
  <2>2. CASE boardId # NoBoard
    <3>1. boardId \in WebBoards /\ loads \subseteq LoadShape /\ boardId' = boardId
      BY <1>1, <2>2 DEF LiveInv, LiveShape
    <3>2. Start(NewLoad(boardId, "refresh")) \/ Start(NewLoad(boardId, "retry"))
      BY <2>2 DEF SaveAndRefresh, Retry, FeedMessage, Reconnect, Refresh
    <3>3. PICK b \in WebBoards : b = boardId
      BY <3>1
    <3>4. PICK for \in {"refresh", "open", "retry"} : Start(NewLoad(b, for))
      BY <3>2, <3>3
    <3> QED
      BY <3>1, <3>3, <3>4, Starting
  <2> QED
    BY <2>1, <2>2
<1>3. LiveShape'
  BY <1>1, <1>2 DEF LiveInv, LiveShape
<1>4. ShowsOpenBoard'
  BY <1>1 DEF LiveInv, ShowsOpenBoard
<1>5. Aware'
  BY <1>1, <1>2, LiveAssumption DEF LiveInv, LiveShape, Aware
<1> QED
  BY <1>3, <1>4, <1>5 DEF LiveInv

(* A load is answered, and its answer comes in. *)
LEMMA LoadStep ==
  ASSUME LiveInv, NEW load \in loads, Handled(load) \/ Arrived(load)
  PROVE  LiveInv'
<1>1. /\ UNCHANGED <<version, onServer, boardId, deleting, feed, inbox>>
      /\ load \in LoadShape
  BY DEF Handled, Arrived, LiveInv, LiveShape, serverVars, feedVars
<1>2. CASE Handled(load)
  <2>1. PICK new \in LoadShape :
           /\ loads' = (loads \ {load}) \cup {new}
           /\ new.board = load.board
           /\ \/ new.phase = "failed"
              \/ new.phase = "answered" /\ new.got = version[load.board]
    <3>1. CASE loads' = (loads \ {load}) \cup {[load EXCEPT !.phase = "failed"]}
      <4> DEFINE new == [load EXCEPT !.phase = "failed"]
      <4>1. new \in LoadShape /\ new.board = load.board /\ new.phase = "failed"
        BY <1>1 DEF LoadShape
      <4>2. loads' = (loads \ {load}) \cup {new}
        BY <3>1
      <4> HIDE DEF new
      <4> QED
        BY <4>1, <4>2
    <3>2. CASE /\ load.board \in onServer
               /\ loads' = (loads \ {load}) \cup
                    {[load EXCEPT !.phase = "answered", !.got = version[load.board]]}
      <4> DEFINE new == [load EXCEPT !.phase = "answered", !.got = version[load.board]]
      <4>1. load.board \in WebBoards /\ version[load.board] \in Nat
        BY <1>1 DEF LoadShape, LiveInv, LiveShape
      <4>2. /\ new \in LoadShape /\ new.board = load.board
            /\ new.phase = "answered" /\ new.got = version[load.board]
        BY <1>1, <4>1 DEF LoadShape
      <4>3. loads' = (loads \ {load}) \cup {new}
        BY <3>2
      <4> HIDE DEF new
      <4> QED
        BY <4>2, <4>3
    <3> QED
      BY <1>2, <3>1, <3>2 DEF Handled
  <2>2. UNCHANGED <<shown, seen, failed>>
    BY <1>2 DEF Handled
  <2>3. LiveShape' /\ ShowsOpenBoard'
    BY <1>1, <2>1, <2>2 DEF LiveInv, LiveShape, ShowsOpenBoard
  <2>4. ASSUME NEW l \in loads, OfUse(l)
        PROVE  \E k \in loads' : OfUse(k)'
    <3>1. CASE l = load
      BY <1>1, <2>1, <2>4, <3>1 DEF OfUse
    <3>2. CASE l # load
      BY <1>1, <2>1, <2>4, <3>2 DEF OfUse
    <3> QED
      BY <3>1, <3>2
  <2>5. Aware'
    BY <1>1, <2>2, <2>4 DEF LiveInv, Aware, Heard
  <2> QED
    BY <2>3, <2>5 DEF LiveInv
<1>3. CASE Arrived(load)
  <2>1. /\ loads' \subseteq LoadShape
        /\ \A l \in loads : l # load => l \in loads'
    <3> DEFINE next == [load EXCEPT !.phase = "listing", !.got = 0]
    <3>1. next \in LoadShape
      BY <1>1 DEF LoadShape
    <3>2. \/ loads' = (loads \ {load}) \cup {next}
          \/ loads' = (loads \ {load}) \cup {}
      BY <1>3 DEF Arrived, LoadEnds
    <3> HIDE DEF next
    <3> QED
      BY <3>1, <3>2 DEF LiveInv, LiveShape
  <2>2. \/ load.board # boardId /\ UNCHANGED <<shown, seen, failed>>
        \/ failed' /\ UNCHANGED <<shown, seen>>
        \/ /\ load.phase = "answered" /\ load.board = boardId
           /\ shown' = boardId /\ seen' = seen \cup {load.got} /\ failed' = failed
    BY <1>3 DEF Arrived, StillOpen
  <2>3. LiveShape' /\ ShowsOpenBoard'
    BY <1>1, <2>1, <2>2 DEF LiveInv, LiveShape, ShowsOpenBoard
  <2>4. ASSUME NEW l \in loads, OfUse(l)
        PROVE  \/ version'[boardId'] \in seen' \/ failed'
               \/ \E k \in loads' : OfUse(k)'
    <3>1. CASE l = load
      BY <1>1, <1>3, <2>2, <2>4, <3>1 DEF OfUse, Arrived
    <3>2. CASE l # load
      BY <1>1, <2>1, <2>4, <3>2 DEF OfUse
    <3> QED
      BY <3>1, <3>2
  <2>5. failed \/ version[boardId] \in seen => failed' \/ version[boardId] \in seen'
    BY <2>2
  <2>6. Aware'
    BY <1>1, <2>4, <2>5 DEF LiveInv, Aware, Heard
  <2> QED
    BY <2>3, <2>6 DEF LiveInv
<1> QED
  BY <1>2, <1>3

(* The feed is connected, opens, closes, stalls or falls silent: its       *)
(* server greets whoever connects.                                         *)
LEMMA FeedStep ==
  ASSUME LiveInv,
         \/ \E load \in loads : LoadConnects(load)
         \/ FeedOpens \/ FeedCloses \/ FeedGoesDead \/ FeedStalls
  PROVE  LiveInv'
<1>1. /\ UNCHANGED <<version, onServer, boardId, shown, deleting, seen, failed>>
      /\ loads' \subseteq loads
  BY DEF LoadConnects, FeedOpens, FeedCloses, FeedGoesDead, FeedStalls, serverVars
<1>2. ASSUME NEW l \in loads, OfUse(l)
      PROVE  l \in loads'
  BY <1>2 DEF OfUse, LoadConnects, FeedOpens, FeedCloses, FeedGoesDead, FeedStalls
<1>3. \/ UNCHANGED <<feed, inbox>>
      \/ inbox' /\ feed' = [feed EXCEPT !.status = "opened"]
      \/ /\ \/ \E b \in WebBoards \cup {NoBoard} :
                 feed' = [board |-> b, status |-> "connecting"]
            \/ \E s \in {"closed", "silent", "mute"} : feed' = [feed EXCEPT !.status = s]
  <2>1. CASE \E load \in loads : LoadConnects(load)
    BY <2>1 DEF LoadConnects, Connect, LiveInv, LiveShape, LoadShape
  <2>2. CASE FeedOpens \/ FeedCloses
    BY <2>2 DEF FeedOpens, FeedCloses, Greeting
  <2>3. CASE FeedGoesDead
    BY <2>3 DEF FeedGoesDead
  <2>4. CASE FeedStalls
    BY <2>4 DEF FeedStalls, Connect, LiveInv, LiveShape
  <2> QED
    BY <2>1, <2>2, <2>3, <2>4
<1>4. /\ feed' \in [board : WebBoards \cup {NoBoard}, status : FeedStatus]
      /\ Heard' => UNCHANGED <<feed, inbox>> \/ inbox'
  BY <1>3 DEF LiveInv, LiveShape, FeedStatus, Heard
<1>5. LiveShape' /\ ShowsOpenBoard'
  BY <1>1, <1>4 DEF LiveInv, LiveShape, ShowsOpenBoard
<1>6. Aware'
  BY <1>1, <1>2, <1>4 DEF LiveInv, Aware, Heard, OfUse
<1> QED
  BY <1>5, <1>6 DEF LiveInv

(* A board changes or is deleted at the server. *)
LEMMA ServerStep ==
  ASSUME LiveInv, NEW b \in WebBoards, ServerChange(b) \/ DeleteBoard(b)
  PROVE  LiveInv'
<1>1. /\ UNCHANGED <<boardId, shown, loads, feed, seen, failed>>
      /\ onServer' \subseteq onServer /\ version' \in [WebBoards -> Nat]
      /\ deleting' \subseteq WebBoards
  BY DEF LiveInv, LiveShape, ServerChange, DeleteBoard, feedVars
<1>2. LiveShape' /\ ShowsOpenBoard'
  BY <1>1 DEF LiveInv, LiveShape, ShowsOpenBoard
<1>3. Aware'
  <2>1. CASE b = boardId /\ ServerChange(b)
    BY <1>1, <2>1 DEF ServerChange, Aware, Heard
  <2>2. CASE /\ boardId \in WebBoards => version'[boardId] = version[boardId]
             /\ inbox => inbox'
    BY <1>1, <2>2 DEF LiveInv, LiveShape, Aware, Heard, OfUse
  <2>3. CASE DeleteBoard(b)
    BY <2>2, <2>3 DEF DeleteBoard, feedVars
  <2>4. CASE b # boardId /\ ServerChange(b)
    <3>1. boardId \in WebBoards => version'[boardId] = version[boardId]
      BY <2>4 DEF ServerChange, LiveInv, LiveShape
    <3>2. inbox => inbox'
      BY <2>4 DEF ServerChange
    <3> QED
      BY <2>2, <3>1, <3>2
  <2> QED
    BY <2>1, <2>3, <2>4
<1> QED
  BY <1>2, <1>3 DEF LiveInv

(* The tab hears that a board was deleted. *)
LEMMA DeletedStep ==
  ASSUME LiveInv, NEW b \in WebBoards, BoardDeleted(b)
  PROVE  LiveInv'
<1>1. UNCHANGED <<version, onServer>> /\ deleting' \subseteq deleting
  BY DEF BoardDeleted, serverVars
<1>2. CASE UNCHANGED <<boardId, shown, loads, feedVars, seen, failed>>
  BY <1>1, <1>2 DEF LiveInv, LiveShape, ShowsOpenBoard, Aware, Heard, OfUse, feedVars
<1>3. CASE (\E next \in onServer \cup {b} : OpenBoard(next)) /\ UNCHANGED <<shown, feed, inbox>>
  <2>1. PICK next \in WebBoards : OpenBoard(next)
    BY <1>3 DEF LiveInv, LiveShape
  <2> QED
    BY <1>1, <1>3, <2>1, OpenStep
<1>4. CASE /\ boardId' = NoBoard /\ seen' = {} /\ UNCHANGED loads
           /\ feed' = [feed EXCEPT !.status = IF @ = "none" THEN @ ELSE "closed"]
  <2>1. feed' \in [board : WebBoards \cup {NoBoard}, status : FeedStatus]
    BY <1>4 DEF LiveInv, LiveShape, FeedStatus
  <2>2. LiveShape' /\ ShowsOpenBoard'
    BY <1>1, <1>4, <2>1 DEF LiveInv, LiveShape, ShowsOpenBoard
  <2> QED
    BY <1>1, <1>4, <2>2, LiveAssumption DEF LiveInv, LiveShape, Aware
<1> QED
  BY <1>2, <1>3, <1>4 DEF BoardDeleted

LEMMA LiveStep == LiveInv /\ [LiveNext]_liveVars => LiveInv'
<1> SUFFICES ASSUME LiveInv, [LiveNext]_liveVars PROVE LiveInv'
  OBVIOUS
<1>1. CASE UNCHANGED liveVars
  BY <1>1 DEF liveVars, LiveInv, LiveShape, ShowsOpenBoard, Aware, Heard, OfUse
<1>2. ASSUME NEW b \in WebBoards, ChooseBoard(b) PROVE LiveInv'
  BY <1>2, OpenStep DEF ChooseBoard, serverVars
<1> QED
  BY <1>1, <1>2, RereadStep, LoadStep, FeedStep, ServerStep, DeletedStep DEF LiveNext

(* Once the open board was read, the screen shows that board, in whatever  *)
(* order answers come in (the checks of boardId after each await in        *)
(* app.svelte.ts), for any number of boards and loads.                     *)
THEOREM ShownCorrect == LiveSpec => []ShowsOpenBoard
<1>1. LiveInv => ShowsOpenBoard
  BY DEF LiveInv
<1> QED
  BY <1>1, LiveStarts, LiveStep, PTL DEF LiveSpec

(* No change of the open board is missed while its feed carries anything   *)
(* (the feed's messages and refresh in app.svelte.ts).                     *)
THEOREM InformedCorrect == LiveSpec => []Informed
<1>1. LiveInv => Informed
  BY DEF LiveInv, Aware, Heard, OfUse, Informed, OnTheWay
<1> QED
  BY <1>1, LiveStarts, LiveStep, PTL DEF LiveSpec

-----------------------------------------------------------------------------
(* LiveTypeOK, which also bounds the loads under way: they are finitely    *)
(* many, and whatever replaces one of them is one.                         *)

LiveTypeInv == LiveTypeOK /\ IsFiniteSet(loads)

LoadsOK == loads \subseteq Load /\ IsFiniteSet(loads) /\ Cardinality(loads) <= MaxLoads

LEMMA LiveBounds == MaxVersion \in Nat /\ MaxLoads \in Nat /\ NoBoard \notin WebBoards
BY LiveAssumption

LEMMA LiveTypeStarts == LiveInit => LiveTypeInv
<1> SUFFICES ASSUME LiveInit PROVE LiveTypeInv
  OBVIOUS
<1>1. feed \in [board : WebBoards \cup {NoBoard}, status : FeedStatus]
  BY DEF LiveInit, FeedStatus
<1>2. inbox \in BOOLEAN /\ connected \in BOOLEAN /\ failed \in BOOLEAN
  BY Zenon DEF LiveInit
<1>3. LoadsOK
  BY FS_EmptySet, LiveBounds DEF LiveInit, LoadsOK
<1>4. version \in [WebBoards -> 0 .. MaxVersion]
  BY LiveBounds DEF LiveInit
<1> QED
  BY <1>1, <1>2, <1>3, <1>4 DEF LiveInit, LiveTypeInv, LiveTypeOK, LoadsOK

(* A load is started, goes on as another one, or ends. *)
LEMMA LoadStarts ==
  ASSUME LiveTypeInv, NEW b \in WebBoards, NEW for \in {"refresh", "open", "retry"},
         Start(NewLoad(b, for))
  PROVE  LoadsOK'
<1>1. NewLoad(b, for) \in Load
  BY LiveBounds DEF NewLoad, Load
<1>2. PICK L : L = loads
  OBVIOUS
<1> PICK new \in Load : new = NewLoad(b, for)
  BY <1>1
<1>3. IsFiniteSet(L \cup {new})
  BY <1>2, FS_AddElement DEF LiveTypeInv
<1> QED
  BY <1>2, <1>3 DEF LiveTypeInv, LiveTypeOK, LoadsOK, Start

LEMMA LoadGoes ==
  ASSUME LiveTypeInv, NEW load \in loads, NEW new \in Load,
         \/ loads' = (loads \ {load}) \cup {new}
         \/ loads' = loads \ {load}
         \/ loads' = (loads \ {load}) \cup {}
         \/ loads' = loads
  PROVE  LoadsOK'
<1>1. PICK L : L = loads
  OBVIOUS
<1>2. /\ IsFiniteSet(L) /\ L \subseteq Load /\ Cardinality(L) <= MaxLoads
      /\ MaxLoads \in Nat /\ load \in L
  BY <1>1, LiveBounds DEF LiveTypeInv, LiveTypeOK
<1>3. Cardinality(L) \in Nat
  BY <1>2, FS_CardinalityType
<1>4. IsFiniteSet(L \ {load}) /\ Cardinality(L \ {load}) = Cardinality(L) - 1
  BY <1>2, FS_RemoveElement
<1>5. PICK M : M = L \ {load}
  OBVIOUS
<1>6. /\ IsFiniteSet(M \cup {new})
      /\ Cardinality(M \cup {new}) \in {Cardinality(M), Cardinality(M) + 1}
  BY <1>4, <1>5, FS_AddElement
<1>7. loads' \in {L, M, M \cup {new}}
  BY <1>1, <1>5
<1>8. \A S \in {L, M, M \cup {new}} :
        IsFiniteSet(S) /\ S \subseteq Load /\ Cardinality(S) <= MaxLoads
  <2>1. Cardinality(M) \in Nat /\ Cardinality(M) + 1 = Cardinality(L) /\ M \subseteq L
    BY <1>3, <1>4, <1>5, FS_CardinalityType
  <2>2. IsFiniteSet(M) /\ M \subseteq Load /\ Cardinality(M) <= MaxLoads
    BY <1>2, <1>3, <1>4, <1>5, <2>1
  <2>3. M \cup {new} \subseteq Load /\ Cardinality(M \cup {new}) <= MaxLoads
    BY <1>2, <1>3, <1>6, <2>1
  <2> QED
    BY <1>2, <1>6, <2>2, <2>3
<1> QED
  BY <1>7, <1>8 DEF LoadsOK

(* A step that keeps the versions and what the server deleted. *)
Kept == /\ UNCHANGED <<version, onServer, deleted>>
        /\ deleting' \subseteq deleting
        /\ boardId' \in WebBoards \cup {NoBoard} /\ shown' \in WebBoards \cup {NoBoard}
        /\ feed' \in [board : WebBoards \cup {NoBoard}, status : FeedStatus]
        /\ inbox' \in BOOLEAN /\ connected' \in BOOLEAN /\ failed' \in BOOLEAN
        /\ seen' \subseteq 0 .. MaxVersion
        /\ inbox' => feed'.status \in {"opened", "live"}

LEMMA KeptType ==
  ASSUME LiveTypeInv, Kept, LoadsOK'
  PROVE  LiveTypeInv'
BY DEF LiveTypeInv, LiveTypeOK, Kept, LoadsOK

LEMMA OpenType ==
  ASSUME LiveTypeInv, NEW b \in WebBoards, OpenBoard(b),
         UNCHANGED <<serverVars, shown, feed, inbox>>, deleting' \subseteq deleting
  PROVE  LiveTypeInv'
<1>1. LoadsOK'
  BY LoadStarts DEF OpenBoard
<1>2. connected' \in BOOLEAN /\ failed' \in BOOLEAN
  BY Zenon DEF OpenBoard, LiveTypeInv, LiveTypeOK
<1>3. Kept
  BY <1>2 DEF OpenBoard, LiveTypeInv, LiveTypeOK, Kept, serverVars
<1> QED
  BY <1>1, <1>3, KeptType

LEMMA AgainType ==
  ASSUME LiveTypeInv, SaveAndRefresh \/ Retry \/ FeedMessage \/ Reconnect
  PROVE  LiveTypeInv'
<1>1. LoadsOK'
  <2>1. CASE loads' = loads
    BY <2>1 DEF LiveTypeInv, LiveTypeOK, LoadsOK
  <2>2. CASE loads' # loads
    <3>1. boardId \in WebBoards
      BY <2>2 DEF LiveTypeInv, LiveTypeOK, SaveAndRefresh, Retry, FeedMessage, Reconnect, Refresh
    <3>2. Start(NewLoad(boardId, "refresh")) \/ Start(NewLoad(boardId, "retry"))
      BY <2>2 DEF SaveAndRefresh, Retry, FeedMessage, Reconnect, Refresh
    <3>3. PICK b \in WebBoards, for \in {"refresh", "open", "retry"} : Start(NewLoad(b, for))
      BY <3>1, <3>2
    <3> QED
      BY <3>3, LoadStarts
  <2> QED
    BY <2>1, <2>2
<1>2. feed' \in [board : WebBoards \cup {NoBoard}, status : FeedStatus]
  BY DEF LiveTypeInv, LiveTypeOK, FeedStatus, SaveAndRefresh, Retry, FeedMessage, Reconnect,
         Connect, feedVars
<1>3. inbox' \in BOOLEAN /\ failed' \in BOOLEAN
  BY Zenon DEF LiveTypeInv, LiveTypeOK, SaveAndRefresh, Retry, FeedMessage, Reconnect,
               Connect, feedVars
<1>4. inbox' => feed'.status \in {"opened", "live"}
  BY DEF LiveTypeInv, LiveTypeOK, SaveAndRefresh, Retry, FeedMessage, Reconnect,
         Connect, feedVars
<1>5. Kept
  BY <1>2, <1>3, <1>4
     DEF LiveTypeInv, LiveTypeOK, SaveAndRefresh, Retry, FeedMessage, Reconnect, Kept,
         serverVars, feedVars
<1> QED
  BY <1>1, <1>5, KeptType

LEMMA LoadType ==
  ASSUME LiveTypeInv, NEW load \in loads, Handled(load) \/ Arrived(load) \/ LoadConnects(load)
  PROVE  LiveTypeInv'
<1>1. load \in Load /\ MaxVersion \in Nat
  BY LiveBounds DEF LiveTypeInv, LiveTypeOK
<1>2. load.board \in WebBoards /\ load.got \in 0 .. MaxVersion
  BY <1>1 DEF Load
<1>3. LoadsOK'
  <2>1. CASE loads' = (loads \ {load}) \cup {[load EXCEPT !.phase = "failed"]}
    <3>1. [load EXCEPT !.phase = "failed"] \in Load
      BY <1>1 DEF Load
    <3> QED
      BY <2>1, <3>1, LoadGoes
  <2>2. CASE loads' = (loads \ {load}) \cup
               {[load EXCEPT !.phase = "answered", !.got = version[load.board]]}
    <3>1. version[load.board] \in 0 .. MaxVersion
      BY <1>2 DEF LiveTypeInv, LiveTypeOK
    <3>2. [load EXCEPT !.phase = "answered", !.got = version[load.board]] \in Load
      BY <1>1, <3>1 DEF Load
    <3> QED
      BY <2>2, <3>2, LoadGoes
  <2>3. CASE LoadEnds(load)
    <3>1. [load EXCEPT !.phase = "listing", !.got = 0] \in Load
      <4>1. 0 \in 0 .. MaxVersion
        BY <1>1
      <4> QED
        BY <1>1, <4>1 DEF Load
    <3> QED
      BY <1>1, <2>3, <3>1, LoadGoes DEF LoadEnds
  <2>4. CASE loads' = loads \ {load}
    BY <1>1, <2>4, LoadGoes
  <2> QED
    BY <2>1, <2>2, <2>3, <2>4 DEF Handled, Arrived, LoadConnects
<1>4. CASE Handled(load)
  <2>1. Kept
    BY <1>4 DEF Handled, LiveTypeInv, LiveTypeOK, Kept, serverVars, feedVars
  <2> QED
    BY <1>3, <2>1, KeptType
<1>5. CASE Arrived(load)
  <2>1. failed' \in BOOLEAN
    BY <1>5, Zenon DEF Arrived, LiveTypeInv, LiveTypeOK
  <2>2. shown' \in WebBoards \cup {NoBoard} /\ seen' \subseteq 0 .. MaxVersion
    BY <1>2, <1>5 DEF Arrived, LiveTypeInv, LiveTypeOK
  <2>3. Kept
    BY <1>5, <2>1, <2>2 DEF Arrived, LiveTypeInv, LiveTypeOK, Kept, serverVars, feedVars
  <2> QED
    BY <1>3, <2>3, KeptType
<1>6. CASE LoadConnects(load)
  <2>1. \/ UNCHANGED <<feed, inbox>>
        \/ \E b \in WebBoards : Connect(b)
    BY <1>2, <1>6 DEF LoadConnects, LiveTypeInv, LiveTypeOK
  <2>2. /\ feed' \in [board : WebBoards \cup {NoBoard}, status : FeedStatus]
        /\ inbox' => feed'.status \in {"opened", "live"}
    BY <2>1 DEF Connect, FeedStatus, LiveTypeInv, LiveTypeOK
  <2>3. inbox' \in BOOLEAN
    BY <2>1, Zenon DEF Connect, LiveTypeInv, LiveTypeOK
  <2>4. Kept
    BY <1>6, <2>2, <2>3 DEF LoadConnects, LiveTypeInv, LiveTypeOK, Kept, serverVars
  <2> QED
    BY <1>3, <2>4, KeptType
<1> QED
  BY <1>4, <1>5, <1>6

LEMMA FeedType ==
  ASSUME LiveTypeInv, FeedOpens \/ FeedCloses \/ FeedGoesDead \/ FeedStalls
  PROVE  LiveTypeInv'
<1>1. UNCHANGED <<serverVars, boardId, shown, loads, deleting, seen, failed>>
  BY DEF FeedOpens, FeedCloses, FeedGoesDead, FeedStalls
<1>2. feed' \in [board : WebBoards \cup {NoBoard}, status : FeedStatus]
  BY DEF LiveTypeInv, LiveTypeOK, FeedStatus, FeedOpens, FeedCloses, FeedGoesDead, FeedStalls,
         Connect
<1>3. inbox' \in BOOLEAN /\ connected' \in BOOLEAN
  BY Zenon DEF LiveTypeInv, LiveTypeOK, FeedOpens, FeedCloses, FeedGoesDead, FeedStalls,
               Connect, Greeting
<1>4. inbox' => feed'.status \in {"opened", "live"}
  BY DEF LiveTypeInv, LiveTypeOK, FeedOpens, FeedCloses, FeedGoesDead, FeedStalls, Connect
<1>5. Kept /\ LoadsOK'
  BY <1>1, <1>2, <1>3, <1>4 DEF LiveTypeInv, LiveTypeOK, Kept, LoadsOK, serverVars
<1> QED
  BY <1>5, KeptType

LEMMA BoardsType ==
  ASSUME LiveTypeInv, NEW b \in WebBoards, ServerChange(b) \/ DeleteBoard(b) \/ BoardDeleted(b)
  PROVE  LiveTypeInv'
<1>1. CASE ServerChange(b)
  <2>1. version' \in [WebBoards -> 0 .. MaxVersion]
    BY <1>1, LiveBounds DEF ServerChange, LiveTypeInv, LiveTypeOK
  <2>2. inbox' \in BOOLEAN /\ (inbox' => feed'.status \in {"opened", "live"})
    BY <1>1 DEF ServerChange, LiveTypeInv, LiveTypeOK
  <2> QED
    BY <1>1, <2>1, <2>2 DEF ServerChange, LiveTypeInv, LiveTypeOK
<1>2. CASE DeleteBoard(b)
  BY <1>2 DEF DeleteBoard, LiveTypeInv, LiveTypeOK, feedVars
<1>3. CASE BoardDeleted(b)
  <2>1. UNCHANGED serverVars /\ deleting' \subseteq deleting
    BY <1>3 DEF BoardDeleted
  <2>2. CASE UNCHANGED <<boardId, shown, loads, feedVars, seen, failed>>
    BY <2>1, <2>2 DEF LiveTypeInv, LiveTypeOK, serverVars, feedVars
  <2>3. CASE (\E next \in onServer \cup {b} : OpenBoard(next)) /\ UNCHANGED <<shown, feed, inbox>>
    <3>1. PICK next \in WebBoards : OpenBoard(next)
      BY <2>3 DEF LiveTypeInv, LiveTypeOK
    <3> QED
      BY <2>1, <2>3, <3>1, OpenType
  <2>4. CASE /\ boardId' = NoBoard /\ shown' = NoBoard /\ seen' = {} /\ failed' = FALSE
             /\ feed' = [feed EXCEPT !.status = IF @ = "none" THEN @ ELSE "closed"]
             /\ inbox' = FALSE /\ connected' = FALSE /\ UNCHANGED loads
    <3>1. feed' \in [board : WebBoards \cup {NoBoard}, status : FeedStatus]
      BY <2>4 DEF LiveTypeInv, LiveTypeOK, FeedStatus
    <3>2. inbox' \in BOOLEAN /\ connected' \in BOOLEAN /\ failed' \in BOOLEAN
      BY <2>4, Zenon
    <3>3. Kept /\ LoadsOK'
      BY <2>1, <2>4, <3>1, <3>2 DEF LiveTypeInv, LiveTypeOK, LoadsOK, Kept, serverVars
    <3> QED
      BY <3>3, KeptType
  <2> QED
    BY <1>3, <2>2, <2>3, <2>4 DEF BoardDeleted
<1> QED
  BY <1>1, <1>2, <1>3

LEMMA LiveTypeStep == LiveTypeInv /\ [LiveNext]_liveVars => LiveTypeInv'
<1> SUFFICES ASSUME LiveTypeInv, [LiveNext]_liveVars PROVE LiveTypeInv'
  OBVIOUS
<1>1. CASE UNCHANGED liveVars
  BY <1>1 DEF liveVars, LiveTypeInv, LiveTypeOK
<1>2. ASSUME NEW b \in WebBoards, ChooseBoard(b) PROVE LiveTypeInv'
  BY <1>2, OpenType DEF ChooseBoard
<1> QED
  BY <1>1, <1>2, AgainType, LoadType, FeedType, BoardsType DEF LiveNext

(* What the tab keeps stays well formed, and its loads within their bound. *)
THEOREM LiveTypeCorrect == LiveSpec => []LiveTypeOK
<1>1. LiveTypeInv => LiveTypeOK
  BY DEF LiveTypeInv
<1> QED
  BY <1>1, LiveTypeStarts, LiveTypeStep, PTL DEF LiveSpec

=============================================================================
