-------------------------- MODULE BoardOrderProofs --------------------------
(***************************************************************************)
(* Proofs about the order of work on a Board, for every number of cards    *)
(* and every pipeline: the ordering links stay acyclic with one parent per *)
(* card (LinksOrdered), links of one kind hold no cards for ever, a        *)
(* deferred advance always has a child to wait for (DeferredHeld), and a   *)
(* parent completes after its children (ParentAfterChildren).              *)
(*                                                                         *)
(* The first part is about graphs: an edge whose source cannot be reached  *)
(* from its target closes no cycle, and without a cycle one comes to an    *)
(* end.  The second is about the cascade: Replayed is the least fixed      *)
(* point of Replayable, from which it follows both that nobody is          *)
(* forgotten and that nobody is replayed too early.  The last is about the *)
(* walk by which the code answers what WouldCycle says (SearchRight).      *)
(***************************************************************************)
EXTENDS BoardProofs, Search

-----------------------------------------------------------------------------
(* Graphs.  N is the set of nodes, E the set of edges.                     *)

ReachedFrom(N, E, x) == {y \in N : Reaches(N, E, x, y)}

(* What is reached from x holds x and loses nobody along an edge. *)
LEMMA ReachedClosed ==
  ASSUME NEW N, NEW E \in SUBSET (N \X N), NEW x \in N
  PROVE  x \in ReachedFrom(N, E, x) /\ ClosedUnder(E, ReachedFrom(N, E, x))
<1>1. x \in ReachedFrom(N, E, x)
  BY DEF ReachedFrom, Reaches
<1>2. ASSUME NEW e \in E, e[1] \in ReachedFrom(N, E, x)
      PROVE  e[2] \in ReachedFrom(N, E, x)
  <2>1. e[2] \in N
    OBVIOUS
  <2>2. ASSUME NEW S \in SUBSET N, x \in S, ClosedUnder(E, S)
        PROVE  e[2] \in S
    BY <1>2, <2>2 DEF ReachedFrom, Reaches, ClosedUnder
  <2> QED
    BY <2>1, <2>2 DEF ReachedFrom, Reaches
<1> QED
  BY <1>1, <1>2 DEF ClosedUnder

(* A closed set that holds x and not y separates them. *)
LEMMA Separated ==
  ASSUME NEW N, NEW E, NEW x, NEW y, NEW S \in SUBSET N,
         x \in S, ClosedUnder(E, S), y \notin S
  PROVE  ~Reaches(N, E, x, y)
BY DEF Reaches

(* Fewer edges, fewer cycles. *)
LEMMA FewerEdges ==
  ASSUME NEW N, NEW E, NEW D \in SUBSET E, Acyclic(N, E)
  PROVE  Acyclic(N, D)
<1>1. \A S : ClosedUnder(E, S) => ClosedUnder(D, S)
  BY DEF ClosedUnder
<1>2. \A x, y : Reaches(N, D, x, y) => Reaches(N, E, x, y)
  BY <1>1 DEF Reaches
<1> QED
  BY <1>2 DEF Acyclic

(* The rule of wouldCycle is right: an edge from a to b closes no cycle    *)
(* when a is not reached from b.                                           *)
LEMMA OneMoreEdge ==
  ASSUME NEW N, NEW E \in SUBSET (N \X N), NEW a \in N, NEW b \in N,
         Acyclic(N, E), ~Reaches(N, E, b, a)
  PROVE  Acyclic(N, E \cup {<<a, b>>})
<1> DEFINE D == E \cup {<<a, b>>}
           B == ReachedFrom(N, E, b)
<1>1. /\ B \in SUBSET N /\ b \in B /\ a \notin B
      /\ ClosedUnder(E, B)
  BY ReachedClosed DEF ReachedFrom
<1>2. ClosedUnder(D, B)
  BY <1>1 DEF ClosedUnder
<1>3. ~Reaches(N, D, b, a)
  BY <1>1, <1>2, Separated
<1>4. ASSUME NEW e \in E
      PROVE  ~Reaches(N, D, e[2], e[1])
  <2> DEFINE V == ReachedFrom(N, E, e[2])
  <2>1. e[1] \in N /\ e[2] \in N /\ ~Reaches(N, E, e[2], e[1])
    BY DEF Acyclic
  <2>2. /\ V \in SUBSET N /\ e[2] \in V /\ e[1] \notin V
        /\ ClosedUnder(E, V)
    BY <2>1, ReachedClosed DEF ReachedFrom
  <2>3. CASE a \notin V
    <3>1. ClosedUnder(D, V)
      BY <2>2, <2>3 DEF ClosedUnder
    <3> QED
      BY <2>2, <3>1, Separated
  <2>4. CASE a \in V
    <3>1. /\ ClosedUnder(D, V \cup B)
          /\ V \cup B \in SUBSET N /\ e[2] \in V \cup B
      BY <1>1, <2>2 DEF ClosedUnder
    <3>2. e[1] \notin B
      <4>1. SUFFICES ASSUME e[1] \in B PROVE FALSE
        OBVIOUS
      <4>2. e[2] \in B
        BY <1>1, <4>1 DEF ClosedUnder
      <4>3. Reaches(N, E, e[2], a)
        BY <2>4 DEF ReachedFrom
      <4>4. a \in B
        BY <1>1, <4>2, <4>3 DEF Reaches
      <4> QED
        BY <1>1, <4>4
    <3> QED
      BY <2>2, <3>1, <3>2, Separated
  <2> QED
    BY <2>3, <2>4
<1>5. <<a, b>>[1] = a /\ <<a, b>>[2] = b
  OBVIOUS
<1> QED
  BY <1>3, <1>4, <1>5 DEF Acyclic

(* Along finitely many edges without a cycle one comes to an end: of any   *)
(* nodes some one has no edge into them, and some one has none from them.  *)
(* What is reached from a node shrinks along an edge.                      *)
LEMMA ComesToAnEnd ==
  ASSUME NEW N, IsFiniteSet(N), NEW E \in SUBSET (N \X N), Acyclic(N, E),
         NEW S \in SUBSET N, S # {}
  PROVE  /\ \E x \in S : \A y \in S : <<x, y>> \notin E
         /\ \E x \in S : \A y \in S : <<y, x>> \notin E
<1> DEFINE From(x) == ReachedFrom(N, E, x)
           Rest(x) == N \ From(x)
           Below == StrictSubsetOrdering(N)
<1>1. IsWellFoundedOn(Below, SUBSET N)
  BY FS_StrictSubsetOrderingWellFounded, FS_FiniteSubsetsOfFinite, Zenon
<1>2. ASSUME NEW x \in N, NEW y \in N, <<x, y>> \in E
      PROVE  <<From(y), From(x)>> \in Below /\ <<Rest(x), Rest(y)>> \in Below
  <2>1. /\ From(x) \in SUBSET N /\ x \in From(x) /\ ClosedUnder(E, From(x))
        /\ From(y) \in SUBSET N
    BY ReachedClosed DEF ReachedFrom
  <2>2. y \in From(x)
    BY <1>2, <2>1 DEF ClosedUnder
  <2>3. From(y) \subseteq From(x)
    BY <2>1, <2>2 DEF ReachedFrom, Reaches
  <2>4. x \notin From(y)
    BY <1>2 DEF Acyclic, ReachedFrom
  <2> HIDE DEF From
  <2>5. /\ Rest(x) \in SUBSET N /\ Rest(y) \in SUBSET N
        /\ Rest(x) \subseteq Rest(y) /\ Rest(x) # Rest(y)
    BY <2>1, <2>3, <2>4
  <2> QED
    BY <2>1, <2>3, <2>4, <2>5 DEF StrictSubsetOrdering
<1>3. \E x \in S : \A y \in S : <<x, y>> \notin E
  <2> DEFINE T == {From(x) : x \in S}
  <2>1. T \subseteq SUBSET N /\ T # {}
    BY DEF ReachedFrom
  <2>2. \E t \in T : \A u \in T : ~(<<u, t>> \in Below)
    <3> HIDE DEF T, Below
    <3> QED
      BY <1>1, <2>1, WFMin
  <2>3. PICK x \in S : \A u \in T : ~(<<u, From(x)>> \in Below)
    BY <2>2
  <2>4. \A y \in S : ~(<<From(y), From(x)>> \in Below)
    BY <2>3
  <2> HIDE DEF From, Below, T
  <2> QED
    BY <1>2, <2>4
<1>4. \E x \in S : \A y \in S : <<y, x>> \notin E
  <2> DEFINE T == {Rest(x) : x \in S}
  <2>1. T \subseteq SUBSET N /\ T # {}
    OBVIOUS
  <2>2. \E t \in T : \A u \in T : ~(<<u, t>> \in Below)
    <3> HIDE DEF T, Below
    <3> QED
      BY <1>1, <2>1, WFMin
  <2>3. PICK x \in S : \A u \in T : ~(<<u, Rest(x)>> \in Below)
    BY <2>2
  <2>4. \A y \in S : ~(<<Rest(y), Rest(x)>> \in Below)
    BY <2>3
  <2> HIDE DEF Rest, From, Below, T
  <2> QED
    BY <1>2, <2>4
<1> QED
  BY <1>3, <1>4

(* Edges from one node to nodes that had none close no cycle. *)
LEMMA FreshTargets ==
  ASSUME NEW N, NEW E \in SUBSET (N \X N), NEW p \in N, NEW K \in SUBSET N,
         p \notin K, \A e \in E : e[1] \notin K /\ e[2] \notin K,
         Acyclic(N, E)
  PROVE  Acyclic(N, E \cup {<<p, k>> : k \in K})
<1> DEFINE D == E \cup {<<p, k>> : k \in K}
<1>1. ASSUME NEW k \in K
      PROVE  ~Reaches(N, D, k, p)
  <2>1. ClosedUnder(D, {k})
    BY DEF ClosedUnder
  <2> QED
    BY <2>1, Separated
<1>2. ASSUME NEW e \in E
      PROVE  ~Reaches(N, D, e[2], e[1])
  <2> DEFINE V == ReachedFrom(N, E, e[2])
  <2>1. e[1] \in N /\ e[2] \in N /\ ~Reaches(N, E, e[2], e[1])
    BY DEF Acyclic
  <2>2. /\ V \in SUBSET N /\ e[2] \in V /\ e[1] \notin V
        /\ ClosedUnder(E, V)
    BY <2>1, ReachedClosed DEF ReachedFrom
  <2>3. /\ V \cup K \in SUBSET N /\ e[2] \in V \cup K /\ e[1] \notin V \cup K
        /\ ClosedUnder(D, V \cup K)
    BY <2>2 DEF ClosedUnder
  <2> QED
    BY <2>3, Separated
<1> QED
  BY <1>1, <1>2 DEF Acyclic

-----------------------------------------------------------------------------
(* The cascade.                                                            *)

(* The more cards complete, the more are replayed. *)
LEMMA ReplayableGrows ==
  ASSUME NEW cs, NEW L, NEW start, NEW S, NEW T, S \subseteq T
  PROVE  Replayable(cs, L, start, S) \subseteq Replayable(cs, L, start, T)
<1>1. Completing(cs, S) \subseteq Completing(cs, T)
  BY DEF Completing
<1> QED
  BY <1>1 DEF Replayable

(* Replayed is contained in every set that is closed under Replayable. *)
LEMMA ReplayedLeast ==
  ASSUME NEW cs, NEW L, NEW start, NEW S \in SUBSET Cards,
         Replayable(cs, L, start, S) \subseteq S
  PROVE  Replayed(cs, L, start) \subseteq S
BY DEF Replayed

(* Replayed is a fixed point: who can be replayed is, and who is replayed  *)
(* had to be.                                                              *)
LEMMA ReplayedFixed ==
  ASSUME NEW cs, NEW L, NEW start
  PROVE  Replayable(cs, L, start, Replayed(cs, L, start)) = Replayed(cs, L, start)
<1> DEFINE R == Replayed(cs, L, start)
           F(S) == Replayable(cs, L, start, S)
<1>1. R \in SUBSET Cards /\ F(R) \in SUBSET Cards
  BY DEF Replayed, Replayable
<1>2. F(R) \subseteq R
  <2> SUFFICES ASSUME NEW x \in F(R), NEW S \in SUBSET Cards, F(S) \subseteq S
               PROVE  x \in S
    BY <1>1 DEF Replayed
  <2>1. R \subseteq S
    BY ReplayedLeast
  <2>2. F(R) \subseteq F(S)
    BY <2>1, ReplayableGrows
  <2> QED
    BY <2>2
<1>3. F(F(R)) \subseteq F(R)
  BY <1>2, ReplayableGrows
<1>4. R \subseteq F(R)
  BY <1>1, <1>3, ReplayedLeast
<1> QED
  BY <1>2, <1>4

(* What landing writes over a well formed row. *)
LEMMA LandedBase ==
  ASSUME NEW rec \in Card, rec.deferred # None
  PROVE  \E base \in Card :
           Landed(rec) = [base EXCEPT
             !.state = IF LandsDone(rec.deferred.from) THEN "completed"
                       ELSE IF Gated(IF rec.deferred.from = NStages THEN rec.stage
                                     ELSE rec.deferred.from + 1)
                            THEN "input-required" ELSE "submitted",
             !.failures = 0, !.deferred = None]
<1> DEFINE s == rec.deferred.from
           to == IF s = NStages THEN rec.stage ELSE s + 1
           base == AtStage(Free(rec), to)
<1>1. rec.deferred \in Order /\ rec.stage \in Stages
  BY DEF Card
<1>2. s \in Stages
  BY <1>1 DEF Order
<1>3. to \in Stages
  BY <1>1, <1>2, NextStage
<1>4. base \in Card
  BY <1>3, FreeType, AtStageType
<1> QED
  BY <1>4 DEF Landed

-----------------------------------------------------------------------------
(* The inductive invariant.                                                *)

(* A card that is done owes no advance. *)
CompletedOwesNothing ==
  \A c \in Cards : card[c].state = "completed" => card[c].deferred = None

(* Links join cards that exist. *)
LinkedExist == \A l \in links : Exists(l.from) /\ Exists(l.to)

Owing == DeferredHeld /\ CompletedOwesNothing

OrderInv == IInv /\ Owing /\ LinkedExist /\ LinksOrdered

(* A change of a row that neither completes it, nor makes it owe, nor      *)
(* takes it off the board.                                                 *)
Calm(old, new) ==
  /\ new.deferred \in {None, old.deferred}
  /\ new.state = "completed" => old.state = "completed"
  /\ new.state \in {"absent", "deleted"} => new.state = old.state

(* What a card that completes in this step must find. *)
ChildrenDone ==
  \A c \in Cards :
    card[c].state # "completed" /\ card'[c].state = "completed" =>
      \A l \in links' : l.from = c /\ l.kind = "parent" => card'[l.to].state = "completed"

(* After calm changes every parent that owes still waits. *)
LEMMA CalmOwing ==
  ASSUME TypeOK, Owing, links \subseteq links', links' \subseteq Link,
         \A c \in Cards : Calm(card[c], card'[c])
  PROVE  Owing' /\ ChildrenDone
<1>1. \A c \in Cards : OpenChildren(card, links, c) \subseteq OpenChildren(card', links', c)
  BY DEF OpenChildren, Calm
<1>2. DeferredHeld'
  BY <1>1 DEF Owing, DeferredHeld, Calm
<1>3. CompletedOwesNothing'
  BY DEF Owing, CompletedOwesNothing, Calm
<1>4. ChildrenDone
  BY DEF ChildrenDone, Calm
<1> QED
  BY <1>2, <1>3, <1>4 DEF Owing

(* What a cascade over the rows cs needs: a parent that owes waits for a   *)
(* child or is tried; a card that is done and owes is the one that is      *)
(* tried, and free.                                                        *)
Waits(cs, L, start) ==
  /\ \A x \in Cards : cs[x].deferred # None => OpenChildren(cs, L, x) # {} \/ x \in start
  /\ \A x \in Cards : cs[x].state = "completed" /\ cs[x].deferred # None =>
       start = {x} /\ OpenChildren(cs, L, x) = {}

(* After a cascade, too, and whoever completed in it had no child left to  *)
(* wait for.                                                               *)
LEMMA SettleOwing ==
  ASSUME NEW cs \in [Cards -> Card], NEW gs, NEW L \in SUBSET Link, NEW start,
         Settle(cs, gs, L, start), Waits(cs, L, start)
  PROVE  /\ \A x \in Cards : card'[x].deferred # None => OpenChildren(card', L, x) # {}
         /\ \A x \in Cards : card'[x].state = "completed" => card'[x].deferred = None
         /\ \A x \in Cards : cs[x].state # "completed" /\ card'[x].state = "completed" =>
              OpenChildren(card', L, x) = {}
         /\ \A x \in Cards : cs[x].state = "completed" /\ cs[x].deferred = None =>
              card'[x] = cs[x]
         /\ \A x \in Cards : card'[x] = cs[x] \/
              (card'[x].deferred = None /\ card'[x].state \notin {"absent", "deleted"})
<1> DEFINE R == Replayed(cs, L, start)
           done == Completing(cs, R)
<1>1. \A x \in Cards : card'[x] = IF x \in R THEN Landed(cs[x]) ELSE cs[x]
  BY DEF Settle
<1>2. \A x \in R : x \in Cards /\ cs[x].deferred # None
  BY ReplayedOwes
<1>3. ASSUME NEW x \in R
      PROVE  /\ card'[x].deferred = None
             /\ card'[x].state = "completed" <=> LandsDone(cs[x].deferred.from)
             /\ card'[x].state \in {"completed", "input-required", "submitted"}
  <2>1. card'[x] = Landed(cs[x]) /\ cs[x] \in Card
    BY <1>1, <1>2
  <2>2. PICK base : /\ Landed(cs[x]) = [base EXCEPT
                         !.state = IF LandsDone(cs[x].deferred.from) THEN "completed"
                                   ELSE IF Gated(IF cs[x].deferred.from = NStages THEN cs[x].stage
                                                 ELSE cs[x].deferred.from + 1)
                                        THEN "input-required" ELSE "submitted",
                         !.failures = 0, !.deferred = None]
                    /\ base \in Card
    BY <1>2, <2>1, LandedBase
  <2> QED
    BY <2>1, <2>2 DEF Card
<1>4. \A x : x \in R <=>
        /\ x \in Cards
        /\ cs[x].deferred # None
        /\ x \in start \/ \E y \in done : x \in ParentsOf(L, y)
        /\ OpenChildren(cs, L, x) \subseteq done
  <2>1. R = Replayable(cs, L, start, R)
    BY ReplayedFixed
  <2> HIDE DEF R
  <2> QED
    BY <2>1 DEF Replayable
<1>5. \A x \in Cards : x \in done <=> x \in R /\ card'[x].state = "completed"
  BY <1>2, <1>3 DEF Completing
<1> HIDE DEF R, done
<1>6. ASSUME NEW x \in Cards, card'[x].deferred # None
      PROVE  OpenChildren(card', L, x) # {}
  <2> SUFFICES ASSUME OpenChildren(card', L, x) = {} PROVE FALSE
    OBVIOUS
  <2>1. x \notin R /\ cs[x].deferred # None
    BY <1>1, <1>3, <1>6
  <2>2. OpenChildren(cs, L, x) \subseteq done
    BY <1>1, <1>5 DEF OpenChildren
  <2>3. ~(x \in start)
    BY <1>4, <2>1, <2>2
  <2>4. PICK y \in OpenChildren(cs, L, x) : TRUE
    BY <2>1, <2>3 DEF Waits
  <2>5. x \in ParentsOf(L, y)
    BY <2>4 DEF OpenChildren, ParentsOf
  <2> QED
    BY <1>4, <2>1, <2>2, <2>4, <2>5
<1>7. ASSUME NEW x \in Cards, cs[x].state = "completed", cs[x].deferred # None
      PROVE  x \in R
  BY <1>4, <1>7 DEF Waits
<1>8. ASSUME NEW x \in Cards, cs[x].state = "completed", cs[x].deferred = None
      PROVE  card'[x] = cs[x]
  BY <1>1, <1>2, <1>8
<1>9. ASSUME NEW x \in Cards, card'[x].state = "completed"
      PROVE  card'[x].deferred = None
  BY <1>1, <1>3, <1>7, <1>9
<1>10. ASSUME NEW x \in Cards, cs[x].state # "completed", card'[x].state = "completed",
              NEW y \in OpenChildren(card', L, x)
       PROVE  FALSE
  <2>1. x \in done
    BY <1>1, <1>5, <1>10
  <2>2. y \in Cards /\ card'[y].state # "completed"
    BY DEF OpenChildren
  <2>3. y \notin done
    BY <1>5, <2>2
  <2>4. cs[y].state = "completed"
    <3>1. x \in R
      BY <1>5, <2>1
    <3> QED
      BY <1>4, <2>2, <2>3, <3>1 DEF OpenChildren
  <2>5. cs[y].deferred # None /\ y \in R
    BY <1>7, <1>8, <2>2, <2>4
  <2>6. start = {y}
    BY <2>2, <2>4, <2>5 DEF Waits
  <2>7. Completing(cs, {y}) = {}
    BY <1>2, <1>3, <2>2, <2>5 DEF Completing
  <2>8. Replayable(cs, L, start, {y}) \subseteq {y}
    BY <2>6, <2>7 DEF Replayable
  <2>9. R \subseteq {y}
    BY <2>2, <2>8, ReplayedLeast DEF R
  <2> QED
    BY <1>5, <1>10, <2>1, <2>3, <2>9
<1>11. \A x \in Cards : card'[x] = cs[x] \/
         (card'[x].deferred = None /\ card'[x].state \notin {"absent", "deleted"})
  BY <1>1, <1>3
<1> QED
  BY <1>6, <1>8, <1>9, <1>10, <1>11

-----------------------------------------------------------------------------
(* Which changes of a row are calm.                                        *)

(* Queueing and parking are. *)
LEMMA QueueCalm ==
  ASSUME NEW rec \in Card
  PROVE  Queue(rec).state = "submitted" /\ Queue(rec).deferred = rec.deferred
BY DEF Queue, Free, Card

LEMMA ParkCalm ==
  ASSUME NEW rec \in Card, NEW why
  PROVE  Park(rec, why).state = "input-required" /\ Park(rec, why).deferred = rec.deferred
BY DEF Park, Free, Card

(* A change of stage changes neither column. *)
LEMMA AtStageCalm ==
  ASSUME NEW rec \in Card, NEW s
  PROVE  AtStage(rec, s).state = rec.state /\ AtStage(rec, s).deferred = rec.deferred
BY DEF AtStage, Card

(* So are a failed attempt and a refused handoff. *)
LEMMA FailedAttemptCalm ==
  ASSUME NEW rec \in Card, NEW n \in Nat
  PROVE  /\ Calm(rec, FailedAttempt(rec, n))
         /\ FailedAttempt(rec, n).deferred = rec.deferred
<1> DEFINE f == rec.failures + n
<1>1. CASE n = 0
  BY <1>1 DEF FailedAttempt, Calm
<1>2. CASE n # 0 /\ f >= CIRCUIT_BREAKER_LIMIT
  <2>1. /\ FailedAttempt(rec, n) = [Park(rec, "repeated-failure") EXCEPT !.failures = f]
        /\ Park(rec, "repeated-failure") \in Card
    BY <1>2, ParkType DEF FailedAttempt, Needs
  <2> QED
    BY <2>1, ParkCalm DEF Calm, Card
<1>3. CASE n # 0 /\ ~(f >= CIRCUIT_BREAKER_LIMIT)
  <2>1. /\ FailedAttempt(rec, n) = [Queue(rec) EXCEPT !.failures = f, !.needs = "none"]
        /\ Queue(rec) \in Card
    BY <1>3, QueueType DEF FailedAttempt
  <2> QED
    BY <2>1, QueueCalm DEF Calm, Card
<1> QED
  BY <1>1, <1>2, <1>3

LEMMA ReworkOrParkCalm ==
  ASSUME NEW rec \in Card
  PROVE  /\ Calm(rec, ReworkOrPark(rec))
         /\ ReworkOrPark(rec).deferred = rec.deferred
<1> DEFINE base == IF rec.rework THEN Park(rec, "blocked")
                   ELSE IF rec.failures + 1 >= CIRCUIT_BREAKER_LIMIT
                        THEN Park(rec, "repeated-failure")
                        ELSE [Queue(rec) EXCEPT !.needs = "none", !.rework = TRUE]
<1>1. /\ base.deferred = rec.deferred /\ base.state \in {"input-required", "submitted"}
      /\ base \in Card
  <2>1. Park(rec, "blocked") \in Card /\ Park(rec, "repeated-failure") \in Card
    BY ParkType DEF Needs
  <2>2. PICK q \in Card : q = Queue(rec)
    BY QueueType
  <2> DEFINE again == [q EXCEPT !.needs = "none", !.rework = TRUE]
  <2>3. again \in Card /\ again.state = q.state /\ again.deferred = q.deferred
    BY DEF Card, Needs
  <2>4. q.state = "submitted" /\ q.deferred = rec.deferred
    BY <2>2, QueueCalm
  <2>5. \/ base = Park(rec, "blocked")
        \/ base = Park(rec, "repeated-failure")
        \/ base = again
    BY <2>2
  <2> HIDE DEF base, again
  <2> QED
    BY <2>1, <2>3, <2>4, <2>5, ParkCalm
<1>2. ReworkOrPark(rec) = [base EXCEPT !.failures = rec.failures + 1]
  BY DEF ReworkOrPark
<1> QED
  BY <1>1, <1>2 DEF Calm, Card

(* A step that writes one row calmly is calm. *)
LEMMA OneRowCalm ==
  ASSUME card \in [Cards -> Card], NEW c \in Cards, NEW row,
         card' = [card EXCEPT ![c] = row], Calm(card[c], row)
  PROVE  \A d \in Cards : Calm(card[d], card'[d])
BY DEF Calm

-----------------------------------------------------------------------------
(* The actions.                                                            *)

(* What people and the alarm do to one row, without a cascade. *)
LEMMA CalmCardActions ==
  ASSUME TypeOK, NEW c \in Cards, NEW s \in Stages,
         \/ CreateCard(c, s) \/ ResumeCard(c, s) \/ Archive(c) \/ Unarchive(c)
         \/ MoveCard(c, s) /\ ~CompletesOnArrival(s)
  PROVE  links' = links /\ \A d \in Cards : Calm(card[d], card'[d])
<1>1. card \in [Cards -> Card] /\ card[c] \in Card
  BY DEF TypeOK
<1>2. PICK rec \in Card : rec = card[c]
  BY <1>1
<1>3. PICK base \in Card : base = AtStage(Queue(rec), s)
  BY QueueType, AtStageType
<1>4. base.state = "submitted" /\ base.deferred = rec.deferred
  BY <1>3, QueueType, QueueCalm, AtStageCalm
<1>5. CASE CreateCard(c, s)
  <2>1. card' = [card EXCEPT ![c] = [rec EXCEPT !.state = "submitted", !.stage = s]]
    BY <1>1, <1>2, <1>5 DEF CreateCard
  <2>2. Calm(rec, [rec EXCEPT !.state = "submitted", !.stage = s])
    BY DEF Calm, Card
  <2> QED
    BY <1>1, <1>2, <1>5, <2>1, <2>2, OneRowCalm DEF CreateCard
<1>6. CASE ResumeCard(c, s)
  <2> DEFINE row == [base EXCEPT !.failures = 0, !.needs = "none", !.rework = FALSE,
                       !.deferred = None, !.returns = 0]
  <2>1. card' = [card EXCEPT ![c] = row]
    BY <1>2, <1>3, <1>6 DEF ResumeCard
  <2>2. Calm(rec, row)
    BY <1>4 DEF Calm, Card
  <2> HIDE DEF row
  <2> QED
    BY <1>1, <1>2, <1>6, <2>1, <2>2, OneRowCalm DEF ResumeCard
<1>7. CASE Archive(c)
  <2>1. PICK why : card' = [card EXCEPT ![c] = [rec EXCEPT !.archived = TRUE, !.needs = why]]
    BY <1>1, <1>2, <1>7 DEF Archive, Card
  <2>2. Calm(rec, [rec EXCEPT !.archived = TRUE, !.needs = why])
    BY DEF Calm, Card
  <2> QED
    BY <1>1, <1>2, <1>7, <2>1, <2>2, OneRowCalm DEF Archive
<1>8. CASE Unarchive(c)
  <2>1. card' = [card EXCEPT ![c] = [rec EXCEPT !.archived = FALSE]]
    BY <1>2, <1>8 DEF Unarchive
  <2>2. Calm(rec, [rec EXCEPT !.archived = FALSE])
    BY DEF Calm, Card
  <2> QED
    BY <1>1, <1>2, <1>8, <2>1, <2>2, OneRowCalm DEF Unarchive
<1>9. CASE MoveCard(c, s) /\ ~CompletesOnArrival(s)
  <2> DEFINE row == [[base EXCEPT !.needs = "none", !.failures = 0] EXCEPT !.returns = 0]
  <2>1. card' = [card EXCEPT ![c] = row]
    BY <1>2, <1>3, <1>9 DEF MoveCard
  <2>2. Calm(rec, row)
    BY <1>4 DEF Calm, Card
  <2> HIDE DEF row
  <2> QED
    BY <1>1, <1>2, <1>9, <2>1, <2>2, OneRowCalm DEF MoveCard
<1> QED
  BY <1>5, <1>6, <1>7, <1>8, <1>9

(* Nothing that happens to a lease completes a card or makes it owe. *)
LEMMA CalmLeaseActions ==
  ASSUME TypeOK, LeaseNext
  PROVE  links' = links /\ \A d \in Cards : Calm(card[d], card'[d])
<1>1. card \in [Cards -> Card]
  BY DEF TypeOK
<1>2. ASSUME NEW a \in Agents, NEW c \in Cards, NEW r \in Runs, Claim(a, c, r)
      PROVE  links' = links /\ \A d \in Cards : Calm(card[d], card'[d])
  <2>1. PICK rec \in Card : rec = card[c]
    BY <1>1
  <2> DEFINE row == [rec EXCEPT !.state = "working", !.agent = a, !.run = r, !.seq = rec.seq + 1]
  <2>2. card' = [card EXCEPT ![c] = row]
    BY <1>1, <1>2, <2>1 DEF Claim, NextEpoch, Card
  <2>3. Calm(rec, row)
    BY DEF Calm, Card
  <2> HIDE DEF row
  <2> QED
    BY <1>1, <1>2, <2>1, <2>2, <2>3, OneRowCalm DEF Claim
<1>3. ASSUME NEW a \in Agents, NEW c \in Cards, ClaimDenied(a, c)
      PROVE  links' = links /\ \A d \in Cards : Calm(card[d], card'[d])
  <2>1. PICK rec \in Card : rec = card[c]
    BY <1>1
  <2> DEFINE row == [rec EXCEPT !.state = "input-required", !.needs = "not-authorised"]
  <2>2. card' = [card EXCEPT ![c] = row]
    BY <1>1, <1>3, <2>1 DEF ClaimDenied, Card
  <2>3. Calm(rec, row)
    BY DEF Calm, Card
  <2> HIDE DEF row
  <2> QED
    BY <1>1, <1>3, <2>1, <2>2, <2>3, OneRowCalm DEF ClaimDenied
<1>4. ASSUME NEW r \in Runs, Heartbeat(r) \/ Lapse(r)
      PROVE  links' = links /\ \A d \in Cards : Calm(card[d], card'[d])
  BY <1>4 DEF Heartbeat, Lapse, Calm
<1>5. ASSUME ReclaimExpired
      PROVE  links' = links /\ \A d \in Cards : Calm(card[d], card'[d])
  <2>1. ASSUME NEW c \in Cards
        PROVE  Cardinality(Expired \cap RunsOf(c)) \in Nat
    <3>1. IsFiniteSet(Expired \cap RunsOf(c))
      BY FS_Subset, IdAssumption DEF Expired
    <3> QED
      BY <3>1, FS_CardinalityType
  <2> QED
    BY <1>1, <1>5, <2>1, FailedAttemptCalm DEF ReclaimExpired
<1> QED
  BY <1>2, <1>3, <1>4, <1>5 DEF LeaseNext

(* Nor what a run says, except a completion that advances its card. *)
LEMMA CalmRunActions ==
  ASSUME TypeOK, NEW r \in Runs,
         \/ \E state \in {"input-required", "auth-required"} : Ask(r, state)
         \/ AnswerLive(r) \/ AnswerParked(r)
         \/ AskAndStop(r) \/ SubmitForReview(r) \/ Block(r) \/ Fail(r) \/ Release(r)
  PROVE  links' = links /\ \A d \in Cards : Calm(card[d], card'[d])
<1> DEFINE c == run[r].card
<1>1. card \in [Cards -> Card] /\ c \in Cards
  BY DEF TypeOK, Ask, AnswerLive, AnswerParked, AskAndStop, SubmitForReview,
         Block, Fail, Release, EndRun, Working, Started
<1>2. PICK rec \in Card : rec = card[c]
  BY <1>1
<1>3. PICK row : card' = [card EXCEPT ![c] = row] /\ Calm(rec, row) /\ links' = links
  <2>1. CASE \E state \in {"input-required", "auth-required"} : Ask(r, state)
    <3>1. PICK state \in {"input-required", "auth-required"} : Ask(r, state)
      BY <2>1
    <3> DEFINE row == [rec EXCEPT !.state = state, !.needs = "question"]
    <3>2. card' = [card EXCEPT ![c] = row] /\ links' = links
      BY <1>1, <1>2, <3>1 DEF Ask, Card
    <3>3. Calm(rec, row)
      <4>1. row.state = state /\ row.deferred = rec.deferred
        BY DEF Card
      <4> QED
        BY <4>1 DEF Calm
    <3> QED
      BY <3>2, <3>3
  <2>2. CASE AnswerLive(r)
    <3> DEFINE row == [rec EXCEPT !.state = "working", !.needs = "none"]
    <3>1. card' = [card EXCEPT ![c] = row] /\ links' = links
      BY <1>1, <1>2, <2>2 DEF AnswerLive, Card
    <3>2. Calm(rec, row)
      BY DEF Calm, Card
    <3> QED
      BY <3>1, <3>2
  <2>3. CASE AnswerParked(r)
    <3> DEFINE row == [Queue(rec) EXCEPT !.needs = "none"]
    <3>1. card' = [card EXCEPT ![c] = row] /\ links' = links
      BY <1>2, <2>3 DEF AnswerParked
    <3>2. Calm(rec, row)
      BY QueueType, QueueCalm DEF Calm, Card
    <3> QED
      BY <3>1, <3>2
  <2>4. CASE AskAndStop(r)
    BY <1>2, <2>4, ParkCalm DEF AskAndStop, Calm
  <2>5. CASE SubmitForReview(r)
    BY <1>2, <2>5, ParkCalm DEF SubmitForReview, Calm
  <2>6. CASE Block(r)
    BY <1>2, <2>6, ParkCalm DEF Block, Calm
  <2>7. CASE Fail(r)
    BY <1>2, <2>7, FailedAttemptCalm DEF Fail
  <2>8. CASE Release(r)
    BY <1>2, <2>8, QueueCalm DEF Release, Calm
  <2> QED
    BY <2>1, <2>2, <2>3, <2>4, <2>5, <2>6, <2>7, <2>8
<1> HIDE DEF c
<1> QED
  BY <1>1, <1>2, <1>3, OneRowCalm

-----------------------------------------------------------------------------
(* Every step keeps the invariant.                                         *)

(* A calm step does, when it changes no link. *)
LEMMA CalmOrder ==
  ASSUME OrderInv, IInv', links' = links, \A c \in Cards : Calm(card[c], card'[c])
  PROVE  OrderInv' /\ ChildrenDone
<1>1. TypeOK /\ links \subseteq Link
  BY DEF OrderInv, IInv, TypeOK
<1>2. Owing' /\ ChildrenDone
  BY <1>1, CalmOwing DEF OrderInv
<1>3. LinkedExist'
  BY <1>1 DEF OrderInv, LinkedExist, Exists, Calm, Link
<1>4. LinksOrdered'
  BY DEF OrderInv, LinksOrdered, ParentsOf
<1> QED
  BY <1>2, <1>3, <1>4 DEF OrderInv

(* What the rows cs, written just before a cascade, owe the links L: each  *)
(* link joins cards that exist, and a card that cs completes finds no open *)
(* child, and no card that is done and owes.                               *)
Prepared(cs, L) ==
  /\ \A l \in L : /\ cs[l.from].state \notin {"absent", "deleted"}
                  /\ cs[l.to].state \notin {"absent", "deleted"}
  /\ \A x \in Cards : card[x].state # "completed" /\ cs[x].state = "completed" =>
       /\ OpenChildren(cs, L, x) = {}
       /\ \A y \in Cards : cs[y].state = "completed" => cs[y].deferred = None

(* A cascade over prepared rows. *)
LEMMA CascadeOrder ==
  ASSUME OrderInv, IInv', NEW cs \in [Cards -> Card], NEW gs, NEW start,
         NEW L \in SUBSET Link, links' = L, LinksOrdered',
         Settle(cs, gs, L, start), Waits(cs, L, start), Prepared(cs, L)
  PROVE  OrderInv' /\ ChildrenDone
<1>1. /\ \A x \in Cards : card'[x].deferred # None => OpenChildren(card', L, x) # {}
      /\ \A x \in Cards : card'[x].state = "completed" => card'[x].deferred = None
      /\ \A x \in Cards : cs[x].state # "completed" /\ card'[x].state = "completed" =>
           OpenChildren(card', L, x) = {}
      /\ \A x \in Cards : cs[x].state = "completed" /\ cs[x].deferred = None =>
           card'[x] = cs[x]
      /\ \A x \in Cards : card'[x] = cs[x] \/
           (card'[x].deferred = None /\ card'[x].state \notin {"absent", "deleted"})
  BY SettleOwing
<1>2. Owing'
  BY <1>1 DEF Owing, DeferredHeld, CompletedOwesNothing
<1>3. LinkedExist'
  BY <1>1 DEF LinkedExist, Exists, Link, Prepared
<1>4. ASSUME NEW x \in Cards, card[x].state # "completed", card'[x].state = "completed"
      PROVE  OpenChildren(card', L, x) = {}
  <2>1. CASE cs[x].state # "completed"
    BY <1>1, <1>4, <2>1
  <2>2. CASE cs[x].state = "completed"
    <3>1. /\ \A y \in Cards : cs[y].state = "completed" => cs[y].deferred = None
          /\ OpenChildren(cs, L, x) = {}
      BY <1>4, <2>2 DEF Prepared
    <3> QED
      BY <1>1, <3>1 DEF OpenChildren
  <2> QED
    BY <2>1, <2>2
<1>5. ChildrenDone
  <2> SUFFICES ASSUME NEW x \in Cards, card[x].state # "completed",
                      card'[x].state = "completed",
                      NEW l \in L, l.from = x, l.kind = "parent",
                      card'[l.to].state # "completed"
               PROVE  FALSE
    BY DEF ChildrenDone
  <2>1. l \in Link /\ l.to \in Cards
    BY DEF Link
  <2>2. l = [from |-> x, to |-> l.to, kind |-> "parent"]
    BY <2>1 DEF Link
  <2>3. l.to \in OpenChildren(card', L, x)
    BY <2>1, <2>2 DEF OpenChildren
  <2> QED
    BY <1>4, <2>3
<1> QED
  BY <1>2, <1>3, <1>5 DEF OrderInv

(* advanceCard, deferring or not. *)
LEMMA AdvanceOrder ==
  ASSUME OrderInv, IInv', NEW c \in Cards, NEW gs, NEW order \in Order,
         Advance(c, gs, order), links' = links
  PROVE  OrderInv' /\ ChildrenDone
<1> DEFINE owing == [card EXCEPT ![c].deferred = order]
<1>1. card \in [Cards -> Card] /\ links \subseteq Link
  BY DEF OrderInv, IInv, TypeOK
<1>2. PICK rec \in Card : rec = card[c]
  BY <1>1
<1>3. /\ owing \in [Cards -> Card]
      /\ \A d \in Cards : d # c => owing[d] = card[d]
      /\ \A d \in Cards : owing[d].state = card[d].state
      /\ owing[c] = [rec EXCEPT !.deferred = order]
      /\ owing[c].deferred = order
  BY <1>1, <1>2 DEF Card
<1>4. order # None
  BY IdAssumption
<1>5. LinksOrdered'
  BY DEF OrderInv, LinksOrdered, ParentsOf
<1>6. CASE OpenChildren(card, links, c) # {}
  <2>1. card' = [owing EXCEPT ![c] = [Free(owing[c]) EXCEPT !.state = "input-required"]]
    BY <1>6 DEF Advance
  <2>2. PICK new \in Card : new = Free(owing[c])
    BY <1>3, FreeType
  <2>3. new.deferred = order
    BY <1>3, <2>2 DEF Free, Card
  <2>4. [new EXCEPT !.state = "input-required"].state = "input-required"
          /\ [new EXCEPT !.state = "input-required"].deferred = order
    BY <2>3 DEF Card
  <2> HIDE DEF owing
  <2>5. /\ card'[c].state = "input-required" /\ card'[c].deferred = order
        /\ \A d \in Cards : d # c => card'[d] = card[d]
    BY <1>3, <2>1, <2>2, <2>4
  <2>6. \A d \in Cards : OpenChildren(card, links, d) \subseteq OpenChildren(card', links', d)
    BY <2>5 DEF OpenChildren
  <2>7. Owing'
    <3>1. DeferredHeld'
      BY <1>6, <2>5, <2>6 DEF OrderInv, Owing, DeferredHeld
    <3>2. CompletedOwesNothing'
      BY <2>5 DEF OrderInv, Owing, CompletedOwesNothing
    <3> QED
      BY <3>1, <3>2 DEF Owing
  <2>8. LinkedExist'
    BY <1>1, <2>5 DEF OrderInv, LinkedExist, Exists, Link
  <2>9. ChildrenDone
    BY <2>5 DEF ChildrenDone
  <2> QED
    BY <1>5, <2>7, <2>8, <2>9 DEF OrderInv
<1>7. CASE OpenChildren(card, links, c) = {}
  <2>1. Settle(owing, gs, links, {c})
    BY <1>7 DEF Advance
  <2> HIDE DEF owing
  <2>2. \A x \in Cards : OpenChildren(owing, links, x) = OpenChildren(card, links, x)
    BY <1>3 DEF OpenChildren
  <2>3. Waits(owing, links, {c})
    <3>1. \A x \in Cards : owing[x].deferred # None =>
            OpenChildren(owing, links, x) # {} \/ x \in {c}
      BY <1>3, <2>2 DEF OrderInv, Owing, DeferredHeld
    <3>2. \A x \in Cards : owing[x].state = "completed" /\ owing[x].deferred # None =>
            {c} = {x} /\ OpenChildren(owing, links, x) = {}
      BY <1>3, <1>7, <2>2 DEF OrderInv, Owing, CompletedOwesNothing
    <3> QED
      BY <3>1, <3>2 DEF Waits
  <2>4. Prepared(owing, links)
    BY <1>1, <1>3 DEF Prepared, OrderInv, LinkedExist, Exists, Link
  <2> QED
    BY <1>1, <1>3, <1>5, <2>1, <2>3, <2>4, CascadeOrder
<1> QED
  BY <1>6, <1>7

(* moveCard to a last stage that completes on arrival. *)
LEMMA MoveDoneOrder ==
  ASSUME OrderInv, IInv', NEW c \in Cards, NEW s \in Stages, MoveCard(c, s),
         CompletesOnArrival(s)
  PROVE  OrderInv' /\ ChildrenDone
<1> DEFINE P == ParentsOf(links, c)
<1>1. card \in [Cards -> Card] /\ links \in SUBSET Link /\ card[c] \in Card
  BY DEF OrderInv, IInv, TypeOK
<1>2. PICK base \in Card : base = AtStage(Queue(card[c]), s)
  BY <1>1, QueueType, AtStageType
<1>3. base.deferred = card[c].deferred
  BY <1>1, <1>2, QueueType, QueueCalm, AtStageCalm
<1>4. card[c].deferred = None /\ OpenChildren(card, links, c) = {}
  BY DEF MoveCard, OrderInv, Owing, DeferredHeld
<1> DEFINE done == [[base EXCEPT !.needs = "none", !.failures = 0] EXCEPT !.state = "completed"]
           cs == [card EXCEPT ![c] = done]
<1>5. done \in Card /\ done.state = "completed" /\ done.deferred = None
  BY <1>3, <1>4 DEF Card, CardStates, Needs
<1>6. Settle(cs, GatesLeft(c), links, P) /\ links' = links
  BY <1>2 DEF MoveCard
<1> HIDE DEF done, P
<1>7. /\ cs \in [Cards -> Card]
      /\ cs[c].state = "completed" /\ cs[c].deferred = None
      /\ \A d \in Cards : d # c => cs[d] = card[d]
  BY <1>1, <1>5
<1> HIDE DEF cs
<1>8. \A x, y \in Cards :
        y \in OpenChildren(card, links, x) => y \in OpenChildren(cs, links, x) \/ x \in P
  BY <1>7 DEF OpenChildren, ParentsOf, P
<1>9. Waits(cs, links, P)
  <2>1. \A x \in Cards : cs[x].deferred # None => OpenChildren(card, links, x) # {}
    BY <1>7 DEF OrderInv, Owing, DeferredHeld
  <2>2. \A x \in Cards : cs[x].deferred # None => OpenChildren(cs, links, x) # {} \/ x \in P
    BY <1>8, <2>1 DEF OpenChildren
  <2>3. \A x \in Cards : cs[x].state = "completed" => cs[x].deferred = None
    BY <1>7 DEF OrderInv, Owing, CompletedOwesNothing
  <2> QED
    BY <2>2, <2>3 DEF Waits
<1>10. Prepared(cs, links)
  <2>1. \A l \in links : /\ cs[l.from].state \notin {"absent", "deleted"}
                         /\ cs[l.to].state \notin {"absent", "deleted"}
    BY <1>1, <1>7 DEF OrderInv, LinkedExist, Exists, Link
  <2>2. \A x \in Cards : card[x].state # "completed" /\ cs[x].state = "completed" => x = c
    BY <1>7
  <2>3. OpenChildren(cs, links, c) = {}
    BY <1>4, <1>7 DEF OpenChildren
  <2>4. \A y \in Cards : cs[y].state = "completed" => cs[y].deferred = None
    BY <1>7 DEF OrderInv, Owing, CompletedOwesNothing
  <2> QED
    BY <2>1, <2>2, <2>3, <2>4 DEF Prepared
<1>11. LinksOrdered'
  BY <1>6 DEF OrderInv, LinksOrdered, ParentsOf
<1> QED
  BY <1>1, <1>6, <1>7, <1>9, <1>10, <1>11, CascadeOrder

(* Taking links away keeps what is left in order. *)
LEMMA FewerLinks ==
  ASSUME LinksOrdered, NEW L \in SUBSET links, links' = L
  PROVE  LinksOrdered'
<1>1. Edges(L) \in SUBSET Edges(links)
  BY DEF Edges
<1>2. Acyclic(Cards, Edges(L))
  BY <1>1, FewerEdges DEF LinksOrdered
<1>3. \A c \in Cards : \A p, q \in ParentsOf(L, c) : p = q
  BY DEF LinksOrdered, ParentsOf
<1> QED
  BY <1>2, <1>3 DEF LinksOrdered

(* removeLink. *)
LEMMA RemoveLinkOrder ==
  ASSUME OrderInv, IInv', NEW l \in Link, RemoveLink(l)
  PROVE  OrderInv' /\ ChildrenDone
<1> DEFINE L == links \ {l}
<1>1. card \in [Cards -> Card] /\ L \in SUBSET Link /\ L \in SUBSET links /\ links' = L
  BY DEF OrderInv, IInv, TypeOK, RemoveLink
<1>2. LinksOrdered'
  BY <1>1, FewerLinks DEF OrderInv
<1>3. CASE l.kind = "parent"
  <2>1. Settle(card, gates, L, {l.from})
    BY <1>1, <1>3 DEF RemoveLink
  <2>2. \A x \in Cards : x # l.from =>
          OpenChildren(card, links, x) \subseteq OpenChildren(card, L, x)
    BY DEF OpenChildren, Link
  <2>3. Waits(card, L, {l.from})
    BY <2>2 DEF Waits, OrderInv, Owing, DeferredHeld, CompletedOwesNothing
  <2>4. Prepared(card, L)
    BY DEF Prepared, OrderInv, LinkedExist, Exists
  <2> HIDE DEF L
  <2> QED
    BY <1>1, <1>2, <2>1, <2>3, <2>4, CascadeOrder
<1>4. CASE l.kind # "parent"
  <2>1. card' = card
    BY <1>4 DEF RemoveLink
  <2>2. \A x \in Cards : OpenChildren(card, links, x) \subseteq OpenChildren(card', links', x)
    BY <1>1, <1>4, <2>1 DEF OpenChildren
  <2>3. Owing'
    BY <2>1, <2>2 DEF OrderInv, Owing, DeferredHeld, CompletedOwesNothing
  <2>4. LinkedExist'
    BY <1>1, <2>1 DEF OrderInv, LinkedExist, Exists
  <2>5. ChildrenDone
    BY <2>1 DEF ChildrenDone
  <2> QED
    BY <1>2, <2>3, <2>4, <2>5 DEF OrderInv
<1> QED
  BY <1>3, <1>4

(* deleteCard takes the links of the card with it. *)
LEMMA DeleteCardOrder ==
  ASSUME OrderInv, IInv', NEW c \in Cards, DeleteCard(c)
  PROVE  OrderInv' /\ ChildrenDone
<1> DEFINE row == [NoCard EXCEPT !.state = "deleted"]
           cs == [card EXCEPT ![c] = row]
           L == {l \in links : c \notin {l.from, l.to}}
           P == ParentsOf(links, c)
<1>1. card \in [Cards -> Card] /\ links \in SUBSET Link /\ L \in SUBSET Link
  BY DEF OrderInv, IInv, TypeOK
<1>2. row \in Card /\ row.state = "deleted" /\ row.deferred = None
  <2>1. 1 \in Stages
    BY PipelineAssumption DEF Stages
  <2> QED
    BY <2>1 DEF NoCard, Card, CardStates, Needs
<1>3. links' = L /\ Settle(cs, GatesLeft(c), L, P)
  BY DEF DeleteCard
<1> HIDE DEF row
<1>4. /\ cs \in [Cards -> Card]
      /\ cs[c].state = "deleted" /\ cs[c].deferred = None
      /\ \A d \in Cards : d # c => cs[d] = card[d]
  BY <1>1, <1>2
<1> HIDE DEF cs
<1>5. LinksOrdered'
  BY <1>3, FewerLinks DEF OrderInv
<1>6. \A x, y \in Cards :
        /\ x # c
        /\ y \in OpenChildren(card, links, x)
        => y \in OpenChildren(cs, L, x) \/ x \in P
  BY <1>4 DEF OpenChildren, ParentsOf
<1> HIDE DEF L, P
<1>7. Waits(cs, L, P)
  <2>1. \A x \in Cards : cs[x].deferred # None => x # c /\ OpenChildren(card, links, x) # {}
    BY <1>4 DEF OrderInv, Owing, DeferredHeld
  <2>2. \A x \in Cards : cs[x].deferred # None => OpenChildren(cs, L, x) # {} \/ x \in P
    BY <1>6, <2>1 DEF OpenChildren
  <2>3. \A x \in Cards : cs[x].state = "completed" => cs[x].deferred = None
    BY <1>4 DEF OrderInv, Owing, CompletedOwesNothing
  <2> QED
    BY <2>2, <2>3 DEF Waits
<1>8. Prepared(cs, L)
  <2>1. \A l \in L : l \in links /\ l.from \in Cards /\ l.to \in Cards
                     /\ l.from # c /\ l.to # c
    BY <1>1 DEF L, Link
  <2>2. \A l \in L : /\ cs[l.from].state \notin {"absent", "deleted"}
                     /\ cs[l.to].state \notin {"absent", "deleted"}
    BY <1>4, <2>1 DEF OrderInv, LinkedExist, Exists
  <2>3. \A x \in Cards : cs[x].state = "completed" => card[x].state = "completed"
    BY <1>4
  <2> QED
    BY <2>2, <2>3 DEF Prepared
<1> QED
  BY <1>1, <1>3, <1>4, <1>5, <1>7, <1>8, CascadeOrder

(* The edges of links are edges between cards. *)
LEMMA EdgesType ==
  ASSUME NEW L \in SUBSET Link
  PROVE  Edges(L) \in SUBSET (Cards \X Cards)
BY DEF Edges, Link

(* Edges are collected link by link. *)
LEMMA EdgesUnion ==
  ASSUME NEW L, NEW K
  PROVE  Edges(L \cup K) = Edges(L) \cup Edges(K)
BY DEF Edges

(* addLink: the new link closes no cycle and gives no second parent. *)
LEMMA AddLinkOrder ==
  ASSUME OrderInv, IInv', NEW f \in Cards, NEW t \in Cards, NEW k \in ORDERING,
         AddLink(f, t, k)
  PROVE  OrderInv' /\ ChildrenDone
<1> DEFINE new == [from |-> f, to |-> t, kind |-> k]
<1>1. /\ links \in SUBSET Link /\ links' \in SUBSET Link /\ TypeOK
      /\ card' = card /\ links' = links \cup {new}
  BY DEF OrderInv, IInv, TypeOK, AddLink, Link
<1>2. Edges(links') = Edges(links) \cup {<<f, t>>}
  <2>1. new.kind \in ORDERING /\ new.from = f /\ new.to = t
    OBVIOUS
  <2>2. Edges({new}) = {<<f, t>>}
    BY <2>1 DEF Edges
  <2> HIDE DEF new
  <2> QED
    BY <1>1, <2>2, EdgesUnion
<1>3. ~Reaches(Cards, Edges(links), t, f)
  BY DEF AddLink, WouldCycle
<1>4. Acyclic(Cards, Edges(links'))
  <2>1. /\ Acyclic(Cards, Edges(links))
        /\ Edges(links) \in SUBSET (Cards \X Cards)
    BY <1>1, EdgesType DEF OrderInv, LinksOrdered
  <2>2. Acyclic(Cards, Edges(links) \cup {<<f, t>>})
    BY <1>3, <2>1, OneMoreEdge
  <2> QED
    BY <1>2, <2>2
<1>5. \A c \in Cards : \A p, q \in ParentsOf(links', c) : p = q
  <2> SUFFICES ASSUME NEW c \in Cards, NEW p \in ParentsOf(links', c),
                      NEW q \in ParentsOf(links', c)
               PROVE  p = q
    OBVIOUS
  <2>1. CASE c = t /\ k = "parent"
    BY <1>1, <2>1 DEF AddLink, ParentsOf
  <2>2. CASE c # t \/ k # "parent"
    BY <1>1, <2>2 DEF ParentsOf, OrderInv, LinksOrdered
  <2> QED
    BY <2>1, <2>2
<1>6. LinkedExist'
  BY <1>1 DEF OrderInv, LinkedExist, Exists, AddLink
<1>7. Owing' /\ ChildrenDone
  <2>1. \A c \in Cards : Calm(card[c], card'[c])
    BY <1>1 DEF Calm
  <2> QED
    BY <1>1, <2>1, CalmOwing DEF OrderInv
<1> QED
  BY <1>4, <1>5, <1>6, <1>7 DEF OrderInv, LinksOrdered

(* splitCard: the new children had no links. *)
LEMMA SplitOrder ==
  ASSUME OrderInv, IInv', NEW p \in Cards, NEW kids \in SUBSET Cards, Split(p, kids)
  PROVE  OrderInv' /\ ChildrenDone
<1> DEFINE new == {[from |-> p, to |-> k, kind |-> "parent"] : k \in kids}
<1>1. /\ links \in SUBSET Link /\ links' \in SUBSET Link /\ TypeOK
      /\ card \in [Cards -> Card] /\ links' = links \cup new
  BY DEF OrderInv, IInv, TypeOK, Split
<1>2. p \notin kids /\ \A l \in links : l.from \notin kids /\ l.to \notin kids
  BY DEF Split, Exists, OrderInv, LinkedExist
<1>3. Edges(links') = Edges(links) \cup {<<p, k>> : k \in kids}
  <2>1. \A k \in kids : [from |-> p, to |-> k, kind |-> "parent"].kind \in ORDERING
    BY DEF ORDERING
  <2>2. \A l \in new : l.kind \in ORDERING
    BY <2>1
  <2>3. Edges(new) = {<<l.from, l.to>> : l \in new}
    BY <2>2 DEF Edges
  <2>4. {<<l.from, l.to>> : l \in new} = {<<p, k>> : k \in kids}
    <3>1. ASSUME NEW k \in kids
          PROVE  \E l \in new : l.from = p /\ l.to = k
      <4> DEFINE l == [from |-> p, to |-> k, kind |-> "parent"]
      <4>1. l \in new /\ l.from = p /\ l.to = k
        OBVIOUS
      <4> QED
        BY <4>1
    <3>2. \A l \in new : l.from = p /\ l.to \in kids
      OBVIOUS
    <3> HIDE DEF new
    <3> QED
      BY <3>1, <3>2
  <2> HIDE DEF new
  <2> QED
    BY <1>1, <2>3, <2>4, EdgesUnion
<1>4. Acyclic(Cards, Edges(links'))
  <2>1. \A e \in Edges(links) : e[1] \notin kids /\ e[2] \notin kids
    BY <1>2 DEF Edges
  <2>2. Acyclic(Cards, Edges(links)) /\ Edges(links) \in SUBSET (Cards \X Cards)
    BY <1>1, EdgesType DEF OrderInv, LinksOrdered
  <2> QED
    BY <1>2, <1>3, <2>1, <2>2, FreshTargets
<1>5. \A c \in Cards : \A q, r \in ParentsOf(links', c) : q = r
  <2> SUFFICES ASSUME NEW c \in Cards, NEW q \in ParentsOf(links', c),
                      NEW r \in ParentsOf(links', c)
               PROVE  q = r
    OBVIOUS
  <2>1. CASE c \in kids
    BY <1>1, <1>2, <2>1 DEF ParentsOf
  <2>2. CASE c \notin kids
    <3>1. \A l \in new : l.to \in kids
      OBVIOUS
    <3>2. q \in ParentsOf(links, c) /\ r \in ParentsOf(links, c)
      BY <1>1, <2>2, <3>1 DEF ParentsOf
    <3> QED
      BY <3>2 DEF OrderInv, LinksOrdered
  <2> QED
    BY <2>1, <2>2
<1>6. \A c \in Cards : Calm(card[c], card'[c])
  <2> SUFFICES ASSUME NEW c \in Cards PROVE Calm(card[c], card'[c])
    OBVIOUS
  <2>1. PICK rec \in Card : rec = card[c]
    BY <1>1
  <2>2. card'[c] = [rec EXCEPT !.state = "submitted"] \/ card'[c] = rec
    BY <2>1 DEF Split
  <2> QED
    BY <2>1, <2>2 DEF Calm, Card
<1>7. LinkedExist'
  <2>1. ASSUME NEW l \in links
        PROVE  Exists(l.from)' /\ Exists(l.to)'
    BY <1>1, <1>6 DEF OrderInv, LinkedExist, Exists, Calm, Link
  <2>2. ASSUME NEW l \in new
        PROVE  Exists(l.from)' /\ Exists(l.to)'
    <3>1. Exists(p)'
      BY <1>6 DEF Split, Exists, Calm
    <3>2. \A k \in kids : Exists(k)'
      <4> SUFFICES ASSUME NEW k \in kids PROVE Exists(k)'
        OBVIOUS
      <4>1. PICK rec \in Card : rec = card[k]
        BY <1>1
      <4>2. card'[k] = [rec EXCEPT !.state = "submitted"]
        BY <4>1 DEF Split
      <4> QED
        BY <4>2 DEF Exists, Card
    <3>3. PICK k \in kids : l = [from |-> p, to |-> k, kind |-> "parent"]
      OBVIOUS
    <3> QED
      BY <3>1, <3>2, <3>3
  <2> QED
    BY <1>1, <2>1, <2>2 DEF LinkedExist
<1>8. Owing' /\ ChildrenDone
  BY <1>1, <1>6, CalmOwing DEF OrderInv
<1> QED
  BY <1>4, <1>5, <1>7, <1>8 DEF OrderInv, LinksOrdered

(* complete, on each of its routes. *)
LEMMA CompleteOrder ==
  ASSUME OrderInv, IInv', NEW r \in Runs, NEW said \in {"pass", "silent", "changes-needed"},
         NEW met \in BOOLEAN, Complete(r, said, met)
  PROVE  OrderInv' /\ ChildrenDone
<1> DEFINE c == run[r].card
           back == Returns[card[c].stage]
           order == [from |-> card[c].stage, by |-> run[r].agent, run |-> r]
<1>1. /\ card \in [Cards -> Card] /\ c \in Cards /\ run[r].agent \in Agents
      /\ links' = links
  BY DEF OrderInv, IInv, TypeOK, Complete, EndRun, Working, Started
<1>2. PICK rec \in Card : rec = card[c]
  BY <1>1
<1>3. \/ card' = [card EXCEPT ![c] = ReworkOrPark(rec)]
      \/ card' = [card EXCEPT ![c] = Park(rec, "blocked")]
      \/ card' = [card EXCEPT ![c] = Park(rec, "repeated-failure")]
      \/ /\ back # 0 /\ ~(back >= rec.stage)
         /\ card' = [card EXCEPT ![c] = [AtStage(Queue(rec), back) EXCEPT
                       !.failures = 0, !.needs = "none", !.returns = @ + 1]]
      \/ Advance(c, gates, order)
  BY <1>2 DEF Complete, RouteOutcome
<1>4. CASE Advance(c, gates, order)
  <2>1. order \in Order
    BY <1>1, <1>2 DEF Order, Card
  <2> HIDE DEF order
  <2> QED
    BY <1>1, <1>4, <2>1, AdvanceOrder
<1>5. CASE ~Advance(c, gates, order)
  <2>1. PICK row : card' = [card EXCEPT ![c] = row] /\ Calm(rec, row)
    <3>1. CASE card' = [card EXCEPT ![c] = ReworkOrPark(rec)]
      BY <3>1, ReworkOrParkCalm
    <3>2. CASE \/ card' = [card EXCEPT ![c] = Park(rec, "blocked")]
               \/ card' = [card EXCEPT ![c] = Park(rec, "repeated-failure")]
      BY <3>2, ParkCalm DEF Calm
    <3>3. CASE /\ back # 0 /\ ~(back >= rec.stage)
               /\ card' = [card EXCEPT ![c] = [AtStage(Queue(rec), back) EXCEPT
                             !.failures = 0, !.needs = "none", !.returns = @ + 1]]
      <4>1. back \in Stages
        <5>1. rec.stage \in Stages /\ back \in Nat
          BY <1>2, PipelineAssumption DEF Card
        <5> QED
          BY SMTT(60), <3>3, <5>1, PipelineAssumption DEF Stages
      <4>2. PICK base \in Card : base = AtStage(Queue(rec), back)
        BY <4>1, QueueType, AtStageType
      <4>3. base.state = "submitted" /\ base.deferred = rec.deferred
        BY <4>2, QueueType, QueueCalm, AtStageCalm
      <4> DEFINE row == [base EXCEPT !.failures = 0, !.needs = "none", !.returns = @ + 1]
      <4>4. Calm(rec, row)
        BY <4>3 DEF Calm, Card
      <4> QED
        BY <3>3, <4>2, <4>4
    <3> QED
      BY <1>3, <1>5, <3>1, <3>2, <3>3
  <2> QED
    BY <1>1, <1>2, <2>1, OneRowCalm, CalmOrder
<1> QED
  BY <1>4, <1>5

(* A decision about a review. *)
LEMMA DecisionOrder ==
  ASSUME OrderInv, IInv', NEW g \in gates, NEW p \in People,
         Approve(g, p) \/ RequestChanges(g, p) \/ Reject(g, p)
  PROVE  OrderInv' /\ ChildrenDone
<1> DEFINE c == g.card
<1>1. /\ card \in [Cards -> Card] /\ g \in Gate /\ links' = links
  BY DEF OrderInv, IInv, TypeOK, Approve, RequestChanges, Reject
<1>2. /\ c \in Cards /\ g.stage \in Stages /\ g.back \in Stages /\ g.run \in Runs
  BY <1>1 DEF Gate
<1>3. PICK rec \in Card : rec = card[c]
  BY <1>1, <1>2
<1>4. CASE Approve(g, p)
  <2> DEFINE order == [from |-> g.stage, by |-> p, run |-> g.run]
  <2>1. order \in Order
    BY <1>2 DEF Order
  <2>2. Advance(c, gates \ {g}, order)
    BY <1>4 DEF Approve
  <2> HIDE DEF order
  <2> QED
    BY <1>1, <1>2, <2>1, <2>2, AdvanceOrder
<1>5. CASE RequestChanges(g, p)
  <2>1. PICK base \in Card : base = AtStage(Queue(rec), g.back)
    BY <1>2, QueueType, AtStageType
  <2>2. base.state = "submitted" /\ base.deferred = rec.deferred
    BY <1>2, <2>1, QueueType, QueueCalm, AtStageCalm
  <2> DEFINE row == [base EXCEPT !.failures = 0, !.returns = 0]
  <2>3. card' = [card EXCEPT ![c] = row]
    BY <1>3, <1>5, <2>1 DEF RequestChanges
  <2>4. Calm(rec, row)
    BY <2>2 DEF Calm, Card
  <2> HIDE DEF row
  <2> QED
    BY <1>1, <1>2, <1>3, <2>3, <2>4, OneRowCalm, CalmOrder
<1>6. CASE Reject(g, p)
  <2>1. PICK base \in Card : base = Free(rec)
    BY FreeType
  <2>2. base.deferred = rec.deferred
    BY <2>1 DEF Free, Card
  <2> DEFINE row == [base EXCEPT !.state = "rejected"]
  <2>3. card' = [card EXCEPT ![c] = row]
    BY <1>3, <1>6, <2>1 DEF Reject
  <2>4. Calm(rec, row)
    BY <2>2 DEF Calm, Card
  <2> HIDE DEF row
  <2> QED
    BY <1>1, <1>2, <1>3, <2>3, <2>4, OneRowCalm, CalmOrder
<1> QED
  BY <1>4, <1>5, <1>6

-----------------------------------------------------------------------------
(* The theorems.                                                           *)

(* The empty board has nothing to order. *)
LEMMA OrderInit == Init => OrderInv
<1> SUFFICES ASSUME Init PROVE OrderInv
  OBVIOUS
<1>1. IInv /\ links = {} /\ \A c \in Cards : card[c].deferred = None
  BY InitStep DEF Init, NoCard
<1>2. Edges(links) = {}
  BY <1>1 DEF Edges
<1>3. LinksOrdered
  BY <1>1, <1>2 DEF LinksOrdered, Acyclic, ParentsOf
<1>4. Owing /\ LinkedExist
  BY <1>1 DEF Owing, DeferredHeld, CompletedOwesNothing, LinkedExist
<1> QED
  BY <1>1, <1>3, <1>4 DEF OrderInv

(* Every step keeps the order, and completes parents after children. *)
LEMMA OrderNext == OrderInv /\ [Next]_vars => OrderInv' /\ (Next => ChildrenDone)
<1> SUFFICES ASSUME OrderInv, [Next]_vars
             PROVE  OrderInv' /\ (Next => ChildrenDone)
  OBVIOUS
<1>1. IInv' /\ TypeOK
  BY NextStep DEF OrderInv, IInv
<1>2. CASE UNCHANGED vars
  <2>1. links' = links /\ \A c \in Cards : Calm(card[c], card'[c])
    BY <1>2 DEF vars, Calm
  <2> QED
    BY <1>1, <2>1, CalmOrder
<1>3. CASE CardNext
  <2>1. ASSUME NEW c \in Cards, NEW s \in Stages,
               \/ CreateCard(c, s) \/ ResumeCard(c, s)
               \/ MoveCard(c, s) /\ ~CompletesOnArrival(s)
        PROVE  OrderInv' /\ ChildrenDone
    BY <1>1, <2>1, CalmCardActions, CalmOrder
  <2>2. ASSUME NEW c \in Cards, Archive(c) \/ Unarchive(c)
        PROVE  OrderInv' /\ ChildrenDone
    <3>1. 1 \in Stages
      BY PipelineAssumption DEF Stages
    <3> QED
      BY <1>1, <2>2, <3>1, CalmCardActions, CalmOrder
  <2>3. ASSUME NEW c \in Cards, NEW s \in Stages, MoveCard(c, s), CompletesOnArrival(s)
        PROVE  OrderInv' /\ ChildrenDone
    BY <1>1, <2>3, MoveDoneOrder
  <2> QED
    BY <1>1, <1>3, <2>1, <2>2, <2>3, SplitOrder, AddLinkOrder, RemoveLinkOrder,
       DeleteCardOrder DEF CardNext
<1>4. CASE LeaseNext
  BY <1>1, <1>4, CalmLeaseActions, CalmOrder
<1>5. CASE RunNext
  <2>1. PICK r \in Runs :
          \/ \E state \in {"input-required", "auth-required"} : Ask(r, state)
          \/ AnswerLive(r)
          \/ AnswerParked(r)
          \/ \E said \in {"pass", "silent", "changes-needed"}, met \in BOOLEAN :
               Complete(r, said, met)
          \/ AskAndStop(r) \/ SubmitForReview(r) \/ Block(r) \/ Fail(r) \/ Release(r)
    BY <1>5 DEF RunNext
  <2>2. CASE \E said \in {"pass", "silent", "changes-needed"}, met \in BOOLEAN :
               Complete(r, said, met)
    BY <1>1, <2>2, CompleteOrder
  <2>3. CASE ~\E said \in {"pass", "silent", "changes-needed"}, met \in BOOLEAN :
               Complete(r, said, met)
    <3>1. links' = links /\ \A d \in Cards : Calm(card[d], card'[d])
      BY <1>1, <2>1, <2>3, CalmRunActions
    <3> QED
      BY <1>1, <3>1, CalmOrder
  <2> QED
    BY <2>2, <2>3
<1>6. CASE GateNext
  BY <1>1, <1>6, DecisionOrder DEF GateNext
<1> QED
  BY <1>2, <1>3, <1>4, <1>5, <1>6 DEF Next

(* No sequence of calls closes a cycle of ordering links or gives a card a *)
(* second parent.                                                          *)
THEOREM LinksCorrect == Spec => []LinksOrdered
<1>1. OrderInv => LinksOrdered
  BY DEF OrderInv
<1> QED
  BY <1>1, OrderInit, OrderNext, PTL DEF Spec

(* Where all ordering links are of one kind, no cards wait on each other:  *)
(* a mutual hold needs a parent link and a blocks link that meet.  This is *)
(* the promise of the cycle check of links.ts that it does keep.           *)
THEOREM HoldNeedsBothKinds ==
  ASSUME IsFiniteSet(Cards)
  PROVE  Spec => []((\A l, m \in links : l.kind = m.kind) => NoMutualHold)
<1> DEFINE OneKind == \A l, m \in links : l.kind = m.kind
<1>1. OrderInv /\ OneKind => NoMutualHold
  <2> SUFFICES ASSUME OrderInv, OneKind,
                      NEW S \in SUBSET Cards, S # {}
               PROVE  \E c \in S : (OpenBlockers(c) \cup OpenChildren(card, links, c))
                                     \cap S = {}
    BY DEF NoMutualHold
  <2>1. links \in SUBSET Link /\ Acyclic(Cards, Edges(links))
    BY DEF OrderInv, IInv, TypeOK, LinksOrdered
  <2>2. Edges(links) \in SUBSET (Cards \X Cards)
    BY <2>1, EdgesType
  <2>3. /\ \E x \in S : \A y \in S : <<x, y>> \notin Edges(links)
        /\ \E x \in S : \A y \in S : <<y, x>> \notin Edges(links)
    <3> HIDE DEF OneKind
    <3> QED
      BY <2>1, <2>2, ComesToAnEnd
  <2>4. \A x, y \in Cards, k \in ORDERING :
          [from |-> x, to |-> y, kind |-> k] \in links => <<x, y>> \in Edges(links)
    <3> SUFFICES ASSUME NEW x \in Cards, NEW y \in Cards, NEW k \in ORDERING,
                        [from |-> x, to |-> y, kind |-> k] \in links
                 PROVE  <<x, y>> \in Edges(links)
      OBVIOUS
    <3> DEFINE l == [from |-> x, to |-> y, kind |-> k]
    <3>1. l \in {m \in links : m.kind \in ORDERING} /\ l.from = x /\ l.to = y
      OBVIOUS
    <3> HIDE DEF l
    <3> QED
      BY <3>1 DEF Edges
  <2>5. CASE \E l \in links : l.kind = "parent"
    <3>1. PICK x \in S : \A y \in S : <<x, y>> \notin Edges(links)
      BY <2>3
    <3>2. OpenBlockers(x) = {}
      <4>1. \A l \in links : l.kind # "blocks"
        BY <2>5
      <4> QED
        BY <4>1 DEF OpenBlockers
    <3>3. OpenChildren(card, links, x) \cap S = {}
      BY <2>4, <3>1 DEF OpenChildren, ORDERING
    <3> QED
      BY <3>2, <3>3
  <2>6. CASE \A l \in links : l.kind # "parent"
    <3>1. PICK x \in S : \A y \in S : <<y, x>> \notin Edges(links)
      BY <2>3
    <3>2. OpenChildren(card, links, x) = {}
      BY <2>6 DEF OpenChildren
    <3>3. OpenBlockers(x) \cap S = {}
      BY <2>4, <3>1 DEF OpenBlockers, ORDERING
    <3> QED
      BY <3>2, <3>3
  <2> QED
    BY <2>5, <2>6
<1> HIDE DEF OneKind
<1>2. OrderInv => (OneKind => NoMutualHold)
  BY <1>1
<1>3. Spec => [](OneKind => NoMutualHold)
  BY <1>2, OrderInit, OrderNext, PTL DEF Spec
<1> QED
  BY <1>3 DEF OneKind

(* A parent owes an advance only while a child of it is open. *)
THEOREM DeferredCorrect == Spec => []DeferredHeld
<1>1. OrderInv => DeferredHeld
  BY DEF OrderInv, Owing
<1> QED
  BY <1>1, OrderInit, OrderNext, PTL DEF Spec

(* A card completes only after every child it has, whoever completes it. *)
THEOREM CompletionCorrect == Spec => ParentAfterChildren
<1> DEFINE A == \A c \in Cards :
                  card[c].state # "completed" /\ card'[c].state = "completed" =>
                    \A l \in links' : l.from = c /\ l.kind = "parent" =>
                      card'[l.to].state = "completed"
<1>1. OrderInv /\ [Next]_vars => [A]_vars
  <2> SUFFICES ASSUME OrderInv, [Next]_vars PROVE A \/ UNCHANGED vars
    OBVIOUS
  <2> QED
    BY OrderNext DEF ChildrenDone
<1>2. ParentAfterChildren <=> [][A]_vars
  BY DEF ParentAfterChildren
<1> HIDE DEF A
<1> QED
  BY <1>1, <1>2, OrderInit, OrderNext, PTL DEF Spec

-----------------------------------------------------------------------------
(* The walk of wouldCycle.  While it goes on, what has been seen is        *)
(* reached from the candidate's target and does not hold its source, and   *)
(* an edge that leaves what has been seen leads to it or into the queue:   *)
(* once the queue is empty, what has been seen is closed.                  *)

Lined(q) == {q[i] : i \in 1 .. Len(q)}

Target == search.candidate.to
Source == search.candidate.from
Ways == Edges(search.links)

Walking ==
  /\ search.candidate.kind \in ORDERING
  /\ Target \in seenNodes \cup Lined(queue)
  /\ seenNodes \cup Lined(queue) \subseteq ReachedFrom(SearchCards, Ways, Target)
  /\ Source \notin seenNodes
  /\ \A e \in Ways : e[1] \in seenNodes => e[2] \in seenNodes \cup Lined(queue)

SearchInv ==
  /\ queue \in Seq(SearchCards) /\ seenNodes \subseteq SearchCards
  /\ search = NoSearch => verdict = "none" /\ seenNodes = {}
  /\ search # NoSearch =>
       /\ search.links \subseteq LinkRow /\ IsFiniteSet(search.links)
       /\ search.candidate \in LinkRow
       /\ verdict = "none" => Walking
       /\ verdict # "none" => SearchRight

(* Who waits in a queue. *)
LEMMA WaitsHead ==
  ASSUME NEW S, NEW q \in Seq(S), q # <<>>
  PROVE  /\ Head(q) \in S /\ Tail(q) \in Seq(S)
         /\ Lined(q) = {Head(q)} \cup Lined(Tail(q))
<1>1. Head(q) = q[1] /\ Tail(q) \in Seq(S) /\ Len(q) \in Nat \ {0}
  OBVIOUS
<1>2. Len(Tail(q)) = Len(q) - 1 /\ \A i \in 1 .. Len(q) - 1 : Tail(q)[i] = q[i + 1]
  OBVIOUS
<1>3. ASSUME NEW i \in 1 .. Len(q)
      PROVE  q[i] \in {Head(q)} \cup Lined(Tail(q))
  <2>1. CASE i = 1
    BY <1>1, <2>1
  <2>2. CASE i # 1
    <3>1. i - 1 \in 1 .. Len(q) - 1 /\ (i - 1) + 1 = i
      BY <1>1, <2>2
    <3>2. Tail(q)[i - 1] = q[i]
      BY <1>2, <3>1
    <3> QED
      BY <1>2, <3>1, <3>2 DEF Lined
  <2> QED
    BY <2>1, <2>2
<1>4. ASSUME NEW i \in 1 .. Len(q) - 1
      PROVE  Tail(q)[i] \in Lined(q)
  <2>1. i + 1 \in 1 .. Len(q)
    BY <1>1
  <2> QED
    BY <1>2, <2>1 DEF Lined
<1>5. Head(q) \in Lined(q)
  BY <1>1 DEF Lined
<1> QED
  BY <1>1, <1>2, <1>3, <1>4, <1>5 DEF Lined

(* Who waits when others join. *)
LEMMA WaitsJoin ==
  ASSUME NEW S, NEW p \in Seq(S), NEW q \in Seq(S)
  PROVE  p \o q \in Seq(S) /\ Lined(p \o q) = Lined(p) \cup Lined(q)
<1>1. /\ Len(p) \in Nat /\ Len(q) \in Nat /\ p \o q \in Seq(S)
      /\ Len(p \o q) = Len(p) + Len(q)
      /\ \A i \in 1 .. Len(p) + Len(q) :
           (p \o q)[i] = IF i <= Len(p) THEN p[i] ELSE q[i - Len(p)]
  OBVIOUS
<1>2. ASSUME NEW i \in 1 .. Len(p) + Len(q)
      PROVE  (p \o q)[i] \in Lined(p) \cup Lined(q)
  <2>1. CASE i <= Len(p)
    BY <1>1, <2>1 DEF Lined
  <2>2. CASE ~(i <= Len(p))
    <3>1. i - Len(p) \in 1 .. Len(q)
      BY <1>1, <2>2
    <3> QED
      BY <1>1, <2>2, <3>1 DEF Lined
  <2> QED
    BY <2>1, <2>2
<1>3. ASSUME NEW i \in 1 .. Len(p)
      PROVE  p[i] \in Lined(p \o q)
  <2>1. i \in 1 .. Len(p) + Len(q) /\ i <= Len(p)
    BY <1>1
  <2>2. (p \o q)[i] = p[i]
    BY <1>1, <2>1
  <2> QED
    BY <1>1, <2>1, <2>2 DEF Lined
<1>4. ASSUME NEW i \in 1 .. Len(q)
      PROVE  q[i] \in Lined(p \o q)
  <2>1. Len(p) + i \in 1 .. Len(p) + Len(q) /\ ~(Len(p) + i <= Len(p)) /\ (Len(p) + i) - Len(p) = i
    BY <1>1
  <2>2. (p \o q)[Len(p) + i] = q[i]
    BY <1>1, <2>1
  <2> QED
    BY <1>1, <2>1, <2>2 DEF Lined
<1> QED
  BY <1>1, <1>2, <1>3, <1>4 DEF Lined

(* What is pushed when a card is visited is where its edges lead.          *)
LEMMA TargetsOf ==
  ASSUME search.links \subseteq LinkRow, IsFiniteSet(search.links),
         NEW node \in SearchCards, NEW next \in Targets(node)
  PROVE  /\ next \in Seq(SearchCards)
         /\ Lined(next) = {y \in SearchCards : <<node, y>> \in Ways}
<1> DEFINE out == {l \in search.links : l.kind \in ORDERING /\ l.from = node}
           n == Cardinality(out)
<1>1. PICK f \in [1 .. n -> out] : /\ {f[i] : i \in DOMAIN f} = out
                                  /\ next = [i \in DOMAIN f |-> f[i].to]
  BY DEF Targets
<1>2. \A l \in out : l.to \in SearchCards /\ l.from = node /\ l.kind \in ORDERING
  BY DEF LinkRow
<1>3. \A y : <<node, y>> \in Ways <=> \E l \in out : l.to = y
  BY DEF Ways, Edges
<1>4. next \in [1 .. n -> SearchCards] /\ \A i \in 1 .. n : next[i] = f[i].to
  BY <1>1, <1>2
<1>5. n \in Nat
  <2>1. IsFiniteSet(out)
    BY FS_Subset
  <2> QED
    BY <2>1, FS_CardinalityType
<1> HIDE DEF out, n
<1>6. {next[i] : i \in 1 .. n} = {y \in SearchCards : <<node, y>> \in Ways}
  <2>1. DOMAIN f = 1 .. n
    BY <1>1
  <2>2. ASSUME NEW i \in 1 .. n
        PROVE  next[i] \in SearchCards /\ <<node, next[i]>> \in Ways
    BY <1>1, <1>2, <1>3, <1>4, <2>2
  <2>3. ASSUME NEW y \in SearchCards, <<node, y>> \in Ways
        PROVE  \E i \in 1 .. n : next[i] = y
    <3>1. PICK l \in out : l.to = y
      BY <1>3, <2>3
    <3>2. PICK i \in 1 .. n : f[i] = l
      BY <1>1, <2>1
    <3> QED
      BY <1>4, <3>1, <3>2
  <2> QED
    BY <2>2, <2>3
<1>7. next \in Seq(SearchCards) /\ Len(next) = n
  BY <1>4, <1>5
<1> QED
  BY <1>6, <1>7 DEF Lined

(* An edge of the board leads from a card to a card.                       *)
LEMMA WaysType ==
  ASSUME search.links \subseteq LinkRow
  PROVE  Ways \in SUBSET (SearchCards \X SearchCards)
BY DEF Ways, Edges, LinkRow

(* A step of the walk that goes on: what has been seen and what waits      *)
(* still cover the target and every edge that leaves what has been seen.   *)
LEMMA WalksOn ==
  ASSUME SearchInv, Searching, search' = search, verdict' = verdict,
         seenNodes' \subseteq SearchCards, queue' \in Seq(SearchCards),
         Source \notin seenNodes',
         Target \in seenNodes' \cup Lined(queue'),
         seenNodes' \cup Lined(queue') \subseteq ReachedFrom(SearchCards, Ways, Target),
         \A e \in Ways : e[1] \in seenNodes' => e[2] \in seenNodes' \cup Lined(queue')
  PROVE  SearchInv'
<1>1. Target' = Target /\ Source' = Source /\ Ways' = Ways
  BY DEF Target, Source, Ways
<1>2. Walking'
  BY <1>1 DEF SearchInv, Searching, Walking
<1> QED
  BY <1>2 DEF SearchInv, Searching

(* The call: nothing is seen and the target waits. *)
LEMMA StartStep ==
  ASSUME SearchInv, StartSearch
  PROVE  SearchInv'
<1>1. PICK L \in LinkSets, candidate \in Candidates :
        /\ search' = [links |-> L, candidate |-> candidate]
        /\ queue' = <<candidate.to>>
        /\ verdict' = IF candidate.kind \notin ORDERING THEN "free"
                      ELSE IF candidate.from = candidate.to THEN "cycle" ELSE "none"
        /\ seenNodes' = {} /\ search' # NoSearch
  BY SearchAssumption DEF StartSearch, SearchInv
<1>2. /\ L \subseteq LinkRow /\ IsFiniteSet(L) /\ candidate \in LinkRow
      /\ search'.links = L /\ search'.candidate = candidate
      /\ candidate.to \in SearchCards /\ candidate.from \in SearchCards
  BY <1>1, SearchAssumption DEF LinkRow
<1>3. queue' \in Seq(SearchCards) /\ Lined(queue') = {candidate.to}
  BY <1>1, <1>2 DEF Lined
<1>4. Edges(L) \in SUBSET (SearchCards \X SearchCards)
  BY <1>2 DEF Edges, LinkRow
<1>5. CASE verdict' = "none"
  <2>1. candidate.kind \in ORDERING /\ candidate.from # candidate.to
    BY <1>1, <1>5
  <2>2. candidate.to \in ReachedFrom(SearchCards, Edges(L), candidate.to)
    BY <1>2, <1>4, ReachedClosed
  <2>3. Walking'
    BY <1>1, <1>2, <1>3, <2>1, <2>2 DEF Walking, Target, Source, Ways
  <2> QED
    BY <1>1, <1>2, <1>3, <1>5, <2>3 DEF SearchInv
<1>6. CASE verdict' # "none"
  <2>1. \A x : Reaches(SearchCards, Edges(L), x, x)
    BY DEF Reaches
  <2>2. WouldCycle(SearchCards, L, candidate) <=> verdict' = "cycle"
    BY <1>1, <1>6, <2>1 DEF WouldCycle
  <2>3. SearchRight'
    BY <1>2, <2>2 DEF SearchRight
  <2> QED
    BY <1>1, <1>2, <1>3, <1>6, <2>3 DEF SearchInv
<1> QED
  BY <1>5, <1>6

(* The source waits: it is reached from the target.                        *)
LEMMA ReachSourceStep ==
  ASSUME SearchInv, ReachSource
  PROVE  SearchInv'
<1>1. /\ Walking /\ search # NoSearch /\ queue \in Seq(SearchCards) /\ queue # <<>>
      /\ Head(queue) = Source
      /\ search' = search /\ seenNodes' = seenNodes /\ verdict' = "cycle"
      /\ queue' = Tail(queue)
  BY DEF SearchInv, ReachSource, Searching, Source
<1>2. Source \in Lined(queue) /\ queue' \in Seq(SearchCards)
  BY <1>1, WaitsHead
<1>3. Reaches(SearchCards, Ways, Target, Source)
  BY <1>1, <1>2 DEF Walking, ReachedFrom
<1>4. WouldCycle(SearchCards, search.links, search.candidate)
  BY <1>1, <1>3 DEF Walking, WouldCycle, Ways, Target, Source
<1>5. SearchRight'
  BY <1>1, <1>4 DEF SearchRight
<1> QED
  BY <1>1, <1>2, <1>5 DEF SearchInv

(* A card seen before adds nothing. *)
LEMMA PassOverStep ==
  ASSUME SearchInv, PassOver
  PROVE  SearchInv'
<1>1. /\ Walking /\ Searching /\ queue \in Seq(SearchCards) /\ queue # <<>>
      /\ Head(queue) \in seenNodes /\ seenNodes \subseteq SearchCards
      /\ search' = search /\ seenNodes' = seenNodes /\ verdict' = verdict
      /\ queue' = Tail(queue)
  BY DEF SearchInv, PassOver, Searching
<1>2. queue' \in Seq(SearchCards) /\ seenNodes \cup Lined(queue') = seenNodes \cup Lined(queue)
  BY <1>1, WaitsHead
<1> QED
  BY <1>1, <1>2, WalksOn DEF Walking

(* A new card is seen, and its targets wait. *)
LEMMA VisitStep ==
  ASSUME SearchInv, VisitNode
  PROVE  SearchInv'
<1>1. PICK node : node = Head(queue)
  OBVIOUS
<1>2. /\ Walking /\ Searching /\ queue \in Seq(SearchCards) /\ queue # <<>>
      /\ search.links \subseteq LinkRow /\ IsFiniteSet(search.links)
      /\ search.candidate \in LinkRow
      /\ node # Source /\ seenNodes \subseteq SearchCards
      /\ search' = search /\ seenNodes' = seenNodes \cup {node} /\ verdict' = verdict
  BY <1>1 DEF SearchInv, VisitNode, Searching, Source
<1>3. PICK next \in Targets(node) : queue' = Tail(queue) \o next
  BY <1>1 DEF VisitNode
<1>4. node \in SearchCards /\ Tail(queue) \in Seq(SearchCards)
      /\ Lined(queue) = {node} \cup Lined(Tail(queue))
  BY <1>1, <1>2, WaitsHead
<1>5. /\ next \in Seq(SearchCards)
      /\ Lined(next) = {y \in SearchCards : <<node, y>> \in Ways}
  BY <1>2, <1>4, TargetsOf
<1>6. /\ queue' \in Seq(SearchCards)
      /\ Lined(queue') = Lined(Tail(queue)) \cup Lined(next)
  <2>1. PICK rest \in Seq(SearchCards) : rest = Tail(queue)
    BY <1>4
  <2>2. rest \o next \in Seq(SearchCards) /\ Lined(rest \o next) = Lined(rest) \cup Lined(next)
    BY SMTT(30), <1>5, WaitsJoin
  <2>3. queue' = rest \o next
    BY <1>3, <2>1
  <2> QED
    BY Zenon, <2>1, <2>2, <2>3
<1>7. Ways \in SUBSET (SearchCards \X SearchCards) /\ Target \in SearchCards
  BY <1>2, WaysType DEF LinkRow, Target
<1>8. ClosedUnder(Ways, ReachedFrom(SearchCards, Ways, Target))
  BY <1>7, ReachedClosed
<1>9. Lined(next) \subseteq ReachedFrom(SearchCards, Ways, Target)
  <2>1. node \in ReachedFrom(SearchCards, Ways, Target)
    BY <1>2, <1>4 DEF Walking
  <2> QED
    BY <1>5, <1>8, <2>1 DEF ClosedUnder
<1>10. seenNodes' \cup Lined(queue') \subseteq ReachedFrom(SearchCards, Ways, Target)
  BY <1>2, <1>4, <1>6, <1>9 DEF Walking
<1>11. ASSUME NEW e \in Ways, e[1] \in seenNodes'
       PROVE  e[2] \in seenNodes' \cup Lined(queue')
  <2>1. e = <<e[1], e[2]>> /\ e[2] \in SearchCards
    BY <1>7
  <2>2. CASE e[1] = node
    BY <1>5, <1>6, <2>1, <2>2
  <2>3. CASE e[1] \in seenNodes
    BY <1>2, <1>4, <1>6, <2>3 DEF Walking
  <2> QED
    BY <1>2, <1>11, <2>2, <2>3
<1>12. Target \in seenNodes' \cup Lined(queue') /\ Source \notin seenNodes'
  BY <1>2, <1>4, <1>6 DEF Walking
<1> QED
  BY <1>2, <1>4, <1>6, <1>10, <1>11, <1>12, WalksOn

(* Nobody waits: what has been seen separates the target from the source.  *)
LEMMA RunDryStep ==
  ASSUME SearchInv, RunDry
  PROVE  SearchInv'
<1>1. /\ Walking /\ search # NoSearch /\ queue \in Seq(SearchCards)
      /\ seenNodes \in SUBSET SearchCards
      /\ search' = search /\ seenNodes' = seenNodes /\ queue' = queue /\ verdict' = "free"
  BY DEF SearchInv, RunDry, Searching
<1>2. Lined(queue) = {}
  BY DEF RunDry, Lined
<1>3. Target \in seenNodes /\ ClosedUnder(Ways, seenNodes) /\ Source \notin seenNodes
  BY <1>1, <1>2 DEF Walking, ClosedUnder
<1>4. ~Reaches(SearchCards, Ways, Target, Source)
  BY <1>1, <1>3, Separated
<1>5. ~WouldCycle(SearchCards, search.links, search.candidate)
  BY <1>4 DEF WouldCycle, Ways, Target, Source
<1>6. SearchRight'
  BY <1>1, <1>5 DEF SearchRight
<1> QED
  BY <1>1, <1>6 DEF SearchInv

(* The walk of wouldCycle is right for every board and every candidate, in *)
(* whatever order the links are read, on boards that already hold a loop   *)
(* too.                                                                    *)
THEOREM SearchCorrect == SearchSpec => []SearchRight
<1>1. SearchInit => SearchInv
  BY DEF SearchInit, SearchInv
<1>2. SearchInv /\ [SearchNext]_searchVars => SearchInv'
  <2> SUFFICES ASSUME SearchInv, [SearchNext]_searchVars PROVE SearchInv'
    OBVIOUS
  <2>1. CASE UNCHANGED searchVars
    BY <2>1 DEF searchVars, SearchInv, Walking, Target, Source, Ways, SearchRight
  <2> QED
    BY <2>1, StartStep, ReachSourceStep, PassOverStep, VisitStep, RunDryStep DEF SearchNext
<1>3. SearchInv => SearchRight
  BY DEF SearchInv, SearchRight
<1> QED
  BY <1>1, <1>2, <1>3, PTL DEF SearchSpec

=============================================================================
