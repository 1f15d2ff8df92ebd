------------------------------ MODULE MCBoard ------------------------------
(***************************************************************************)
(* Small boards for TLC.  The .cfg files pick a pipeline and its sizes.    *)
(***************************************************************************)
EXTENDS Board, SequencesExt

(* Four stages: work (1), a judge that returns to work (2), review by      *)
(* people (3), done (4).                                                   *)
LongAgentStages == {1, 2}
LongGateStages == {3}
LongReturns == [s \in 1 .. 4 |-> IF s = 2 THEN 1 ELSE 0]
LongLimits == [s \in 1 .. 4 |-> 0]

(* Three stages: work (1), review by people (2), done (3). *)
ReviewedAgentStages == {1}
ReviewedGateStages == {2}
ReviewedReturns == [s \in 1 .. 3 |-> 0]
ReviewedLimits == [s \in 1 .. 3 |-> 0]

(* Two stages: work (1), done (2): the shortest pipeline a cascade of      *)
(* parents can run through.                                                *)
ShortAgentStages == {1}
ShortGateStages == {}
ShortReturns == [s \in 1 .. 2 |-> 0]
ShortLimits == [s \in 1 .. 2 |-> 0]
OneAtWork == [s \in 1 .. 2 |-> IF s = 1 THEN 1 ELSE 0]

AllCanWork == [a \in Agents |-> AgentStages]

(* Families of cards: every step on cards and links but archiving, and of  *)
(* the runs only what lets a card advance, so that three generations fit.  *)
FamilyNext ==
  \/ \E c \in Cards : CreateCard(c, 1) \/ DeleteCard(c)
  \/ \E c \in Cards, s \in Stages : MoveCard(c, s) \/ ResumeCard(c, s)
  \/ \E p \in Cards, kids \in SUBSET Cards : Split(p, kids)
  \/ \E f, t \in Cards, k \in ORDERING : AddLink(f, t, k)
  \/ \E l \in Link : RemoveLink(l)
  \/ \E a \in Agents, c \in Cards, r \in Runs : Claim(a, c, r)
  \/ \E r \in Runs : Complete(r, "pass", TRUE) \/ AskAndStop(r) \/ AnswerParked(r)
  \/ GateNext

FamilySpec == Init /\ [][FamilyNext]_vars

Symmetry == Permutations(Cards) \cup Permutations(Runs) \cup Permutations(Agents)
              \cup Permutations(People)
=============================================================================
