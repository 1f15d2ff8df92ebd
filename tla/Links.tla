------------------------------- MODULE Links -------------------------------
(***************************************************************************)
(* The graph of card links and the rule that keeps it free of cycles       *)
(* (apps/api/src/board/links.ts).  A link is a record [from, to, kind].    *)
(* The board orders work along two kinds only, "blocks" and "parent"; the  *)
(* other two, "relates" and "supersedes", order nothing.  Everything here  *)
(* is a pure operator: Board.tla keeps the links as state, Search.tla runs *)
(* the search of the code, which WouldCycle stands for.                    *)
(***************************************************************************)
EXTENDS FiniteSets

(* The kinds that impose an order (links.ts, ORDERING). *)
ORDERING == {"blocks", "parent"}

(* The edges the code searches: both ordering kinds, each from "from" to   *)
(* "to", as one graph.                                                     *)
Edges(links) == {<<l.from, l.to>> : l \in {m \in links : m.kind \in ORDERING}}

ClosedUnder(E, S) == \A e \in E : e[1] \in S => e[2] \in S

(* y is reached from x along zero or more edges of E: every set of nodes   *)
(* that holds x and loses nobody along an edge holds y.                    *)
Reaches(N, E, x, y) ==
  \A S \in SUBSET N : x \in S /\ ClosedUnder(E, S) => y \in S

(* No edge lies on a cycle. *)
Acyclic(N, E) == \A e \in E : ~Reaches(N, E, e[2], e[1])

(* Only links of the candidate's kind would be followed. *)
WouldCycleByKind_bug(N, links, cand) ==
  /\ cand.kind \in ORDERING
  /\ Reaches(N, Edges({l \in links : l.kind = cand.kind}), cand.to, cand.from)

(* wouldCycle(links, candidate): an ordering candidate closes a loop when  *)
(* its source can already be reached from its target, or is its target.    *)
WouldCycle(N, links, cand) ==
  /\ cand.kind \in ORDERING
  /\ Reaches(N, Edges(links), cand.to, cand.from)

=============================================================================
