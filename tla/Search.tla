------------------------------- MODULE Search -------------------------------
(***************************************************************************)
(* The walk by which wouldCycle (apps/api/src/board/links.ts) finds out    *)
(* whether a new link would close a loop: breadth first from the           *)
(* candidate's target, with a set of the cards seen, over links that may   *)
(* already hold a loop.  One call; every step is one turn of its while     *)
(* loop.                                                                   *)
(***************************************************************************)
EXTENDS Links, Naturals, Sequences

CONSTANTS
  SearchCards,
  LinkSets, Candidates,   \* bounds: the boards and the links asked about
  NoSearch

LinkRow == [from : SearchCards, to : SearchCards,
            kind : ORDERING \cup {"relates", "supersedes"}]

ASSUME SearchAssumption ==
  /\ LinkSets \subseteq SUBSET LinkRow /\ \A L \in LinkSets : IsFiniteSet(L)
  /\ Candidates \subseteq LinkRow
  /\ NoSearch \notin [links : LinkSets, candidate : Candidates]

VARIABLES
  search,     \* the call's arguments: the board's links and the candidate
  queue,      \* cards to visit
  seenNodes,
  verdict     \* what the call returned: "cycle" or "free"

searchVars == <<search, queue, seenNodes, verdict>>

SearchInit ==
  /\ search = NoSearch
  /\ queue = <<>>
  /\ seenNodes = {}
  /\ verdict = "none"

(* The call and its early returns. *)
StartSearch ==
  /\ search = NoSearch
  /\ \E L \in LinkSets, candidate \in Candidates :
       /\ search' = [links |-> L, candidate |-> candidate]
       /\ queue' = <<candidate.to>>
       /\ verdict' = IF candidate.kind \notin ORDERING THEN "free"
                     ELSE IF candidate.from = candidate.to THEN "cycle" ELSE "none"
  /\ UNCHANGED seenNodes

Searching == search # NoSearch /\ verdict = "none"

(* The targets of a card's ordering links, in the order of the rows: any.  *)
Targets(node) ==
  LET out == {l \in search.links : l.kind \in ORDERING /\ l.from = node}
      rows == {f \in [1 .. Cardinality(out) -> out] : {f[i] : i \in DOMAIN f} = out}
  IN  {[i \in DOMAIN f |-> f[i].to] : f \in rows}

ReachSource ==
  /\ Searching /\ queue # <<>>
  /\ Head(queue) = search.candidate.from
  /\ queue' = Tail(queue)
  /\ verdict' = "cycle"
  /\ UNCHANGED <<search, seenNodes>>

PassOver ==
  /\ Searching /\ queue # <<>>
  /\ Head(queue) # search.candidate.from
  /\ Head(queue) \in seenNodes
  /\ queue' = Tail(queue)
  /\ UNCHANGED <<search, seenNodes, verdict>>

(* The targets would replace the queue instead of joining it. *)
VisitNode_bug ==
  /\ Searching /\ queue # <<>>
  /\ Head(queue) # search.candidate.from
  /\ Head(queue) \notin seenNodes
  /\ seenNodes' = seenNodes \cup {Head(queue)}
  /\ queue' \in Targets(Head(queue))
  /\ UNCHANGED <<search, verdict>>

VisitNode ==
  /\ Searching /\ queue # <<>>
  /\ Head(queue) # search.candidate.from
  /\ Head(queue) \notin seenNodes
  /\ seenNodes' = seenNodes \cup {Head(queue)}
  /\ \E next \in Targets(Head(queue)) : queue' = Tail(queue) \o next
  /\ UNCHANGED <<search, verdict>>

RunDry ==
  /\ Searching /\ queue = <<>>
  /\ verdict' = "free"
  /\ UNCHANGED <<search, queue, seenNodes>>

SearchNext == StartSearch \/ ReachSource \/ PassOver \/ VisitNode \/ RunDry

SearchSpec == SearchInit /\ [][SearchNext]_searchVars

-----------------------------------------------------------------------------
(* What the walk returns is what WouldCycle says, also on a board whose    *)
(* links already hold a loop: a cycle is refused, and nothing else is      *)
(* (wouldCycle, for addLink).                                              *)
SearchRight ==
  search # NoSearch /\ verdict # "none" =>
    (verdict = "cycle" <=> WouldCycle(SearchCards, search.links, search.candidate))
=============================================================================
