------------------------------- MODULE Lease --------------------------------
(***************************************************************************)
(* What a board promises about leases, without saying how: a card is lent  *)
(* to one run at a time, each time with the next epoch; a run is lent one  *)
(* card in its life; and a run that is over never acts again.  Unless      *)
(* people preempt, a card that is taken from a run ends that run, so that  *)
(* whoever may act on a card is its holder.                                *)
(***************************************************************************)
EXTENDS Naturals

CONSTANTS
  Cards, Runs,
  Nobody,
  Preempts   \* may a card be taken from a run that goes on acting?

VARIABLES
  holder,  \* card -> the run it is lent to
  last,    \* card -> the epoch it was last lent with
  lease,   \* run -> the card and epoch it may act with
  used     \* the runs that were ever lent a card

vars == <<holder, last, lease, used>>

Init ==
  /\ holder = [c \in Cards |-> Nobody]
  /\ last = [c \in Cards |-> 0]
  /\ lease = [r \in Runs |-> Nobody]
  /\ used = {}

(* A card nobody holds is lent to a new run. *)
Grant(c, r) ==
  /\ holder[c] = Nobody
  /\ r \notin used
  /\ holder' = [holder EXCEPT ![c] = r]
  /\ last' = [last EXCEPT ![c] = @ + 1]
  /\ lease' = [lease EXCEPT ![r] = [card |-> c, epoch |-> last[c] + 1]]
  /\ used' = used \cup {r}

(* The runs of over end, and the cards of freed come back. *)
GiveBack(over, freed) ==
  /\ \A c \in Cards : holder[c] \in over => c \in freed
  /\ Preempts \/ \A c \in freed : holder[c] \in over
  /\ lease' = [r \in Runs |-> IF r \in over THEN Nobody ELSE lease[r]]
  /\ holder' = [c \in Cards |-> IF c \in freed THEN Nobody ELSE holder[c]]
  /\ UNCHANGED used

Return ==
  /\ \E over \in SUBSET Runs, freed \in SUBSET Cards : GiveBack(over, freed)
  /\ UNCHANGED last

(* A card leaves the board, and nobody may act on it any more. *)
Remove(c) ==
  /\ \E over \in SUBSET Runs, freed \in SUBSET Cards : GiveBack(over, freed)
  /\ holder'[c] = Nobody
  /\ \A r \in Runs : lease'[r] # Nobody => lease'[r].card # c
  /\ last' = [last EXCEPT ![c] = 0]

Next ==
  \/ \E c \in Cards, r \in Runs : Grant(c, r)
  \/ Return
  \/ \E c \in Cards : Remove(c)

Spec == Init /\ [][Next]_vars
=============================================================================
