---------------------------- MODULE LatestReport ----------------------------
(***************************************************************************)
(* What the run reports promise superwitness: of every run it knows some   *)
(* state the run has been in, and what it knows only moves forward.  It    *)
(* may skip states, and it may learn of several runs at once.              *)
(***************************************************************************)
EXTENDS Naturals

CONSTANTS Runs

VARIABLES
  actual,  \* how often each run's reported state has changed
  known    \* the latest of these changes superwitness has been told of

vars == <<actual, known>>

Init ==
  /\ actual = [r \in Runs |-> 0]
  /\ known = [r \in Runs |-> 0]

Change(r) ==
  /\ actual' = [actual EXCEPT ![r] = @ + 1]
  /\ UNCHANGED known

Learn ==
  /\ known' = [r \in Runs |-> known'[r]]
  /\ \A r \in Runs : known'[r] \in known[r] .. actual[r]
  /\ UNCHANGED actual

Next == (\E r \in Runs : Change(r)) \/ Learn

Spec == Init /\ [][Next]_vars
=============================================================================
