---------------------------- MODULE MCRunReports ----------------------------
(***************************************************************************)
(* Small instances of RunReports for TLC.                                  *)
(***************************************************************************)
EXTENDS RunReports, TLC

(* Runs are interchangeable, and so are those who start drains. *)
Symmetric == Permutations(Runs) \cup Permutations(Drains)
=============================================================================
