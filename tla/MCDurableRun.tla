---------------------------- MODULE MCDurableRun ----------------------------
(***************************************************************************)
(* A run with a budget of two turns' cost, and a compactor that keeps one  *)
(* observation, goes back and forth between two workers.  The workers are  *)
(* interchangeable and no property is a liveness property: the run takes   *)
(* them as a symmetry set.                                                 *)
(***************************************************************************)
EXTENDS DurableRun, TLC

MCCallLists == {<<"tool">>, <<"barred", "tool">>}
Returned == Statuses
Symmetry == Permutations(Workers)
=============================================================================
