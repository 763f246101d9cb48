----------------------------- MODULE MCRunLoop -----------------------------
(***************************************************************************)
(* Instances of RunLoop for TLC: one worker, because runs share nothing in *)
(* the loop itself, and decisions with no call, two calls of tools, or a   *)
(* barred call next to a tool.                                             *)
(***************************************************************************)
EXTENDS RunLoop

MCCallLists == {<<>>, <<"tool", "tool">>, <<"barred", "tool">>}

\* A caller answers a run that asks for a human, and tries a failed one again.
AllButCompleted == Statuses \ {"completed"}
=============================================================================
