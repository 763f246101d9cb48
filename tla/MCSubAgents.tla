----------------------------- MODULE MCSubAgents -----------------------------
(***************************************************************************)
(* A run whose batches hold a tool and two agents, one with a tool of its  *)
(* own and one with an agent; fewer permits than agents, or one more.      *)
(***************************************************************************)
EXTENDS SubAgents, TLC

CONSTANTS t1, a1, a2, a3, l1, l2

MCTops == {t1}
MCAgents == {a1, a2, a3}
MCToolCalls == MCAgents \cup {l1, l2}
MCBy == (a1 :> t1) @@ (a2 :> t1) @@ (l1 :> t1) @@ (l2 :> a1) @@ (a3 :> a2)
=============================================================================
