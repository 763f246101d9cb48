--------------------------- MODULE MCCheckpointers ---------------------------
(***************************************************************************)
(* Three calls of any kind on any of the three backends, one of them by a  *)
(* build with a later schema; the process dies once.                       *)
(***************************************************************************)
EXTENDS Checkpointers

MCBackends == {"sqlite", "redis", "postgres"}
=============================================================================
