---------------------------- MODULE MCStreaming ----------------------------
(* Two streams and a plain run on one Runtime; one of the streams has a     *)
(* second event, so that a queue can hold two.                              *)
EXTENDS Streaming, TLC

CONSTANTS s1, s2, r1

MCStreams == {s1, s2}
MCPlain == {r1}
MCMaxEvents == (s1 :> 2) @@ (s2 :> 1) @@ (r1 :> 1)
=============================================================================
