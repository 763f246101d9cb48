---------------------------- MODULE MCTranscript ----------------------------
(***************************************************************************)
(* Five turns of up to two calls, so that compaction meets its own marker  *)
(* again and cuts a batch in two; it keeps all (0), one or two results.    *)
(***************************************************************************)
EXTENDS Transcript

MCProviders == {"openai", "anthropic"}
=============================================================================
