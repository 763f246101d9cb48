-------------------------- MODULE MCToolExecutor --------------------------
(***************************************************************************)
(* An instance of ToolExecutor for TLC.  Three calls that are tried, and   *)
(* one whose max_attempts is 0, meet the permits and a single pool thread: *)
(* a synchronous tool retried on timeouts, another retried on transient    *)
(* errors, with events the sink may choke on, and a coroutine tool.        *)
(***************************************************************************)
EXTENDS ToolExecutor, TLC

CONSTANTS slow, flaky, quick, never

MCCalls == {slow, flaky, quick, never}
MCSync == {slow, flaky}
MCUnloggable == {flaky}

MCMaxAttempts == (slow :> 2) @@ (flaky :> 2) @@ (quick :> 1) @@ (never :> 0)
MCRetryableOn ==
  (slow :> {"timeout"}) @@ (flaky :> {"transient"}) @@ (quick :> Errors) @@ (never :> {})
=============================================================================
