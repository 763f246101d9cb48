-------------------------- MODULE ToolCallContract --------------------------
(***************************************************************************)
(* What ToolExecutor.execute promises its caller, whatever the timeouts,   *)
(* the thread pool and the retry policy do: a call is answered at most     *)
(* once, its handler is started at most max_attempts times, each attempt   *)
(* once and in order, never after the call is over, a successful answer    *)
(* stands for a handler that really ran, and no call is left without an    *)
(* end.                                                                    *)
(***************************************************************************)
EXTENDS Naturals

CONSTANTS Calls,        \* the tool calls handed to execute()
          MaxAttempts   \* [Calls -> Nat]: retry.max_attempts of each call's tool

VARIABLES phase,        \* [Calls -> Phases]
          starts,       \* [Calls -> SUBSET Nat]: the attempts whose handler was started
          ok            \* [Calls -> BOOLEAN]: the answer's ok flag, once answered

vars == <<phase, starts, ok>>

Ends   == {"answered", "raised", "cancelled"}
Phases == {"pending"} \cup Ends

Init ==
  /\ phase = [c \in Calls |-> "pending"]
  /\ starts = [c \in Calls |-> {}]
  /\ ok = [c \in Calls |-> FALSE]

\* The handler of c is started for attempt a, later than every attempt before.
Start(c, a) ==
  /\ phase[c] = "pending"
  /\ \A b \in starts[c] : b < a
  /\ starts' = [starts EXCEPT ![c] = @ \cup {a}]
  /\ UNCHANGED <<phase, ok>>

\* execute() returns a ToolResult; only a handler that ran can make it ok.
Answer(c, good) ==
  /\ phase[c] = "pending"
  /\ good => starts[c] # {}
  /\ phase' = [phase EXCEPT ![c] = "answered"]
  /\ ok' = [ok EXCEPT ![c] = good]
  /\ UNCHANGED starts

\* execute() ends with an exception instead: a cancellation or a raising sink.
Escape(c, how) ==
  /\ phase[c] = "pending"
  /\ phase' = [phase EXCEPT ![c] = how]
  /\ UNCHANGED <<starts, ok>>

Next ==
  \E c \in Calls :
    \/ \E a \in 1..MaxAttempts[c] : Start(c, a)
    \/ \E good \in BOOLEAN : Answer(c, good)
    \/ \E how \in {"raised", "cancelled"} : Escape(c, how)

Safe == Init /\ [][Next]_vars

\* Every call comes to an end.
EveryCallEnds == \A c \in Calls : <>(phase[c] \in Ends)

Spec == Safe /\ EveryCallEnds
=============================================================================
