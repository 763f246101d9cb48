--------------------------- MODULE CircuitBreaker ---------------------------
(***************************************************************************)
(* lingyia_kit/resilience/circuit_breaker.py.  Every operation of the      *)
(* breaker holds its lock throughout, so every operation is one step, from *)
(* any thread and in any state: results come back in a state other than    *)
(* the one their call was allowed in.                                      *)
(*                                                                         *)
(* Time is discrete.  Of clock() and _opened_at the code only compares     *)
(* their difference with reset_timeout_s, so openFor, that difference,     *)
(* stops at Reset.                                                         *)
(***************************************************************************)
EXTENDS Naturals

CONSTANTS
  FailureThreshold,  \* failure_threshold
  SuccessThreshold,  \* success_threshold_in_half_open
  Reset,             \* reset_timeout_s
  MaxFailures        \* bound: where _consecutive_failures, which goes on counting
                     \* while nothing compares it with the threshold, stops

\* What the theorems need of the constants; the composed model assumes it.
BreakerAssumption ==
  /\ FailureThreshold \in Nat \ {0}
  /\ SuccessThreshold \in Nat \ {0}
  /\ Reset \in Nat \ {0}
  /\ MaxFailures \in Nat /\ MaxFailures >= FailureThreshold

VARIABLES
  state,      \* _state
  failures,   \* _consecutive_failures
  successes,  \* _half_open_successes
  openFor,    \* clock() - _opened_at, up to Reset
  streak      \* history: failures (closed) or successes (half_open) in a row
              \* among the results recorded since the circuit entered its state

vars == <<state, failures, successes, openFor, streak>>

CircuitStates == {"closed", "open", "half_open"}

Init ==
  /\ state = "closed"
  /\ failures = 0
  /\ successes = 0
  /\ openFor \in 0..Reset
  /\ streak = 0

\* _maybe_transition_to_half_open, which every reader of the state runs first.
MayProbe == state = "open" /\ openFor >= Reset

Look ==
  \/ /\ MayProbe
     /\ state' = "half_open"
     /\ successes' = 0
     /\ streak' = 0
     /\ UNCHANGED <<failures, openFor>>
  \/ /\ ~MayProbe
     /\ UNCHANGED vars

\* allow() answers True, or False; reading the property `state` is a Look.
Allowed == Look /\ state' # "open"
Refused == Look /\ state' = "open"

OneMoreFailure == failures' = IF failures < MaxFailures THEN failures + 1 ELSE failures

Opens == state' = "open" /\ openFor' = 0 /\ streak' = 0

CloseSlip ==
  /\ state' = "closed" /\ successes' = 0 /\ streak' = 0
  /\ UNCHANGED <<failures, openFor>>
Close ==
  /\ state' = "closed" /\ failures' = 0 /\ successes' = 0 /\ streak' = 0
  /\ UNCHANGED openFor

RecordSuccessSlip ==
  \/ /\ state = "half_open"
     /\ \/ successes > SuccessThreshold /\ Close
        \/ /\ successes <= SuccessThreshold
           /\ successes' = successes + 1 /\ streak' = streak + 1
           /\ UNCHANGED <<state, failures, openFor>>
  \/ /\ state = "closed"
     /\ failures' = 0 /\ streak' = 0
     /\ UNCHANGED <<state, successes, openFor>>
  \/ /\ state = "open"
     /\ UNCHANGED vars
RecordSuccess ==
  \/ /\ state = "half_open"
     /\ \/ successes + 1 >= SuccessThreshold /\ Close
        \/ /\ successes + 1 < SuccessThreshold
           /\ successes' = successes + 1 /\ streak' = streak + 1
           /\ UNCHANGED <<state, failures, openFor>>
  \/ /\ state = "closed"
     /\ failures' = 0 /\ streak' = 0
     /\ UNCHANGED <<state, successes, openFor>>
  \/ /\ state = "open"
     /\ UNCHANGED vars

RecordFailure ==
  /\ OneMoreFailure
  /\ \/ /\ state = "half_open"
        /\ Opens
        /\ successes' = 0
     \/ /\ state = "closed" /\ failures + 1 >= FailureThreshold
        /\ Opens
        /\ UNCHANGED successes
     \/ /\ state = "closed" /\ failures + 1 < FailureThreshold
        /\ streak' = streak + 1
        /\ UNCHANGED <<state, successes, openFor>>
     \/ /\ state = "open"
        /\ UNCHANGED <<state, successes, openFor, streak>>

Tick ==
  /\ openFor < Reset
  /\ openFor' = openFor + 1
  /\ UNCHANGED <<state, failures, successes, streak>>

Next == Look \/ RecordSuccess \/ RecordFailure \/ Tick

Spec == Init /\ [][Next]_vars

-----------------------------------------------------------------------------
(* Properties *)

\* The shape of the state.
TypeOK ==
  /\ state \in CircuitStates
  /\ failures \in 0..MaxFailures
  /\ successes \in 0..(SuccessThreshold - 1)
  /\ openFor \in 0..Reset
  /\ streak \in Nat

\* "consecutive failures count up to threshold", "success_threshold_in_half_open
\* consecutive successes close the circuit" (circuit_breaker.py:4-7): a streak is
\* never left standing at its threshold, whatever was counted in the states
\* before, failures recorded while open included.
StreaksAct ==
  /\ state = "closed" => streak < FailureThreshold
  /\ state = "half_open" => streak < SuccessThreshold

\* The circuit changes state only as the docstring says: it opens on a full
\* streak of failures recorded since it closed or on any failure of a probe
\* window, is probed no sooner than reset_timeout_s after it opened, and closes
\* on a full streak of successes recorded in that window.
ChangesAsDocumented ==
  [][state' # state =>
       \/ state = "closed" /\ state' = "open" /\ streak + 1 = FailureThreshold
       \/ state = "open" /\ state' = "half_open" /\ openFor = Reset
       \/ state = "half_open" /\ state' = "open"
       \/ state = "half_open" /\ state' = "closed" /\ streak + 1 = SuccessThreshold
    ]_vars
=============================================================================
