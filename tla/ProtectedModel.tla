--------------------------- MODULE ProtectedModel ---------------------------
(***************************************************************************)
(* lingyia_kit/resilience/protected_model.py: concurrent calls of adecide  *)
(* on one ProtectedModel with a CircuitBreaker and a TokenBucketRateLimiter.*)
(* A step goes from one await to the next, so the breaker is asked before  *)
(* the wait for the limiter and told after the wait for the model, with    *)
(* anything in between.                                                    *)
(*                                                                         *)
(* Breaker and limiter are the modules of those names, instantiated over   *)
(* the variables below.  One tick is one token's refill and one unit of    *)
(* the reset timeout, and no tick falls into a step.                       *)
(***************************************************************************)
EXTENDS Naturals, Sequences

CONSTANTS
  Callers,   \* tasks that call adecide
  Unit,      \* what acquire() takes: one request
  Burst,     \* the limiter's burst
  FailureThreshold, SuccessThreshold, Reset, MaxFailures  \* the breaker's

VARIABLES
  state, failures, successes, openFor, streak,         \* the breaker
  tokens, unread, line, at, need, timer, excess,       \* the limiter
  pc,       \* [Callers -> where the call is, or how the last one ended]
  age       \* history: [Callers -> time since the call was allowed, up to Reset + 1]

breakerVars == <<state, failures, successes, openFor, streak>>
limiterVars == <<tokens, unread, line, at, need, timer, excess>>
vars == <<state, failures, successes, openFor, streak,
          tokens, unread, line, at, need, timer, excess, pc, age>>

CB == INSTANCE CircuitBreaker
RL == INSTANCE RateLimiter WITH Tasks <- Callers, Needs <- {Unit}

ASSUME ProtectedAssumption == CB!BreakerAssumption /\ RL!LimiterAssumption

Ends == {"new", "rejected", "refused", "answered", "raised", "cancelled"}

Init ==
  /\ CB!Init
  /\ RL!Init
  /\ pc = [c \in Callers |-> "new"]
  /\ age = [c \in Callers |-> 0]

\* CircuitOpenError; the state named in its message is read here.
Reject(c) ==
  /\ pc[c] \in Ends
  /\ CB!Refused
  /\ pc' = [pc EXCEPT ![c] = "rejected"]
  /\ UNCHANGED <<limiterVars, age>>

\* Where a step of the limiter leaves the call: waiting, out with its ValueError,
\* or, without a further look at the breaker, in the model.
Place(c) ==
  CASE at'[c] = "granted" -> "model"
    [] at'[c] = "refused" -> "refused"
    [] OTHER              -> "waiting"

\* The breaker allows the call, which goes to the limiter.
BeginSlip(c) ==
  /\ pc[c] \in Ends
  /\ RL!Acquire(c, Unit)
  /\ pc' = [pc EXCEPT ![c] = Place(c)]
  /\ age' = [age EXCEPT ![c] = 0]
  /\ UNCHANGED breakerVars
Begin(c) ==
  /\ pc[c] \in Ends
  /\ CB!Allowed
  /\ RL!Acquire(c, Unit)
  /\ pc' = [pc EXCEPT ![c] = Place(c)]
  /\ age' = [age EXCEPT ![c] = 0]

\* acquire goes on; when it returns the model is called.
Proceed(c) ==
  /\ pc[c] = "waiting"
  /\ RL!Proceed(c)
  /\ pc' = [pc EXCEPT ![c] = Place(c)]
  /\ UNCHANGED <<breakerVars, age>>

\* The model answers, or raises an Exception; the breaker is told.
Succeeds(c) ==
  /\ pc[c] = "model"
  /\ CB!RecordSuccess
  /\ pc' = [pc EXCEPT ![c] = "answered"]
  /\ UNCHANGED <<limiterVars, age>>

Fails(c) ==
  /\ pc[c] = "model"
  /\ CB!RecordFailure
  /\ pc' = [pc EXCEPT ![c] = "raised"]
  /\ UNCHANGED <<limiterVars, age>>

\* CancelledError is no Exception: the breaker is told nothing.
Cancel(c) ==
  /\ \/ pc[c] = "waiting" /\ RL!Cancel(c)
     \/ pc[c] = "model" /\ UNCHANGED limiterVars
  /\ pc' = [pc EXCEPT ![c] = "cancelled"]
  /\ UNCHANGED <<breakerVars, age>>

\* Time goes by for breaker, limiter and calls alike.
Tick ==
  /\ CB!Tick \/ (openFor = Reset /\ UNCHANGED breakerVars)
  /\ RL!Tick
  /\ age' = [c \in Callers |-> IF age[c] <= Reset THEN age[c] + 1 ELSE age[c]]
  /\ UNCHANGED pc

ModelEnds(c) == Succeeds(c) \/ Fails(c)

Next ==
  \/ \E c \in Callers : Begin(c) \/ Reject(c) \/ Proceed(c) \/ ModelEnds(c) \/ Cancel(c)
  \/ Tick

\* Time passes, acquire goes on when it can, and the model answers or raises.
Fairness ==
  /\ WF_vars(Tick)
  /\ \A c \in Callers : WF_vars(Proceed(c)) /\ WF_vars(ModelEnds(c))

Spec == Init /\ [][Next]_vars /\ Fairness

-----------------------------------------------------------------------------
(* Properties *)

\* The shape of the state.
TypeOK ==
  /\ CB!TypeOK
  /\ RL!TypeOK
  /\ pc \in [Callers -> Ends \cup {"waiting", "model"}]
  /\ age \in [Callers -> 0..(Reset + 1)]

\* A call that is under way while the circuit is open was allowed before it
\* opened: none slips through between the breaker and the model that came later.
LateCallsAreOld ==
  \A c \in Callers :
    pc[c] \in {"waiting", "model"} /\ state = "open" => age[c] >= openFor

\* Every call of adecide ends if the model ends its calls.
CallsEnd == \A c \in Callers : pc[c] \in {"waiting", "model"} ~> pc[c] \in Ends

\* The breaker's and the limiter's own promises, kept although callers come,
\* give up and return in any order: see CircuitBreaker and RateLimiter.
StreaksAct == CB!StreaksAct
ChangesAsDocumented == CB!ChangesAsDocumented
RateConforms == RL!RateConforms
=============================================================================
