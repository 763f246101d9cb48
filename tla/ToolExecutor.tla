---------------------------- MODULE ToolExecutor ----------------------------
(***************************************************************************)
(* lingyia_core/executor.py: ToolExecutor.execute for a set of concurrent  *)
(* tool calls.  Each call takes a permit of the executor's semaphore,      *)
(* tries its handler up to max_attempts times under a timeout, and ends    *)
(* with a ToolResult or an exception.  A synchronous handler runs on a     *)
(* thread of the loop's default pool: its timeout abandons the thread, it  *)
(* does not stop it.                                                       *)
(*                                                                         *)
(* Names, arguments, outputs, durations and clock values are abstracted    *)
(* away; a timeout and the end of a backoff may come at any moment.        *)
(* A coroutine handler is taken to end when it is cancelled: one that      *)
(* swallows CancelledError keeps wait_for, and the call, waiting.          *)
(*                                                                         *)
(* An operator named ...Slip is a plausible slip in the definition that    *)
(* follows it; no specification uses it.                                   *)
(***************************************************************************)
EXTENDS Naturals, FiniteSets

CONSTANTS
  Calls,            \* the tool calls handed to execute()
  Sync,             \* those whose tool has is_async = False
  MaxAttempts,      \* [Calls -> Nat]: retry.max_attempts
  RetryableOn,      \* [Calls -> SUBSET Errors]: what is_retryable accepts
  MaxConcurrency,   \* max_concurrency; 0 disables the semaphore
  PoolSize,         \* threads of the loop's default executor
  Unloggable        \* calls for whose events on_event may raise

\* Classes of exceptions an attempt can end with: asyncio.TimeoutError and two
\* others, so that a policy can retry one and not the other.
Errors == {"timeout", "transient", "fatal"}

ASSUME CallsAssumption == IsFiniteSet(Calls) /\ Sync \subseteq Calls
ASSUME PolicyAssumption == /\ MaxAttempts \in [Calls -> Nat]
                           /\ RetryableOn \in [Calls -> SUBSET Errors]
ASSUME CapAssumption == /\ MaxConcurrency \in Nat
                        /\ PoolSize \in Nat \ {0}
                        /\ Unloggable \subseteq Calls

VARIABLES
  pc,        \* [Calls -> Stages]: where execute() stands for the call
  attempt,   \* [Calls -> Nat]: the loop variable of _execute_inner, 0 before it
  permits,   \* the semaphore's value
  queued,    \* jobs handed to the thread pool that no thread took yet
  running,   \* jobs whose handler is executing, on the loop or on a thread
  outcome,   \* [Calls -> Outcomes \cup {"none"}]: the settled future of a sync attempt
  answer,    \* [Calls -> Answers]: the ToolResult, once pc is "answered"
  started,   \* history: jobs whose handler began
  finished,  \* history: <<job, outcome>> of handlers that ran to an end
  events     \* history: <<kind, job>> appended to the run's trace

vars == <<pc, attempt, permits, queued, running, outcome, answer,
          started, finished, events>>
workVars == <<queued, running, outcome, started, finished>>

Ends   == {"answered", "raised", "cancelled"}
Inside == {"entered", "invoking", "backoff"}   \* within "async with self._semaphore"
Stages == {"waiting"} \cup Inside \cup Ends

Returns  == {"ok", "notok"}       \* the handler's own ToolResult.ok
Outcomes == Returns \cup Errors
Answers  == [ok : BOOLEAN, attempts : Nat]
\* Kinds of events; a tool_error names the exception in its payload.
Kinds    == {"tool_started", "tool_completed", "tool_timeout",
             "tool_error:transient", "tool_error:fatal"}

\* A job is one attempt of one call: one invocation of its handler.
Jobs == UNION {{c} \X (1..MaxAttempts[c]) : c \in Calls}

-----------------------------------------------------------------------------
Current(c) == <<c, attempt[c]>>

\* The loop waits, under wait_for, for this job and for no other of the call.
Awaited(j) == pc[j[1]] = "invoking" /\ attempt[j[1]] = j[2]

Tell(c, kinds) == events' = events \cup (kinds \X {Current(c)})

\* A permit is there to be taken, or there is no semaphore.
PermitFree == MaxConcurrency > 0 => permits > 0

\* Leave "async with self._semaphore" with the given end.
LeaveSlip(c, end) ==
  /\ pc' = [pc EXCEPT ![c] = end]
  /\ permits' = IF MaxConcurrency > 0 /\ end = "answered" THEN permits + 1 ELSE permits
Leave(c, end) ==
  /\ pc' = [pc EXCEPT ![c] = end]
  /\ permits' = IF MaxConcurrency > 0 THEN permits + 1 ELSE permits

AnswerSlip(c, good, n) ==
  /\ Leave(c, "answered")
  /\ answer' = [answer EXCEPT ![c] = [ok |-> good, attempts |-> MaxAttempts[c]]]
Answer(c, good, n) ==
  /\ Leave(c, "answered")
  /\ answer' = [answer EXCEPT ![c] = [ok |-> good, attempts |-> n]]

\* A telemetry event was appended to the trace and the sink's emit raised.
Escape(c) ==
  /\ c \in Unloggable
  /\ Leave(c, "raised")
  /\ UNCHANGED answer

\* The coroutine is cancelled, and ends there; or the job still in the pool's queue
\* is withdrawn; a job that a thread has taken goes on.
WithdrawSlip(c) ==
  /\ queued' = queued
  /\ running' = IF c \in Sync THEN running ELSE running \ {Current(c)}
Withdraw(c) ==
  /\ queued' = queued \ {Current(c)}
  /\ running' = IF c \in Sync THEN running ELSE running \ {Current(c)}

\* range(1, max_attempts + 1) has another value for the loop variable.
AttemptsLeft(c) == attempt[c] < MaxAttempts[c]

\* An attempt failed with e: the except branches.  The call is retried after a
\* backoff or answered with a failure.
RetriedSlip(c, e) == AttemptsLeft(c) /\ (e = "timeout" => e \in RetryableOn[c])
Retried(c, e) == AttemptsLeft(c) /\ e \in RetryableOn[c]

RetryOrGiveUp(c, e) ==
  \/ /\ Retried(c, e)
     /\ pc' = [pc EXCEPT ![c] = "backoff"]
     /\ UNCHANGED <<permits, answer>>
  \/ /\ ~Retried(c, e)
     /\ Answer(c, FALSE, MaxAttempts[c])

ComplaintSlip(e) ==
  IF e = "transient" THEN "tool_error:transient" ELSE "tool_error:fatal"
Complaint(e) ==
  IF e = "timeout" THEN "tool_timeout"
  ELSE IF e = "transient" THEN "tool_error:transient" ELSE "tool_error:fatal"

Failed(c, e, told) ==
  /\ Tell(c, told \cup {Complaint(e)})
  /\ RetryOrGiveUp(c, e) \/ Escape(c)

\* tool_completed is emitted inside the try block: a sink that raises there, with
\* any exception, sends a handler that returned into a failure branch.
Settled(c, o) ==
  \/ /\ o \in Returns
     /\ Tell(c, {"tool_completed"})
     /\ Answer(c, o = "ok", attempt[c])
  \/ /\ o \in Returns
     /\ c \in Unloggable
     /\ \E e \in Errors : Failed(c, e, {"tool_completed"})
  \/ /\ o \in Errors
     /\ Failed(c, o, {})

-----------------------------------------------------------------------------
Init ==
  /\ pc = [c \in Calls |-> "waiting"]
  /\ attempt = [c \in Calls |-> 0]
  /\ permits = MaxConcurrency
  /\ queued = {}
  /\ running = {}
  /\ outcome = [c \in Calls |-> "none"]
  /\ answer = [c \in Calls |-> [ok |-> FALSE, attempts |-> 0]]
  /\ started = {}
  /\ finished = {}
  /\ events = {}

\* The semaphore grants a permit, if there is a semaphore.
Enter(c) ==
  /\ pc[c] = "waiting"
  /\ PermitFree
  /\ pc' = [pc EXCEPT ![c] = "entered"]
  /\ permits' = IF MaxConcurrency > 0 THEN permits - 1 ELSE permits
  /\ UNCHANGED <<attempt, answer, events, workVars>>

\* range(1, max_attempts + 1) is empty: the handler is never invoked.
NoAttempt(c) ==
  /\ pc[c] = "entered"
  /\ ~AttemptsLeft(c)
  /\ Answer(c, FALSE, MaxAttempts[c])
  /\ UNCHANGED <<attempt, events, workVars>>

\* The next round of the loop: tool_started is emitted (outside the try block)
\* and the handler is put to work, on the loop or in the pool's queue.
BeginAttempt(c) ==
  LET a == attempt[c] + 1
  IN  /\ pc[c] \in {"entered", "backoff"}
      /\ AttemptsLeft(c)
      /\ attempt' = [attempt EXCEPT ![c] = a]
      /\ events' = events \cup {<<"tool_started", <<c, a>>>>}
      /\ \/ /\ pc' = [pc EXCEPT ![c] = "invoking"]
            /\ IF c \in Sync
               THEN /\ queued' = queued \cup {<<c, a>>}
                    /\ UNCHANGED <<running, started>>
               ELSE /\ running' = running \cup {<<c, a>>}
                    /\ started' = started \cup {<<c, a>>}
                    /\ UNCHANGED queued
            /\ UNCHANGED <<permits, answer>>
         \/ Escape(c) /\ UNCHANGED <<queued, running, started>>
      /\ UNCHANGED <<outcome, finished>>

\* A coroutine handler ends before its timeout.
HandlerEnds(c, o) ==
  /\ pc[c] = "invoking" /\ c \notin Sync
  /\ running' = running \ {Current(c)}
  /\ finished' = finished \cup {<<Current(c), o>>}
  /\ Settled(c, o)
  /\ UNCHANGED <<attempt, queued, outcome, started>>

\* A free thread of the pool takes a queued job.
ThreadTakes(j) ==
  /\ j \in queued
  /\ Cardinality({k \in running : k[1] \in Sync}) < PoolSize
  /\ queued' = queued \ {j}
  /\ running' = running \cup {j}
  /\ started' = started \cup {j}
  /\ UNCHANGED <<pc, attempt, permits, answer, events, outcome, finished>>

\* A thread ends its job.  The future of an attempt that was given up is
\* already cancelled, so only an awaited job leaves an outcome.
ThreadEndsSlip(j, o) ==
  /\ j \in running /\ j[1] \in Sync
  /\ running' = running \ {j}
  /\ finished' = finished \cup {<<j, o>>}
  /\ outcome' = IF pc[j[1]] = "invoking" THEN [outcome EXCEPT ![j[1]] = o] ELSE outcome
  /\ UNCHANGED <<pc, attempt, permits, answer, events, queued, started>>
ThreadEnds(j, o) ==
  /\ j \in running /\ j[1] \in Sync
  /\ running' = running \ {j}
  /\ finished' = finished \cup {<<j, o>>}
  /\ outcome' = IF Awaited(j) THEN [outcome EXCEPT ![j[1]] = o] ELSE outcome
  /\ UNCHANGED <<pc, attempt, permits, answer, events, queued, started>>

\* The loop resumes execute() with what the thread left.
Deliver(c) ==
  /\ pc[c] = "invoking"
  /\ outcome[c] # "none"
  /\ outcome' = [outcome EXCEPT ![c] = "none"]
  /\ Settled(c, outcome[c])
  /\ UNCHANGED <<attempt, queued, running, started, finished>>

\* wait_for expires.  A job on a thread goes on unwatched, and an outcome that
\* the loop has not seen yet is lost.
TimesOutSlip(c) ==
  /\ pc[c] = "invoking" /\ Current(c) \in running
  /\ Withdraw(c)
  /\ outcome' = [outcome EXCEPT ![c] = "none"]
  /\ Failed(c, "timeout", {})
  /\ UNCHANGED <<attempt, started, finished>>
TimesOut(c) ==
  /\ pc[c] = "invoking"
  /\ Withdraw(c)
  /\ outcome' = [outcome EXCEPT ![c] = "none"]
  /\ Failed(c, "timeout", {})
  /\ UNCHANGED <<attempt, started, finished>>

\* The task awaiting execute() is cancelled: while it waits for a permit, in
\* wait_for, or in the backoff sleep.
Cancel(c) ==
  /\ pc[c] \notin Ends
  /\ \/ /\ pc[c] = "waiting"
        /\ pc' = [pc EXCEPT ![c] = "cancelled"]
        /\ UNCHANGED permits
     \/ /\ pc[c] \in Inside
        /\ Leave(c, "cancelled")
  /\ Withdraw(c)
  /\ outcome' = [outcome EXCEPT ![c] = "none"]
  /\ UNCHANGED <<attempt, answer, events, started, finished>>

\* Every call is over and no thread is busy: the executor rests.
Rest ==
  /\ \A c \in Calls : pc[c] \in Ends
  /\ running = {}
  /\ UNCHANGED vars

Next ==
  \/ \E c \in Calls :
       \/ Enter(c) \/ NoAttempt(c) \/ BeginAttempt(c)
       \/ Deliver(c) \/ TimesOut(c) \/ Cancel(c)
       \/ \E o \in Outcomes : HandlerEnds(c, o)
  \/ \E j \in Jobs :
       \/ ThreadTakes(j)
       \/ \E o \in Outcomes : ThreadEnds(j, o)
  \/ Rest

\* The loop runs what is ready and its timers fire.  Nothing is assumed of the
\* handlers: a thread may never end its job, a coroutine may hang.
Fairness ==
  \A c \in Calls :
    /\ WF_vars(Enter(c))
    /\ WF_vars(NoAttempt(c))
    /\ WF_vars(BeginAttempt(c))
    /\ WF_vars(TimesOut(c))

Spec == Init /\ [][Next]_vars /\ Fairness
-----------------------------------------------------------------------------
(* Properties *)

\* The shape of the state.
TypeOK ==
  /\ pc \in [Calls -> Stages]
  /\ attempt \in [Calls -> Nat]
  /\ \A c \in Calls : attempt[c] <= MaxAttempts[c]
  /\ \A c \in Calls : pc[c] \in {"invoking", "backoff"} => attempt[c] > 0
  /\ permits \in Nat
  /\ queued \subseteq Jobs
  /\ running \subseteq Jobs
  /\ started \subseteq Jobs
  /\ finished \subseteq Jobs \X Outcomes
  /\ outcome \in [Calls -> Outcomes \cup {"none"}]
  /\ answer \in [Calls -> Answers]
  /\ events \subseteq Kinds \X Jobs

Holders == {c \in Calls : pc[c] \in Inside}

\* However a call leaves execute() -- answered, cancelled in its backoff, thrown
\* out by a raising sink -- its permit returns: the semaphore's value and the
\* calls inside always add up to max_concurrency.
PermitsConserved ==
  MaxConcurrency > 0 => permits + Cardinality(Holders) = MaxConcurrency

\* max_concurrency bounds the handlers that execute() is waiting for.  It does not
\* bound "the number of tool invocations in flight" (executor.py:121-122): a thread
\* that a timeout left behind still runs when its permit has gone to the next call.
AwaitedCapped ==
  MaxConcurrency > 0 => Cardinality({j \in running : Awaited(j)}) <= MaxConcurrency

\* A handler that outlives its attempt is a thread's, and the trace says so: a
\* tool_timeout event was recorded for that very attempt (executor.py:6-9),
\* unless the awaiting task itself was cancelled.
OrphansAnnounced ==
  \A j \in running : ~Awaited(j) =>
    /\ j[1] \in Sync
    /\ \/ <<"tool_timeout", j>> \in events
       \/ pc[j[1]] = "cancelled" /\ attempt[j[1]] = j[2]

\* A job waits in the pool only while its attempt is awaited: a call that was
\* answered or retried leaves nothing behind that a thread could still begin.
NothingLeftQueued == \A j \in queued : Awaited(j)

\* Another attempt is made only when the one before it failed in a class that the
\* tool's policy retries (executor.py:220, 236).  That very class was reported, and
\* it is what the attempt ended with: wait_for expired, the handler of that attempt
\* raised it, or the sink did, on the completion of that attempt.
RetriesJustified ==
  \A c \in Calls : \A a \in 2..attempt[c] : \E e \in RetryableOn[c] :
    LET j == <<c, a - 1>>
    IN  /\ <<Complaint(e), j>> \in events
        /\ e = "timeout" \/ <<j, e>> \in finished \/ <<"tool_completed", j>> \in events

\* A successful answer is the success of the attempt it names: the late result
\* of an earlier, timed-out attempt of the call is never taken for it.
SuccessIsOfItsAttempt ==
  \A c \in Calls : pc[c] = "answered" /\ answer[c].ok =>
    /\ answer[c].attempts = attempt[c]
    /\ <<Current(c), "ok">> \in finished

\* Unless the sink raises on its events, a reported completion is the last word
\* on a call: the handler is not invoked again, and the answer is that attempt's.
CompletionIsFinal ==
  \A j \in Jobs : <<"tool_completed", j>> \in events /\ j[1] \notin Unloggable =>
    /\ pc[j[1]] = "answered"
    /\ answer[j[1]].attempts = j[2]

\* execute() promises what ToolCallContract states: a history of its states
\* and starts, with the timeouts, threads and permits hidden.
Contract == INSTANCE ToolCallContract WITH
  phase <- [c \in Calls |-> IF pc[c] \in Ends THEN pc[c] ELSE "pending"],
  starts <- [c \in Calls |-> {j[2] : j \in {k \in started : k[1] = c}}],
  ok <- [c \in Calls |-> pc[c] = "answered" /\ answer[c].ok]

\* Every step of the executor is a step of the contract or none of it: no
\* handler begins after the call's end, attempts begin in order, at most
\* max_attempts of them, and an answer is never taken back.  And no call is left
\* without an end, even when every handler hangs, up to its cancellation, and the
\* pool is full of threads that never return.
ImplementsContract == Contract!Spec
=============================================================================
