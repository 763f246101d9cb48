# A TLA+ specification of LingYia

LingYia (`lingyia_core`, `lingyia_kit`) is an asyncio runtime for tool-calling
agents: a loop that asks a model for a decision, runs its tools, and pauses for
humans; an executor for the tools; and around them resilience, streaming,
persistence, compaction and provider adapters. Almost everything in it that is
hard to test happens at an `await`: what another task, thread, process or
server does in between. These modules model that: **a step of a specification
goes from one suspension point of the code to the next**, so that every
interleaving the event loop, the thread pool, the clock and the servers can
produce is a behaviour, and none that they cannot.

Line numbers are of the modelled commit; paths are below `src/`.

## 1. The system

### Components, their state and their operations

| Component | State | Operations | Interacts with |
|---|---|---|---|
| **Tool executor**, `lingyia_core/executor.py` | the semaphore, created lazily; per call the attempt number; futures and pool threads of synchronous handlers | `execute`, `_execute_inner` (attempts, timeout, backoff), `_invoke` | called by the agent loop for each call of a batch; emits events to the telemetry sink; runs handlers on the loop or in its default thread pool |
| **Agent loop**, `lingyia_core/runtime.py:159-203, 252-596` | a `RunState` per run: iteration, observations, feedback, interrupt, `metadata["cost_usd"]` | `arun`, `aresume`, `_continue`, `_execute_decision`, `_maybe_finish_after_tools` | model adapter, guard, validator, compactor, executor; the human, through its caller |
| **Event streaming**, `runtime.py:205-250`, `_QueueSink`, `_ChainedSink` | `Runtime.telemetry`, shared by all runs; a queue per stream | `astream`: start, wait, drain, final item, close | replaces the sink that every other run of the Runtime emits to |
| **Circuit breaker**, `lingyia_kit/resilience/circuit_breaker.py` | state, consecutive failures, half-open successes, time of opening; a thread lock | `allow`, `state`, `record_success`, `record_failure` | asked and told by the protected model |
| **Rate limiter**, `resilience/rate_limiter.py` | tokens, time of the last refill; an asyncio lock held across the sleep | `acquire`, `available_tokens` | awaited by the protected model |
| **Protected model**, `resilience/protected_model.py` | none of its own | `adecide` | wraps a model adapter in breaker and limiter |
| **Durable checkpointers**, `lingyia_kit/checkpointers/` | SQLite: a connection and a lock; Redis: a client; Postgres: a pool made on first use | `asave`, `aload`, `adelete`, `close`/`aclose` | called by the application, **not** by the runtime |
| **Run state and its dictionaries**, `lingyia_core/state.py` | -- | `to_dict`, `from_dict` of `RunState`, `Decision`, `Interrupt`, `Observation` | what checkpointers store |
| **Token-aware compactor**, `lingyia_kit/compactors/token_aware.py` | none | `should_compact`, `compact` | called by the loop before each request |
| **Provider adapters**, `lingyia_kit/adapters/` | the provider's client | `_build_messages`, `_parse_response`, `adecide` | read the observations the loop and the compactor leave |
| Defaults, `lingyia_core/defaults/` | a dictionary (checkpointer) | truncating and no-op compactors, in-memory checkpointer, console telemetry | -- |
| **Sub-agent tool**, `lingyia_kit/tools/sub_agent.py` | none | `_handler`: runs a child agent inside a tool call | the parent's Runtime: its loop, its semaphore, its sink |
| **File tools**, `lingyia_kit/tools/fs.py` | files on disk | the handlers of `write_file`, `read_file`, `list_dir` | run by the executor on pool threads, which share the files |
| **Shell tool**, `tools/shell.py` | a process per call | `_handler`: spawn, communicate, kill on its own timeout | run by the executor as a coroutine, under a second timeout |
| **Evaluation**, `lingyia_kit/eval/bfcl_runner.py` | a semaphore, the verdicts | `run_split`, `_run_one`, `grade_decision`, `_grade_single_call`, `_values_match` | asks a model adapter directly, without the loop |
| HTTP tool, pricing, redaction, secrets, telemetry sinks, ReAct pattern, examples | tables, patterns, files | pure functions, I/O, wiring | -- |

The path of a turn: the application calls `arun`; the loop compacts, asks the
(protected) model, charges the turn, lets the guard judge the decision, and
either returns (answer, question, approval, failure) or hands all calls of the
decision to the executor at once; their results become observations in the
order of the decision; the validator judges; the next iteration begins. The
application saves what was returned, asks a human, loads it -- maybe in another
process -- and calls `aresume`.

### What is hard, and what makes each part correct

* **Executor.** A timeout abandons a thread but cannot stop it; an answer, a
  timeout, a cancellation and a raising sink race for the same call. Correct
  when no permit is lost, every call ends, no handler begins after its call's
  end, and an answer is that of the attempt it names.
* **Loop.** Pauses, approvals, rejections, failures and resumes come in any
  order. Correct when the interrupt on a returned state is the one its status
  names, what runs was cleared by guard or human, runs once, within the budget,
  and is recorded in order; and when every path uses up an iteration.
* **Durable runs.** A process dies between an effect and its record. Correct
  when a decision runs again at most once per loss, and cost and iteration
  survive every pause, save and load.
* **Streaming.** Streams share one mutable field of the Runtime. Correct when a
  consumer gets all events of its run, in order, before the final item, the
  runtime's own sink misses nothing, and it is put back.
* **Breaker, limiter, protected model.** Results arrive in another state of the
  circuit than the one their call was allowed in; tasks are cancelled in the
  queue of the lock or asleep with it. Correct when the circuit moves exactly on
  the streaks it documents and no window of time exceeds rate and burst.
* **Sub-agents.** A call keeps its permit while the calls of the agent it runs wait
  for permits of the same semaphore, and cancellations and exceptions travel down
  and up the nesting. Correct when every run ends and no call is left running
  without the run that asked for it.
* **Checkpointers.** Calls overlap, are cancelled, break and die between two
  commands. Correct when each is atomic, and one that is answered took effect.
* **Compactor and adapters.** A cut through a batch must still be a conversation
  a provider accepts: every answer has its call, in order.

* **File and shell tools.** A timeout leaves a writing thread behind and cancels a
  coroutine that has a process; writes, looks and reads of one file come from
  several threads. Correct when what the answers and events of the tools let a
  caller believe of a file is in it, and no answer hides a living process.
* **Evaluation.** A grade compares two lists whose order should not matter. Correct
  when it is given exactly to the answers that deserve it.

`PROJECT.json` lists the hazards one by one, at their lines, with the
properties that watch them.

## 2. The modules

```
 ToolCallContract  <= implemented by =  ToolExecutor  <- MCToolExecutor, ToolExecutorProofs
 RunLoop           <- MCRunLoop
   \- DurableRun (EXTENDS RunLoop: workers, a store, losses)  <- MCDurableRun
        \- RunLoopProofs (of both)
 CircuitBreaker, RateLimiter
   \- ProtectedModel (INSTANCEs both)  <- MCProtectedModel
        \- ProtectedModelProofs (of all three)
 SubAgents (one ToolExecutor, many RunLoops)  <- MCSubAgents
 Streaming         <- MCStreaming, StreamingProofs
 CheckpointStore   <= implemented by =  Checkpointers  <- MCCheckpointers, CheckpointersProofs
 Transcript        <- MCTranscript, TranscriptProofs
 BuiltinTools      <- MCBuiltinTools
   \- BuiltinToolsProofs (EXTENDS SubAgents too: of both)
 Evaluation        <- MCEvaluation, EvaluationProofs
```

In every module, a definition named `...Slip` is a plausible slip in the
definition that follows it (a dropped guard, a wrong order, a missing reset).
No specification uses them: each property is tried against one of them, to see
that it does fail when the code is wrong. Variables marked *history* are read by
properties only.

**ToolExecutor** (`executor.py`). `pc` is the line of `execute` a call stands
at: `waiting` for the semaphore, `entered`, `invoking` under `wait_for`,
`backoff`, or one of its ends. A *job* is one attempt of one call. Coroutine
handlers end in `HandlerEnds`; synchronous ones are queued by `BeginAttempt`,
taken by `ThreadTakes`, ended by `ThreadEnds` and seen by the loop in `Deliver`.
`TimesOut` and `Cancel` withdraw a coroutine or a queued job, but not a job a
thread has. `Settled` and `Failed` are the branches of the `try`, with the sink
that may raise (`Escape`): an event that raises *inside* the `try` turns a
success into a failed attempt, one that raises outside leaves `execute`, with
the permit returned either way. `Complaint` is what an event reports: a timeout, or an
error with its class, which the policy is asked about. *ToolCallContract* is the same executor as its
caller sees it: pending, starts, one end, which it does reach.

**RunLoop** (`runtime.py`, `state.py`, the truncating compactor). A step ends at
the next await: `LoopTop` is the head of the `while`, `ModelAnswers` splits into
the branches after `adecide` (budget first), `Execute` starts a whole batch,
`CallEnds` ends one call in any order, `BatchEnds` is what follows the `gather`,
`Judge` is `_maybe_finish_after_tools`. A turn's cost is added and the sum rounded
(`Totals`: costs are counted in a unit of which `Grain` make a millionth, and a tie
may go either way, since the code rounds a binary float). `Continue`, `Reject`, `Approve`,
`AnswerQuestion` are the branches of `aresume`. Guard, validator, model and human
answer arbitrarily; a denial, a verdict or an answer without words is no feedback.
`Escapes` is an exception or cancellation that `arun` or `aresume` lets out.

**DurableRun** composes that loop, at several workers, with a store: `Save` and
`Load` are the application's (as in
`lingyia_kit/tests/test_integration_e2e.py:216-231`), `ToDict`/`FromDict` are
`state.py`'s, `Lose` is the end of a process, or an exception that leaves the
caller no state.

**SubAgents** (`sub_agent.py`, with `executor.py` and `runtime.py` around it). `place`
is where a call stands at the semaphore, `run` what a run awaits, `batch` what
its `gather` waits for. The loop is reduced to asking (`Asks`), waiting
(`BatchEnds`) and ending (`Ends`), the attempts of a call to one; what is kept
whole is the way permits, timeouts, cancellations and exceptions go through the
nesting. `Enter` of a sub-agent's call starts its run; `Raises` is an exception
that `execute` lets out, at any event of the call -- at `tool_timeout` its agent's run
was still under way, and is cancelled --, which ends the run that asked for the call
and forgets its batch; `Expires` (of `wait_for`), `Raises` and `CancelRun` withdraw
everything that `Reached` finds below. The names
of the specification itself begin with `Agents`, because BuiltinToolsProofs extends it
and BuiltinTools. It is a model of its own
and not a composition of RunLoop and ToolExecutor, whose product is out of TLC's
reach.

**CircuitBreaker**, **RateLimiter**. One action per operation of the breaker,
which holds its lock throughout. The limiter's `line` is its asyncio lock (the
holder, then the waiters), `Round` one round of its `while True`, `Cancel` a
cancellation in the queue or in the sleep. Time is discrete, counted in tokens;
`excess` is the largest, over all past windows of time, of what a window consumed
beyond its length. **ProtectedModel** instantiates both over shared variables:
`Begin` asks the breaker and enters the limiter without a pause, `Proceed` goes
from the limiter straight into the model -- the breaker is not asked again --
and `Succeeds`/`Fails` tell the breaker; `Cancel` tells it nothing.

**Streaming** (`astream`). `telemetry` is the chain of sinks an event reaches;
`original` is what a generator will put back. `Start`, `Wake`, `More`, `Finish`,
`Close` are what a consumer's `anext`, `aclose` or cancellation does; `Emit` is
any run's `_emit`, through whatever chain is there at that moment.

**Checkpointers** (`sqlite.py`, `redis.py`, `postgres.py`), one `run_id`. A
statement is atomic (autocommit, and the servers' guarantee); what happens
before, between and after statements is not: a thread job under the lock, HSET
and then EXPIRE, the pool that the first call makes and the table after it,
cancelled callers, broken connections, a process that dies and its successor,
`close`. **CheckpointStore** is what a caller may rely on: a register whose
answered calls take effect once between call and answer. A call that fails by itself
did nothing; one whose connection broke, or whose caller was cancelled or died, takes
effect at most once, perhaps later, and an exception alone does not tell which.

**Transcript** (`token_aware.py`, `_openai_base.py`, `anthropic.py`). One run,
turn after turn: `Ask` compacts and builds the request, `CallTools` parses a
response with tool calls (each with a provider's id or without) and observes
their results. Messages are reduced to role, call ids and the calls they stand
for; texts to an estimated size. Grouping and sorting are said by places: `Those`
is what a sequence holds at a set of places, `InOrder` a set of numbers in order.

**BuiltinTools** (`fs.py`, `shell.py`, under `executor.py`). `at` is what the
executor has told the caller of a call, `doing` where its handler is. A file is a
sequence of blocks: `Opens` truncates it, `WritesBlock` puts a block where this
writer stands -- over another writer's, or past the end of what that one has left,
with a `Hole` between --, `Closes` ends the write. `Sizes` and `ReadsText` are the
two looks of `read_file`. What it answers is `Text` of the blocks in the file, not the
blocks: text mode turns CR and CRLF into LF, and `errors="replace"` bytes that are no
UTF-8 into U+FFFD (`Shown`), so what a file held at first (`Found`) and what
`write_file` was given may both read differently. A read is one step. Of a read beside
a write only the length is stated, and a text that grows past the size it was let in
with takes a write before the read is over, whether it reads in one step or in several.
`TimesOut` leaves a
thread running and says so in `told` (`may_still_be_running`), withdraws a job that
has no thread yet, and cancels `run_shell` where it stands; `Cancel` does the same
without telling. `Kills`/`Reaps` are `run_shell`'s own timeout, which comes first
only for the calls in `Patient`. `trusted` (history) is what a caller who reads the
answers and events knows of a file; `believed` is that during a read; `beside` and
`raced` are the reads that had a write announced beside them, and those that a write
did reach between their two looks.

**Evaluation** (`bfcl_runner.py`). `Ask` to `Collect` are `run_split` and `_run_one`
for several questions at a time; a step of grading is one round of
`grade_decision`'s loop, in which an entry takes the first unused call that fits
(`Take`). Values that `_values_match` takes for equal are one value; an acceptable
`""` is `Empty`. `good` (history) are the questions whose decision answers the
ground truth one to one.

## 3. What is checked

TLC, two workers; each run takes from seconds to two minutes.

| Run | Instance | What it shows |
|---|---|---|
| `tool_executor` | 4 calls: a synchronous one retried on timeouts, a synchronous one retried on transient errors whose events the sink may choke on, a coroutine, and one with `max_attempts = 0`; one permit, one pool thread | The permits add up; threads that outlive their attempt are announced; a retry follows a reported failure, which is the one the attempt ended with and of a class the policy retries; a success is of the attempt it names; a completion is final; the executor implements the contract, which includes that every call ends, even if all handlers hang. |
| `run_loop` | one run, 3 iterations, 3 resumes of any run that is not completed, turns that cost 0 or 1 against a budget of 1, in totals rounded to a multiple of 2, no compaction, decisions of no call, two tools, or a barred call and a tool | Interrupt and status agree; only what was cleared runs, and runs once; observations are in the order of the calls, one decision per iteration, none missing; the iterations bound the turns; every call of `arun` or `aresume` returns. |
| `durable_run` | 2 workers, 3 iterations, turns of cost 2 in totals rounded to a multiple of 3, a budget of 2 turns, compaction to one observation, 2 resumes, 1 loss | A decision's tools begin once, and once more at most per loss; a saved run is never replaced by an earlier one; the cost on the state is that of all turns taken, to half a rounding step each, through save, load and compaction; no tool runs over the budget. |
| `sub_agents` | a run whose batches hold a tool and two agents, one with a tool and one with an agent of its own; 2 turns; no cap, 1, 2 or 4 permits | Timeouts and cancellations reach all the way down; every run ends: by itself if there are more permits than agents, and with the timeouts of the executor if there are fewer. |
| `protected_model` | 3 callers, both thresholds 2, reset after 2, requests of 2 tokens of a burst of 3 | Calls running while the circuit is open were allowed before it opened; a full streak always acts; the circuit changes only as documented; the rate holds in every window; every call ends. |
| `streaming` | 2 streams of 2 and 1 events and a plain run, runs that fail, consumers that leave | A stream that overlapped no other yields everything in order; the runtime's own sink misses nothing; it is put back; every stream ends. |
| `overlap_loses_events` | the same | **Violation** of `StreamComplete`. |
| `checkpointers` | any 3 calls on each of the 3 backends, one of them by a build with a later schema; one crash | All three implement the store; Redis keys expire unless a save was cut short. |
| `transcript` | 5 turns of up to 2 calls, both providers, `keep_last_observations` 0, 1, 2, compaction above 2 tokens | Answers match calls, turns are whole decisions but for the first, and what the model sees is the end of the run, its last results included. |
| `builtin_tools` | writes of two blocks and of one, a CRLF, and a read of at most one block, on one file, which may hold either text or bytes that are no UTF-8 at first; a command that `run_shell` may time out itself; each timed out or cancelled at any point | What the answers and events vouch for is in the file; what a read answers is the text of that; it is longer than `max_bytes` only when a write came between the two looks, and was announced; no answer leaves a process. |
| `evaluation` | a parallel question with any ground truth of up to 3 entries and any answer of up to 3 calls, beside another question; one at a time | A `correct` is deserved; where no call fits two entries a deserved one is given. |
| `grading_order` | the same | **Violation** of `OrderInsensitive`. |

### Bounds, and why they are enough

* *Executor.* One permit and one thread make every wait happen; two attempts make
  "the attempt before" and "the last attempt" differ; the four calls cover the
  combinations of thread or coroutine, retried or not, and raising sink. More calls
  only queue longer.
* *Loop.* Runs share nothing inside the loop, so one worker. Three iterations and
  three resumes allow any two pauses with a turn between them and one after.
  Turns that cost nothing keep the budget from hiding the other paths. `Keep` is
  0 in `run_loop`, which drops nothing (Python's `list[-0:]`), and bites in
  `durable_run`, which therefore states nothing about observations that compaction
  drops.
* *Durable run.* Two workers, for a hand-over there and back; one loss is enough
  for the repeat, and the property counts losses. Workers are interchangeable and
  no property of the run is a liveness property, so they are a symmetry set.
* *Sub-agents.* Three levels, for a cancellation that goes past the next one; two
  agents in one batch, which with two permits keep each other's calls waiting; a
  sibling that can raise and leave them behind. Without timers TLC finds the wait
  at one and two permits. Two turns let a run meet calls left from its last.
* *Protected model.* With three callers one sleeps with the lock, one queues
  behind it and one is in the model. Thresholds of two tell a streak from a
  single result. `MaxFailures`, `openFor`, `unread` and `age` stop where the
  code no longer compares them; each module says so at the variable.
* *Streaming.* Two events fill a queue beyond the one the generator waits for.
* *Checkpointers.* Three calls: two that overlap and one that sees what they left.
* *Transcript.* Five turns let compaction meet its own marker twice and cut a
  batch in two.

* *Built-in tools.* Two writes of different length can truncate, overlap and outlast
  each other; the read fits one of them only. A write is answered before, between and
  after each step of the other. One of them, and one of the contents the file can have
  at first, reads differently from what is there.
* *Evaluation.* Three entries of three kinds (one value, two, optional) and four kinds
  of calls give every pattern of who fits whom that two overlapping entries can make.

### Fairness

* *ToolExecutor*: weak fairness of `Enter`, `NoAttempt`, `BeginAttempt` and
  `TimesOut` -- the event loop runs what is ready and timers fire. Nothing of
  handlers and threads: the contract's `EveryCallEnds` holds although all of them hang.
  A coroutine handler does end when it is cancelled (`Withdraw`); one that swallows
  `CancelledError` keeps `wait_for`, and its call, waiting.
* *RunLoop*: the model answers or fails, a tool call ends (which is what
  `EveryCallEnds` says of the executor), the loop goes on. The caller need not
  start or resume anything.
* *SubAgents*: models answer, handlers return, permits are handed on. `RunsEnd` adds
  the timers of `wait_for` as a premise where permits can run out, so that it says
  which runs depend on them. Nobody has to start, raise or cancel anything.
* *Streaming*: runs end (`CallsReturn`), the loop wakes generators, and a consumer
  that began goes on asking or leaves. Nobody has to begin.
* *ProtectedModel*: time passes, `acquire` goes on when it can, the model answers
  or raises (the clients have timeouts). Callers need not call.
* *DurableRun*, *Checkpointers*, *Transcript*, *BuiltinTools* and *Evaluation* make
  safety claims only.

## 4. What is proved

The proof modules prove, for every value of the constants:

* **ToolExecutorProofs**: `TypeCorrect`; `PermitsAreConserved`, from types alone,
  by counting `Holders` (one lemma for a call that leaves, one for the sets);
  and, from the inductive `JobInv`, `NoLateStart`, `OrphansAreAnnounced` and
  `SuccessIsGenuine`. None of the three is inductive alone: `JobInv` adds that a
  queued job is synchronous and not running, that no job runs for an attempt still
  to come, and that an outcome left for the loop is of the awaited attempt, whose
  handler finished with it -- an abandoned thread can leave none. `AwaitedIsCapped`
  is the part of the promised cap that the code keeps. `RetriesAreJustified` needs
  `RetryInv`: every attempt but the last was reported as failed, with the failure it
  ended with and in a class that the policy retries, and the last one too once the call
  is in its backoff. `CompletionsAreFinal` needs that an event of a
  completion is never ahead of its call. `KeepsContract` maps every step to one of
  ToolCallContract or a stutter, from `StartInv`: a handler starts once per attempt
  and nothing starts ahead of the loop. That is the contract's safety part,
  `Contract!Safe`; its fairness stays with the run (`ImplementsContract`).
* **RunLoopProofs**, the loop: `TypeCorrect`; from `Inv`, what holds of one worker's
  state, status and counters together (a state over its budget waits for no approval;
  the turns taken are at most the iteration, one per resume, and one that has not led
  to a new iteration), `InterruptsMatch`,
  `ToolsStayWithinBudget` and `TurnsAreBounded`; from `IdInv` -- a decision that
  waits for approval has run no call, and no identity is above `asks` --
  `RunsOnlyWhatIsCleared` and the action property `RunsAtMostOnce`. The lemmas
  `LoopTopMoves`, `JudgeMoves`, `ExecuteMoves` say what a worker's step can do to
  its state, once for all actions that use them. Three more are about the record that
  a run keeps. Their lemmas sort the steps by what they do to it (`StepOf`: it stays,
  is trimmed, or gets the observations of a batch), and what compaction leaves is an
  end of what was there (`Trimmed`). `RecordsInCallOrder` follows from `LogInv`: all
  that is recorded is older than the decision that runs or waits. `OneDecisionToAPage`
  follows from `PageInv`: only a run that ended or asks has observations of the
  iteration it is in. It assumes that completed runs are not resumed, since the code
  does put two decisions into one iteration when they are (section 5), and
  `run_loop` leaves those resumes out too. `InvocationsAreRecorded` follows from
  `RecordInv`: a call that ran is in the batch, on the record, or its run raised. It
  assumes `Keep = 0`, which drops nothing: what compaction drops is not on the record.
* **RunLoopProofs**, the durable run: every property of `durable_run`, from
  `DurableInv`, for any number of workers, losses and resumes. What is written and
  read back is the state that was written (`RoundTrip`), and only the owner moves, so
  `DurableToolsStayWithinBudget` carries the loop's `Inv` over a store.
  `StoreAlwaysAdvances`: what the owner holds is never behind the snapshot.
  `BeginsOncePerLoss`: a decision that waits for approval, with the owner or after a
  loss in the store, was begun at most once per loss so far. `TurnsAreAccounted` bounds the rounding of each turn.
* **CheckpointersProofs**: `TypeCorrect`, `KeysAlwaysExpire` and the refinement
  `CheckpointersAreStores`, the run's two properties and the shape of the state, for any number of calls and
  crashes. `CheckpointInv` adds that the stored row is a save that has begun, that
  only SQLite's calls run in a thread and only saves of Redis have a second command,
  and that a call under way has no answer unless its caller is gone. The statement of
  a call is where it takes effect (`AppliedTakesEffect`), a crash is all its callers'
  leaving at once, with those calls staying behind that a server had been sent
  (`CrashIsSeen`), and the steps between awaits are not seen (`HiddenStep`).
* **EvaluationProofs**: `GradesAreSound` and `ClearCasesAreAlwaysExact`. `GradingInv`
  follows the matching: the entries matched so far have calls of their own, exactly
  those used (`Found`), and whether the decision deserves its grade was settled when
  it came (`GoodIsAnswered`). Where no call fits two entries, the call that answers
  the next entry cannot be used already (`ClearEntryFits`).
* **ProtectedModelProofs**, the breaker: `CountersAreAlwaysStreaks`, `StreaksAlwaysAct`,
  `BreakerChangesCorrect`, theorems of `CB!Spec`, from the invariant that the code's
  counters are the streaks recorded in the present state, which fails if one of them
  survives a change of state.
* **ProtectedModelProofs**, the limiter: `RateAlwaysConforms`, about tasks that may
  ask any number (`Needs` is `Nat`; fewer needs have fewer behaviours). `excess <=
  Burst` is not inductive; `Conserved` is: what the windows took beyond their length
  is missing from the bucket, refill not yet read included. `LimiterTypeCorrect` needs
  `InLine`: every task in the lock's line waits, and stands there once, so a cancelled
  one is gone from it (`LeftIsTheRest`) and no sleep is for more than the bucket holds.
* **ProtectedModelProofs**, the whole: `BreakerHolds` and `LimiterHolds` -- with any
  number of callers the composition implements both specifications, so their theorems
  carry over (`StreaksActAmongCallers`, `ChangesAsDocumentedAmongCallers`,
  `RateConformsAmongCallers`, `TypeCorrect`) -- and `LateCallsAreAlwaysOld`. All of
  the run's safety properties are proved.
* **StreamingProofs**: every safety property of the run, for any number of streams,
  runs and events: `NothingIsEverHidden`, from the chains that begin with the
  runtime's own sink; `AlwaysRestored`, since streams that never met find and give
  back that sink; and `LoneStreamsAreComplete`. For the last the queue of a lone
  stream goes on, event by event, where what it yielded stops (`GoesOn`): the lemmas
  `EmitGoesOn`, `OthersGoBy` and `YieldMoves` say that of sequences alone.
* **BuiltinToolsProofs**: `WritesAreAlwaysKept`, `ReadsAreAlwaysTrue`,
  `LongReadsAreAlwaysRaces`, `ProcessesAlwaysEndWithAnswers`. The strengthening is about who may be at work: a
  handler runs only if the call is awaited, was cancelled or is announced, so contents
  that are vouched for have no writer (`PathInv`), and a write that will be vouched
  for has its file to itself and has put there exactly what it counts (`WriteInv`). For the
  length of a read, `MeetInv`: a write at work while a read is awaited was announced
  beside it, and what the file holds between the two looks is within `max_bytes` unless
  such a write has reached it since.
* **BuiltinToolsProofs**, the sub-agent tool: `AgentsTypeCorrect` -- an agent's run is
  under way exactly while its call is inside -- and `NothingElseLeavesCalls`, for every
  nesting. They are about the specification of SubAgents, `AgentsSpec`. The
  strengthening says that a run which waits for no gather has no batch, and the
  lemma `ReachedIsClosed` that a cancellation takes each agent's batch with it.
* **TranscriptProofs**: `AnswersAlwaysMatchCalls`, `TurnsAreAlwaysDecisions`,
  `LatestAreAlwaysSeen`, all of the run's properties, for any number of turns and
  calls, every budget and every `keep_last_observations`. The inductive `Inv` is about
  observations, not messages: the results of a run come in order (`MadeInOrder`), what
  compaction leaves of them is some markers and then an unbroken end, whole or at least
  as long as it was told to keep (`Remains`, `CompactionLeaves`), and the last request
  was built from such a rest when no batch was half recorded (`Requested`). What is sent
  follows without another induction over steps: the iterations cut the results into
  pieces without gaps (`IterationsCut`, `Grouped`), and `LayoutOf` says which message,
  and which place in it, answers which call, for both providers at once. Sequences are
  handled by place: `NthOfListed` (a list in increasing order is its set sorted),
  `FlattenParts` (where each part of a flattened sequence is) and `SuffixByPlace`. Where
  these need an induction it is that of a least counterexample (`LeastExists`, from the
  well-foundedness of `<` on `Nat`), which takes a set and no operator parameter.

The assumptions are the named `...Assumption`s of the modules: finite sets of
calls, natural bounds, thresholds, burst and timeout of at least one (which
`circuit_breaker.py` and `rate_limiter.py` demand), at least one call in a decision
with calls; and the two named above, of `OneDecisionToAPage` and
`InvocationsAreRecorded`.

Only model-checked is all liveness: `EveryCallEnds` in the executor's contract, `CallsReturn`,
`StreamsEnd`, `CallsEnd`, `RunsEnd`. Fairness is out of the prover's reach. Of
`ImplementsContract` that is the only part left.

## 5. Where the code and its words differ

Each of these is a run in which TLC finds the counterexample.

1. `StreamComplete` (`overlap_loses_events`): two overlapping streams on one Runtime
   lose events, because each restores the sink it found (`runtime.py:219-241`)
   although the docstring promises each emitted event (`runtime.py:209`).
2. `OrderInsensitive` (`grading_order`): an entry of the ground truth takes the first
   call that fits (`bfcl_runner.py:237-248`), which may be the only one for a later
   entry; the comment promises order-insensitive matching (`bfcl_runner.py:229`). An
   answer that deserves `correct` is graded `wrong_args`, so the accuracy of a split
   is a lower bound.

Observed while modelling, and taken into the models as the code has it:

* a synchronous handler that times out keeps its thread, and its permit goes to the
  next call (`executor.py:149-151, 260-262`): `max_concurrency` caps the awaited
  invocations (`AwaitedIsCapped`), not those "in flight" (`executor.py:121-122`);
* a second worker's first call finds the Postgres pool before the table and fails
  (`postgres.py:80-87`), although workers may share an instance
  (`postgres.py:37-38`): in Checkpointers that call raises, which the store allows;
* the compaction marker is there so that the model knows (`token_aware.py:4-5`); both
  adapters skip it (`_openai_base.py:116-118`, `anthropic.py:87-89`);
* when the executor's timeout, which is as long as `run_shell`'s own and starts first,
  cancels `run_shell`, its process lives on (`shell.py:55-64`), announced with
  `may_still_be_running` false (`executor.py:217`): `ProcessesEndWithAnswers` is what
  is left;
* a retried `write_file` may be overwritten by the thread of the attempt before it;
  `WritesAreKept` vouches for nothing then, and `write_file` has no retry by default;
* an entry without ground truth in a split of single calls raises `IndexError`
  (`bfcl_runner.py:257-261`) and ends the whole split: `GradeRaises`;
* `read_file` decodes in text mode (`fs.py:41`), so it answers with LF where
  `write_file` (`fs.py:88`) was given CR or CRLF: `ReadsAreTrue` is about the text of
  what is vouched for, not about what was written;
* turns that cost less than half a millionth never add up to a budget
  (`runtime.py:324`): `TurnsAccounted` allows half a millionth a turn;
* the semaphore is bound to the first event loop that waits on it (`executor.py:136`);
  the models have one loop;
* neither `arun` nor `aresume` calls the checkpointer that the Runtime is given
  (`runtime.py:114`), though `docs/ARCHITECTURE.md:122` says so: DurableRun's caller
  saves;
* the cost of a sub-agent stays in its tool's output (`sub_agent.py:128-135`);
  the docstring has it in the parent's accumulator (`sub_agent.py:23-24`);
* one raising call ends its run at once and leaves the other calls of the batch
  running (`runtime.py:488`, a `gather` without `return_exceptions`):
  `OnlyRaisesLeaveCalls` is what is left;
* an answer after a non-retryable error reports `attempts = max_attempts`
  (`executor.py:247`), so the contract promises nothing about failed answers;
* a final answer whose turn crosses the budget is discarded (`runtime.py:358`);
  the pseudo-code of `docs/ARCHITECTURE.md:72-93` has the check at the end;
* a call allowed before the circuit opened still goes to the model after its wait
  for the limiter (`protected_model.py:42-47`): `LateCallsAreOld` is what is left;
* a COMPLETED run that is resumed goes on in its last iteration and can put two
  decisions into it; `OneDecisionPerIteration` is for the other resumes;
* `asave` on Redis can be acknowledged for a key that expired between HSET and
  EXPIRE (`redis.py:68-76`): the store's specification allows forgetting at any
  moment;
* two first calls on Postgres make two pools, one of which nobody closes
  (`postgres.py:78-88`);
* an empty call id is made up in the assistant's turn and left empty in its answer
  (`_openai_base.py:126, 142`): `AnswersMatchCalls` is for calls with ids;
* with a rate below one per second the default burst refuses every `acquire(1)`
  (`rate_limiter.py:24, 39`); the models take whole bursts of at least one.

## 6. Not modelled

* *In the modelled parts*: texts, arguments, outputs, token counts and timestamps;
  more than one event loop; the in-memory checkpointer, whose two operations never
  wait; tool schemas and response texts of the adapters.
* *In ToolExecutor*: a coroutine handler that goes on when it is cancelled.
* *In RunLoop*: a run that raised is not resumed. `arun`'s caller has no state to
  resume; `aresume`'s has the one it gave, changed up to where the exception came.
  DurableRun has the resume of what was saved before that.
* *In SubAgents*: retries of a sub-agent's call, agents on different Runtimes (which
  share no permits), and what their answers say.
* *In BuiltinTools*: `list_dir`, which only reads a directory; which paths are inside
  the root and which commands on the list (either answer is taken); which bytes a read
  beside a running write gets, of which only the length is stated; a platform where text
  mode writes another line end than LF; files that others change; a pool with fewer threads
  than jobs (ToolExecutor has that).
* *In Evaluation*: reading the data set, the conversion of its schemas, printing, the
  command line; what `_values_match` takes for equal is given, not compared.
* *Not at all*: the HTTP tool, pricing, telemetry sinks, redaction, secrets, the ReAct
  pattern and the examples: pure functions, I/O and wiring, with no step of another
  actor in between.

## 7. Plan

1. *(done)* ToolExecutor with its contract; RunLoop with the rounding of costs;
   DurableRun; breaker, limiter and their composition; SubAgents; Streaming; the
   checkpointers and their abstract store; Transcript; BuiltinTools; Evaluation.
2. *(done)* The proofs of section 4: every safety property of the passing runs is a
   theorem.
3. What would come next: `list_dir` and the HTTP tool's limits on an answer, and a
   composition of Transcript with RunLoop's guard and validator, whose feedback is
   only counted here.
