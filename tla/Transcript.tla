----------------------------- MODULE Transcript -----------------------------
(***************************************************************************)
(* What the model is shown of a run: the observations as the token-aware   *)
(* compactor (lingyia_kit/compactors/token_aware.py) leaves them, and the  *)
(* messages the adapters (adapters/_openai_base.py, adapters/anthropic.py) *)
(* build from them, turn after turn of one run.                            *)
(*                                                                         *)
(* A tool call is known by its place, <<iteration, index>>.  Its call_id   *)
(* is the provider's, or empty when the provider sent none.  Arguments and *)
(* outputs are abstracted to the size the token estimator gives them.      *)
(*                                                                         *)
(* An operator named ...Slip is a plausible slip in the definition that    *)
(* follows it; only mutants use it.                                        *)
(***************************************************************************)
EXTENDS Naturals, Sequences, SequencesExt, FiniteSets, FiniteSetsExt, Functions

CONSTANTS
  Providers,     \* {"openai", "anthropic"} or one of them
  MaxTurns,      \* Runtime.max_iterations
  MaxCalls,      \* bound: the calls of one decision
  Sizes,         \* tokens an observation may be estimated at
  MaxTokens,     \* TokenAwareCompactor.max_tokens, less the goal
  Keeps          \* values of keep_last_observations

ASSUME TranscriptAssumption ==
  /\ {MaxTurns, MaxCalls, MaxTokens} \subseteq Nat
  /\ Sizes \subseteq Nat /\ Keeps \subseteq Nat

VARIABLES
  provider,      \* the adapter's; never changes
  keep,          \* keep_last_observations; never changes
  phase,         \* "loop", "asked" (adecide is awaited) or "ended"
  iteration,     \* RunState.iteration
  observations,  \* RunState.observations
  feedback,      \* Len(RunState.feedback)
  messages,      \* the last request's messages
  made           \* history: all tool results of the run, in order

vars == <<provider, keep, phase, iteration, observations, feedback, messages, made>>

Result(iter, i, id, size) ==
  [kind |-> "tool_result", iteration |-> iter, index |-> i, call_id |-> id, size |-> size]
Marker(iter, dropped) ==
  [kind |-> "compaction_marker", iteration |-> iter, dropped |-> dropped, size |-> 1]

\* call_id: {} is the empty string, {<<iteration, index>>} the provider's id, and
\* {<<iteration, position, "made up">>} the one an adapter falls back to.
Given(iter, i) == {<<iter, i>>}
MadeUp(iter, position) == {<<iter, position, "made up">>}

-----------------------------------------------------------------------------
(* Sequences *)

\* The n-th least of a set of numbers, and all of them in order: sorted().
Nth(S, n) == CHOOSE k \in S : Cardinality({j \in S : j < k}) = n - 1
InOrder(S) == [n \in 1..Cardinality(S) |-> Nth(S, n)]

\* What s holds at the places in the set at, in order.
Those(s, at) == [n \in 1..Cardinality(at) |-> s[Nth(at, n)]]

-----------------------------------------------------------------------------
(* TokenAwareCompactor *)

\* The feedback's texts are taken to be one token each.
Tokens == SumFunction([k \in 1..Len(observations) |-> observations[k].size]) + feedback
ShouldCompact == Tokens > MaxTokens

\* observations[-keep:], which is all of them when keep is 0.
LatestSlip == IF keep = 0 THEN observations ELSE SubSeq(observations, 1, keep)
Latest ==
  IF keep = 0 THEN observations
  ELSE SubSeq(observations, Len(observations) - keep + 1, Len(observations))

CompactedObservations ==
  IF Len(observations) > keep
  THEN <<Marker(Head(Latest).iteration, Len(observations) - keep)>> \o Latest
  ELSE observations

-----------------------------------------------------------------------------
(* _build_messages *)

ResultsAt(obs) == {k \in 1..Len(obs) : obs[k].kind = "tool_result"}
Iterations(obs) == InOrder({obs[k].iteration : k \in ResultsAt(obs)})

OfIterationSlip(obs, iter) == Those(obs, ResultsAt(obs))
OfIteration(obs, iter) == Those(obs, {k \in ResultsAt(obs) : obs[k].iteration = iter})

\* The assistant's turn: one call per result of the iteration.
AssistantIds(results) ==
  [k \in 1..Len(results) |->
     IF results[k].call_id # {} THEN results[k].call_id
     ELSE MadeUp(results[k].iteration, k)]
AssistantTurn(results) ==
  [role |-> "assistant", ids |-> AssistantIds(results),
   calls |-> [k \in 1..Len(results) |-> <<results[k].iteration, results[k].index>>]]

\* The answers: for OpenAI a message each, for Anthropic one message of the user's.
ResultIds(results) == [k \in 1..Len(results) |-> results[k].call_id]
OpenAIResults(results) ==
  [k \in 1..Len(results) |-> [role |-> "tool", ids |-> <<ResultIds(results)[k]>>]]
AnthropicResults(results) == <<[role |-> "user", ids |-> ResultIds(results)]>>

TurnOf(results) ==
  <<AssistantTurn(results)>> \o
    (IF provider = "openai" THEN OpenAIResults(results) ELSE AnthropicResults(results))

Text(role) == [role |-> role, ids |-> <<>>]
Opening == IF provider = "openai" THEN <<Text("system"), Text("user")>> ELSE <<Text("user")>>

\* Only tool results become messages, grouped by iteration; feedback comes last.
BuildMessages(obs, fb) ==
  Opening
    \o FlattenSeq([k \in 1..Len(Iterations(obs)) |-> TurnOf(OfIteration(obs, Iterations(obs)[k]))])
    \o [k \in 1..fb |-> Text("user")]

-----------------------------------------------------------------------------
Init ==
  /\ provider \in Providers /\ keep \in Keeps
  /\ phase = "loop" /\ iteration = 0
  /\ observations = <<>> /\ feedback = 0
  /\ messages = <<>> /\ made = <<>>

\* The loop's head and the adapter's request.
Ask ==
  /\ phase = "loop" /\ iteration < MaxTurns
  /\ phase' = "asked"
  /\ observations' = IF ShouldCompact THEN CompactedObservations ELSE observations
  /\ messages' = BuildMessages(observations', feedback)
  /\ UNCHANGED <<provider, keep, iteration, feedback, made>>

\* The response holds tool calls, with ids or without; all of them are executed
\* and observed, in the order of the decision, and the validator may comment.
Batches ==
  UNION {[1..n -> [id : {TRUE, FALSE}, size : Sizes]] : n \in 1..MaxCalls}
Observed(b) ==
  [i \in 1..Len(b) |->
     Result(iteration, i, IF b[i].id THEN Given(iteration, i) ELSE {}, b[i].size)]

NextIteration == iteration + 1

CallTools ==
  /\ phase = "asked"
  /\ \E b \in Batches :
       /\ observations' = observations \o Observed(b)
       /\ made' = made \o Observed(b)
  /\ feedback' \in {feedback, feedback + 1}
  /\ phase' = "loop"
  /\ iteration' = NextIteration
  /\ UNCHANGED <<provider, keep, messages>>

\* Tool calls that guard or human turn down leave only feedback.
TurnedDown ==
  /\ phase = "asked"
  /\ feedback' = feedback + 1
  /\ phase' = "loop"
  /\ iteration' = NextIteration
  /\ UNCHANGED <<provider, keep, observations, messages, made>>

\* No tool calls in the response, or no iteration left.
Ends ==
  /\ phase = "asked" \/ (phase = "loop" /\ iteration >= MaxTurns)
  /\ phase' = "ended"
  /\ UNCHANGED <<provider, keep, iteration, observations, feedback, messages, made>>

Ended == phase = "ended" /\ UNCHANGED vars

Next == Ask \/ CallTools \/ TurnedDown \/ Ends \/ Ended

Spec == Init /\ [][Next]_vars

-----------------------------------------------------------------------------
(* Properties *)

Places(role) == {k \in 1..Len(messages) : messages[k].role = role}
Turns == Those(messages, Places("assistant"))

\* The assistant's turn that message k belongs to.
TurnBefore(k) == messages[Max({j \in Places("assistant") : j < k})]

\* Every answer that has an id answers a call of the turn right before it, and
\* every call with a provider's id has exactly one answer, however compaction cut
\* the batch.  (A call the provider gave no id is answered with an empty one,
\* under a made-up id in the assistant's turn: _openai_base.py:126 and 142.)
AnswersMatchCalls ==
  LET answers == {k \in 1..Len(messages) :
                    messages[k].role # "assistant" /\ messages[k].ids # <<>>}
  IN  /\ \A k \in answers : \A id \in ToSet(messages[k].ids) \ {{}} :
           id \in ToSet(TurnBefore(k).ids)
      /\ \A j \in Places("assistant"), n \in 1..MaxCalls :
           LET id == Given(messages[j].calls[1][1], n)
           IN  id \in ToSet(messages[j].ids) =>
                 Cardinality({at \in answers \X (1..MaxCalls) :
                                /\ at[2] <= Len(messages[at[1]].ids)
                                /\ messages[at[1]].ids[at[2]] = id}) = 1

\* "each iteration becomes exactly one assistant turn" (_openai_base.py:113-114):
\* the turns are decisions the model made, in order and whole, but for the first,
\* of which compaction may have left only the last calls.
CallsMade(iter) ==
  LET of == Those(made, {k \in 1..Len(made) : made[k].iteration = iter})
  IN  [k \in 1..Len(of) |-> <<iter, of[k].index>>]

TurnsAreDecisions ==
  \A n \in 1..Len(Turns) :
    LET calls == Turns[n].calls
    IN  /\ IsSuffix(calls, CallsMade(calls[1][1]))
        /\ n > 1 => /\ calls = CallsMade(calls[1][1])
                    /\ Turns[n - 1].calls[1][1] < calls[1][1]

\* The model always sees the results of its last batch, as far as keep allows, and
\* what it sees of the run is its end: nothing between is left out.
LatestAreSeen ==
  phase = "asked" =>
    LET seen == FlattenSeq([n \in 1..Len(Turns) |-> Turns[n].calls])
    IN  /\ IsSuffix(seen, [k \in 1..Len(made) |-> <<made[k].iteration, made[k].index>>])
        /\ Len(seen) >= Min({keep, Len(made)})
=============================================================================
