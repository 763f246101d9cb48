------------------------------ MODULE RunLoop ------------------------------
(***************************************************************************)
(* lingyia_core/runtime.py: the agent loop of Runtime (arun, aresume,      *)
(* _continue, _execute_decision, _maybe_finish_after_tools) for one run at *)
(* each of several workers.  A step goes from one await to the next: the   *)
(* model's answer, the end of one tool call, the end of the gather.        *)
(*                                                                         *)
(* A decision is known by its identity, its kind, its calls and its cost.  *)
(* Texts, tokens, tool results and timestamps are abstracted away; costs   *)
(* are counted in a unit finer than the one that totals are rounded to.    *)
(* The verdicts of guard and validator, and the human, are the environment.*)
(*                                                                         *)
(* An operator named ...Slip is a plausible slip in the definition that    *)
(* follows it; no specification uses it.                                   *)
(***************************************************************************)
EXTENDS Naturals, Sequences

CONSTANTS
  Workers,        \* tasks that run the loop, each with a run of its own
  MaxIterations,  \* Runtime.max_iterations
  MaxCost,        \* Runtime.max_cost_usd; 0 means no budget
  Costs,          \* what one model turn can cost
  Grain,          \* the millionth of a dollar that a total is rounded to
  CallLists,      \* the tool_calls of a decision: sequences over CallKinds
  Keep,           \* TruncatingCompactor's max_observations and max_feedback
  Resumable,      \* the statuses after which the caller calls aresume
  MaxResumes      \* bound: calls of aresume per worker

\* A call runs a tool, or is answered at once: no such tool, or no permission.
CallKinds == {"tool", "barred"}
Statuses  == {"completed", "paused", "failed", "stopped", "approval_required"}

ASSUME LoopAssumption ==
  /\ MaxIterations \in Nat /\ MaxCost \in Nat /\ Keep \in Nat
  /\ Costs \subseteq Nat /\ Grain \in Nat \ {0}
  /\ CallLists \subseteq Seq(CallKinds)
  /\ Resumable \subseteq Statuses
  /\ MaxResumes \in Nat

VARIABLES
  pc,        \* [Workers -> {"idle", "model", "tools"}]: what the loop awaits
  st,        \* [Workers -> RunStates]: the RunState the loop works on
  result,    \* [Workers -> ...]: how the last arun or aresume ended
  batch,     \* [Workers -> Batches]: the decision being executed
  asks,      \* history: how many decisions models made; it names the next one
  turns,     \* history: [Workers -> Nat], how many of them for this worker
  resumes,   \* history: [Workers -> Nat], calls of aresume
  cleared,   \* history: decisions allowed by guard or human
  invoked    \* history: [Workers -> sets of <<decision, call>>], tools started

vars == <<pc, st, result, batch, asks, turns, resumes, cleared, invoked>>

Decisions == [id : Nat, calls : CallLists]
Nothing   == [id |-> 0, calls |-> <<>>]

\* Interrupt, with the pending decision of an approval.
Reasons    == {"none", "approval", "question"}
Interrupts == [reason : Reasons, pending : Decisions \cup {Nothing}]
NoInterrupt == [reason |-> "none", pending |-> Nothing]
Question    == [reason |-> "question", pending |-> Nothing]
Approval(d) == [reason |-> "approval", pending |-> d]

Observation == [iteration : Nat, decision : Nat, call : Nat]
Sources     == {"denied", "rejected", "human", "validator"}
RunStates   == [iteration : Nat, observations : Seq(Observation),
                feedback : Seq(Sources), interrupt : Interrupts, cost : Nat]
FreshState  == [iteration |-> 0, observations |-> <<>>, feedback |-> <<>>,
                interrupt |-> NoInterrupt, cost |-> 0]

-----------------------------------------------------------------------------
\* TruncatingCompactor: list[-n:], which is the whole list when n is 0.
LastN(s, n) == IF n = 0 \/ Len(s) <= n THEN s ELSE SubSeq(s, Len(s) - n + 1, Len(s))

Compacted(s) ==
  IF Len(s.observations) > Keep \/ Len(s.feedback) > Keep
  THEN [s EXCEPT !.observations = LastN(@, Keep), !.feedback = LastN(@, Keep)]
  ELSE s

Told(s, source) == [s EXCEPT !.feedback = Append(@, source)]
NextIteration(s) == [s EXCEPT !.iteration = @ + 1]
Interrupted(s, interrupt) == [s EXCEPT !.interrupt = interrupt]

\* arun or aresume returns a RunResult with this status and state.
Return(w, s, status) ==
  /\ pc' = [pc EXCEPT ![w] = "idle"]
  /\ st' = [st EXCEPT ![w] = s]
  /\ result' = [result EXCEPT ![w] = status]

\* The head of _continue's while loop: stop, or compact and ask the model.
LoopTop(w, s) ==
  \/ /\ s.iteration < MaxIterations
     /\ pc' = [pc EXCEPT ![w] = "model"]
     /\ st' = [st EXCEPT ![w] = Compacted(s)]
     /\ result' = [result EXCEPT ![w] = "none"]
  \/ /\ s.iteration >= MaxIterations
     /\ Return(w, s, "stopped")

\* _maybe_finish_after_tools, with the validator's verdict.
Judge(w, s) ==
  \/ Return(w, s, "completed")
  \/ Return(w, Interrupted(s, Question), "paused")
  \/ LoopTop(w, NextIteration(s))
  \/ LoopTop(w, NextIteration(Told(s, "validator")))

\* _execute_decision: start every call of d at once, or have none to start.
Calls(d) == 1..Len(d.calls)
Tools(d) == {<<d.id, i>> : i \in {k \in Calls(d) : d.calls[k] = "tool"}}

Execute(w, s, d) ==
  \/ /\ Len(d.calls) = 0
     /\ Judge(w, s)
     /\ UNCHANGED <<batch, invoked>>
  \/ /\ Len(d.calls) > 0
     /\ pc' = [pc EXCEPT ![w] = "tools"]
     /\ st' = [st EXCEPT ![w] = s]
     /\ result' = [result EXCEPT ![w] = "none"]
     /\ batch' = [batch EXCEPT ![w] = [decision |-> d, arrived |-> <<>>]]
     /\ invoked' = [invoked EXCEPT ![w] = @ \cup Tools(d)]

-----------------------------------------------------------------------------
Init ==
  /\ pc = [w \in Workers |-> "idle"]
  /\ st = [w \in Workers |-> FreshState]
  /\ result = [w \in Workers |-> "new"]
  /\ batch = [w \in Workers |-> [decision |-> Nothing, arrived |-> <<>>]]
  /\ asks = 0
  /\ turns = [w \in Workers |-> 0]
  /\ resumes = [w \in Workers |-> 0]
  /\ cleared = {}
  /\ invoked = [w \in Workers |-> {}]

\* arun: a fresh RunState enters the loop.
Arun(w) ==
  /\ pc[w] = "idle" /\ result[w] = "new"
  /\ LoopTop(w, FreshState)
  /\ UNCHANGED <<batch, asks, turns, resumes, cleared, invoked>>

\* adecide raises an Exception.
ModelFails(w) ==
  /\ pc[w] = "model"
  /\ Return(w, st[w], "failed")
  /\ UNCHANGED <<batch, asks, turns, resumes, cleared, invoked>>

\* round(prior + cost, 6), where a tie may go either way.
Rounded(c) ==
  {m \in {k * Grain : k \in 0..c} : 2 * m <= 2 * c + Grain /\ 2 * c <= 2 * m + Grain}

Totals(w) == UNION {Rounded(st[w].cost + cost) : cost \in Costs}

\* The cost of the turn is added before anything is done with the decision.
Charged(w, total) == [st[w] EXCEPT !.cost = total]
OverBudget(s) == MaxCost > 0 /\ s.cost > MaxCost

\* adecide returned; whatever the decision is, a run over its budget fails.
Answered(w) ==
  /\ pc[w] = "model"
  /\ asks' = asks + 1
  /\ turns' = [turns EXCEPT ![w] = @ + 1]
  /\ UNCHANGED resumes

BudgetExceeded(w, total) ==
  /\ Answered(w)
  /\ OverBudget(Charged(w, total))
  /\ Return(w, Charged(w, total), "failed")
  /\ UNCHANGED <<batch, cleared, invoked>>

WithinBudgetSlip(w, total) == Answered(w) /\ ~OverBudget(st[w])
WithinBudget(w, total) == Answered(w) /\ ~OverBudget(Charged(w, total))

\* FINAL_ANSWER: the validator may still ask for a human.
FinalAnswer(w, total) ==
  /\ WithinBudget(w, total)
  /\ \/ Return(w, Interrupted(Charged(w, total), Question), "paused")
     \/ Return(w, Charged(w, total), "completed")
  /\ UNCHANGED <<batch, cleared, invoked>>

AskHuman(w, total) ==
  /\ WithinBudget(w, total)
  /\ Return(w, Interrupted(Charged(w, total), Question), "paused")
  /\ UNCHANGED <<batch, cleared, invoked>>

Abort(w, total) ==
  /\ WithinBudget(w, total)
  /\ Return(w, Charged(w, total), "failed")
  /\ UNCHANGED <<batch, cleared, invoked>>

\* CALL_TOOL: the guard asks for approval, denies, or allows.
NewDecision(calls) == [id |-> asks + 1, calls |-> calls]

GuardAsks(w, total, calls) ==
  /\ WithinBudget(w, total)
  /\ Return(w, Interrupted(Charged(w, total), Approval(NewDecision(calls))),
            "approval_required")
  /\ UNCHANGED <<batch, cleared, invoked>>

\* The reason of a denial may be empty, and then it is no feedback.
GuardDeniesSlip(w, total) ==
  /\ WithinBudget(w, total)
  /\ \/ LoopTop(w, Told(Charged(w, total), "denied"))
     \/ LoopTop(w, Charged(w, total))
  /\ UNCHANGED <<batch, cleared, invoked>>
GuardDenies(w, total) ==
  /\ WithinBudget(w, total)
  /\ \/ LoopTop(w, NextIteration(Told(Charged(w, total), "denied")))
     \/ LoopTop(w, NextIteration(Charged(w, total)))
  /\ UNCHANGED <<batch, cleared, invoked>>

GuardAllows(w, total, calls) ==
  /\ WithinBudget(w, total)
  /\ cleared' = cleared \cup {asks + 1}
  /\ Execute(w, Charged(w, total), NewDecision(calls))

\* One call of the batch ends, in any order (its own story is ToolExecutor's).
CallEndsSlip(w, i) ==
  /\ pc[w] = "tools"
  /\ i \in Calls(batch[w].decision) /\ batch[w].decision.calls[i] = "tool"
  /\ \A k \in 1..Len(batch[w].arrived) : batch[w].arrived[k] # i
  /\ batch' = [batch EXCEPT ![w].arrived = Append(@, i)]
  /\ UNCHANGED <<pc, st, result, asks, turns, resumes, cleared, invoked>>
CallEnds(w, i) ==
  /\ pc[w] = "tools"
  /\ i \in Calls(batch[w].decision)
  /\ \A k \in 1..Len(batch[w].arrived) : batch[w].arrived[k] # i
  /\ batch' = [batch EXCEPT ![w].arrived = Append(@, i)]
  /\ UNCHANGED <<pc, st, result, asks, turns, resumes, cleared, invoked>>

\* gather returns when every call has ended: the observations are recorded in
\* the order of the calls, and the validator judges.
ObservationsOfSlip(w) ==
  [k \in Calls(batch[w].decision) |->
     [iteration |-> st[w].iteration, decision |-> batch[w].decision.id,
      call |-> batch[w].arrived[k]]]
ObservationsOfFirstSlip(w) ==
  <<[iteration |-> st[w].iteration, decision |-> batch[w].decision.id, call |-> 1]>>
ObservationsOf(w) ==
  [k \in Calls(batch[w].decision) |->
     [iteration |-> st[w].iteration, decision |-> batch[w].decision.id, call |-> k]]

BatchEnds(w) ==
  /\ pc[w] = "tools"
  /\ Len(batch[w].arrived) = Len(batch[w].decision.calls)
  /\ Judge(w, [st[w] EXCEPT !.observations = @ \o ObservationsOf(w)])
  /\ UNCHANGED <<batch, asks, turns, resumes, cleared, invoked>>

\* The task is cancelled, or a callback or sink raises: arun has no result, and the
\* state it made goes with it.  A caller of aresume still holds the state it gave,
\* changed up to there; that it may resume that one again is left out.
Escapes(w) ==
  /\ pc[w] \in {"model", "tools"}
  /\ Return(w, st[w], "raised")
  /\ UNCHANGED <<batch, asks, turns, resumes, cleared, invoked>>

\* aresume takes the interrupt off the state before anything else.
Resume(w) ==
  /\ pc[w] = "idle" /\ result[w] \in Resumable
  /\ resumes[w] < MaxResumes
  /\ resumes' = [resumes EXCEPT ![w] = @ + 1]
  /\ UNCHANGED <<asks, turns>>

TakenSlip(w) == st[w]
Taken(w) == Interrupted(st[w], NoInterrupt)

ContinueSlip(w) ==
  /\ Resume(w)
  /\ st[w].interrupt.reason = "none"
  /\ LoopTop(w, [Taken(w) EXCEPT !.iteration = 0])
  /\ UNCHANGED <<batch, cleared, invoked>>
Continue(w) ==
  /\ Resume(w)
  /\ st[w].interrupt.reason = "none"
  /\ LoopTop(w, Taken(w))
  /\ UNCHANGED <<batch, cleared, invoked>>

RejectSlip(w) ==
  /\ Resume(w)
  /\ st[w].interrupt.reason = "approval"
  /\ Execute(w, Taken(w), st[w].interrupt.pending)
  /\ UNCHANGED cleared
Reject(w) ==
  /\ Resume(w)
  /\ st[w].interrupt.reason = "approval"
  /\ LoopTop(w, NextIteration(Told(Taken(w), "rejected")))
  /\ UNCHANGED <<batch, cleared, invoked>>

Approve(w) ==
  /\ Resume(w)
  /\ st[w].interrupt.reason = "approval"
  /\ cleared' = cleared \cup {st[w].interrupt.pending.id}
  /\ Execute(w, Taken(w), st[w].interrupt.pending)

\* The answer to a question may be empty.
AnswerQuestionSlip(w) ==
  /\ Resume(w)
  /\ st[w].interrupt.reason = "question"
  /\ LoopTop(w, Told(Taken(w), "human"))
  /\ UNCHANGED <<batch, cleared, invoked>>
AnswerQuestion(w) ==
  /\ Resume(w)
  /\ st[w].interrupt.reason = "question"
  /\ \/ LoopTop(w, NextIteration(Told(Taken(w), "human")))
     \/ LoopTop(w, NextIteration(Taken(w)))
  /\ UNCHANGED <<batch, cleared, invoked>>

\* Nothing is going on; the caller is not obliged to resume.
Rest ==
  /\ \A w \in Workers : pc[w] = "idle" /\ result[w] # "new"
  /\ UNCHANGED vars

ModelAnswers(w) ==
  \/ \E total \in Totals(w) :
       \/ BudgetExceeded(w, total)
       \/ FinalAnswer(w, total) \/ AskHuman(w, total) \/ Abort(w, total)
       \/ GuardDenies(w, total)
       \/ \E calls \in CallLists : GuardAsks(w, total, calls) \/ GuardAllows(w, total, calls)
  \/ ModelFails(w)

SomeCallEnds(w) == \E i \in Calls(batch[w].decision) : CallEnds(w, i)

Caller(w) == Arun(w) \/ Continue(w) \/ Reject(w) \/ Approve(w) \/ AnswerQuestion(w)

Next ==
  \/ \E w \in Workers :
       \/ ModelAnswers(w) \/ SomeCallEnds(w) \/ BatchEnds(w) \/ Escapes(w)
       \/ Caller(w)
  \/ Rest

\* The model answers or fails, every tool call ends (ToolExecutor's
\* ImplementsContract), and the loop goes on when it can.  Nothing obliges the caller
\* to start or resume a run.
Fairness ==
  \A w \in Workers :
    /\ WF_vars(ModelAnswers(w))
    /\ WF_vars(SomeCallEnds(w))
    /\ WF_vars(BatchEnds(w))

Spec == Init /\ [][Next]_vars /\ Fairness

-----------------------------------------------------------------------------
(* Properties *)

\* A result is "lost" only where a process can be lost, in DurableRun.
Results == {"new", "none", "raised", "lost"} \cup Statuses

\* The shape of the state.
TypeOK ==
  /\ pc \in [Workers -> {"idle", "model", "tools"}]
  /\ st \in [Workers -> RunStates]
  /\ result \in [Workers -> Results]
  /\ batch \in [Workers -> [decision : Decisions \cup {Nothing}, arrived : Seq(Nat)]]
  /\ asks \in Nat
  /\ turns \in [Workers -> Nat]
  /\ resumes \in [Workers -> 0..MaxResumes]
  /\ cleared \subseteq Nat
  /\ invoked \in [Workers -> SUBSET (Nat \X Nat)]

\* A returned state carries an interrupt exactly when its status asks for a
\* human, of the reason the status names, with a decision to approve exactly
\* when approval is asked; while the loop runs there is none.  This is what
\* makes aresume's "approval interrupt missing pending decision" branch
\* (runtime.py:270-273) unreachable.
InterruptMatchesStatus ==
  \A w \in Workers :
    LET interrupt == st[w].interrupt
    IN  /\ interrupt.reason = "question" <=> result[w] = "paused"
        /\ interrupt.reason = "approval" <=> result[w] = "approval_required"
        /\ interrupt.reason = "approval" <=> interrupt.pending # Nothing
        /\ pc[w] # "idle" => result[w] = "none"

\* A tool runs only for a decision that the guard allowed, or that the guard
\* sent to a human who approved that very decision.
RunsOnlyCleared ==
  \A w \in Workers : \A call \in invoked[w] : call[1] \in cleared

\* However a run is paused and resumed, a batch that begins is a decision's
\* first: no call of it ran before.
RunsOnce ==
  [][\A w \in Workers : pc[w] # "tools" /\ pc'[w] = "tools" =>
       \A call \in invoked[w] : call[1] # batch'[w].decision.id]_vars

\* Observations stand in the order of the decisions and, within a decision, of
\* its calls -- not of the calls' ends -- and no call of a decision is missing
\* from the middle.
ObservationsInCallOrder ==
  \A w \in Workers : \A k \in 1..(Len(st[w].observations) - 1) :
    LET this == st[w].observations[k]
        next == st[w].observations[k + 1]
    IN  \/ next.decision = this.decision /\ next.call = this.call + 1
        \/ next.decision > this.decision /\ next.call = 1

\* The observations of an iteration are one decision's: the model adapters
\* rebuild one assistant turn per iteration from them
\* (lingyia_kit/adapters/_openai_base.py:100-161).
OneDecisionPerIteration ==
  \A w \in Workers : \A k \in 1..(Len(st[w].observations) - 1) :
    LET this == st[w].observations[k]
        next == st[w].observations[k + 1]
    IN  next.decision # this.decision => next.iteration > this.iteration

\* A tool that ran is on the record once the run has returned or gone on: no
\* pause, rejection or resume loses its observation.  (Compaction does, so this
\* is for runs that are not compacted.)
InvocationsRecorded ==
  \A w \in Workers : \A call \in invoked[w] :
    \/ pc[w] = "tools" /\ batch[w].decision.id = call[1]
    \/ result[w] = "raised"
    \/ \E n \in 1..Len(st[w].observations) :
         /\ st[w].observations[n].decision = call[1]
         /\ st[w].observations[n].call = call[2]

\* No tool runs for a run over its budget, not even after a human approved a
\* decision or a failed run was resumed.
ToolsWithinBudget ==
  \A w \in Workers : pc[w] = "tools" => MaxCost = 0 \/ st[w].cost <= MaxCost

\* Every turn of the model either ends the call of arun or aresume or moves the
\* run to its next iteration: max_iterations bounds the turns of a run, but for
\* one more per resume.
TurnsBounded ==
  \A w \in Workers : turns[w] <= MaxIterations + resumes[w]

\* Every call of arun or aresume returns, whatever the model, the guard and the
\* validator say.
CallsReturn == \A w \in Workers : pc[w] # "idle" ~> pc[w] = "idle"
=============================================================================
