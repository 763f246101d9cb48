--------------------------- MODULE RunLoopProofs ---------------------------
(* What holds of the agent loop for any number of workers, iterations and    *)
(* resumes, and any budget and compaction; and, from the line that says so,  *)
(* of one run that is saved, lost and loaded (DurableRun), for any number of *)
(* losses.                                                                   *)
EXTENDS DurableRun, SequenceTheorems, FiniteSetTheorems, TLAPS

-----------------------------------------------------------------------------
(* Lemmas about the operators *)

\* Truncation leaves a sequence over the same set.
LEMMA LastNIsSeq ==
  ASSUME NEW S, NEW s \in Seq(S), NEW n \in Nat
  PROVE  LastN(s, n) \in Seq(S)
<1>1. CASE n = 0 \/ Len(s) <= n
  BY <1>1 DEF LastN
<1>2. CASE n # 0 /\ Len(s) > n
  <2>1. Len(s) \in Nat /\ Len(s) - n + 1 \in 1..Len(s)+1 /\ Len(s) \in Len(s) - n..Len(s)
    BY <1>2, LenProperties
  <2>2. SubSeq(s, Len(s) - n + 1, Len(s)) \in Seq(S)
    BY <2>1, SubSeqProperties
  <2>3. QED BY <1>2, <2>2 DEF LastN
<1>3. QED BY <1>1, <1>2, LenProperties

\* t is what truncation may leave of o: all of it, or its end.
EndOf(t, o) == Len(t) <= Len(o) /\ \A k \in 1..Len(t) : t[k] = o[Len(o) - Len(t) + k]
Trimmed(t, o) == t = o \/ (Keep # 0 /\ EndOf(t, o))

LEMMA LastNTrims ==
  ASSUME NEW S, NEW s \in Seq(S)
  PROVE  Trimmed(LastN(s, Keep), s)
<1> Keep \in Nat /\ Len(s) \in Nat
  BY LoopAssumption, LenProperties
<1>1. CASE Keep = 0 \/ Len(s) <= Keep
  BY <1>1 DEF LastN, Trimmed
<1>2. CASE Keep # 0 /\ Len(s) > Keep
  <2> DEFINE m == Len(s) - Keep + 1
             t == SubSeq(s, m, Len(s))
  <2>1. m \in 1..Len(s)+1 /\ Len(s) \in m-1..Len(s)
    BY <1>2
  <2>2. Len(t) = Keep /\ \A k \in 1..Keep : t[k] = s[m + k - 1]
    BY <2>1, SubSeqProperties
  <2>3. \A k \in 1..Keep : m + k - 1 = Len(s) - Keep + k
    OBVIOUS
  <2>4. EndOf(t, s)
    BY <1>2, <2>2, <2>3 DEF EndOf
  <2>5. QED BY <1>2, <2>4 DEF LastN, Trimmed
<1>3. QED BY <1>1, <1>2

\* Compaction touches nothing but observations and feedback.
LEMMA CompactedIsState ==
  ASSUME NEW s \in RunStates
  PROVE  /\ Compacted(s) \in RunStates
         /\ Trimmed(Compacted(s).observations, s.observations)
         /\ Compacted(s).iteration = s.iteration
         /\ Compacted(s).cost = s.cost
         /\ Compacted(s).interrupt = s.interrupt
<1>1. /\ LastN(s.observations, Keep) \in Seq(Observation)
      /\ LastN(s.feedback, Keep) \in Seq(Sources)
  BY LastNIsSeq, LoopAssumption DEF RunStates
<1>2. Trimmed(LastN(s.observations, Keep), s.observations)
      /\ Trimmed(s.observations, s.observations)
  BY LastNTrims DEF RunStates, Trimmed
<1>3. QED BY <1>1, <1>2 DEF Compacted, RunStates

LEMMA ToldIsState ==
  ASSUME NEW s \in RunStates, NEW source \in Sources
  PROVE  /\ Told(s, source) \in RunStates
         /\ Told(s, source).iteration = s.iteration
         /\ Told(s, source).cost = s.cost
         /\ Told(s, source).interrupt = s.interrupt
         /\ Told(s, source).observations = s.observations
<1>1. Append(s.feedback, source) \in Seq(Sources)
  BY AppendProperties DEF RunStates
<1>2. QED BY <1>1 DEF Told, RunStates

LEMMA NextIterationIsState ==
  ASSUME NEW s \in RunStates
  PROVE  /\ NextIteration(s) \in RunStates
         /\ NextIteration(s).iteration = s.iteration + 1
         /\ NextIteration(s).cost = s.cost
         /\ NextIteration(s).interrupt = s.interrupt
         /\ NextIteration(s).observations = s.observations
BY DEF NextIteration, RunStates

LEMMA InterruptedIsState ==
  ASSUME NEW s \in RunStates, NEW i \in Interrupts
  PROVE  /\ Interrupted(s, i) \in RunStates
         /\ Interrupted(s, i).iteration = s.iteration
         /\ Interrupted(s, i).cost = s.cost
         /\ Interrupted(s, i).interrupt = i
         /\ Interrupted(s, i).observations = s.observations
BY DEF Interrupted, RunStates

\* The interrupts of the code, and that they differ as their reasons do.
LEMMA InterruptsTyped ==
  /\ NoInterrupt \in Interrupts /\ NoInterrupt.reason = "none"
  /\ NoInterrupt.pending = Nothing
  /\ Question \in Interrupts /\ Question.reason = "question"
  /\ Question.pending = Nothing
  /\ \A d \in Decisions : /\ Approval(d) \in Interrupts
                          /\ Approval(d).reason = "approval"
                          /\ Approval(d).pending = d
BY DEF NoInterrupt, Question, Approval, Interrupts, Reasons

\* What is known of a decision, made or absent.
LEMMA DecisionTyped ==
  ASSUME NEW d \in Decisions \cup {Nothing}
  PROVE  /\ d.id \in Nat /\ d.calls \in Seq(CallKinds)
         /\ Len(d.calls) \in Nat /\ Calls(d) \subseteq Nat
         /\ Tools(d) \subseteq Nat \X Nat
         /\ \A call \in Tools(d) : call[1] = d.id
<1>1. d.id \in Nat /\ d.calls \in Seq(CallKinds)
  <2>1. CASE d \in Decisions
    BY <2>1, LoopAssumption DEF Decisions
  <2>2. CASE d = Nothing
    <3>1. Nothing.id = 0 /\ Nothing.calls = <<>>
      BY DEF Nothing
    <3>2. <<>> \in Seq(CallKinds)
      BY EmptySeq
    <3>3. QED BY <2>2, <3>1, <3>2
  <2>3. QED BY <2>1, <2>2
<1>2. Len(d.calls) \in Nat
  BY <1>1, LenProperties
<1>3. Calls(d) \subseteq Nat
  BY <1>2 DEF Calls
<1>4. QED BY <1>1, <1>2, <1>3 DEF Tools

-----------------------------------------------------------------------------
(* How a step leaves a worker *)

\* Worker w now stands at p with result r, and its state is s, perhaps compacted.
Moved(w, s, p, r) ==
  /\ pc' = [pc EXCEPT ![w] = p]
  /\ result' = [result EXCEPT ![w] = r]
  /\ \E t \in RunStates :
       /\ t.iteration = s.iteration /\ t.cost = s.cost /\ t.interrupt = s.interrupt
       /\ Trimmed(t.observations, s.observations)
       /\ st' = [st EXCEPT ![w] = t]

LEMMA ReturnMoves ==
  ASSUME NEW w \in Workers, NEW s \in RunStates, NEW r, Return(w, s, r)
  PROVE  Moved(w, s, "idle", r)
BY DEF Return, Moved, Trimmed

\* The loop asks the model again, or stops at its limit.
LEMMA LoopTopMoves ==
  ASSUME NEW w \in Workers, NEW s \in RunStates, LoopTop(w, s)
  PROVE  \/ Moved(w, s, "model", "none") /\ s.iteration < MaxIterations
         \/ Moved(w, s, "idle", "stopped") /\ s.iteration >= MaxIterations
BY CompactedIsState, ReturnMoves DEF LoopTop, Moved

\* After tools: the run ends, asks a question, or goes to its next iteration.
LEMMA JudgeMoves ==
  ASSUME NEW w \in Workers, NEW s \in RunStates, Judge(w, s)
  PROVE  \/ Moved(w, s, "idle", "completed")
         \/ Moved(w, Interrupted(s, Question), "idle", "paused")
         \/ \E u \in RunStates :
              /\ u.iteration = s.iteration + 1
              /\ u.cost = s.cost /\ u.interrupt = s.interrupt
              /\ u.observations = s.observations
              /\ LoopTop(w, u)
<1>1. CASE Return(w, s, "completed")
  BY <1>1, ReturnMoves
<1>2. CASE Return(w, Interrupted(s, Question), "paused")
  BY <1>2, ReturnMoves, InterruptedIsState, InterruptsTyped
<1>3. CASE LoopTop(w, NextIteration(s))
  BY <1>3, NextIterationIsState
<1>4. CASE LoopTop(w, NextIteration(Told(s, "validator")))
  <2>1. /\ Told(s, "validator") \in RunStates
        /\ Told(s, "validator").iteration = s.iteration
        /\ Told(s, "validator").cost = s.cost
        /\ Told(s, "validator").interrupt = s.interrupt
        /\ Told(s, "validator").observations = s.observations
    BY ToldIsState DEF Sources
  <2>2. QED BY <1>4, <2>1, NextIterationIsState
<1>5. QED BY <1>1, <1>2, <1>3, <1>4 DEF Judge

\* A decision is executed: there is nothing to run, or a batch begins.
LEMMA ExecuteMoves ==
  ASSUME NEW w \in Workers, NEW s \in RunStates,
         NEW d \in Decisions \cup {Nothing}, Execute(w, s, d)
  PROVE  \/ Judge(w, s) /\ UNCHANGED <<batch, invoked>>
         \/ /\ Moved(w, s, "tools", "none")
            /\ batch' = [batch EXCEPT ![w] = [decision |-> d, arrived |-> <<>>]]
            /\ invoked' = [invoked EXCEPT ![w] = @ \cup Tools(d)]
BY DEF Execute, Moved, Trimmed

\* What a typed state says of one worker.
LEMMA WorkerTyped ==
  ASSUME TypeOK, NEW w \in Workers
  PROVE  /\ st[w] \in RunStates
         /\ st[w].iteration \in Nat /\ st[w].cost \in Nat
         /\ st[w].interrupt \in Interrupts
         /\ st[w].interrupt.pending \in Decisions \cup {Nothing}
         /\ asks \in Nat /\ turns[w] \in Nat /\ resumes[w] \in Nat
BY LoopAssumption DEF TypeOK, RunStates, Interrupts

\* The states that the actions build from a worker's own.
LEMMA ChargedIsState ==
  ASSUME TypeOK, NEW w \in Workers, NEW total \in Totals(w)
  PROVE  /\ Charged(w, total) \in RunStates
         /\ Charged(w, total).iteration = st[w].iteration
         /\ Charged(w, total).cost = total
         /\ Charged(w, total).interrupt = st[w].interrupt
         /\ Charged(w, total).observations = st[w].observations
<1>1. PICK cost \in Costs : total \in Rounded(st[w].cost + cost)
  BY DEF Totals
<1>2. PICK k \in 0..(st[w].cost + cost) : total = k * Grain
  BY <1>1 DEF Rounded
<1>3. k \in Nat /\ Grain \in Nat
  BY <1>2, WorkerTyped, LoopAssumption
<1>4. total \in Nat
  BY <1>2, <1>3
<1>5. QED BY <1>4, WorkerTyped, LoopAssumption DEF Charged, RunStates

LEMMA TakenIsState ==
  ASSUME TypeOK, NEW w \in Workers
  PROVE  /\ Taken(w) \in RunStates
         /\ Taken(w).iteration = st[w].iteration
         /\ Taken(w).cost = st[w].cost
         /\ Taken(w).interrupt = NoInterrupt
         /\ Taken(w).observations = st[w].observations
BY WorkerTyped, InterruptedIsState, InterruptsTyped DEF Taken

LEMMA NewDecisionTyped ==
  ASSUME TypeOK, NEW calls \in CallLists
  PROVE  /\ NewDecision(calls) \in Decisions
         /\ NewDecision(calls).id = asks + 1
         /\ NewDecision(calls) # Nothing
BY DEF NewDecision, Decisions, Nothing, TypeOK

-----------------------------------------------------------------------------
(* Type correctness *)

LEMMA TypesInit == Init => TypeOK
<1> SUFFICES ASSUME Init PROVE TypeOK
  OBVIOUS
<1>1. FreshState \in RunStates
  BY InterruptsTyped, EmptySeq DEF FreshState, RunStates
<1>2. <<>> \in Seq(Nat) /\ 0 \in 0..MaxResumes
  BY LoopAssumption, EmptySeq
<1>3. QED BY <1>1, <1>2 DEF Init, TypeOK, Results

\* Where a worker stands, typed after the step.
StandTyped ==
  /\ pc' \in [Workers -> {"idle", "model", "tools"}]
  /\ st' \in [Workers -> RunStates]
  /\ result' \in [Workers -> Results]

LEMMA MovedTyped ==
  ASSUME TypeOK, NEW w \in Workers, NEW s, NEW p \in {"idle", "model", "tools"},
         NEW r \in Results, Moved(w, s, p, r)
  PROVE  StandTyped
BY DEF TypeOK, Moved, StandTyped

LEMMA LoopTopTyped ==
  ASSUME TypeOK, NEW w \in Workers, NEW s \in RunStates, LoopTop(w, s)
  PROVE  StandTyped
BY LoopTopMoves, MovedTyped DEF Results, Statuses

LEMMA JudgeTyped ==
  ASSUME TypeOK, NEW w \in Workers, NEW s \in RunStates, Judge(w, s)
  PROVE  StandTyped
BY JudgeMoves, LoopTopTyped, MovedTyped DEF Results, Statuses

LEMMA ExecuteTyped ==
  ASSUME TypeOK, NEW w \in Workers, NEW s \in RunStates,
         NEW d \in Decisions \cup {Nothing}, Execute(w, s, d)
  PROVE  /\ StandTyped
         /\ batch' \in [Workers -> [decision : Decisions \cup {Nothing}, arrived : Seq(Nat)]]
         /\ invoked' \in [Workers -> SUBSET (Nat \X Nat)]
<1>1. CASE Judge(w, s) /\ UNCHANGED <<batch, invoked>>
  BY <1>1, JudgeTyped DEF TypeOK
<1>2. CASE /\ Moved(w, s, "tools", "none")
           /\ batch' = [batch EXCEPT ![w] = [decision |-> d, arrived |-> <<>>]]
           /\ invoked' = [invoked EXCEPT ![w] = @ \cup Tools(d)]
  <2>1. <<>> \in Seq(Nat)
    BY EmptySeq
  <2>2. batch' \in [Workers -> [decision : Decisions \cup {Nothing}, arrived : Seq(Nat)]]
    BY <1>2, <2>1 DEF TypeOK
  <2>3. invoked' \in [Workers -> SUBSET (Nat \X Nat)]
    BY <1>2, DecisionTyped DEF TypeOK
  <2>4. QED BY <1>2, <2>2, <2>3, MovedTyped DEF Results
<1>3. QED BY <1>1, <1>2, ExecuteMoves

\* The observations of a batch are observations.
LEMMA BatchRecorded ==
  ASSUME TypeOK, NEW w \in Workers
  PROVE  LET s == [st[w] EXCEPT !.observations = @ \o ObservationsOf(w)]
         IN  /\ s \in RunStates
             /\ s.iteration = st[w].iteration
             /\ s.cost = st[w].cost
             /\ s.interrupt = st[w].interrupt
             /\ s.observations = st[w].observations \o ObservationsOf(w)
<1> DEFINE d == batch[w].decision
<1>1. d \in Decisions \cup {Nothing}
  BY DEF TypeOK
<1>2. d.id \in Nat /\ Len(d.calls) \in Nat /\ st[w] \in RunStates /\ st[w].iteration \in Nat
  BY <1>1, DecisionTyped, WorkerTyped
<1>3. ObservationsOf(w) \in [1..Len(d.calls) -> Observation]
  BY <1>2 DEF ObservationsOf, Calls, Observation
<1>4. ObservationsOf(w) \in Seq(Observation)
  BY <1>2, <1>3, SeqDef
<1>5. st[w].observations \o ObservationsOf(w) \in Seq(Observation)
  BY <1>2, <1>4, ConcatProperties DEF RunStates
<1>6. QED BY <1>2, <1>5 DEF RunStates

LEMMA AnsweredTyped ==
  ASSUME TypeOK, NEW w \in Workers, Answered(w)
  PROVE  /\ asks' \in Nat /\ turns' \in [Workers -> Nat]
         /\ resumes' \in [Workers -> 0..MaxResumes]
BY DEF TypeOK, Answered

LEMMA ResumeTyped ==
  ASSUME TypeOK, NEW w \in Workers, Resume(w)
  PROVE  /\ asks' \in Nat /\ turns' \in [Workers -> Nat]
         /\ resumes' \in [Workers -> 0..MaxResumes]
BY LoopAssumption DEF TypeOK, Resume

LEMMA TypesNext == TypeOK /\ [Next]_vars => TypeOK'
<1> SUFFICES ASSUME TypeOK, [Next]_vars PROVE TypeOK'
  OBVIOUS
<1> DEFINE BatchTyped == batch' \in [Workers -> [decision : Decisions \cup {Nothing}, arrived : Seq(Nat)]]
           InvokedTyped == invoked' \in [Workers -> SUBSET (Nat \X Nat)]
           HistoryTyped == /\ asks' \in Nat /\ turns' \in [Workers -> Nat]
                           /\ resumes' \in [Workers -> 0..MaxResumes]
<1>0. StandTyped /\ BatchTyped /\ InvokedTyped /\ HistoryTyped /\ cleared' \subseteq Nat => TypeOK'
  BY DEF StandTyped, TypeOK
<1> HIDE DEF BatchTyped, InvokedTyped, HistoryTyped
<1>u. /\ UNCHANGED batch => BatchTyped
      /\ UNCHANGED invoked => InvokedTyped
      /\ UNCHANGED <<asks, turns, resumes>> => HistoryTyped
      /\ UNCHANGED cleared => cleared' \subseteq Nat
  BY DEF TypeOK, BatchTyped, InvokedTyped, HistoryTyped
<1>a. \A w \in Workers : Answered(w) => HistoryTyped
  BY AnsweredTyped DEF HistoryTyped
<1>r. \A w \in Workers : Resume(w) => HistoryTyped
  BY ResumeTyped DEF HistoryTyped
<1>1. ASSUME NEW w \in Workers, Arun(w) PROVE TypeOK'
  <2>1. FreshState \in RunStates
    BY InterruptsTyped, EmptySeq DEF FreshState, RunStates
  <2>2. QED BY <1>0, <1>u, <1>1, <2>1, LoopTopTyped DEF Arun
<1>2. ASSUME NEW w \in Workers, ModelFails(w) \/ Escapes(w) PROVE TypeOK'
  <2>1. StandTyped
    BY <1>2, WorkerTyped, ReturnMoves, MovedTyped DEF ModelFails, Escapes, Results, Statuses
  <2>2. QED BY <1>0, <1>u, <1>2, <2>1 DEF ModelFails, Escapes
<1>3. ASSUME NEW w \in Workers, NEW total \in Totals(w),
             BudgetExceeded(w, total) \/ FinalAnswer(w, total)
               \/ AskHuman(w, total) \/ Abort(w, total)
      PROVE  TypeOK'
  <2>1. HistoryTyped
    BY <1>3, <1>a DEF BudgetExceeded, FinalAnswer, AskHuman, Abort, WithinBudget
  <2>2. StandTyped
    BY <1>3, ChargedIsState, InterruptedIsState, InterruptsTyped, ReturnMoves, MovedTyped
       DEF BudgetExceeded, FinalAnswer, AskHuman, Abort, Results, Statuses
  <2>3. QED BY <1>0, <1>u, <1>3, <2>1, <2>2 DEF BudgetExceeded, FinalAnswer, AskHuman, Abort
<1>4. ASSUME NEW w \in Workers, NEW total \in Totals(w), NEW calls \in CallLists,
             GuardAsks(w, total, calls)
      PROVE  TypeOK'
  <2>1. HistoryTyped
    BY <1>4, <1>a DEF GuardAsks, WithinBudget
  <2>2. StandTyped
    BY <1>4, ChargedIsState, NewDecisionTyped, InterruptedIsState, InterruptsTyped,
       ReturnMoves, MovedTyped DEF GuardAsks, Results, Statuses
  <2>3. QED BY <1>0, <1>u, <1>4, <2>1, <2>2 DEF GuardAsks
<1>5. ASSUME NEW w \in Workers, NEW total \in Totals(w), GuardDenies(w, total) PROVE TypeOK'
  <2>1. HistoryTyped
    BY <1>5, <1>a DEF GuardDenies, WithinBudget
  <2>2. /\ NextIteration(Told(Charged(w, total), "denied")) \in RunStates
        /\ NextIteration(Charged(w, total)) \in RunStates
    BY ChargedIsState, ToldIsState, NextIterationIsState DEF Sources
  <2>3. QED BY <1>0, <1>u, <1>5, <2>1, <2>2, LoopTopTyped DEF GuardDenies
<1>6. ASSUME NEW w \in Workers, NEW total \in Totals(w), NEW calls \in CallLists,
             GuardAllows(w, total, calls)
      PROVE  TypeOK'
  <2>1. HistoryTyped
    BY <1>6, <1>a DEF GuardAllows, WithinBudget
  <2>2. StandTyped /\ BatchTyped /\ InvokedTyped
    BY <1>6, ChargedIsState, NewDecisionTyped, ExecuteTyped
       DEF GuardAllows, BatchTyped, InvokedTyped
  <2>3. cleared' \subseteq Nat
    BY <1>6 DEF GuardAllows, TypeOK
  <2>4. QED BY <1>0, <2>1, <2>2, <2>3
<1>7. ASSUME NEW w \in Workers, NEW i \in Calls(batch[w].decision), CallEnds(w, i)
      PROVE  TypeOK'
  <2>1. batch[w].decision \in Decisions \cup {Nothing} /\ batch[w].arrived \in Seq(Nat)
    BY DEF TypeOK
  <2>2. Append(batch[w].arrived, i) \in Seq(Nat)
    BY <2>1, DecisionTyped, AppendProperties
  <2>3. BatchTyped
    BY <1>7, <2>1, <2>2 DEF CallEnds, TypeOK, BatchTyped
  <2>4. QED BY <1>0, <1>u, <1>7, <2>3 DEF CallEnds, StandTyped, TypeOK
<1>8. ASSUME NEW w \in Workers, BatchEnds(w) PROVE TypeOK'
  BY <1>0, <1>u, <1>8, BatchRecorded, JudgeTyped DEF BatchEnds
<1>9. ASSUME NEW w \in Workers, Continue(w) \/ Reject(w) \/ AnswerQuestion(w) PROVE TypeOK'
  <2>1. HistoryTyped
    BY <1>9, <1>r DEF Continue, Reject, AnswerQuestion
  <2>2. /\ Taken(w) \in RunStates
        /\ NextIteration(Taken(w)) \in RunStates
        /\ \A source \in Sources : NextIteration(Told(Taken(w), source)) \in RunStates
    BY TakenIsState, ToldIsState, NextIterationIsState
  <2>3. StandTyped
    BY <1>9, <2>2, LoopTopTyped DEF Continue, Reject, AnswerQuestion, Sources
  <2>4. QED BY <1>0, <1>u, <1>9, <2>1, <2>3 DEF Continue, Reject, AnswerQuestion
<1>10. ASSUME NEW w \in Workers, Approve(w) PROVE TypeOK'
  <2>1. HistoryTyped
    BY <1>10, <1>r DEF Approve
  <2>2. StandTyped /\ BatchTyped /\ InvokedTyped
    BY <1>10, TakenIsState, WorkerTyped, ExecuteTyped DEF Approve, BatchTyped, InvokedTyped
  <2>3. cleared' \subseteq Nat
    BY <1>10, WorkerTyped, DecisionTyped DEF Approve, TypeOK
  <2>4. QED BY <1>0, <2>1, <2>2, <2>3
<1>11. CASE Rest \/ UNCHANGED vars
  BY <1>11 DEF Rest, vars, TypeOK
<1>12. QED
  BY <1>1, <1>2, <1>3, <1>4, <1>5, <1>6, <1>7, <1>8, <1>9, <1>10, <1>11
     DEF Next, ModelAnswers, SomeCallEnds, Caller

\* The shape of the state, compaction and the observations of any batch included.
THEOREM TypeCorrect == Spec => []TypeOK
BY TypesInit, TypesNext, PTL DEF Spec

-----------------------------------------------------------------------------
(* Safety *)

\* The parts of InterruptMatchesStatus for one worker.
Fits(interrupt, p, r) ==
  /\ interrupt.reason = "question" <=> r = "paused"
  /\ interrupt.reason = "approval" <=> r = "approval_required"
  /\ interrupt.reason = "approval" <=> interrupt.pending # Nothing
  /\ p # "idle" => r = "none"

\* A state over its budget neither runs tools nor waits for an approval.
Affordable(s, p) ==
  p = "tools" \/ s.interrupt.reason = "approval" => ~OverBudget(s)

\* Turns n and resumes m of a run against its iteration: a worker in the loop is
\* below the limit, and a turn not followed by a new iteration is one ahead.
Paced(s, p, n, m) ==
  /\ s.iteration <= MaxIterations
  /\ p # "idle" \/ s.interrupt.reason # "none" => s.iteration < MaxIterations
  /\ p = "model" => n <= s.iteration + m
  /\ n <= s.iteration + m \/ (s.iteration < MaxIterations /\ n <= s.iteration + m + 1)

WorkerInv(s, p, r, n, m) ==
  /\ Fits(s.interrupt, p, r) /\ Affordable(s, p) /\ Paced(s, p, n, m)
  /\ r = "new" => n = 0

Inv == \A w \in Workers : WorkerInv(st[w], pc[w], result[w], turns[w], resumes[w])

LEMMA InvInit == Init => Inv
<1> SUFFICES ASSUME Init, NEW w \in Workers
             PROVE  WorkerInv(st[w], pc[w], result[w], turns[w], resumes[w])
  BY DEF Inv
<1>1. /\ st[w] = FreshState /\ pc[w] = "idle" /\ result[w] = "new"
      /\ turns[w] = 0 /\ resumes[w] = 0
  BY DEF Init
<1>2. FreshState.iteration = 0 /\ FreshState.interrupt = NoInterrupt
  BY DEF FreshState
<1>3. WorkerInv(FreshState, "idle", "new", 0, 0)
  BY <1>2, InterruptsTyped, LoopAssumption DEF WorkerInv, Fits, Affordable, Paced
<1>4. QED BY <1>1, <1>3

\* What compaction leaves alone is all that the invariant reads of a state.
LEMMA SameFits ==
  ASSUME NEW s, NEW t, t.iteration = s.iteration, t.cost = s.cost,
         t.interrupt = s.interrupt, NEW p, NEW r, NEW n, NEW m,
         WorkerInv(s, p, r, n, m)
  PROVE  WorkerInv(t, p, r, n, m)
BY DEF WorkerInv, Affordable, Paced, OverBudget

\* The counts of other workers are their own.
Counts(w) ==
  \A v \in Workers \ {w} : turns'[v] = turns[v] /\ resumes'[v] = resumes[v]

\* A step that moves worker w to a place that satisfies the invariant keeps it.
LEMMA MovedKeeps ==
  ASSUME TypeOK, Inv, NEW w \in Workers, NEW s \in RunStates, NEW p, NEW r,
         Moved(w, s, p, r), Counts(w),
         WorkerInv(s, p, r, turns'[w], resumes'[w])
  PROVE  Inv'
<1>1. PICK t \in RunStates :
        /\ t.iteration = s.iteration /\ t.cost = s.cost /\ t.interrupt = s.interrupt
        /\ st' = [st EXCEPT ![w] = t]
  BY DEF Moved
<1>2. /\ st'[w] = t /\ pc'[w] = p /\ result'[w] = r
      /\ \A v \in Workers \ {w} : st'[v] = st[v] /\ pc'[v] = pc[v] /\ result'[v] = result[v]
  BY <1>1 DEF Moved, TypeOK
<1>3. WorkerInv(t, p, r, turns'[w], resumes'[w])
  BY <1>1, SameFits
<1>4. ASSUME NEW v \in Workers
      PROVE  WorkerInv(st'[v], pc'[v], result'[v], turns'[v], resumes'[v])
  <2>1. CASE v = w
    BY <1>2, <1>3, <2>1
  <2>2. CASE v # w
    BY <1>2, <2>2 DEF Counts, Inv
  <2>3. QED BY <2>1, <2>2
<1>5. QED BY <1>4 DEF Inv

\* The head of the loop keeps the invariant for a state without an interrupt
\* whose turns are paid for by its iterations and resumes.
LEMMA LoopTopKeeps ==
  ASSUME TypeOK, Inv, NEW w \in Workers, NEW s \in RunStates, LoopTop(w, s),
         Counts(w), s.interrupt = NoInterrupt, turns'[w] \in Nat, resumes'[w] \in Nat,
         s.iteration <= MaxIterations, turns'[w] <= s.iteration + resumes'[w]
  PROVE  Inv'
<1>1. s.iteration \in Nat /\ MaxIterations \in Nat
  BY LoopAssumption DEF RunStates
<1>2. NoInterrupt.reason = "none" /\ NoInterrupt.pending = Nothing
  BY InterruptsTyped
<1>3. CASE Moved(w, s, "model", "none") /\ s.iteration < MaxIterations
  BY <1>1, <1>2, <1>3, MovedKeeps DEF WorkerInv, Fits, Affordable, Paced
<1>4. CASE Moved(w, s, "idle", "stopped")
  BY <1>1, <1>2, <1>4, MovedKeeps DEF WorkerInv, Fits, Affordable, Paced
<1>5. QED BY <1>3, <1>4, LoopTopMoves

\* A return keeps the invariant when the interrupt is the status's own, below
\* the limit and with at most one turn ahead.
LEMMA ReturnKeeps ==
  ASSUME TypeOK, Inv, NEW w \in Workers, NEW s \in RunStates,
         NEW r \in Results \ {"new"}, Return(w, s, r), Counts(w), turns'[w] \in Nat, resumes'[w] \in Nat,
         Fits(s.interrupt, "idle", r), Affordable(s, "idle"),
         s.iteration < MaxIterations, turns'[w] <= s.iteration + resumes'[w] + 1
  PROVE  Inv'
<1>1. s.iteration \in Nat /\ MaxIterations \in Nat
  BY LoopAssumption DEF RunStates
<1>2. QED BY <1>1, ReturnMoves, MovedKeeps DEF WorkerInv, Paced

LEMMA JudgeKeeps ==
  ASSUME TypeOK, Inv, NEW w \in Workers, NEW s \in RunStates, Judge(w, s), Counts(w),
         s.interrupt = NoInterrupt, turns'[w] \in Nat, resumes'[w] \in Nat,
         s.iteration < MaxIterations, turns'[w] <= s.iteration + resumes'[w] + 1
  PROVE  Inv'
<1>1. s.iteration \in Nat /\ MaxIterations \in Nat
  BY LoopAssumption DEF RunStates
<1>2. NoInterrupt.reason = "none" /\ NoInterrupt.pending = Nothing
  BY InterruptsTyped
<1>3. CASE Moved(w, s, "idle", "completed")
  BY <1>1, <1>2, <1>3, MovedKeeps DEF WorkerInv, Fits, Affordable, Paced
<1>4. CASE Moved(w, Interrupted(s, Question), "idle", "paused")
  <2> DEFINE q == Interrupted(s, Question)
  <2>1. /\ q \in RunStates /\ q.iteration = s.iteration /\ q.interrupt = Question
        /\ Question.reason = "question" /\ Question.pending = Nothing
    BY InterruptedIsState, InterruptsTyped
  <2>2. WorkerInv(q, "idle", "paused", turns'[w], resumes'[w])
    BY <1>1, <2>1 DEF WorkerInv, Fits, Affordable, Paced
  <2>3. QED BY <1>4, <2>1, <2>2, MovedKeeps
<1>5. ASSUME NEW u \in RunStates, u.iteration = s.iteration + 1,
             u.interrupt = s.interrupt, LoopTop(w, u)
      PROVE  Inv'
  BY <1>1, <1>5, LoopTopKeeps
<1>6. QED BY <1>3, <1>4, <1>5, JudgeMoves

LEMMA ExecuteKeeps ==
  ASSUME TypeOK, Inv, NEW w \in Workers, NEW s \in RunStates,
         NEW d \in Decisions \cup {Nothing}, Execute(w, s, d), Counts(w),
         s.interrupt = NoInterrupt, turns'[w] \in Nat, resumes'[w] \in Nat,
         s.iteration < MaxIterations, turns'[w] <= s.iteration + resumes'[w] + 1,
         ~OverBudget(s)
  PROVE  Inv'
<1>1. s.iteration \in Nat /\ MaxIterations \in Nat
  BY LoopAssumption DEF RunStates
<1>2. NoInterrupt.reason = "none" /\ NoInterrupt.pending = Nothing
  BY InterruptsTyped
<1>3. CASE Judge(w, s)
  BY <1>3, JudgeKeeps
<1>4. CASE Moved(w, s, "tools", "none")
  BY <1>1, <1>2, <1>4, MovedKeeps DEF WorkerInv, Fits, Affordable, Paced
<1>5. QED BY <1>3, <1>4, ExecuteMoves

LEMMA InvNext == TypeOK /\ Inv /\ [Next]_vars => Inv'
<1> SUFFICES ASSUME TypeOK, Inv, [Next]_vars PROVE Inv'
  OBVIOUS
<1>types. TypeOK'
  BY TypesNext
<1>worker. ASSUME NEW w \in Workers
           PROVE  /\ WorkerInv(st[w], pc[w], result[w], turns[w], resumes[w])
                  /\ turns'[w] \in Nat /\ resumes'[w] \in Nat
                  /\ turns[w] \in Nat /\ resumes[w] \in Nat
                  /\ st[w] \in RunStates /\ st[w].iteration \in Nat
  BY <1>types, WorkerTyped, LoopAssumption DEF Inv, TypeOK
<1>none. \A i \in Interrupts : i.reason = "none" /\ i.pending = Nothing => i = NoInterrupt
  BY DEF Interrupts, NoInterrupt
\* In the loop there is no interrupt, the limit is not reached.
<1>running. ASSUME NEW w \in Workers, pc[w] # "idle"
            PROVE  /\ st[w].interrupt = NoInterrupt
                   /\ st[w].iteration < MaxIterations
                   /\ pc[w] = "model" => turns[w] <= st[w].iteration + resumes[w]
                   /\ turns[w] <= st[w].iteration + resumes[w] + 1
  <2>1. WorkerInv(st[w], pc[w], result[w], turns[w], resumes[w])
    BY <1>worker
  <2>2. st[w].interrupt \in Interrupts /\ MaxIterations \in Nat
    BY WorkerTyped, LoopAssumption
  <2>3. st[w].interrupt.reason = "none" /\ st[w].interrupt.pending = Nothing
    BY <1>running, <2>1, <2>2 DEF WorkerInv, Fits, Interrupts, Reasons
  <2>4. st[w].interrupt = NoInterrupt
    BY <1>none, <2>2, <2>3
  <2>5. QED BY <1>running, <1>worker, <2>1, <2>2, <2>4 DEF WorkerInv, Paced
<1>unread. ASSUME NEW w \in Workers, UNCHANGED <<turns, resumes>>
           PROVE  Counts(w) /\ turns'[w] = turns[w] /\ resumes'[w] = resumes[w]
  BY <1>unread DEF Counts
<1>answered. ASSUME NEW w \in Workers, Answered(w)
             PROVE  /\ Counts(w) /\ pc[w] = "model"
                    /\ turns'[w] <= st[w].iteration + resumes'[w] + 1
                    /\ st[w].iteration < MaxIterations
                    /\ st[w].interrupt = NoInterrupt
  <2>1. /\ pc[w] = "model" /\ turns'[w] = turns[w] + 1 /\ resumes' = resumes /\ Counts(w)
    BY <1>answered DEF Answered, TypeOK, Counts
  <2>2. QED BY <1>running, <1>worker, <2>1
<1>resumed. ASSUME NEW w \in Workers, Resume(w)
            PROVE  /\ Counts(w) /\ pc[w] = "idle"
                   /\ st[w].iteration <= MaxIterations
                   /\ turns'[w] <= st[w].iteration + resumes'[w]
                   /\ st[w].interrupt.reason # "none" => st[w].iteration < MaxIterations
  <2>1. /\ turns' = turns /\ resumes'[w] = resumes[w] + 1 /\ Counts(w) /\ pc[w] = "idle"
    BY <1>resumed DEF Resume, TypeOK, Counts
  <2>2. QED BY <1>worker, <2>1 DEF WorkerInv, Paced
<1>1. ASSUME NEW w \in Workers, Arun(w) PROVE Inv'
  <2>1. /\ FreshState \in RunStates
        /\ FreshState.iteration = 0 /\ FreshState.interrupt = NoInterrupt
    BY InterruptsTyped, EmptySeq DEF FreshState, RunStates
  <2>2. turns[w] <= 0 + resumes[w]
    BY <1>1, <1>worker DEF Arun, WorkerInv
  <2>3. QED BY <1>1, <1>unread, <1>worker, <2>1, <2>2, LoopTopKeeps, LoopAssumption DEF Arun
<1>2. ASSUME NEW w \in Workers, ModelFails(w) \/ Escapes(w) PROVE Inv'
  <2>1. /\ pc[w] # "idle" /\ UNCHANGED <<turns, resumes>>
        /\ \E r \in {"failed", "raised"} : Return(w, st[w], r)
    BY <1>2 DEF ModelFails, Escapes
  <2>2. /\ Fits(st[w].interrupt, "idle", "failed") /\ Fits(st[w].interrupt, "idle", "raised")
        /\ Affordable(st[w], "idle")
    BY <1>running, <2>1, InterruptsTyped DEF Fits, Affordable
  <2>3. QED BY <1>running, <1>unread, <1>worker, <2>1, <2>2, ReturnKeeps DEF Results, Statuses
<1>3. ASSUME NEW w \in Workers, NEW total \in Totals(w),
             BudgetExceeded(w, total) \/ FinalAnswer(w, total)
               \/ AskHuman(w, total) \/ Abort(w, total)
      PROVE  Inv'
  <2> DEFINE s == Charged(w, total)
             q == Interrupted(s, Question)
  <2>1. Answered(w)
    BY <1>3 DEF BudgetExceeded, FinalAnswer, AskHuman, Abort, WithinBudget
  <2>2. /\ s \in RunStates /\ s.iteration = st[w].iteration /\ s.interrupt = NoInterrupt
        /\ q \in RunStates /\ q.iteration = st[w].iteration /\ q.interrupt = Question
    BY <1>answered, <2>1, ChargedIsState, InterruptedIsState, InterruptsTyped
  <2>3. \/ \E r \in {"failed", "completed"} : Return(w, s, r)
        \/ Return(w, q, "paused")
    BY <1>3 DEF BudgetExceeded, FinalAnswer, AskHuman, Abort
  <2> HIDE DEF s, q
  <2>4. /\ Fits(s.interrupt, "idle", "failed") /\ Fits(s.interrupt, "idle", "completed")
        /\ Affordable(s, "idle")
        /\ Fits(q.interrupt, "idle", "paused") /\ Affordable(q, "idle")
    BY <2>2, InterruptsTyped DEF Fits, Affordable
  <2>5. QED
    BY <1>answered, <1>worker, <2>1, <2>2, <2>3, <2>4, ReturnKeeps DEF Results, Statuses
<1>4. ASSUME NEW w \in Workers, NEW total \in Totals(w), NEW calls \in CallLists,
             GuardAsks(w, total, calls)
      PROVE  Inv'
  <2> DEFINE s == Charged(w, total)
             d == NewDecision(calls)
             q == Interrupted(s, Approval(d))
  <2>1. Answered(w) /\ ~OverBudget(s) /\ Return(w, q, "approval_required")
    BY <1>4 DEF GuardAsks, WithinBudget
  <2>2. /\ s \in RunStates /\ s.iteration = st[w].iteration
        /\ q \in RunStates /\ q.iteration = s.iteration /\ q.cost = s.cost
        /\ q.interrupt = Approval(d)
        /\ Approval(d).reason = "approval" /\ Approval(d).pending # Nothing
    BY ChargedIsState, NewDecisionTyped, InterruptedIsState, InterruptsTyped
  <2> HIDE DEF s, d, q
  <2>3. Fits(q.interrupt, "idle", "approval_required") /\ Affordable(q, "idle")
    BY <2>1, <2>2 DEF Fits, Affordable, OverBudget
  <2>4. QED
    BY <1>answered, <1>worker, <2>1, <2>2, <2>3, ReturnKeeps DEF Results, Statuses
<1>5. ASSUME NEW w \in Workers, NEW total \in Totals(w), GuardDenies(w, total) PROVE Inv'
  <2>1. PICK s \in {NextIteration(Told(Charged(w, total), "denied")),
                   NextIteration(Charged(w, total))} : Answered(w) /\ LoopTop(w, s)
    BY <1>5 DEF GuardDenies, WithinBudget
  <2>2. /\ s \in RunStates /\ s.iteration = st[w].iteration + 1
        /\ s.interrupt = NoInterrupt
    BY <1>answered, <2>1, ChargedIsState, ToldIsState, NextIterationIsState DEF Sources
  <2>3. s.iteration <= MaxIterations /\ turns'[w] <= s.iteration + resumes'[w]
    BY <1>answered, <1>worker, <2>1, <2>2, LoopAssumption
  <2>4. QED BY <1>answered, <1>worker, <2>1, <2>2, <2>3, LoopTopKeeps
<1>6. ASSUME NEW w \in Workers, NEW total \in Totals(w), NEW calls \in CallLists,
             GuardAllows(w, total, calls)
      PROVE  Inv'
  <2> DEFINE s == Charged(w, total)
             d == NewDecision(calls)
  <2>1. Answered(w) /\ ~OverBudget(s) /\ Execute(w, s, d)
    BY <1>6 DEF GuardAllows, WithinBudget
  <2>2. /\ s \in RunStates /\ s.iteration = st[w].iteration
        /\ s.interrupt = NoInterrupt /\ d \in Decisions
    BY <1>answered, <2>1, ChargedIsState, NewDecisionTyped
  <2> HIDE DEF s, d
  <2>3. QED BY <1>answered, <1>worker, <2>1, <2>2, ExecuteKeeps
<1>7. ASSUME NEW w \in Workers, NEW i, CallEnds(w, i) PROVE Inv'
  BY <1>7 DEF CallEnds, Inv
<1>8. ASSUME NEW w \in Workers, BatchEnds(w) PROVE Inv'
  <2> DEFINE s == [st[w] EXCEPT !.observations = @ \o ObservationsOf(w)]
  <2>1. Judge(w, s) /\ pc[w] # "idle" /\ UNCHANGED <<turns, resumes>>
    BY <1>8 DEF BatchEnds
  <2>2. s \in RunStates /\ s.iteration = st[w].iteration /\ s.interrupt = NoInterrupt
    BY <1>running, <2>1, BatchRecorded
  <2> HIDE DEF s
  <2>3. QED BY <1>running, <1>unread, <1>worker, <2>1, <2>2, JudgeKeeps
<1>9. ASSUME NEW w \in Workers, Continue(w) PROVE Inv'
  BY <1>9, <1>resumed, <1>worker, TakenIsState, LoopTopKeeps DEF Continue
<1>10. ASSUME NEW w \in Workers, Reject(w) \/ AnswerQuestion(w) PROVE Inv'
  <2>1. Resume(w) /\ st[w].interrupt.reason # "none"
    BY <1>10 DEF Reject, AnswerQuestion
  <2>2. PICK s \in RunStates : /\ s.iteration = st[w].iteration + 1
                               /\ s.interrupt = NoInterrupt
                               /\ LoopTop(w, s)
    BY <1>10, TakenIsState, ToldIsState, NextIterationIsState
       DEF Reject, AnswerQuestion, Sources
  <2>3. s.iteration <= MaxIterations /\ turns'[w] <= s.iteration + resumes'[w]
    BY <1>resumed, <1>worker, <2>1, <2>2, LoopAssumption
  <2>4. QED BY <1>resumed, <1>worker, <2>1, <2>2, <2>3, LoopTopKeeps
<1>11. ASSUME NEW w \in Workers, Approve(w) PROVE Inv'
  <2> DEFINE d == st[w].interrupt.pending
  <2>1. Resume(w) /\ st[w].interrupt.reason = "approval" /\ Execute(w, Taken(w), d)
    BY <1>11 DEF Approve
  <2>2. d \in Decisions \cup {Nothing}
    BY WorkerTyped
  <2>3. ~OverBudget(Taken(w))
    BY <1>worker, <2>1, TakenIsState DEF WorkerInv, Affordable, OverBudget
  <2> HIDE DEF d
  <2>4. turns'[w] <= Taken(w).iteration + resumes'[w] + 1
    BY <1>resumed, <1>worker, <2>1, TakenIsState
  <2>5. QED
    BY <1>resumed, <1>worker, <2>1, <2>2, <2>3, <2>4, TakenIsState, ExecuteKeeps
<1>12. CASE Rest \/ UNCHANGED vars
  BY <1>12 DEF Rest, vars, Inv
<1>13. QED
  BY <1>1, <1>2, <1>3, <1>4, <1>5, <1>6, <1>7, <1>8, <1>9, <1>10, <1>11, <1>12
     DEF Next, ModelAnswers, SomeCallEnds, Caller

LEMMA LoopInvariant == Spec => [](TypeOK /\ Inv)
<1>1. TypeOK /\ Inv /\ [Next]_vars => (TypeOK /\ Inv)'
  BY TypesNext, InvNext
<1>2. Init => TypeOK /\ Inv
  BY TypesInit, InvInit
<1>3. QED BY <1>1, <1>2, PTL DEF Spec

\* However a run is paused, failed, stopped and resumed, its interrupt is the one
\* its status names; so aresume finds a decision to approve whenever it looks.
THEOREM InterruptsMatch == Spec => []InterruptMatchesStatus
<1>1. Inv => InterruptMatchesStatus
  BY DEF Inv, WorkerInv, Fits, InterruptMatchesStatus
<1>2. QED BY <1>1, LoopInvariant, PTL

\* No tool runs for a run over its budget, approved decisions and resumed
\* failures included.
THEOREM ToolsStayWithinBudget == Spec => []ToolsWithinBudget
<1>1. TypeOK /\ Inv => ToolsWithinBudget
  <2> SUFFICES ASSUME TypeOK, Inv, NEW w \in Workers, pc[w] = "tools", MaxCost # 0
               PROVE  st[w].cost <= MaxCost
    BY DEF ToolsWithinBudget
  <2>1. ~OverBudget(st[w])
    BY DEF Inv, WorkerInv, Affordable
  <2>2. QED BY <2>1, WorkerTyped, LoopAssumption DEF OverBudget
<1>2. QED BY <1>1, LoopInvariant, PTL

\* max_iterations bounds the model's turns, denials and rejections included, but
\* for one more per resume.
THEOREM TurnsAreBounded == Spec => []TurnsBounded
<1>1. TypeOK /\ Inv => TurnsBounded
  <2> SUFFICES ASSUME TypeOK, Inv, NEW w \in Workers
               PROVE  turns[w] <= MaxIterations + resumes[w]
    BY DEF TurnsBounded
  <2>1. Paced(st[w], pc[w], turns[w], resumes[w])
    BY DEF Inv, WorkerInv
  <2>2. QED BY <2>1, WorkerTyped, LoopAssumption DEF Paced
<1>2. QED BY <1>1, LoopInvariant, PTL

-----------------------------------------------------------------------------
(* Which decisions run, and that they run once *)

\* The tools that ran are of cleared decisions made before now, and never of the
\* decision that waits for an approval.
Known(calls) == \A call \in calls : call[1] \in cleared /\ call[1] <= asks
Fresh(interrupt, calls) ==
  interrupt.reason = "approval" =>
    /\ interrupt.pending.id <= asks
    /\ \A call \in calls : call[1] # interrupt.pending.id

IdInv == \A w \in Workers : Known(invoked[w]) /\ Fresh(st[w].interrupt, invoked[w])

\* Only w moves: its new result is of rs, its new place of ps.
Only(w, ps, rs) ==
  /\ \A v \in Workers \ {w} : st'[v] = st[v] /\ pc'[v] = pc[v]
  /\ pc'[w] \in ps /\ result'[w] \in rs

LEMMA LoopTopOnly ==
  ASSUME TypeOK, NEW w \in Workers, NEW s \in RunStates, LoopTop(w, s)
  PROVE  Only(w, {"model", "idle"}, {"none", "stopped"})
BY LoopTopMoves DEF Moved, Only, TypeOK

LEMMA JudgeOnly ==
  ASSUME TypeOK, NEW w \in Workers, NEW s \in RunStates, Judge(w, s)
  PROVE  Only(w, {"model", "idle"}, {"none", "stopped", "completed", "paused"})
<1>1. ASSUME NEW u \in RunStates, LoopTop(w, u)
      PROVE  Only(w, {"model", "idle"}, {"none", "stopped", "completed", "paused"})
  BY <1>1, LoopTopOnly DEF Only
<1>2. ASSUME NEW u, NEW r \in {"completed", "paused"}, Moved(w, u, "idle", r)
      PROVE  Only(w, {"model", "idle"}, {"none", "stopped", "completed", "paused"})
  BY <1>2 DEF Moved, Only, TypeOK
<1>3. QED BY <1>1, <1>2, JudgeMoves

\* The interrupt of a worker whose new result is no approval is no approval.
LEMMA NotAsking ==
  ASSUME Inv', NEW w \in Workers, result'[w] # "approval_required"
  PROVE  st'[w].interrupt.reason # "approval"
BY DEF Inv, WorkerInv, Fits

\* A step of w that runs no tool and asks no approval keeps the invariant.
LEMMA QuietKeeps ==
  ASSUME TypeOK, TypeOK', IdInv, Inv', NEW w \in Workers,
         NEW ps, NEW rs, "approval_required" \notin rs, Only(w, ps, rs),
         invoked' = invoked, asks <= asks', cleared \subseteq cleared'
  PROVE  IdInv'
<1> SUFFICES ASSUME NEW v \in Workers
             PROVE  (Known(invoked[v]) /\ Fresh(st[v].interrupt, invoked[v]))'
  BY DEF IdInv
<1>1. /\ asks \in Nat /\ asks' \in Nat /\ invoked[v] \subseteq Nat \X Nat
      /\ Known(invoked[v]) /\ Fresh(st[v].interrupt, invoked[v])
  BY DEF IdInv, TypeOK
<1>2. (Known(invoked[v]))'
  BY <1>1 DEF Known
<1>3. CASE v = w
  BY <1>2, <1>3, NotAsking DEF Only, Fresh
<1>4. CASE v # w
  <2>1. st'[v] = st[v]
    BY <1>4 DEF Only
  <2>2. st[v].interrupt.pending.id \in Nat
    BY WorkerTyped, DecisionTyped
  <2>3. QED BY <1>1, <1>2, <2>1, <2>2 DEF Fresh
<1>5. QED BY <1>3, <1>4

\* Executing a cleared decision that has not run keeps it, and starts a batch
\* only for that decision.
LEMMA ExecuteIds ==
  ASSUME TypeOK, TypeOK', IdInv, Inv', NEW w \in Workers, NEW s \in RunStates,
         NEW d \in Decisions \cup {Nothing}, Execute(w, s, d),
         d.id \in cleared', d.id <= asks', asks <= asks', cleared \subseteq cleared'
  PROVE  /\ IdInv'
         /\ \A v \in Workers \ {w} : pc'[v] = pc[v]
         /\ pc'[w] = "tools" => batch'[w].decision = d
<1>1. CASE Judge(w, s) /\ UNCHANGED <<batch, invoked>>
  <2>1. Only(w, {"model", "idle"}, {"none", "stopped", "completed", "paused"})
    BY <1>1, JudgeOnly
  <2>2. IdInv'
    BY <1>1, <2>1, QuietKeeps
  <2>3. QED BY <2>1, <2>2 DEF Only
<1>2. CASE /\ Moved(w, s, "tools", "none")
           /\ batch' = [batch EXCEPT ![w] = [decision |-> d, arrived |-> <<>>]]
           /\ invoked' = [invoked EXCEPT ![w] = @ \cup Tools(d)]
  <2>1. /\ \A v \in Workers \ {w} : /\ st'[v] = st[v] /\ pc'[v] = pc[v]
                                    /\ invoked'[v] = invoked[v]
        /\ result'[w] = "none" /\ invoked'[w] = invoked[w] \cup Tools(d)
        /\ batch'[w].decision = d
    BY <1>2 DEF Moved, TypeOK
  <2>2. ASSUME NEW v \in Workers
        PROVE  (Known(invoked[v]) /\ Fresh(st[v].interrupt, invoked[v]))'
    <3>1. /\ asks \in Nat /\ asks' \in Nat /\ invoked[v] \subseteq Nat \X Nat
          /\ Known(invoked[v]) /\ Fresh(st[v].interrupt, invoked[v])
          /\ st[v].interrupt.pending.id \in Nat
      BY WorkerTyped, DecisionTyped DEF IdInv, TypeOK
    <3>2. CASE v = w
      <4>1. \A call \in Tools(d) : call[1] = d.id
        BY DecisionTyped
      <4>2. (Known(invoked[w]))'
        BY <2>1, <3>1, <3>2, <4>1 DEF Known
      <4>3. st'[w].interrupt.reason # "approval"
        BY <2>1, NotAsking
      <4>4. QED BY <3>2, <4>2, <4>3 DEF Fresh
    <3>3. CASE v # w
      BY <2>1, <3>1, <3>3 DEF Known, Fresh
    <3>4. QED BY <3>2, <3>3
  <2>3. QED BY <2>1, <2>2 DEF IdInv
<1>3. QED BY <1>1, <1>2, ExecuteMoves

\* No batch begins for a decision a call of which ran before.
Once ==
  \A w \in Workers : pc[w] # "tools" /\ pc'[w] = "tools" =>
    \A call \in invoked[w] : call[1] # batch'[w].decision.id

LEMMA QuietOnce ==
  ASSUME NEW w \in Workers, NEW ps, NEW rs, "tools" \notin ps, Only(w, ps, rs)
  PROVE  Once
BY DEF Once, Only

LEMMA IdInit == Init => IdInv
<1> SUFFICES ASSUME Init, NEW w \in Workers
             PROVE  Known(invoked[w]) /\ Fresh(st[w].interrupt, invoked[w])
  BY DEF IdInv
<1>1. invoked[w] = {} /\ st[w].interrupt = NoInterrupt
  BY DEF Init, FreshState
<1>2. QED BY <1>1, InterruptsTyped DEF Known, Fresh

LEMMA IdNext == TypeOK /\ Inv /\ IdInv /\ [Next]_vars => IdInv' /\ Once
<1> SUFFICES ASSUME TypeOK, Inv, IdInv, [Next]_vars PROVE IdInv' /\ Once
  OBVIOUS
<1>types. TypeOK' /\ asks \in Nat
  BY TypesNext DEF TypeOK
<1>inv. Inv'
  BY InvNext
<1> DEFINE Loop   == {"model", "idle"}
           Quiet  == {"none", "stopped", "completed", "paused", "failed", "raised"}
\* A step of w whose result asks for no approval and that runs no tool.
<1>quiet. ASSUME NEW w \in Workers, Only(w, Loop, Quiet), invoked' = invoked,
                 asks <= asks', cleared' = cleared
          PROVE  IdInv' /\ Once
  BY <1>quiet, <1>types, <1>inv, QuietKeeps, QuietOnce
<1>return. ASSUME NEW w \in Workers, NEW s, NEW r \in Quiet, Return(w, s, r)
           PROVE  Only(w, Loop, Quiet)
  BY <1>return DEF Return, Only, TypeOK
<1>top. ASSUME NEW w \in Workers, NEW s \in RunStates, LoopTop(w, s)
        PROVE  Only(w, Loop, Quiet)
  BY <1>top, LoopTopOnly DEF Only
<1>1. ASSUME NEW w \in Workers, Arun(w) PROVE IdInv' /\ Once
  <2>1. FreshState \in RunStates
    BY InterruptsTyped, EmptySeq DEF FreshState, RunStates
  <2>2. Only(w, Loop, Quiet)
    BY <1>1, <1>top, <2>1 DEF Arun
  <2>3. QED BY <1>1, <1>types, <1>quiet, <2>2 DEF Arun
<1>2. ASSUME NEW w \in Workers, ModelFails(w) \/ Escapes(w) PROVE IdInv' /\ Once
  <2>1. Only(w, Loop, Quiet)
    BY <1>2, <1>return DEF ModelFails, Escapes
  <2>2. QED BY <1>2, <1>types, <1>quiet, <2>1 DEF ModelFails, Escapes
<1>3. ASSUME NEW w \in Workers, NEW total \in Totals(w),
             BudgetExceeded(w, total) \/ FinalAnswer(w, total)
               \/ AskHuman(w, total) \/ Abort(w, total) \/ GuardDenies(w, total)
      PROVE  IdInv' /\ Once
  <2>1. asks <= asks'
    BY <1>3, <1>types
       DEF BudgetExceeded, FinalAnswer, AskHuman, Abort, GuardDenies, WithinBudget, Answered
  <2>2. /\ NextIteration(Told(Charged(w, total), "denied")) \in RunStates
        /\ NextIteration(Charged(w, total)) \in RunStates
    BY ChargedIsState, ToldIsState, NextIterationIsState DEF Sources
  <2>3. Only(w, Loop, Quiet)
    BY <1>3, <1>return, <1>top, <2>2
       DEF BudgetExceeded, FinalAnswer, AskHuman, Abort, GuardDenies
  <2>4. QED BY <1>3, <1>quiet, <2>1, <2>3
               DEF BudgetExceeded, FinalAnswer, AskHuman, Abort, GuardDenies
<1>4. ASSUME NEW w \in Workers, NEW total \in Totals(w), NEW calls \in CallLists,
             GuardAsks(w, total, calls)
      PROVE  IdInv' /\ Once
  <2> DEFINE d == NewDecision(calls)
             q == Interrupted(Charged(w, total), Approval(d))
  <2>1. /\ Return(w, q, "approval_required") /\ asks' = asks + 1
        /\ invoked' = invoked /\ cleared' = cleared
    BY <1>4 DEF GuardAsks, WithinBudget, Answered
  <2>2. q.interrupt.pending.id = asks + 1
    BY ChargedIsState, NewDecisionTyped, InterruptedIsState, InterruptsTyped
  <2> HIDE DEF d, q
  <2>3. Only(w, {"idle"}, {"approval_required"}) /\ st'[w] = q
    BY <2>1 DEF Return, Only, TypeOK
  <2>4. ASSUME NEW v \in Workers
        PROVE  (Known(invoked[v]) /\ Fresh(st[v].interrupt, invoked[v]))'
    <3>1. /\ invoked[v] \subseteq Nat \X Nat
          /\ Known(invoked[v]) /\ Fresh(st[v].interrupt, invoked[v])
          /\ st[v].interrupt.pending.id \in Nat
      BY WorkerTyped, DecisionTyped DEF IdInv, TypeOK
    <3>2. (Known(invoked[v]))'
      BY <1>types, <2>1, <3>1 DEF Known
    <3>3. CASE v = w
      <4>1. \A call \in invoked[v] : call[1] # asks + 1
        BY <1>types, <3>1 DEF Known
      <4>2. QED BY <1>types, <2>1, <2>2, <2>3, <3>2, <3>3, <4>1 DEF Fresh
    <3>4. CASE v # w
      BY <1>types, <2>1, <2>3, <3>1, <3>2, <3>4 DEF Fresh, Only
    <3>5. QED BY <3>3, <3>4
  <2>5. QED BY <2>3, <2>4, QuietOnce DEF IdInv
<1>5. ASSUME NEW w \in Workers, NEW total \in Totals(w), NEW calls \in CallLists,
             GuardAllows(w, total, calls)
      PROVE  IdInv' /\ Once
  <2> DEFINE s == Charged(w, total)
             d == NewDecision(calls)
  <2>1. /\ Execute(w, s, d) /\ asks' = asks + 1 /\ cleared' = cleared \cup {asks + 1}
    BY <1>5 DEF GuardAllows, WithinBudget, Answered
  <2>2. s \in RunStates /\ d \in Decisions /\ d.id = asks + 1
    BY ChargedIsState, NewDecisionTyped
  <2> HIDE DEF s, d
  <2>3. /\ IdInv'
        /\ \A v \in Workers \ {w} : pc'[v] = pc[v]
        /\ pc'[w] = "tools" => batch'[w].decision = d
    BY <1>types, <1>inv, <2>1, <2>2, ExecuteIds
  <2>4. \A call \in invoked[w] : call[1] # asks + 1
    BY <1>types DEF IdInv, Known, TypeOK
  <2>5. QED BY <2>2, <2>3, <2>4 DEF Once
<1>6. ASSUME NEW w \in Workers, Approve(w) PROVE IdInv' /\ Once
  <2> DEFINE d == st[w].interrupt.pending
  <2>1. /\ Execute(w, Taken(w), d) /\ asks' = asks /\ cleared' = cleared \cup {d.id}
        /\ st[w].interrupt.reason = "approval"
    BY <1>6 DEF Approve, Resume
  <2>2. /\ Taken(w) \in RunStates /\ d \in Decisions \cup {Nothing}
        /\ d.id <= asks /\ \A call \in invoked[w] : call[1] # d.id
    BY <2>1, TakenIsState, WorkerTyped DEF IdInv, Fresh
  <2> HIDE DEF d
  <2>3. /\ IdInv'
        /\ \A v \in Workers \ {w} : pc'[v] = pc[v]
        /\ pc'[w] = "tools" => batch'[w].decision = d
    BY <1>types, <1>inv, <2>1, <2>2, ExecuteIds
  <2>4. QED BY <2>2, <2>3 DEF Once
<1>7. ASSUME NEW w \in Workers, NEW i, CallEnds(w, i) PROVE IdInv' /\ Once
  BY <1>7 DEF CallEnds, IdInv, Known, Fresh, Once
<1>8. ASSUME NEW w \in Workers, BatchEnds(w) PROVE IdInv' /\ Once
  <2>1. Only(w, Loop, Quiet)
    BY <1>8, BatchRecorded, JudgeOnly DEF BatchEnds, Only
  <2>2. QED BY <1>8, <1>types, <1>quiet, <2>1 DEF BatchEnds
<1>9. ASSUME NEW w \in Workers, Continue(w) \/ Reject(w) \/ AnswerQuestion(w)
      PROVE  IdInv' /\ Once
  <2>1. /\ Taken(w) \in RunStates
        /\ NextIteration(Taken(w)) \in RunStates
        /\ \A source \in Sources : NextIteration(Told(Taken(w), source)) \in RunStates
    BY TakenIsState, ToldIsState, NextIterationIsState
  <2>2. Only(w, Loop, Quiet)
    BY <1>9, <1>top, <2>1 DEF Continue, Reject, AnswerQuestion, Sources
  <2>3. QED BY <1>9, <1>types, <1>quiet, <2>2 DEF Continue, Reject, AnswerQuestion, Resume
<1>10. CASE Rest \/ UNCHANGED vars
  BY <1>10 DEF Rest, vars, IdInv, Known, Fresh, Once
<1>11. QED
  BY <1>1, <1>2, <1>3, <1>4, <1>5, <1>6, <1>7, <1>8, <1>9, <1>10
     DEF Next, ModelAnswers, SomeCallEnds, Caller

LEMMA IdInvariant == Spec => [](TypeOK /\ Inv /\ IdInv)
<1>1. TypeOK /\ Inv /\ IdInv /\ [Next]_vars => (TypeOK /\ Inv /\ IdInv)'
  BY TypesNext, InvNext, IdNext
<1>2. Init => TypeOK /\ Inv /\ IdInv
  BY TypesInit, InvInit, IdInit
<1>3. QED BY <1>1, <1>2, PTL DEF Spec

\* A tool runs only for a decision that the guard allowed or a human approved.
THEOREM RunsOnlyWhatIsCleared == Spec => []RunsOnlyCleared
<1>1. TypeOK /\ Inv /\ IdInv => RunsOnlyCleared
  BY DEF IdInv, Known, RunsOnlyCleared
<1>2. QED BY <1>1, IdInvariant, PTL

\* However a run is paused and resumed, no decision is executed twice.
THEOREM RunsAtMostOnce == Spec => RunsOnce
<1>1. TypeOK /\ Inv /\ IdInv /\ [Next]_vars => [Once]_vars
  BY IdNext
<1>2. QED BY <1>1, IdInvariant, PTL DEF Spec, Once, RunsOnce

-----------------------------------------------------------------------------
(* What a step does to the record of a worker *)

Acts(w) == ModelAnswers(w) \/ SomeCallEnds(w) \/ BatchEnds(w) \/ Escapes(w) \/ Caller(w)

\* Nothing of any other worker changes.
Alone(w) ==
  \A v \in Workers \ {w} :
    /\ pc'[v] = pc[v] /\ st'[v] = st[v] /\ result'[v] = result[v]
    /\ batch'[v] = batch[v] /\ invoked'[v] = invoked[v]

\* w, and w only, is now at state s, perhaps compacted, with result r of rs.
Lands(w, s, rs) ==
  /\ \A v \in Workers \ {w} : pc'[v] = pc[v] /\ st'[v] = st[v] /\ result'[v] = result[v]
  /\ result'[w] \in rs
  /\ st'[w] \in RunStates
  /\ st'[w].iteration = s.iteration /\ st'[w].cost = s.cost
  /\ st'[w].interrupt = s.interrupt
  /\ Trimmed(st'[w].observations, s.observations)
  /\ Fits(st'[w].interrupt, pc'[w], result'[w])

LEMMA MovedLands ==
  ASSUME TypeOK, NEW w \in Workers, NEW s, NEW p, NEW r, Moved(w, s, p, r),
         Fits(s.interrupt, p, r)
  PROVE  Lands(w, s, {r}) /\ pc'[w] = p
<1>1. PICK t \in RunStates :
        /\ t.iteration = s.iteration /\ t.cost = s.cost /\ t.interrupt = s.interrupt
        /\ Trimmed(t.observations, s.observations)
        /\ st' = [st EXCEPT ![w] = t]
  BY DEF Moved
<1>2. /\ st'[w] = t /\ pc'[w] = p /\ result'[w] = r
      /\ \A v \in Workers \ {w} : st'[v] = st[v] /\ pc'[v] = pc[v] /\ result'[v] = result[v]
  BY <1>1 DEF Moved, TypeOK
<1>3. QED BY <1>1, <1>2 DEF Lands

LEMMA LoopTopLands ==
  ASSUME TypeOK, NEW w \in Workers, NEW s \in RunStates, LoopTop(w, s),
         s.interrupt = NoInterrupt
  PROVE  Lands(w, s, {"none", "stopped"}) /\ pc'[w] # "tools"
<1>1. /\ Fits(s.interrupt, "model", "none") /\ Fits(s.interrupt, "idle", "stopped")
  BY InterruptsTyped DEF Fits
<1>2. QED BY <1>1, LoopTopMoves, MovedLands DEF Lands

\* After tools, the run ends in this iteration or goes to the next.
Landings == {{"completed", "paused"}, {"none", "stopped"}}
Judged(s, u, rs) ==
  /\ u.cost = s.cost /\ u.observations = s.observations
  /\ u.interrupt.reason # "approval"
  /\ \/ u.iteration = s.iteration /\ rs = {"completed", "paused"}
     \/ u.iteration = s.iteration + 1 /\ rs = {"none", "stopped"}

LEMMA JudgeLands ==
  ASSUME TypeOK, NEW w \in Workers, NEW s \in RunStates, Judge(w, s),
         s.interrupt = NoInterrupt
  PROVE  \E u \in RunStates, rs \in Landings :
           Lands(w, u, rs) /\ pc'[w] # "tools" /\ Judged(s, u, rs)
<1>none. NoInterrupt.reason = "none" /\ NoInterrupt.pending = Nothing
  BY InterruptsTyped
<1>landings. {"completed", "paused"} \in Landings /\ {"none", "stopped"} \in Landings
  BY DEF Landings
<1>1. CASE Moved(w, s, "idle", "completed")
  <2>1. Fits(s.interrupt, "idle", "completed")
    BY <1>none DEF Fits
  <2>2. Lands(w, s, {"completed", "paused"}) /\ pc'[w] = "idle"
    BY <1>1, <2>1, MovedLands DEF Lands
  <2>3. Judged(s, s, {"completed", "paused"})
    BY <1>none DEF Judged
  <2>4. QED BY <1>landings, <2>2, <2>3
<1>2. CASE Moved(w, Interrupted(s, Question), "idle", "paused")
  <2> DEFINE q == Interrupted(s, Question)
  <2>1. /\ q \in RunStates /\ q.iteration = s.iteration /\ q.interrupt = Question
        /\ q.observations = s.observations /\ q.cost = s.cost
        /\ Question.reason = "question" /\ Question.pending = Nothing
    BY InterruptedIsState, InterruptsTyped
  <2> HIDE DEF q
  <2>2. Fits(q.interrupt, "idle", "paused")
    BY <2>1 DEF Fits
  <2>3. Lands(w, q, {"completed", "paused"}) /\ pc'[w] = "idle"
    BY <1>2, <2>1, <2>2, MovedLands DEF Lands, q
  <2>4. Judged(s, q, {"completed", "paused"})
    BY <2>1 DEF Judged
  <2>5. QED BY <1>landings, <2>1, <2>3, <2>4
<1>3. ASSUME NEW u \in RunStates, u.iteration = s.iteration + 1, u.cost = s.cost,
             u.interrupt = s.interrupt, u.observations = s.observations, LoopTop(w, u)
      PROVE  Lands(w, u, {"none", "stopped"}) /\ pc'[w] # "tools"
             /\ Judged(s, u, {"none", "stopped"})
  BY <1>none, <1>3, LoopTopLands DEF Judged
<1>4. QED BY <1>landings, <1>1, <1>2, <1>3, JudgeMoves

\* The cost of w is that of the turn just taken, if one was.
Turn(w) ==
  \/ asks' = asks /\ st'[w].cost = st[w].cost
  \/ pc[w] = "model" /\ asks' = asks + 1 /\ st'[w].cost \in Totals(w)

\* The steps of a worker.  A run starts; it goes on without running tools; a batch
\* begins, of a decision just made or just approved; a call of the batch ends; the
\* batch is recorded; the call of arun or aresume raises.
Starts(w) ==
  /\ pc[w] = "idle" /\ result[w] = "new" /\ result'[w] \in {"none", "stopped"}
  /\ pc'[w] # "tools" /\ st'[w].observations = <<>>
  /\ st'[w].iteration = 0 /\ st'[w].cost = 0 /\ st'[w].interrupt = NoInterrupt
  /\ asks' = asks /\ invoked' = invoked

Goes(w) ==
  /\ pc[w] # "tools" /\ pc'[w] # "tools"
  /\ result[w] \notin {"new", "raised", "lost"} /\ result'[w] \notin {"new", "raised", "lost"}
  /\ result[w] = "completed" => "completed" \in Resumable
  /\ Trimmed(st'[w].observations, st[w].observations)
  /\ \/ st'[w].iteration = st[w].iteration /\ result[w] # "paused"
     \/ st'[w].iteration = st[w].iteration + 1
  /\ Turn(w)
  /\ st'[w].interrupt.reason = "approval" =>
       /\ asks' = asks + 1 /\ st'[w].interrupt.pending.id = asks + 1
       /\ ~OverBudget(st'[w])
  /\ invoked' = invoked

Begins(w) ==
  /\ pc[w] # "tools" /\ pc'[w] = "tools"
  /\ result[w] \in {"none", "approval_required"} /\ result'[w] = "none"
  /\ Trimmed(st'[w].observations, st[w].observations)
  /\ st'[w].iteration = st[w].iteration
  /\ Turn(w)
  /\ st'[w].interrupt.reason # "approval"
  /\ \/ asks' = asks + 1 /\ batch'[w].decision.id = asks + 1 /\ ~OverBudget(st'[w])
     \/ /\ asks' = asks /\ st[w].interrupt.reason = "approval"
        /\ batch'[w].decision = st[w].interrupt.pending
  /\ invoked'[w] = invoked[w] \cup Tools(batch'[w].decision)

CallOver(w) ==
  /\ pc[w] = "tools" /\ UNCHANGED <<pc, st, result, asks, invoked>>
  /\ batch'[w].decision = batch[w].decision

Records(w) ==
  /\ pc[w] = "tools" /\ pc'[w] # "tools"
  /\ result'[w] \notin {"new", "raised", "lost"}
  /\ Trimmed(st'[w].observations, st[w].observations \o ObservationsOf(w))
  /\ \/ st'[w].iteration = st[w].iteration /\ result'[w] \in {"completed", "paused"}
     \/ st'[w].iteration = st[w].iteration + 1
  /\ st'[w].cost = st[w].cost /\ st'[w].interrupt.reason # "approval"
  /\ asks' = asks /\ invoked' = invoked

Raises(w) ==
  /\ pc[w] # "idle" /\ pc'[w] = "idle"
  /\ result'[w] = "raised" /\ st'[w] = st[w]
  /\ asks' = asks /\ invoked' = invoked

Kinds(w) == Starts(w) \/ Goes(w) \/ Begins(w) \/ CallOver(w) \/ Records(w) \/ Raises(w)

\* Executing a decision of a worker that goes on from s: it begins a batch, or has
\* no calls and goes on.
LEMMA ExecuteActs ==
  ASSUME TypeOK, NEW w \in Workers, NEW s \in RunStates,
         NEW d \in Decisions \cup {Nothing}, Execute(w, s, d),
         pc[w] # "tools", result[w] \in {"none", "approval_required"},
         s.interrupt = NoInterrupt, s.observations = st[w].observations,
         s.iteration = st[w].iteration,
         \/ asks' = asks /\ s.cost = st[w].cost
         \/ pc[w] = "model" /\ asks' = asks + 1 /\ s.cost \in Totals(w),
         \/ asks' = asks + 1 /\ d.id = asks + 1 /\ ~OverBudget(s)
         \/ asks' = asks /\ st[w].interrupt.reason = "approval"
            /\ d = st[w].interrupt.pending
  PROVE  Alone(w) /\ Fits(st'[w].interrupt, pc'[w], result'[w]) /\ (Goes(w) \/ Begins(w))
<1>1. CASE Judge(w, s) /\ UNCHANGED <<batch, invoked>>
  <2>1. PICK u \in RunStates, rs \in Landings :
          Lands(w, u, rs) /\ pc'[w] # "tools" /\ Judged(s, u, rs)
    BY <1>1, JudgeLands
  <2>2. result'[w] \in {"completed", "paused", "none", "stopped"}
    BY <2>1 DEF Lands, Judged
  <2>3. /\ Trimmed(st'[w].observations, st[w].observations)
        /\ \/ st'[w].iteration = st[w].iteration
           \/ st'[w].iteration = st[w].iteration + 1
        /\ st'[w].cost = s.cost /\ st'[w].interrupt.reason # "approval"
    BY <2>1 DEF Lands, Judged
  <2>4. Turn(w)
    BY <2>3 DEF Turn
  <2>5. Goes(w)
    BY <1>1, <2>1, <2>2, <2>3, <2>4 DEF Goes
  <2>6. QED BY <1>1, <2>1, <2>5 DEF Lands, Alone
<1>2. CASE /\ Moved(w, s, "tools", "none")
           /\ batch' = [batch EXCEPT ![w] = [decision |-> d, arrived |-> <<>>]]
           /\ invoked' = [invoked EXCEPT ![w] = @ \cup Tools(d)]
  <2>1. Fits(s.interrupt, "tools", "none")
    BY InterruptsTyped DEF Fits
  <2>2. Lands(w, s, {"none"}) /\ pc'[w] = "tools"
    BY <1>2, <2>1, MovedLands
  <2>3. /\ batch'[w].decision = d /\ invoked'[w] = invoked[w] \cup Tools(d)
        /\ \A v \in Workers \ {w} : batch'[v] = batch[v] /\ invoked'[v] = invoked[v]
    BY <1>2 DEF TypeOK
  <2>4. Turn(w)
    BY <2>2 DEF Turn, Lands
  <2>5. OverBudget(st'[w]) <=> OverBudget(s)
    BY <2>2 DEF OverBudget, Lands
  <2>6. st'[w].interrupt.reason # "approval"
    BY <2>2, InterruptsTyped DEF Lands
  <2>7. Begins(w)
    BY <2>2, <2>3, <2>4, <2>5, <2>6 DEF Begins, Lands
  <2>8. QED BY <2>2, <2>3, <2>7 DEF Lands, Alone
<1>3. QED BY <1>1, <1>2, ExecuteMoves

LEMMA ActsKinds ==
  ASSUME TypeOK, NEW w \in Workers, Fits(st[w].interrupt, pc[w], result[w]), Acts(w)
  PROVE  /\ Alone(w) /\ Kinds(w)
         /\ Fits(st'[w].interrupt, pc'[w], result'[w])
<1> DEFINE Goal == /\ Alone(w) /\ Kinds(w)
                   /\ Fits(st'[w].interrupt, pc'[w], result'[w])
<1>typed. /\ st[w] \in RunStates /\ st[w].interrupt \in Interrupts
          /\ st[w].observations \in Seq(Observation)
          /\ st[w].interrupt.pending \in Decisions \cup {Nothing}
  BY WorkerTyped DEF RunStates
<1>none. NoInterrupt.reason = "none" /\ NoInterrupt.pending = Nothing
  BY InterruptsTyped
<1>running. pc[w] # "idle" => st[w].interrupt = NoInterrupt /\ result[w] = "none"
  <2>1. pc[w] # "idle" => /\ st[w].interrupt.reason = "none"
                          /\ st[w].interrupt.pending = Nothing /\ result[w] = "none"
    BY <1>typed DEF Fits, Interrupts, Reasons
  <2>2. \A i \in Interrupts : i.reason = "none" /\ i.pending = Nothing => i = NoInterrupt
    BY DEF Interrupts, NoInterrupt
  <2>3. QED BY <1>typed, <2>1, <2>2
\* w goes on from a state s of its own that it may have charged for a turn.
<1>goes. ASSUME NEW s \in RunStates, NEW rs, Lands(w, s, rs), pc[w] # "tools",
                pc'[w] # "tools", UNCHANGED <<batch, invoked>>,
                rs \subseteq Statuses \cup {"none"}, result[w] \in Statuses \cup {"none"},
                result[w] = "completed" => "completed" \in Resumable,
                s.observations = st[w].observations,
                \/ s.iteration = st[w].iteration /\ result[w] # "paused"
                \/ s.iteration = st[w].iteration + 1,
                \/ asks' = asks /\ s.cost = st[w].cost
                \/ pc[w] = "model" /\ asks' = asks + 1 /\ s.cost \in Totals(w),
                s.interrupt.reason = "approval" =>
                  /\ asks' = asks + 1 /\ s.interrupt.pending.id = asks + 1
                  /\ ~OverBudget(s)
         PROVE  Goal
  <2>1. Turn(w)
    BY <1>goes DEF Turn, Lands
  <2>2. OverBudget(st'[w]) <=> OverBudget(s)
    BY <1>goes DEF OverBudget, Lands
  <2>3. Goes(w)
    BY <1>goes, <2>1, <2>2 DEF Goes, Lands, Statuses
  <2>4. QED BY <1>goes, <2>3 DEF Lands, Alone, Kinds
<1> HIDE DEF Goal
<1>1. CASE Arun(w)
  <2>1. /\ FreshState \in RunStates /\ FreshState.interrupt = NoInterrupt
        /\ FreshState.iteration = 0 /\ FreshState.cost = 0
        /\ FreshState.observations = <<>>
    BY InterruptsTyped, EmptySeq DEF FreshState, RunStates
  <2>2. Lands(w, FreshState, {"none", "stopped"}) /\ pc'[w] # "tools"
    BY <1>1, <2>1, LoopTopLands DEF Arun
  <2>3. st'[w].observations = <<>>
    <3>1. /\ st'[w].observations \in Seq(Observation)
          /\ Trimmed(st'[w].observations, <<>>)
      BY <2>1, <2>2 DEF Lands, RunStates
    <3>2. Len(st'[w].observations) <= 0 \/ st'[w].observations = <<>>
      BY <3>1 DEF Trimmed, EndOf
    <3>3. QED BY <3>1, <3>2, EmptySeq, LenProperties
  <2>4. Starts(w)
    BY <1>1, <2>1, <2>2, <2>3 DEF Starts, Arun, Lands
  <2>5. QED BY <1>1, <2>2, <2>4 DEF Goal, Lands, Alone, Kinds, Arun
<1>2. CASE ModelFails(w)
  <2>1. /\ Return(w, st[w], "failed") /\ pc[w] = "model"
        /\ UNCHANGED <<batch, invoked, asks>>
    BY <1>2 DEF ModelFails
  <2>2. Fits(st[w].interrupt, "idle", "failed")
    BY <1>running, <1>none, <2>1 DEF Fits
  <2>3. Lands(w, st[w], {"failed"}) /\ pc'[w] = "idle"
    BY <1>typed, <2>1, <2>2, ReturnMoves, MovedLands
  <2>4. QED BY <1>goes, <1>typed, <1>running, <1>none, <2>1, <2>3 DEF Goal, Statuses
<1>3. CASE Escapes(w)
  <2>1. /\ Return(w, st[w], "raised") /\ pc[w] # "idle"
        /\ UNCHANGED <<batch, invoked, asks>>
    BY <1>3 DEF Escapes
  <2>2. Fits(st[w].interrupt, "idle", "raised")
    BY <1>running, <1>none, <2>1 DEF Fits
  <2>3. /\ pc'[w] = "idle" /\ result'[w] = "raised" /\ st'[w] = st[w]
        /\ \A v \in Workers \ {w} : pc'[v] = pc[v] /\ st'[v] = st[v] /\ result'[v] = result[v]
    BY <2>1 DEF Return, TypeOK
  <2>4. QED BY <2>1, <2>2, <2>3 DEF Goal, Alone, Kinds, Raises
\* The answers of the model: what each charges, and where it leads.
<1>answered. ASSUME NEW total \in Totals(w), Answered(w)
             PROVE  LET s == Charged(w, total)
                    IN  /\ s \in RunStates /\ s.interrupt = NoInterrupt
                        /\ s.observations = st[w].observations
                        /\ s.iteration = st[w].iteration
                        /\ s.cost \in Totals(w)
                        /\ pc[w] = "model" /\ asks' = asks + 1 /\ result[w] = "none"
  BY <1>answered, <1>running, ChargedIsState DEF Answered
<1>4. ASSUME NEW total \in Totals(w),
             BudgetExceeded(w, total) \/ FinalAnswer(w, total)
               \/ AskHuman(w, total) \/ Abort(w, total)
      PROVE  Goal
  <2> DEFINE s == Charged(w, total)
             q == Interrupted(s, Question)
  <2>1. Answered(w) /\ UNCHANGED <<batch, invoked>>
    BY <1>4 DEF BudgetExceeded, FinalAnswer, AskHuman, Abort, WithinBudget
  <2>2. /\ s \in RunStates /\ s.interrupt = NoInterrupt
        /\ s.observations = st[w].observations /\ s.iteration = st[w].iteration
        /\ s.cost \in Totals(w)
        /\ pc[w] = "model" /\ asks' = asks + 1 /\ result[w] = "none"
    BY <1>answered, <2>1
  <2>3. /\ q \in RunStates /\ q.interrupt = Question
        /\ q.observations = st[w].observations /\ q.iteration = st[w].iteration
        /\ q.cost \in Totals(w)
        /\ Question.reason = "question" /\ Question.pending = Nothing
    BY <2>2, InterruptedIsState, InterruptsTyped
  <2>4. \/ \E r \in {"failed", "completed"} : Return(w, s, r)
        \/ Return(w, q, "paused")
    BY <1>4 DEF BudgetExceeded, FinalAnswer, AskHuman, Abort
  <2> HIDE DEF s, q
  <2>5. ASSUME NEW r \in {"failed", "completed"}, Return(w, s, r) PROVE Goal
    <3>1. Fits(s.interrupt, "idle", r)
      BY <1>none, <2>2, <2>5 DEF Fits
    <3>2. Lands(w, s, {r}) /\ pc'[w] = "idle"
      BY <2>2, <2>5, <3>1, ReturnMoves, MovedLands
    <3>3. QED BY <1>goes, <1>none, <2>1, <2>2, <2>5, <3>2 DEF Statuses
  <2>6. CASE Return(w, q, "paused")
    <3>1. Fits(q.interrupt, "idle", "paused")
      BY <2>3 DEF Fits
    <3>2. Lands(w, q, {"paused"}) /\ pc'[w] = "idle"
      BY <2>3, <2>6, <3>1, ReturnMoves, MovedLands
    <3>3. QED BY <1>goes, <2>1, <2>2, <2>3, <3>2 DEF Statuses
  <2>7. QED BY <2>4, <2>5, <2>6
<1>5. ASSUME NEW total \in Totals(w), NEW calls \in CallLists, GuardAsks(w, total, calls)
      PROVE  Goal
  <2> DEFINE s == Charged(w, total)
             d == NewDecision(calls)
             q == Interrupted(s, Approval(d))
  <2>1. /\ Answered(w) /\ UNCHANGED <<batch, invoked>> /\ ~OverBudget(s)
        /\ Return(w, q, "approval_required")
    BY <1>5 DEF GuardAsks, WithinBudget
  <2>2. /\ s \in RunStates
        /\ s.observations = st[w].observations /\ s.iteration = st[w].iteration
        /\ s.cost \in Totals(w)
        /\ pc[w] = "model" /\ asks' = asks + 1 /\ result[w] = "none"
    BY <1>answered, <2>1
  <2>3. d \in Decisions /\ d.id = asks + 1 /\ d # Nothing
    BY NewDecisionTyped
  <2> HIDE DEF s, d
  <2>4. /\ q \in RunStates /\ q.interrupt = Approval(d)
        /\ q.observations = st[w].observations /\ q.iteration = st[w].iteration
        /\ q.cost = s.cost
        /\ Approval(d).reason = "approval" /\ Approval(d).pending = d
    BY <2>2, <2>3, InterruptedIsState, InterruptsTyped
  <2> HIDE DEF q
  <2>5. Fits(q.interrupt, "idle", "approval_required") /\ ~OverBudget(q)
    BY <2>1, <2>3, <2>4 DEF Fits, OverBudget
  <2>6. Lands(w, q, {"approval_required"}) /\ pc'[w] = "idle"
    BY <2>1, <2>4, <2>5, ReturnMoves, MovedLands
  <2>7. QED BY <1>goes, <2>1, <2>2, <2>3, <2>4, <2>5, <2>6 DEF Statuses
<1>6. ASSUME NEW total \in Totals(w), GuardDenies(w, total) PROVE Goal
  <2> DEFINE s == Charged(w, total)
  <2>1. PICK u \in {NextIteration(Told(s, "denied")), NextIteration(s)} :
          Answered(w) /\ UNCHANGED <<batch, invoked>> /\ LoopTop(w, u)
    BY <1>6 DEF GuardDenies, WithinBudget
  <2>2. /\ s \in RunStates /\ s.interrupt = NoInterrupt
        /\ s.observations = st[w].observations /\ s.iteration = st[w].iteration
        /\ s.cost \in Totals(w)
        /\ pc[w] = "model" /\ asks' = asks + 1 /\ result[w] = "none"
    BY <1>answered, <2>1
  <2> HIDE DEF s
  <2>3. /\ u \in RunStates /\ u.interrupt = NoInterrupt
        /\ u.observations = st[w].observations /\ u.iteration = st[w].iteration + 1
        /\ u.cost \in Totals(w)
    BY <2>2, ToldIsState, NextIterationIsState DEF Sources
  <2>4. Lands(w, u, {"none", "stopped"}) /\ pc'[w] # "tools"
    BY <2>1, <2>3, LoopTopLands
  <2>5. QED BY <1>goes, <1>none, <2>1, <2>2, <2>3, <2>4 DEF Statuses
<1>7. ASSUME NEW total \in Totals(w), NEW calls \in CallLists, GuardAllows(w, total, calls)
      PROVE  Goal
  <2> DEFINE s == Charged(w, total)
             d == NewDecision(calls)
  <2>1. Answered(w) /\ ~OverBudget(s) /\ Execute(w, s, d)
    BY <1>7 DEF GuardAllows, WithinBudget
  <2>2. /\ s \in RunStates /\ s.interrupt = NoInterrupt
        /\ s.observations = st[w].observations /\ s.iteration = st[w].iteration
        /\ s.cost \in Totals(w)
        /\ pc[w] = "model" /\ asks' = asks + 1 /\ result[w] = "none"
    BY <1>answered, <2>1
  <2>3. d \in Decisions /\ d.id = asks + 1
    BY NewDecisionTyped
  <2> HIDE DEF s, d
  <2>4. QED BY <2>1, <2>2, <2>3, ExecuteActs DEF Goal, Kinds
<1>8. ASSUME NEW i, CallEnds(w, i) PROVE Goal
  <2>1. /\ pc[w] = "tools" /\ UNCHANGED <<pc, st, result, asks, invoked>>
        /\ batch' = [batch EXCEPT ![w].arrived = Append(@, i)]
    BY <1>8 DEF CallEnds
  <2>2. /\ batch'[w].decision = batch[w].decision
        /\ \A v \in Workers \ {w} : batch'[v] = batch[v]
    BY <2>1 DEF TypeOK
  <2>3. QED BY <2>1, <2>2 DEF Goal, Kinds, CallOver, Alone
<1>9. CASE BatchEnds(w)
  <2> DEFINE s == [st[w] EXCEPT !.observations = @ \o ObservationsOf(w)]
  <2>1. Judge(w, s) /\ pc[w] = "tools" /\ UNCHANGED <<batch, invoked, asks>>
    BY <1>9 DEF BatchEnds
  <2>2. /\ s \in RunStates /\ s.interrupt = NoInterrupt
        /\ s.iteration = st[w].iteration /\ s.cost = st[w].cost
        /\ s.observations = st[w].observations \o ObservationsOf(w)
    BY <1>running, <2>1, BatchRecorded
  <2> HIDE DEF s
  <2>3. PICK u \in RunStates, rs \in Landings :
          Lands(w, u, rs) /\ pc'[w] # "tools" /\ Judged(s, u, rs)
    BY <2>1, <2>2, JudgeLands
  <2>4. Records(w)
    BY <2>1, <2>2, <2>3 DEF Records, Lands, Judged
  <2>5. QED BY <2>1, <2>3, <2>4 DEF Goal, Kinds, Alone, Lands
\* The calls of aresume.
<1>resumed. ASSUME Resume(w)
            PROVE  /\ Taken(w) \in RunStates /\ Taken(w).interrupt = NoInterrupt
                   /\ Taken(w).observations = st[w].observations
                   /\ Taken(w).iteration = st[w].iteration /\ Taken(w).cost = st[w].cost
                   /\ pc[w] = "idle" /\ result[w] \in Resumable /\ result[w] \in Statuses
                   /\ asks' = asks
  BY <1>resumed, TakenIsState, LoopAssumption DEF Resume
<1>10. CASE Continue(w)
  <2>1. Resume(w) /\ LoopTop(w, Taken(w)) /\ UNCHANGED <<batch, invoked>>
    BY <1>10 DEF Continue
  <2>2. result[w] # "paused"
    BY <1>10 DEF Continue, Fits
  <2>3. Lands(w, Taken(w), {"none", "stopped"}) /\ pc'[w] # "tools"
    BY <1>resumed, <2>1, LoopTopLands
  <2>4. QED BY <1>goes, <1>resumed, <1>none, <2>1, <2>2, <2>3 DEF Goal, Statuses
<1>11. CASE Reject(w) \/ AnswerQuestion(w)
  <2>1. Resume(w) /\ UNCHANGED <<batch, invoked>>
    BY <1>11 DEF Reject, AnswerQuestion
  <2>2. PICK s \in RunStates : /\ s.iteration = st[w].iteration + 1
                               /\ s.interrupt = NoInterrupt /\ s.cost = st[w].cost
                               /\ s.observations = st[w].observations
                               /\ LoopTop(w, s)
    <3>1. \A source \in Sources :
            LET s == NextIteration(Told(Taken(w), source))
            IN  /\ s \in RunStates
                /\ s.iteration = st[w].iteration + 1
                /\ s.interrupt = NoInterrupt /\ s.cost = st[w].cost
                /\ s.observations = st[w].observations
      BY <1>resumed, <2>1, ToldIsState, NextIterationIsState
    <3>2. LET s == NextIteration(Taken(w))
          IN  /\ s \in RunStates
              /\ s.iteration = st[w].iteration + 1
              /\ s.interrupt = NoInterrupt /\ s.cost = st[w].cost
              /\ s.observations = st[w].observations
      BY <1>resumed, <2>1, NextIterationIsState
    <3>3. QED BY <1>11, <3>1, <3>2 DEF Reject, AnswerQuestion, Sources
  <2>3. Lands(w, s, {"none", "stopped"}) /\ pc'[w] # "tools"
    BY <2>2, LoopTopLands
  <2>4. QED BY <1>goes, <1>resumed, <1>none, <2>1, <2>2, <2>3 DEF Goal, Statuses
<1>12. CASE Approve(w)
  <2> DEFINE d == st[w].interrupt.pending
  <2>1. Resume(w) /\ st[w].interrupt.reason = "approval" /\ Execute(w, Taken(w), d)
    BY <1>12 DEF Approve
  <2>2. result[w] = "approval_required"
    BY <2>1 DEF Fits
  <2>3. QED BY <1>resumed, <1>typed, <2>1, <2>2, ExecuteActs DEF Goal, Kinds
<1>13. QED
  BY <1>1, <1>2, <1>3, <1>4, <1>5, <1>6, <1>7, <1>8, <1>9, <1>10, <1>11, <1>12
     DEF Goal, Acts, ModelAnswers, SomeCallEnds, Caller

Stays(w) ==
  /\ pc'[w] = pc[w] /\ st'[w] = st[w] /\ result'[w] = result[w]
  /\ batch'[w] = batch[w] /\ invoked'[w] = invoked[w]

LEMMA KindsAsk ==
  ASSUME TypeOK, NEW w, Kinds(w)
  PROVE  asks' \in Nat /\ asks <= asks'
BY DEF TypeOK, Kinds, Starts, Goes, Begins, CallOver, Records, Raises, Turn

LEMMA StepOf ==
  ASSUME TypeOK, Inv, [Next]_vars, NEW v \in Workers
  PROVE  /\ asks \in Nat /\ asks' \in Nat /\ asks <= asks'
         /\ Kinds(v) \/ Stays(v)
<1>1. ASSUME NEW w \in Workers, Acts(w)
      PROVE  /\ asks' \in Nat /\ asks <= asks'
             /\ Kinds(v) \/ Stays(v)
  <2>1. Fits(st[w].interrupt, pc[w], result[w])
    BY DEF Inv, WorkerInv
  <2>2. Alone(w) /\ Kinds(w)
    BY <1>1, <2>1, ActsKinds
  <2>3. QED BY <2>2, KindsAsk DEF Alone, Stays
<1>2. CASE Rest \/ UNCHANGED vars
  BY <1>2 DEF Rest, vars, TypeOK, Stays
<1>3. asks \in Nat
  BY DEF TypeOK
<1>4. QED BY <1>1, <1>2, <1>3 DEF Next, Acts

-----------------------------------------------------------------------------
(* The observations stand in the order of decisions and calls *)

\* The parts of ObservationsInCallOrder and of OneDecisionPerIteration for two
\* neighbours.
Follows(this, next) ==
  \/ next.decision = this.decision /\ next.call = this.call + 1
  \/ next.decision > this.decision /\ next.call = 1
NewPage(this, next) == next.decision # this.decision => next.iteration > this.iteration

InOrder(o) == \A k \in 1..(Len(o) - 1) : Follows(o[k], o[k + 1])
InPages(o) == \A k \in 1..(Len(o) - 1) : NewPage(o[k], o[k + 1])
Before(o, id) == \A k \in 1..Len(o) : o[k].decision < id
Below(o, n) == \A k \in 1..Len(o) : o[k].iteration < n

\* What truncation leaves keeps every such order.
LEMMA TrimmedKeeps ==
  ASSUME NEW o \in Seq(Observation), NEW t \in Seq(Observation), Trimmed(t, o)
  PROVE  /\ InOrder(o) => InOrder(t)
         /\ InPages(o) => InPages(t)
         /\ \A id \in Nat : Before(o, id) => Before(t, id)
         /\ \A n \in Nat : Below(o, n) => Below(t, n)
<1>1. CASE t = o
  BY <1>1
<1>2. CASE EndOf(t, o)
  <2> DEFINE m == Len(o) - Len(t)
  <2>1. Len(t) \in Nat /\ Len(o) \in Nat /\ m \in Nat
    BY <1>2, LenProperties DEF EndOf
  <2>2. \A k \in 1..Len(t) : m + k \in 1..Len(o) /\ t[k] = o[m + k]
    BY <1>2, <2>1 DEF EndOf
  <2> HIDE DEF m
  <2>3. \A k \in 1..(Len(t) - 1) :
          /\ m + k \in 1..(Len(o) - 1) /\ m + (k + 1) = (m + k) + 1
          /\ t[k] = o[m + k] /\ t[k + 1] = o[(m + k) + 1]
    <3>1. TAKE k \in 1..(Len(t) - 1)
    <3>2. k \in 1..Len(t) /\ k + 1 \in 1..Len(t)
      BY <2>1
    <3>3. /\ m + k \in 1..Len(o) /\ t[k] = o[m + k]
          /\ m + (k + 1) \in 1..Len(o) /\ t[k + 1] = o[m + (k + 1)]
      BY <2>2, <3>2
    <3>4. m + (k + 1) = (m + k) + 1
      BY <2>1, <3>2
    <3>5. QED BY <2>1, <3>3, <3>4
  <2>4. QED BY <2>2, <2>3 DEF InOrder, InPages, Before, Below
<1>3. QED BY <1>1, <1>2 DEF Trimmed

\* The batch's observations, after a log of earlier decisions.
LEMMA BatchAppended ==
  ASSUME TypeOK, NEW w \in Workers
  PROVE  LET o == st[w].observations
             t == o \o ObservationsOf(w)
         IN  /\ o \in Seq(Observation) /\ t \in Seq(Observation)
             /\ Len(t) = Len(o) + Len(batch[w].decision.calls)
             /\ Len(o) \in Nat /\ Len(batch[w].decision.calls) \in Nat
             /\ \A k \in 1..Len(o) : t[k] = o[k]
             /\ \A i \in Calls(batch[w].decision) :
                  t[Len(o) + i] = [iteration |-> st[w].iteration,
                                   decision |-> batch[w].decision.id, call |-> i]
<1> DEFINE d == batch[w].decision
           b == ObservationsOf(w)
           o == st[w].observations
<1>1. /\ o \in Seq(Observation)
      /\ d.id \in Nat /\ Len(d.calls) \in Nat /\ st[w].iteration \in Nat
  BY DecisionTyped, WorkerTyped DEF TypeOK, RunStates
<1>2. b \in [1..Len(d.calls) -> Observation]
  BY <1>1 DEF ObservationsOf, Calls, Observation
<1>3. b \in Seq(Observation) /\ Len(b) = Len(d.calls)
  BY <1>1, <1>2, SeqDef, LenProperties
<1>4. /\ o \o b \in Seq(Observation) /\ Len(o \o b) = Len(o) + Len(b)
      /\ Len(o) \in Nat
      /\ \A k \in 1..Len(o) + Len(b) : (o \o b)[k] = IF k <= Len(o) THEN o[k] ELSE b[k - Len(o)]
  BY <1>1, <1>3, ConcatProperties, LenProperties
<1>5. \A i \in Calls(d) : b[i] = [iteration |-> st[w].iteration, decision |-> d.id, call |-> i]
  BY DEF ObservationsOf
<1> HIDE DEF d, b, o
<1>6. \A k \in 1..Len(o) : (o \o b)[k] = o[k]
  BY <1>1, <1>3, <1>4
<1>7. \A i \in Calls(d) : (o \o b)[Len(o) + i] = b[i]
  <2>1. TAKE i \in Calls(d)
  <2>2. /\ i \in 1..Len(d.calls) /\ Len(o) + i \in 1..Len(o) + Len(b)
        /\ ~(Len(o) + i <= Len(o)) /\ Len(o) + i - Len(o) = i
    BY <1>1, <1>3, <1>4 DEF Calls
  <2>3. QED BY <1>4, <2>2
<1>8. QED BY <1>1, <1>3, <1>4, <1>5, <1>6, <1>7 DEF d, b, o

LEMMA AppendedInOrder ==
  ASSUME TypeOK, NEW w \in Workers,
         InOrder(st[w].observations), Before(st[w].observations, batch[w].decision.id)
  PROVE  LET t == st[w].observations \o ObservationsOf(w)
         IN  InOrder(t) /\ \A n \in Nat : batch[w].decision.id < n => Before(t, n)
<1> DEFINE o == st[w].observations
           t == o \o ObservationsOf(w)
           d == batch[w].decision
<1>1. /\ o \in Seq(Observation) /\ d.id \in Nat
      /\ Len(t) = Len(o) + Len(d.calls) /\ Len(o) \in Nat /\ Len(d.calls) \in Nat
      /\ \A k \in 1..Len(o) : t[k] = o[k] /\ o[k].decision \in Nat
      /\ \A i \in Calls(d) : t[Len(o) + i].decision = d.id /\ t[Len(o) + i].call = i
  <2>1. o \in Seq(Observation) /\ Len(o) \in Nat /\ d.id \in Nat
    BY BatchAppended, DecisionTyped DEF TypeOK
  <2>2. \A k \in 1..Len(o) : o[k] \in Observation
    BY <2>1, ElementOfSeq
  <2>3. /\ Len(t) = Len(o) + Len(d.calls) /\ Len(d.calls) \in Nat
        /\ \A k \in 1..Len(o) : t[k] = o[k]
        /\ \A i \in Calls(d) :
             t[Len(o) + i] = [iteration |-> st[w].iteration, decision |-> d.id, call |-> i]
    BY BatchAppended
  <2> HIDE DEF o, t, d
  <2>4. \A i \in Calls(d) : t[Len(o) + i].decision = d.id /\ t[Len(o) + i].call = i
    <3>1. TAKE i \in Calls(d)
    <3>2. t[Len(o) + i] = [iteration |-> st[w].iteration, decision |-> d.id, call |-> i]
      BY <2>3
    <3>3. QED BY <3>2
  <2>5. \A k \in 1..Len(o) : o[k].decision \in Nat
    BY <2>2 DEF Observation
  <2>6. QED BY <2>1, <2>3, <2>4, <2>5
<1>before. /\ \A k \in 1..(Len(o) - 1) : Follows(o[k], o[k + 1])
           /\ \A k \in 1..Len(o) : o[k].decision < d.id
  BY DEF InOrder, Before
<1> HIDE DEF o, t, d
<1>2. \A k \in 1..Len(t) : k \notin 1..Len(o) => k - Len(o) \in Calls(d) /\ Len(o) + (k - Len(o)) = k
  BY <1>1 DEF Calls
<1>3. ASSUME NEW k \in 1..(Len(t) - 1) PROVE Follows(t[k], t[k + 1])
  <2>1. k \in 1..Len(t) /\ k + 1 \in 1..Len(t)
    BY <1>1
  <2>2. CASE k + 1 \in 1..Len(o)
    <3>1. k \in 1..(Len(o) - 1) /\ k \in 1..Len(o)
      BY <1>1, <2>1, <2>2
    <3>2. QED BY <1>1, <1>before, <2>2, <3>1
  <2>3. CASE k \in 1..Len(o) /\ k + 1 \notin 1..Len(o)
    <3>1. k + 1 - Len(o) = 1
      BY <1>1, <2>1, <2>3
    <3>2. t[k + 1].decision = d.id /\ t[k + 1].call = 1
      BY <1>1, <1>2, <2>1, <2>3, <3>1
    <3>3. t[k].decision \in Nat /\ t[k].decision < d.id
      BY <1>1, <1>before, <2>3
    <3>4. QED BY <1>1, <3>2, <3>3 DEF Follows
  <2>4. CASE k \notin 1..Len(o)
    <3>1. k + 1 \notin 1..Len(o) /\ k + 1 - Len(o) = (k - Len(o)) + 1
      BY <1>1, <2>1, <2>4
    <3>2. /\ t[k].decision = d.id /\ t[k].call = k - Len(o)
          /\ t[k + 1].decision = d.id /\ t[k + 1].call = (k - Len(o)) + 1
      BY <1>1, <1>2, <2>1, <2>4, <3>1
    <3>3. QED BY <3>2 DEF Follows
  <2>5. QED BY <2>2, <2>3, <2>4
<1>4. ASSUME NEW n \in Nat, d.id < n, NEW k \in 1..Len(t) PROVE t[k].decision < n
  <2>1. CASE k \in 1..Len(o)
    BY <1>1, <1>before, <1>4, <2>1
  <2>2. CASE k \notin 1..Len(o)
    <3>1. t[k].decision = d.id
      BY <1>1, <1>2, <2>2
    <3>2. QED BY <1>4, <3>1
  <2>3. QED BY <2>1, <2>2
<1>5. QED BY <1>3, <1>4 DEF InOrder, Before, o, t, d

\* What is recorded is older than the decision that runs or waits for approval.
LogInv ==
  \A w \in Workers :
    /\ InOrder(st[w].observations)
    /\ Before(st[w].observations, asks + 1)
    /\ pc[w] = "tools" =>
         /\ Before(st[w].observations, batch[w].decision.id)
         /\ batch[w].decision.id <= asks
    /\ st[w].interrupt.reason = "approval" =>
         /\ Before(st[w].observations, st[w].interrupt.pending.id)
         /\ st[w].interrupt.pending.id <= asks

LEMMA LogInit == Init => LogInv
<1> SUFFICES ASSUME Init PROVE LogInv
  OBVIOUS
<1>1. \A w \in Workers : /\ st[w].observations = <<>> /\ pc[w] = "idle"
                         /\ st[w].interrupt.reason = "none"
  BY InterruptsTyped DEF Init, FreshState
<1>2. Len(<<>>) = 0 /\ 0 - 1 < 1
  OBVIOUS
<1>3. /\ InOrder(<<>>)
      /\ Before(<<>>, asks + 1)
  BY <1>2 DEF InOrder, Before
<1>4. QED BY <1>1, <1>3 DEF LogInv

LEMMA LogNext == TypeOK /\ TypeOK' /\ Inv /\ LogInv /\ [Next]_vars => LogInv'
<1> SUFFICES ASSUME TypeOK, TypeOK', Inv, LogInv, [Next]_vars, NEW w \in Workers
             PROVE  LET o == st'[w].observations
                    IN  /\ InOrder(o)
                        /\ Before(o, asks' + 1)
                        /\ pc'[w] = "tools" =>
                             Before(o, batch'[w].decision.id) /\ batch'[w].decision.id <= asks'
                        /\ st'[w].interrupt.reason = "approval" =>
                             /\ Before(o, st'[w].interrupt.pending.id)
                             /\ st'[w].interrupt.pending.id <= asks'
  BY DEF LogInv
<1> DEFINE o == st[w].observations
           n == st'[w].observations
<1>1. /\ asks \in Nat /\ asks' \in Nat /\ asks <= asks'
      /\ Kinds(w) \/ Stays(w)
  BY StepOf
<1>2. /\ o \in Seq(Observation) /\ n \in Seq(Observation)
      /\ \A k \in 1..Len(o) : o[k].decision \in Nat
      /\ \A k \in 1..Len(n) : n[k].decision \in Nat
      /\ batch[w].decision.id \in Nat /\ st[w].interrupt.pending.id \in Nat
  <2>1. st[w] \in RunStates /\ st'[w] \in RunStates
    BY DEF TypeOK
  <2>2. o \in Seq(Observation) /\ n \in Seq(Observation)
    BY <2>1 DEF RunStates
  <2>3. /\ \A k \in 1..Len(o) : o[k] \in Observation
        /\ \A k \in 1..Len(n) : n[k] \in Observation
    BY <2>2, ElementOfSeq
  <2>4. batch[w].decision.id \in Nat /\ st[w].interrupt.pending.id \in Nat
    BY WorkerTyped, DecisionTyped DEF TypeOK
  <2>5. QED BY <2>2, <2>3, <2>4 DEF Observation
<1>3. /\ InOrder(o) /\ Before(o, asks + 1)
      /\ pc[w] = "tools" =>
           Before(o, batch[w].decision.id) /\ batch[w].decision.id <= asks
      /\ st[w].interrupt.reason = "approval" =>
           Before(o, st[w].interrupt.pending.id) /\ st[w].interrupt.pending.id <= asks
  BY DEF LogInv
<1> HIDE DEF o, n
<1>later. \A id \in Nat : id <= asks + 1 /\ Before(n, id) => Before(n, asks' + 1)
  BY <1>1, <1>2 DEF Before
<1>trimmed. ASSUME Trimmed(n, o)
            PROVE  /\ InOrder(n) /\ Before(n, asks + 1) /\ Before(n, asks' + 1)
                   /\ \A id \in Nat : Before(o, id) => Before(n, id)
  BY <1>1, <1>2, <1>3, <1>later, <1>trimmed, TrimmedKeeps
<1>same. ASSUME st'[w] = st[w]
         PROVE  /\ n = o /\ InOrder(n) /\ Before(n, asks' + 1)
                /\ st'[w].interrupt.reason = "approval" =>
                     /\ Before(n, st'[w].interrupt.pending.id)
                     /\ st'[w].interrupt.pending.id <= asks'
  <2>1. n = o
    BY <1>same DEF n, o
  <2>2. QED BY <1>1, <1>2, <1>3, <1>same, <1>later, <2>1
<1>4. CASE Starts(w)
  <2>1. n = <<>> /\ st'[w].interrupt.reason = "none" /\ pc'[w] # "tools"
    BY <1>4, InterruptsTyped DEF Starts, n
  <2>2. QED BY <2>1 DEF InOrder, Before, n
<1>5. CASE Goes(w)
  BY <1>1, <1>5, <1>trimmed DEF Goes, n, o
<1>6. CASE Begins(w)
  BY <1>1, <1>2, <1>3, <1>6, <1>trimmed DEF Begins, n, o
<1>7. CASE CallOver(w)
  <2>1. st'[w] = st[w] /\ pc'[w] = pc[w] /\ batch'[w].decision = batch[w].decision
    BY <1>7 DEF CallOver
  <2>2. QED BY <1>1, <1>2, <1>3, <1>same, <2>1 DEF n
<1>8. CASE Stays(w)
  <2>1. st'[w] = st[w] /\ pc'[w] = pc[w] /\ batch'[w].decision = batch[w].decision
    BY <1>8 DEF Stays
  <2>2. QED BY <1>1, <1>2, <1>3, <1>same, <2>1 DEF n
<1>9. CASE Raises(w)
  <2>1. st'[w] = st[w] /\ pc'[w] = "idle"
    BY <1>9 DEF Raises
  <2>2. QED BY <1>same, <2>1 DEF n
<1>10. CASE Records(w)
  <2> DEFINE t == o \o ObservationsOf(w)
  <2>1. /\ Trimmed(n, t) /\ pc'[w] # "tools" /\ asks' = asks /\ pc[w] = "tools"
        /\ st'[w].interrupt.reason # "approval"
    BY <1>10 DEF Records, n, o
  <2>2. InOrder(t) /\ Before(t, asks + 1) /\ t \in Seq(Observation)
    <3>1. batch[w].decision.id < asks + 1 /\ asks + 1 \in Nat
      BY <1>1, <1>2, <1>3, <2>1
    <3>2. QED BY <1>3, <2>1, <3>1, AppendedInOrder, BatchAppended DEF o
  <2> HIDE DEF t
  <2>3. InOrder(n) /\ Before(n, asks + 1)
    BY <1>1, <1>2, <2>1, <2>2, TrimmedKeeps
  <2>4. QED BY <2>1, <2>3 DEF n
<1>11. QED BY <1>1, <1>4, <1>5, <1>6, <1>7, <1>8, <1>9, <1>10 DEF Kinds

LEMMA LogInvariant == Spec => [](TypeOK /\ Inv /\ LogInv)
<1>1. TypeOK /\ Inv /\ LogInv /\ [Next]_vars => (TypeOK /\ Inv /\ LogInv)'
  BY TypesNext, InvNext, LogNext
<1>2. Init => TypeOK /\ Inv /\ LogInv
  BY TypesInit, InvInit, LogInit
<1>3. QED BY <1>1, <1>2, PTL DEF Spec

\* Whatever order the calls of a batch end in, and however the run is compacted,
\* paused and resumed, the observations stand in the order of decisions and calls.
THEOREM RecordsInCallOrder == Spec => []ObservationsInCallOrder
<1>1. LogInv => ObservationsInCallOrder
  BY DEF LogInv, InOrder, Follows, ObservationsInCallOrder
<1>2. QED BY <1>1, LogInvariant, PTL

-----------------------------------------------------------------------------
(* One decision to an iteration *)

LEMMA AppendedInPages ==
  ASSUME TypeOK, NEW w \in Workers,
         InPages(st[w].observations), Below(st[w].observations, st[w].iteration)
  PROVE  LET t == st[w].observations \o ObservationsOf(w)
         IN  InPages(t) /\ Below(t, st[w].iteration + 1)
<1> DEFINE o == st[w].observations
           t == o \o ObservationsOf(w)
           d == batch[w].decision
           n == st[w].iteration
<1>1. /\ Len(t) = Len(o) + Len(d.calls) /\ Len(o) \in Nat /\ Len(d.calls) \in Nat
      /\ n \in Nat
      /\ \A k \in 1..Len(o) : t[k] = o[k]
      /\ \A i \in Calls(d) : t[Len(o) + i] = [iteration |-> n, decision |-> d.id, call |-> i]
  BY BatchAppended, WorkerTyped
<1>2. \A k \in 1..Len(o) : o[k].iteration \in Nat
  <2>1. \A k \in 1..Len(o) : o[k] \in Observation
    BY BatchAppended, ElementOfSeq
  <2>2. QED BY <2>1 DEF Observation
<1>below. /\ \A k \in 1..(Len(o) - 1) : NewPage(o[k], o[k + 1])
          /\ \A k \in 1..Len(o) : o[k].iteration < n
  BY DEF InPages, Below
<1> HIDE DEF o, t, d, n
<1>3. \A k \in 1..Len(t) : k \notin 1..Len(o) => t[k].decision = d.id /\ t[k].iteration = n
  <2>1. TAKE k \in 1..Len(t)
  <2>2. HAVE k \notin 1..Len(o)
  <2>3. k - Len(o) \in Calls(d) /\ Len(o) + (k - Len(o)) = k
    BY <1>1, <2>2 DEF Calls
  <2>4. t[k] = [iteration |-> n, decision |-> d.id, call |-> k - Len(o)]
    BY <1>1, <2>3
  <2>5. QED BY <2>4
<1>4. ASSUME NEW k \in 1..(Len(t) - 1) PROVE NewPage(t[k], t[k + 1])
  <2>1. k \in 1..Len(t) /\ k + 1 \in 1..Len(t)
    BY <1>1
  <2>2. CASE k + 1 \in 1..Len(o)
    <3>1. k \in 1..(Len(o) - 1) /\ k \in 1..Len(o)
      BY <1>1, <2>1, <2>2
    <3>2. QED BY <1>1, <1>below, <2>2, <3>1
  <2>3. CASE k \in 1..Len(o) /\ k + 1 \notin 1..Len(o)
    <3>1. t[k].iteration < n /\ t[k + 1].iteration = n
      BY <1>1, <1>3, <1>below, <2>1, <2>3
    <3>2. QED BY <1>1, <1>2, <2>3, <3>1 DEF NewPage
  <2>4. CASE k \notin 1..Len(o)
    <3>1. k + 1 \notin 1..Len(o)
      BY <1>1, <2>1, <2>4
    <3>2. QED BY <1>3, <2>1, <2>4, <3>1 DEF NewPage
  <2>5. QED BY <2>2, <2>3, <2>4
<1>5. ASSUME NEW k \in 1..Len(t) PROVE t[k].iteration < n + 1
  BY <1>1, <1>2, <1>3, <1>below
<1>6. QED BY <1>4, <1>5 DEF InPages, Below, o, t, d, n

\* Only a run that ended or asks a question after its tools has observations of
\* the iteration it is in; and it is not resumed there, or goes to the next.
PageInv ==
  \A w \in Workers :
    /\ InPages(st[w].observations)
    /\ Below(st[w].observations, st[w].iteration + 1)
    /\ result[w] \notin {"completed", "paused"} =>
         Below(st[w].observations, st[w].iteration)

LEMMA PageInit == Init => PageInv
<1> SUFFICES ASSUME Init PROVE PageInv
  OBVIOUS
<1>1. \A w \in Workers : st[w].observations = <<>>
  BY DEF Init, FreshState
<1>2. Len(<<>>) = 0 /\ 0 - 1 < 1
  OBVIOUS
<1>3. InPages(<<>>) /\ Below(<<>>, 0) /\ Below(<<>>, 0 + 1)
  BY <1>2 DEF InPages, Below
<1>4. \A w \in Workers : st[w].iteration = 0
  BY DEF Init, FreshState
<1>5. QED BY <1>1, <1>3, <1>4 DEF PageInv

LEMMA PageNext ==
  ASSUME "completed" \notin Resumable
  PROVE  TypeOK /\ TypeOK' /\ Inv /\ PageInv /\ [Next]_vars => PageInv'
<1> SUFFICES ASSUME TypeOK, TypeOK', Inv, PageInv, [Next]_vars, NEW w \in Workers
             PROVE  /\ InPages(st'[w].observations)
                    /\ Below(st'[w].observations, st'[w].iteration + 1)
                    /\ result'[w] \notin {"completed", "paused"} =>
                         Below(st'[w].observations, st'[w].iteration)
  BY DEF PageInv
<1> DEFINE o == st[w].observations
           n == st'[w].observations
           m == st[w].iteration
<1>1. Kinds(w) \/ Stays(w)
  BY StepOf
<1>2. /\ o \in Seq(Observation) /\ n \in Seq(Observation)
      /\ m \in Nat /\ st'[w].iteration \in Nat
      /\ \A k \in 1..Len(n) : n[k].iteration \in Nat
  <2>1. st[w] \in RunStates /\ st'[w] \in RunStates
    BY DEF TypeOK
  <2>2. /\ o \in Seq(Observation) /\ n \in Seq(Observation)
        /\ m \in Nat /\ st'[w].iteration \in Nat
    BY <2>1 DEF RunStates
  <2>3. \A k \in 1..Len(n) : n[k] \in Observation
    BY <2>2, ElementOfSeq
  <2>4. QED BY <2>2, <2>3 DEF Observation
<1>3. /\ InPages(o) /\ Below(o, m + 1)
      /\ result[w] \notin {"completed", "paused"} => Below(o, m)
  BY DEF PageInv
<1>fits. Fits(st[w].interrupt, pc[w], result[w])
  BY DEF Inv, WorkerInv
<1> HIDE DEF o, n, m
<1>below. \A i \in Nat : Below(n, i) => Below(n, i + 1)
  BY <1>2 DEF Below
<1>4. CASE Starts(w)
  <2>1. n = <<>> /\ st'[w].iteration = 0
    BY <1>4 DEF Starts, n
  <2>2. Len(<<>>) = 0 /\ 0 - 1 < 1
    OBVIOUS
  <2>3. InPages(<<>>) /\ \A i \in Nat : Below(<<>>, i)
    BY <2>2 DEF InPages, Below
  <2>4. QED BY <2>1, <2>3 DEF n
<1>5. CASE Goes(w) \/ Begins(w)
  <2>1. /\ Trimmed(n, o) /\ result[w] # "completed"
        /\ \/ st'[w].iteration = m /\ result[w] # "paused"
           \/ st'[w].iteration = m + 1
    BY <1>5 DEF Goes, Begins, n, o, m
  <2>2. InPages(n) /\ Below(n, st'[w].iteration)
    BY <1>2, <1>3, <2>1, TrimmedKeeps
  <2>3. QED BY <1>2, <1>below, <2>2 DEF n
<1>6. CASE CallOver(w) \/ Stays(w)
  <2>1. st'[w] = st[w] /\ result'[w] = result[w]
    BY <1>6 DEF CallOver, Stays
  <2>2. QED BY <1>3, <2>1 DEF o, m
<1>7. CASE Raises(w)
  <2>1. st'[w] = st[w] /\ result[w] = "none"
    BY <1>7, <1>fits DEF Raises, Fits
  <2>2. QED BY <1>3, <2>1 DEF o, m
<1>8. CASE Records(w)
  <2> DEFINE t == o \o ObservationsOf(w)
  <2>1. /\ Trimmed(n, t) /\ result[w] = "none"
        /\ \/ st'[w].iteration = m /\ result'[w] \in {"completed", "paused"}
           \/ st'[w].iteration = m + 1
    BY <1>8, <1>fits DEF Records, Fits, n, o, m
  <2>2. InPages(t) /\ Below(t, m + 1) /\ t \in Seq(Observation)
    BY <1>3, <2>1, AppendedInPages, BatchAppended DEF o, m
  <2> HIDE DEF t
  <2>3. InPages(n) /\ Below(n, m + 1)
    BY <1>2, <2>1, <2>2, TrimmedKeeps
  <2>4. QED BY <1>2, <1>below, <2>1, <2>3 DEF n
<1>9. QED BY <1>1, <1>4, <1>5, <1>6, <1>7, <1>8 DEF Kinds

\* Where a completed run is not resumed, the observations of an iteration are one
\* decision's: whatever pauses, denials, rejections and resumes, two batches never
\* share an iteration.
THEOREM OneDecisionToAPage ==
  ASSUME "completed" \notin Resumable
  PROVE  Spec => []OneDecisionPerIteration
<1>1. TypeOK /\ Inv /\ PageInv /\ [Next]_vars => (TypeOK /\ Inv /\ PageInv)'
  BY TypesNext, InvNext, PageNext
<1>2. Init => TypeOK /\ Inv /\ PageInv
  BY TypesInit, InvInit, PageInit
<1>3. PageInv => OneDecisionPerIteration
  BY DEF PageInv, InPages, NewPage, OneDecisionPerIteration
<1>4. QED BY <1>1, <1>2, <1>3, PTL DEF Spec

-----------------------------------------------------------------------------
(* What ran is on the record *)

Recorded(call, o) ==
  \E n \in 1..Len(o) : o[n].decision = call[1] /\ o[n].call = call[2]

\* A tool that ran is in the batch, or recorded, or its run raised; and a run that
\* was not started ran none.
RecordInv ==
  \A w \in Workers :
    /\ \A call \in invoked[w] :
         \/ pc[w] = "tools" /\ call \in Tools(batch[w].decision)
         \/ result[w] = "raised"
         \/ Recorded(call, st[w].observations)
    /\ result[w] = "new" => invoked[w] = {}

\* The batch that ends is recorded to its last call.
LEMMA AppendedRecords ==
  ASSUME TypeOK, NEW w \in Workers
  PROVE  LET o == st[w].observations
             t == o \o ObservationsOf(w)
         IN  /\ \A call \in Tools(batch[w].decision) : Recorded(call, t)
             /\ \A call : Recorded(call, o) => Recorded(call, t)
<1> DEFINE o == st[w].observations
           t == o \o ObservationsOf(w)
           d == batch[w].decision
<1>1. /\ Len(t) = Len(o) + Len(d.calls) /\ Len(o) \in Nat /\ Len(d.calls) \in Nat
      /\ \A k \in 1..Len(o) : t[k] = o[k]
      /\ \A i \in Calls(d) :
           t[Len(o) + i] = [iteration |-> st[w].iteration, decision |-> d.id, call |-> i]
  BY BatchAppended
<1> HIDE DEF o, t, d
<1>2. ASSUME NEW call \in Tools(d) PROVE Recorded(call, t)
  <2>1. PICK i \in Calls(d) : call = <<d.id, i>>
    BY DEF Tools
  <2>2. t[Len(o) + i] = [iteration |-> st[w].iteration, decision |-> d.id, call |-> i]
    BY <1>1
  <2>3. Len(o) + i \in 1..Len(t)
    BY <1>1 DEF Calls
  <2>4. t[Len(o) + i].decision = call[1] /\ t[Len(o) + i].call = call[2]
    BY <2>1, <2>2
  <2>5. QED BY <2>3, <2>4 DEF Recorded
<1>3. ASSUME NEW call, Recorded(call, o) PROVE Recorded(call, t)
  <2>1. PICK k \in 1..Len(o) : o[k].decision = call[1] /\ o[k].call = call[2]
    BY <1>3 DEF Recorded
  <2>2. k \in 1..Len(t) /\ t[k] = o[k]
    BY <1>1
  <2>3. QED BY <2>1, <2>2 DEF Recorded
<1>4. QED BY <1>2, <1>3 DEF o, t, d

LEMMA RecordInit == Init => RecordInv
BY DEF Init, RecordInv

LEMMA RecordNext ==
  ASSUME Keep = 0
  PROVE  TypeOK /\ Inv /\ RecordInv /\ [Next]_vars => RecordInv'
<1> SUFFICES ASSUME TypeOK, Inv, RecordInv, [Next]_vars, NEW w \in Workers
             PROVE  /\ \A call \in invoked'[w] :
                         \/ pc'[w] = "tools" /\ call \in Tools(batch'[w].decision)
                         \/ result'[w] = "raised"
                         \/ Recorded(call, st'[w].observations)
                    /\ result'[w] = "new" => invoked'[w] = {}
  BY DEF RecordInv, Tools, Calls
<1>1. Kinds(w) \/ Stays(w)
  BY StepOf
<1>2. /\ \A call \in invoked[w] :
           \/ pc[w] = "tools" /\ call \in Tools(batch[w].decision)
           \/ result[w] = "raised"
           \/ Recorded(call, st[w].observations)
      /\ result[w] = "new" => invoked[w] = {}
  BY DEF RecordInv
<1>fits. Fits(st[w].interrupt, pc[w], result[w])
  BY DEF Inv, WorkerInv
<1>whole. \A t, o : Trimmed(t, o) => t = o
  BY DEF Trimmed
<1>3. CASE Starts(w)
  BY <1>2, <1>3 DEF Starts
<1>4. CASE Goes(w)
  BY <1>2, <1>4, <1>whole DEF Goes
<1>5. CASE Begins(w)
  BY <1>2, <1>5, <1>whole DEF Begins
<1>6. CASE CallOver(w) \/ Stays(w)
  BY <1>2, <1>6 DEF CallOver, Stays
<1>7. CASE Raises(w)
  BY <1>7 DEF Raises
<1>8. CASE Records(w)
  <2>1. /\ st'[w].observations = st[w].observations \o ObservationsOf(w)
        /\ invoked'[w] = invoked[w] /\ result[w] = "none" /\ result'[w] # "new"
    BY <1>8, <1>fits, <1>whole DEF Records, Fits
  <2>2. QED BY <1>2, <2>1, AppendedRecords
<1>9. QED BY <1>1, <1>3, <1>4, <1>5, <1>6, <1>7, <1>8 DEF Kinds

\* Where nothing is compacted away, every tool that ran is on the record when its
\* run has returned or gone on, unless the call raised.
THEOREM InvocationsAreRecorded ==
  ASSUME Keep = 0
  PROVE  Spec => []InvocationsRecorded
<1>1. TypeOK /\ Inv /\ RecordInv /\ [Next]_vars => (TypeOK /\ Inv /\ RecordInv)'
  BY TypesNext, InvNext, RecordNext
<1>2. Init => TypeOK /\ Inv /\ RecordInv
  BY TypesInit, InvInit, RecordInit
<1>3. TypeOK /\ RecordInv => InvocationsRecorded
  <2> SUFFICES ASSUME TypeOK, RecordInv, NEW w \in Workers, NEW call \in invoked[w]
               PROVE  \/ pc[w] = "tools" /\ batch[w].decision.id = call[1]
                      \/ result[w] = "raised"
                      \/ Recorded(call, st[w].observations)
    BY DEF InvocationsRecorded, Recorded
  <2>1. \A c \in Tools(batch[w].decision) : c[1] = batch[w].decision.id
    BY DecisionTyped DEF TypeOK
  <2>2. QED BY <2>1 DEF RecordInv
<1>4. QED BY <1>1, <1>2, <1>3, PTL DEF Spec

-----------------------------------------------------------------------------
(* The durable run.  Lemmas about its operators *)

\* What is written and read back is the state that was written.
LEMMA RoundTrip ==
  ASSUME NEW s \in RunStates
  PROVE  /\ FromDict(ToDict(s)) = s
         /\ ToDict(s).iteration = s.iteration
         /\ ToDict(s).metadata.cost_usd = s.cost
<1>1. InterruptFromDict({s.interrupt} \ {NoInterrupt}) = s.interrupt
  <2>1. CASE s.interrupt = NoInterrupt
    BY <2>1 DEF InterruptFromDict
  <2>2. CASE s.interrupt # NoInterrupt
    <3>1. {s.interrupt} \ {NoInterrupt} = {s.interrupt}
      BY <2>2
    <3>2. (CHOOSE i \in {s.interrupt} : TRUE) = s.interrupt
      OBVIOUS
    <3>3. QED BY <3>1, <3>2 DEF InterruptFromDict
  <2>3. QED BY <2>1, <2>2
<1>2. /\ ToDict(s).interrupt = {s.interrupt} \ {NoInterrupt}
      /\ ToDict(s).iteration = s.iteration /\ ToDict(s).observations = s.observations
      /\ ToDict(s).feedback = s.feedback /\ ToDict(s).metadata.cost_usd = s.cost
  BY DEF ToDict
<1>3. FromDict(ToDict(s)) =
        [iteration |-> s.iteration, observations |-> s.observations, feedback |-> s.feedback,
         interrupt |-> s.interrupt, cost |-> s.cost]
  BY <1>1, <1>2 DEF FromDict
<1>4. QED BY <1>2, <1>3 DEF RunStates

\* The status a loaded state is taken for is one its interrupt names.
LEMMA StatusFits ==
  ASSUME NEW s \in RunStates, NEW p, NEW r, Fits(s.interrupt, p, r)
  PROVE  StatusOf(s) \in Statuses /\ Fits(s.interrupt, "idle", StatusOf(s))
BY DEF StatusOf, Fits, Statuses

\* A turn never lowers the total: a total is a multiple of the grain, and what is
\* rounded to it is no less.
Multiple(m) == \E k \in Nat : m = k * Grain

LEMMA TotalsGrow ==
  ASSUME TypeOK, NEW w \in Workers, Multiple(st[w].cost), NEW total \in Totals(w)
  PROVE  Multiple(total) /\ st[w].cost <= total
<1>1. PICK cost \in Costs : total \in Rounded(st[w].cost + cost)
  BY DEF Totals
<1>2. PICK j \in Nat : st[w].cost = j * Grain
  BY DEF Multiple
<1>3. PICK k \in 0..(st[w].cost + cost) : total = k * Grain
  BY <1>1 DEF Rounded
<1>4. /\ cost \in Nat /\ Grain \in Nat \ {0} /\ st[w].cost \in Nat
      /\ k \in Nat /\ 2 * (st[w].cost + cost) <= 2 * total + Grain
  BY <1>1, <1>3, WorkerTyped, LoopAssumption DEF Rounded
<1>5. j <= k
  <2> SUFFICES ASSUME k + 1 <= j PROVE FALSE
    BY <1>2, <1>4
  <2>1. PICK e \in Nat : j = k + 1 + e
    <3>1. j - (k + 1) \in Nat /\ j = k + 1 + (j - (k + 1))
      BY <1>2, <1>4
    <3>2. QED BY <3>1
  <2>2. e * Grain \in Nat /\ j * Grain = k * Grain + Grain + e * Grain
    BY <1>4, <2>1
  <2>3. k * Grain \in Nat
    BY <1>4
  <2>4. QED BY <1>2, <1>3, <1>4, <2>2, <2>3
<1>6. PICK e \in Nat : k = j + e
  <2>1. k - j \in Nat /\ k = j + (k - j)
    BY <1>2, <1>4, <1>5
  <2>2. QED BY <2>1
<1>7. k * Grain = j * Grain + e * Grain /\ e * Grain \in Nat /\ j * Grain \in Nat
  BY <1>2, <1>4, <1>6
<1>8. QED BY <1>2, <1>3, <1>4, <1>7 DEF Multiple

-----------------------------------------------------------------------------
(* How often a decision's batch began *)

BegunAt(id) == {k \in 1..Len(begun) : begun[k] = id}

LEMMA TimesTyped ==
  ASSUME begun \in Seq(Nat), NEW id
  PROVE  IsFiniteSet(BegunAt(id)) /\ TimesBegun(id) \in Nat /\ TimesBegun(id) = Cardinality(BegunAt(id))
<1>1. Len(begun) \in Nat
  BY LenProperties
<1>2. IsFiniteSet(1..Len(begun)) /\ BegunAt(id) \subseteq 1..Len(begun)
  BY <1>1, FS_Interval DEF BegunAt
<1>3. IsFiniteSet(BegunAt(id))
  BY <1>2, FS_Subset
<1>4. QED BY <1>3, FS_CardinalityType DEF TimesBegun, BegunAt

\* One more batch counts for its own decision only.
LEMMA TimesAppended ==
  ASSUME begun \in Seq(Nat), NEW id \in Nat, begun' = Append(begun, id)
  PROVE  /\ begun' \in Seq(Nat) /\ Len(begun') = Len(begun) + 1 /\ Len(begun) \in Nat
         /\ begun'[Len(begun) + 1] = id
         /\ \A k \in 1..Len(begun) : begun'[k] = begun[k]
         /\ \A i : TimesBegun(i)' = IF i = id THEN TimesBegun(i) + 1 ELSE TimesBegun(i)
<1>1. /\ begun' \in Seq(Nat) /\ Len(begun') = Len(begun) + 1 /\ Len(begun) \in Nat
      /\ begun'[Len(begun) + 1] = id
      /\ \A k \in 1..Len(begun) : begun'[k] = begun[k]
  BY AppendProperties, LenProperties
<1>2. ASSUME NEW i
      PROVE  TimesBegun(i)' = IF i = id THEN TimesBegun(i) + 1 ELSE TimesBegun(i)
  <2> DEFINE A == {k \in 1..Len(begun) : begun[k] = i}
             B == {k \in 1..Len(begun') : begun'[k] = i}
             n == Len(begun) + 1
  <2>1. IsFiniteSet(A) /\ TimesBegun(i) = Cardinality(A) /\ TimesBegun(i)' = Cardinality(B)
    BY TimesTyped DEF TimesBegun, BegunAt
  <2>2. \A k : k \in 1..Len(begun') <=> k \in 1..Len(begun) \/ k = n
    BY <1>1
  <2>3. n \notin A
    BY <1>1
  <2>4. CASE i = id
    <3>1. B = A \cup {n}
      BY <1>1, <2>2, <2>4
    <3> HIDE DEF A, B, n
    <3>2. Cardinality(A \cup {n}) = Cardinality(A) + 1
      BY <2>1, <2>3, FS_AddElement
    <3>3. QED BY <2>1, <2>4, <3>1, <3>2
  <2>5. CASE i # id
    <3>1. B = A
      BY <1>1, <2>2, <2>5
    <3> HIDE DEF A, B
    <3>2. QED BY <2>1, <2>5, <3>1
  <2>6. QED BY <2>4, <2>5
<1>3. QED BY <1>1, <1>2

\* A decision whose batch has not begun counts none.
LEMMA NotBegun ==
  ASSUME begun \in Seq(Nat), NEW id, \A k \in 1..Len(begun) : begun[k] # id
  PROVE  TimesBegun(id) = 0
<1>1. {k \in 1..Len(begun) : begun[k] = id} = {}
  OBVIOUS
<1>2. QED BY <1>1, FS_EmptySet DEF TimesBegun

-----------------------------------------------------------------------------
(* The invariant *)

StoreOK ==
  /\ owner \in Workers /\ losses \in Nat /\ begun \in Seq(Nat)
  /\ \A d, e \in store : d = e
  /\ \A d \in store :
       /\ FromDict(d) \in RunStates /\ ToDict(FromDict(d)) = d
       /\ Fits(FromDict(d).interrupt, "idle", StatusOf(FromDict(d)))
       /\ Affordable(FromDict(d), "idle")
       /\ Multiple(FromDict(d).cost)

\* The run is where its owner is.  A new run has no past, and only a loss leaves
\* the owner with nothing.
OwnerOK ==
  /\ \A w \in Workers \ {owner} : pc[w] = "idle"
  /\ result[owner] = "new" => store = {} /\ asks = 0
  /\ result[owner] = "lost" => losses > 0 /\ pc[owner] = "idle"
  /\ Fits(st[owner].interrupt, pc[owner], result[owner])
  /\ Affordable(st[owner], pc[owner])
  /\ Multiple(st[owner].cost)

\* What the owner holds is as late as what is saved.
Advances ==
  result[owner] # "lost" =>
    \A d \in store : FromDict(d).iteration <= st[owner].iteration
                     /\ FromDict(d).cost <= st[owner].cost

\* A decision that waits for an approval, with the owner or, after a loss, in the
\* store, has begun at most once for every loss.
Pends(s) ==
  s.interrupt.reason = "approval" =>
    s.interrupt.pending.id <= asks /\ TimesBegun(s.interrupt.pending.id) <= losses

Dated(s) == s.interrupt.reason = "approval" => s.interrupt.pending.id <= asks

BegunOK ==
  /\ \A k \in 1..Len(begun) : begun[k] <= asks
  /\ \A id \in Nat : TimesBegun(id) <= 1 + losses
  /\ Pends(st[owner])
  /\ \A d \in store :
       Dated(FromDict(d)) /\ (result[owner] = "lost" => Pends(FromDict(d)))

DurableInv == TypeOK /\ StoreOK /\ OwnerOK /\ Advances /\ BegunOK

LEMMA DurableInvInit == DurableInit => DurableInv
<1> SUFFICES ASSUME DurableInit PROVE DurableInv
  OBVIOUS
<1>1. TypeOK
  BY TypesInit DEF DurableInit
<1>2. /\ owner \in Workers /\ store = {} /\ losses = 0 /\ begun = <<>> /\ asks = 0
      /\ \A w \in Workers : pc[w] = "idle"
      /\ pc[owner] = "idle" /\ result[owner] = "new"
      /\ st[owner].interrupt = NoInterrupt /\ st[owner].cost = 0
  BY DEF DurableInit, Init, FreshState
<1>3. begun \in Seq(Nat) /\ Len(begun) = 0 /\ losses \in Nat
  BY <1>2, EmptySeq
<1>4. StoreOK
  BY <1>2, <1>3 DEF StoreOK
<1>5. OwnerOK
  <2>1. 0 = 0 * Grain
    BY LoopAssumption
  <2>2. Multiple(0)
    BY <2>1 DEF Multiple
  <2>3. Fits(NoInterrupt, "idle", "new") /\ NoInterrupt.reason # "approval"
    BY InterruptsTyped DEF Fits
  <2>4. QED BY <1>2, <2>2, <2>3 DEF OwnerOK, Affordable
<1>6. Advances
  BY <1>2 DEF Advances
<1>7. BegunOK
  <2>1. \A id : TimesBegun(id) = 0
    BY <1>3, NotBegun
  <2>2. QED BY <1>2, <1>3, <2>1, InterruptsTyped DEF BegunOK, Pends
<1>8. QED BY <1>1, <1>4, <1>5, <1>6, <1>7 DEF DurableInv

\* A step of the loop at the owner, as RunLoopProofs classifies it.
LEMMA RunKinds ==
  ASSUME DurableInv, Run
  PROVE  /\ TypeOK' /\ Alone(owner) /\ Kinds(owner)
         /\ Fits(st'[owner].interrupt, pc'[owner], result'[owner])
         /\ UNCHANGED <<store, owner, losses>>
         /\ asks \in Nat /\ asks' \in Nat /\ asks <= asks'
<1>1. owner \in Workers /\ TypeOK /\ Fits(st[owner].interrupt, pc[owner], result[owner])
  BY DEF DurableInv, StoreOK, OwnerOK
<1>2. Acts(owner) /\ Next
  BY <1>1 DEF Run, Acts, Next
<1>3. TypeOK'
  BY <1>1, <1>2, TypesNext
<1>4. Alone(owner) /\ Kinds(owner) /\ Fits(st'[owner].interrupt, pc'[owner], result'[owner])
  BY <1>1, <1>2, ActsKinds
<1>5. asks' \in Nat /\ asks <= asks'
  BY <1>1, <1>4, KindsAsk
<1>6. QED BY <1>1, <1>3, <1>4, <1>5 DEF Run, TypeOK

\* What the step of a worker does to its cost and iteration.
LEMMA KindsGrow ==
  ASSUME TypeOK, NEW w \in Workers, Kinds(w), Multiple(st[w].cost), result[w] # "new"
  PROVE  /\ Multiple(st'[w].cost) /\ st[w].cost <= st'[w].cost
         /\ st[w].iteration <= st'[w].iteration
         /\ result[w] # "lost" => result'[w] # "lost"
         /\ result'[w] # "new"
<1>1. st[w].cost \in Nat /\ st[w].iteration \in Nat
  BY WorkerTyped
<1>2. \/ st'[w].cost = st[w].cost
      \/ st'[w].cost \in Totals(w)
  BY DEF Kinds, Starts, Goes, Begins, CallOver, Records, Raises, Turn
<1>3. Multiple(st'[w].cost) /\ st[w].cost <= st'[w].cost
  BY <1>1, <1>2, TotalsGrow
<1>4. st[w].iteration <= st'[w].iteration
  BY <1>1 DEF Kinds, Starts, Goes, Begins, CallOver, Records, Raises
<1>5. (result[w] # "lost" => result'[w] # "lost") /\ result'[w] # "new"
  BY DEF Kinds, Starts, Goes, Begins, CallOver, Records, Raises
<1>6. QED BY <1>3, <1>4, <1>5

\* The loop keeps a state that runs tools or waits for approval affordable.
LEMMA KindsAfford ==
  ASSUME TypeOK, NEW w \in Workers, Kinds(w),
         Fits(st[w].interrupt, pc[w], result[w]), Affordable(st[w], pc[w])
  PROVE  Affordable(st'[w], pc'[w])
<1>1. CASE Starts(w)
  BY <1>1, InterruptsTyped DEF Starts, Affordable
<1>2. CASE Goes(w)
  BY <1>2 DEF Goes, Affordable
<1>3. CASE Begins(w)
  <2>1. CASE ~OverBudget(st'[w])
    BY <2>1 DEF Affordable
  <2>2. CASE asks' = asks /\ st[w].interrupt.reason = "approval"
    <3>1. st'[w].cost = st[w].cost
      BY <1>3, <2>2 DEF Begins, Turn, TypeOK
    <3>2. ~OverBudget(st[w])
      BY <2>2 DEF Affordable
    <3>3. ~OverBudget(st'[w])
      BY <3>1, <3>2 DEF OverBudget
    <3>4. QED BY <3>3 DEF Affordable
  <2>3. QED BY <1>3, <2>1, <2>2 DEF Begins
<1>4. CASE CallOver(w)
  BY <1>4 DEF CallOver
<1>5. CASE Records(w)
  BY <1>5 DEF Records, Affordable
<1>6. CASE Raises(w)
  BY <1>6 DEF Raises, Affordable, Fits
<1>7. QED BY <1>1, <1>2, <1>3, <1>4, <1>5, <1>6 DEF Kinds

-----------------------------------------------------------------------------
(* Each step keeps the invariant *)

\* Only a new run starts, and a lost one does nothing.
LEMMA RunFrom ==
  ASSUME DurableInv, Run
  PROVE  /\ result[owner] = "new" => Starts(owner)
         /\ result[owner] # "lost" /\ result'[owner] \notin {"new", "lost"}
<1>1. Kinds(owner) /\ Fits(st[owner].interrupt, pc[owner], result[owner])
  BY RunKinds DEF DurableInv, OwnerOK
<1>2. result[owner] \in {"new", "lost"} => pc[owner] = "idle"
  BY <1>1 DEF Fits
<1>3. result[owner] \in {"new", "lost"} => Starts(owner)
  BY <1>1, <1>2 DEF Kinds, Goes, Begins, CallOver, Records, Raises
<1>4. pc[owner] = "tools" => result[owner] = "none"
  BY <1>1 DEF Fits
<1>5. result'[owner] \notin {"new", "lost"}
  BY <1>1, <1>4 DEF Kinds, Starts, Goes, Begins, CallOver, Records, Raises
<1>6. QED BY <1>3, <1>5 DEF Starts

\* The batch that begins is of a decision just made, or of the one that waited.
LEMMA RunBegins ==
  ASSUME DurableInv, Run
  PROVE  \/ begun' = begun /\ ~Begins(owner)
         \/ /\ Begins(owner) /\ batch'[owner].decision.id \in Nat
            /\ begun' = Append(begun, batch'[owner].decision.id)
<1>1. Kinds(owner) /\ TypeOK' /\ owner \in Workers
  BY RunKinds DEF DurableInv, StoreOK
<1>2. Begins(owner) <=> pc[owner] # "tools" /\ pc'[owner] = "tools"
  BY <1>1 DEF Kinds, Starts, Goes, Begins, CallOver, Records, Raises
<1>3. batch'[owner].decision.id \in Nat
  <2>1. batch'[owner].decision \in Decisions \cup {Nothing}
    BY <1>1 DEF TypeOK
  <2>2. QED BY <2>1, DecisionTyped
<1>4. QED BY <1>2, <1>3 DEF Run

LEMMA RunKeepsCounts ==
  ASSUME DurableInv, Run
  PROVE  begun' \in Seq(Nat) /\ BegunOK'
<1> DEFINE s == st[owner]
           t == st'[owner]
<1>1. /\ Kinds(owner) /\ UNCHANGED <<store, owner, losses>>
      /\ asks \in Nat /\ asks' \in Nat /\ asks <= asks'
      /\ begun \in Seq(Nat) /\ losses \in Nat
      /\ result'[owner] # "lost"
      /\ owner \in Workers /\ TypeOK
  BY RunKinds, RunFrom DEF DurableInv, StoreOK
<1>2. /\ \A k \in 1..Len(begun) : begun[k] <= asks
      /\ \A id \in Nat : TimesBegun(id) <= 1 + losses
      /\ Pends(s)
  BY DEF DurableInv, BegunOK
<1>3. \A k \in 1..Len(begun) : begun[k] \in Nat
  BY <1>1, ElementOfSeq
<1>4. TimesBegun(asks + 1) = 0
  <2>1. \A k \in 1..Len(begun) : begun[k] # asks + 1
    BY <1>1, <1>2, <1>3
  <2>2. QED BY <1>1, <2>1, NotBegun
<1>typed. s.interrupt.pending.id \in Nat
  BY <1>1, WorkerTyped, DecisionTyped
<1>store. \A d \in store' :
            Dated(FromDict(d))' /\ (result'[owner'] = "lost" => Pends(FromDict(d))')
  <2>1. ASSUME NEW d \in store PROVE Dated(FromDict(d))'
    <3>1. FromDict(d).interrupt.pending \in Decisions \cup {Nothing}
      BY DEF DurableInv, StoreOK, RunStates, Interrupts
    <3>2. FromDict(d).interrupt.pending.id \in Nat
      BY <3>1, DecisionTyped
    <3>3. Dated(FromDict(d))
      BY DEF DurableInv, BegunOK
    <3>4. QED BY <1>1, <3>2, <3>3 DEF Dated
  <2>2. QED BY <1>1, <2>1
<1>5. CASE begun' = begun /\ ~Begins(owner)
  <2>1. \A id : TimesBegun(id)' = TimesBegun(id)
    BY <1>5 DEF TimesBegun
  <2>2. t.interrupt.reason = "approval" =>
          \/ t.interrupt.pending.id = asks + 1 /\ asks' = asks + 1
          \/ t = s /\ asks' = asks
    BY <1>1, <1>5, InterruptsTyped DEF Kinds, Starts, Goes, CallOver, Records, Raises
  <2>3. t.interrupt.reason = "approval" =>
          t.interrupt.pending.id <= asks' /\ TimesBegun(t.interrupt.pending.id) <= losses
    BY <1>1, <1>2, <1>4, <1>typed, <2>2 DEF Pends
  <2> HIDE DEF s, t
  <2>4. Pends(st[owner])'
    BY <1>1, <2>1, <2>3 DEF Pends, t
  <2>5. /\ \A k \in 1..Len(begun') : begun'[k] <= asks'
        /\ \A id \in Nat : TimesBegun(id)' <= 1 + losses'
    BY <1>1, <1>2, <1>3, <1>5, <2>1
  <2>6. QED BY <1>1, <1>5, <1>store, <2>4, <2>5 DEF BegunOK
<1>6. ASSUME NEW id \in Nat, Begins(owner), id = batch'[owner].decision.id,
             begun' = Append(begun, id)
      PROVE  begun' \in Seq(Nat) /\ BegunOK'
  <2>1. /\ begun' \in Seq(Nat) /\ Len(begun') = Len(begun) + 1 /\ Len(begun) \in Nat
        /\ begun'[Len(begun) + 1] = id
        /\ \A k \in 1..Len(begun) : begun'[k] = begun[k]
        /\ \A i : TimesBegun(i)' = IF i = id THEN TimesBegun(i) + 1 ELSE TimesBegun(i)
    BY <1>1, <1>6, TimesAppended
  <2>2. id <= asks' /\ TimesBegun(id) <= losses
    <3>1. \/ asks' = asks + 1 /\ id = asks + 1
          \/ /\ asks' = asks /\ s.interrupt.reason = "approval"
             /\ id = s.interrupt.pending.id
      BY <1>6 DEF Begins
    <3>2. QED BY <1>1, <1>2, <1>4, <3>1 DEF Pends
  <2>3. t.interrupt.reason # "approval"
    BY <1>6 DEF Begins
  <2>4. \A k \in 1..Len(begun') : begun'[k] <= asks'
    <3>1. \A k \in 1..Len(begun') : k \in 1..Len(begun) \/ k = Len(begun) + 1
      BY <2>1
    <3>2. \A k \in 1..Len(begun) : begun[k] <= asks'
      BY <1>1, <1>2, <1>3
    <3>3. QED BY <2>1, <2>2, <3>1, <3>2
  <2>5. \A i \in Nat : TimesBegun(i)' <= 1 + losses
    <3>1. TAKE i \in Nat
    <3>2. TimesBegun(i) \in Nat /\ TimesBegun(id) \in Nat
      BY <1>1, TimesTyped
    <3>3. CASE i = id
      BY <1>1, <2>1, <2>2, <3>2, <3>3
    <3>4. CASE i # id
      BY <1>1, <1>2, <2>1, <3>4
    <3>5. QED BY <3>3, <3>4
  <2> HIDE DEF s, t
  <2>6. Pends(st[owner])'
    BY <1>1, <2>3 DEF Pends, t
  <2>7. QED BY <1>1, <1>store, <2>1, <2>4, <2>5, <2>6 DEF BegunOK
<1>7. QED BY <1>1, <1>5, <1>6, RunBegins

LEMMA RunKeeps == DurableInv /\ Run => DurableInv'
<1> SUFFICES ASSUME DurableInv, Run PROVE DurableInv'
  OBVIOUS
<1>1. /\ TypeOK' /\ Alone(owner) /\ Kinds(owner)
      /\ Fits(st'[owner].interrupt, pc'[owner], result'[owner])
      /\ UNCHANGED <<store, owner, losses>>
      /\ TypeOK /\ owner \in Workers
      /\ result'[owner] \notin {"new", "lost"} /\ result[owner] # "lost"
      /\ result[owner] = "new" => Starts(owner) /\ store = {}
      /\ st[owner].cost \in Nat /\ st[owner].iteration \in Nat
  BY RunKinds, RunFrom, WorkerTyped DEF DurableInv, StoreOK, OwnerOK
<1>2. begun' \in Seq(Nat) /\ BegunOK'
  BY RunKeepsCounts
<1>3. StoreOK'
  BY <1>1, <1>2 DEF DurableInv, StoreOK, Affordable, OverBudget
<1>4. Multiple(st'[owner].cost)
  <2>1. CASE result[owner] = "new"
    <3>1. st'[owner].cost = 0
      BY <1>1, <2>1 DEF Starts
    <3>2. 0 = 0 * Grain
      BY LoopAssumption
    <3>3. QED BY <3>1, <3>2 DEF Multiple
  <2>2. CASE result[owner] # "new"
    BY <1>1, <2>2, KindsGrow DEF DurableInv, OwnerOK
  <2>3. QED BY <2>1, <2>2
<1>5. OwnerOK'
  <2>1. Affordable(st'[owner], pc'[owner])
    BY <1>1, KindsAfford DEF DurableInv, OwnerOK
  <2>2. \A w \in Workers \ {owner} : pc'[w] = "idle"
    BY <1>1 DEF Alone, DurableInv, OwnerOK
  <2>3. QED BY <1>1, <1>4, <2>1, <2>2 DEF OwnerOK, Affordable, OverBudget
<1>6. Advances'
  <2>1. CASE result[owner] = "new"
    BY <1>1, <2>1 DEF Advances
  <2>2. CASE result[owner] # "new"
    <3>1. /\ st[owner].cost <= st'[owner].cost
          /\ st[owner].iteration <= st'[owner].iteration
      BY <1>1, <2>2, KindsGrow DEF DurableInv, OwnerOK
    <3>2. \A d \in store : /\ FromDict(d).iteration <= st[owner].iteration
                           /\ FromDict(d).cost <= st[owner].cost
                           /\ FromDict(d).iteration \in Nat /\ FromDict(d).cost \in Nat
      BY <1>1 DEF DurableInv, Advances, StoreOK, RunStates
    <3>3. st'[owner].cost \in Nat /\ st'[owner].iteration \in Nat
      BY <1>1 DEF TypeOK, RunStates
    <3>4. QED BY <1>1, <3>1, <3>2, <3>3 DEF Advances
  <2>3. QED BY <2>1, <2>2
<1>7. QED BY <1>1, <1>2, <1>3, <1>5, <1>6 DEF DurableInv

LEMMA SaveKeeps == DurableInv /\ Save => DurableInv'
<1> SUFFICES ASSUME DurableInv, Save PROVE DurableInv'
  OBVIOUS
<1> DEFINE s == st[owner]
<1>1. /\ UNCHANGED vars /\ UNCHANGED <<owner, losses, begun>>
      /\ store' = {ToDict(s)} /\ result[owner] \in Statuses
  BY DEF Save
<1>2. /\ s \in RunStates /\ FromDict(ToDict(s)) = s
      /\ s.iteration \in Nat /\ s.cost \in Nat
  BY WorkerTyped, RoundTrip DEF DurableInv, StoreOK
<1>3. TypeOK' /\ OwnerOK'
  BY <1>1 DEF vars, DurableInv, TypeOK, OwnerOK, Statuses, Affordable, OverBudget
<1>4. StoreOK'
  <2>1. Fits(s.interrupt, "idle", StatusOf(s))
    BY <1>2, StatusFits DEF DurableInv, OwnerOK
  <2>2. Affordable(s, "idle") /\ Multiple(s.cost)
    BY DEF DurableInv, OwnerOK, Affordable
  <2>3. QED BY <1>1, <1>2, <2>1, <2>2 DEF StoreOK, DurableInv, Affordable, OverBudget
<1>5. Advances'
  BY <1>1, <1>2 DEF vars, Advances
<1>6. BegunOK'
  BY <1>1, <1>2 DEF vars, DurableInv, BegunOK, Pends, Dated, TimesBegun, Statuses
<1>7. QED BY <1>3, <1>4, <1>5, <1>6 DEF DurableInv

LEMMA LoseKeeps == DurableInv /\ Lose => DurableInv'
<1> SUFFICES ASSUME DurableInv, Lose PROVE DurableInv'
  OBVIOUS
<1>1. /\ losses' = losses + 1 /\ losses \in Nat /\ owner \in Workers
      /\ UNCHANGED <<batch, asks, turns, resumes, cleared, invoked, store, owner, begun>>
      /\ pc' = [pc EXCEPT ![owner] = "idle"]
      /\ st' = [st EXCEPT ![owner] = FreshState]
      /\ result' = [result EXCEPT ![owner] = "lost"]
  BY DEF Lose, DurableInv, StoreOK
<1>2. FreshState \in RunStates /\ FreshState.interrupt = NoInterrupt /\ FreshState.cost = 0
  BY InterruptsTyped, EmptySeq DEF FreshState, RunStates
<1>3. TypeOK'
  BY <1>1, <1>2 DEF DurableInv, TypeOK, Results
<1>4. StoreOK'
  BY <1>1 DEF DurableInv, StoreOK, Affordable, OverBudget
<1>5. /\ pc'[owner] = "idle" /\ st'[owner] = FreshState /\ result'[owner] = "lost"
      /\ \A w \in Workers \ {owner} : pc'[w] = pc[w]
  BY <1>1 DEF DurableInv, TypeOK
<1>6. OwnerOK'
  <2>1. 0 = 0 * Grain
    BY LoopAssumption
  <2>2. Multiple(0)
    BY <2>1 DEF Multiple
  <2>3. Fits(NoInterrupt, "idle", "lost") /\ NoInterrupt.reason # "approval"
    BY InterruptsTyped DEF Fits
  <2>4. Affordable(FreshState, "idle")
    BY <1>2, <2>3 DEF Affordable
  <2>5. QED
    BY <1>1, <1>2, <1>5, <2>2, <2>3, <2>4 DEF DurableInv, OwnerOK, Affordable, OverBudget
<1>7. Advances'
  BY <1>1, <1>5 DEF Advances
<1>8. BegunOK'
  <2>1. begun \in Seq(Nat) /\ \A id : TimesBegun(id)' = TimesBegun(id)
    BY <1>1 DEF TimesBegun, DurableInv, StoreOK
  <2>2. \A id \in Nat : TimesBegun(id) \in Nat /\ TimesBegun(id) <= 1 + losses
    BY <2>1, TimesTyped DEF DurableInv, BegunOK
  <2>3. \A id \in Nat : TimesBegun(id)' <= losses' /\ TimesBegun(id)' <= 1 + losses'
    BY <1>1, <2>1, <2>2
  <2>4. ASSUME NEW d \in store PROVE Dated(FromDict(d))' /\ Pends(FromDict(d))'
    <3>1. FromDict(d) \in RunStates
      BY DEF DurableInv, StoreOK
    <3>2. FromDict(d).interrupt.pending \in Decisions \cup {Nothing}
      BY <3>1 DEF RunStates, Interrupts
    <3>3. FromDict(d).interrupt.pending.id \in Nat
      BY <3>2, DecisionTyped
    <3>4. FromDict(d).interrupt.reason = "approval" =>
            FromDict(d).interrupt.pending.id <= asks
      BY DEF DurableInv, BegunOK, Dated
    <3>5. QED BY <1>1, <2>3, <3>3, <3>4 DEF Pends, Dated
  <2>5. Pends(st[owner])'
    BY <1>1, <1>2, <1>5, InterruptsTyped DEF Pends
  <2>6. QED BY <1>1, <2>3, <2>4, <2>5 DEF BegunOK, DurableInv
<1>9. QED BY <1>3, <1>4, <1>6, <1>7, <1>8 DEF DurableInv

LEMMA LoadKeeps ==
  ASSUME DurableInv, NEW w \in Workers, Load(w)
  PROVE  DurableInv'
<1>1. PICK d \in store :
        /\ st' = [v \in Workers |-> IF v = w THEN FromDict(d) ELSE FreshState]
        /\ result' = [v \in Workers |-> IF v = w THEN StatusOf(FromDict(d)) ELSE "lost"]
  BY DEF Load
<1> DEFINE s == FromDict(d)
<1>2. /\ owner' = w /\ owner \in Workers
      /\ UNCHANGED <<pc, batch, asks, turns, resumes, cleared, invoked, store, losses, begun>>
      /\ pc[owner] = "idle"
      /\ ToDict(st[owner]) \in store \/ result[owner] = "lost"
  BY DEF Load, HandedOver, DurableInv, StoreOK
<1>3. /\ s \in RunStates /\ ToDict(s) = d
      /\ Fits(s.interrupt, "idle", StatusOf(s)) /\ Affordable(s, "idle")
      /\ Multiple(s.cost) /\ s.iteration \in Nat /\ s.cost \in Nat
  BY DEF DurableInv, StoreOK, RunStates
\* The owner still holds the snapshot, or has lost it.
<1>4. result[owner] = "lost" \/ st[owner] = s
  <2>1. ASSUME result[owner] # "lost" PROVE st[owner] = s
    <3>1. ToDict(st[owner]) = d
      BY <1>2, <2>1 DEF DurableInv, StoreOK
    <3>2. FromDict(ToDict(st[owner])) = st[owner]
      BY <1>2, WorkerTyped, RoundTrip DEF DurableInv
    <3>3. QED BY <3>1, <3>2
  <2>2. QED BY <2>1
<1>5. Pends(s)
  BY <1>4 DEF DurableInv, BegunOK
<1>6. \A e \in store : e = d
  BY DEF DurableInv, StoreOK
<1> HIDE DEF s
<1>7. /\ st'[w] = s /\ result'[w] = StatusOf(s) /\ StatusOf(s) \in Statuses
      /\ pc'[w] = "idle" /\ \A v \in Workers : pc'[v] = "idle"
  <2>1. StatusOf(s) \in Statuses
    BY <1>3, StatusFits
  <2>2. \A v \in Workers : pc[v] = "idle"
    BY <1>2 DEF DurableInv, OwnerOK
  <2>3. QED BY <1>1, <1>2, <2>1, <2>2 DEF s
<1>8. TypeOK'
  <2>1. FreshState \in RunStates
    BY InterruptsTyped, EmptySeq DEF FreshState, RunStates
  <2>2. StatusOf(s) \in Results
    BY <1>7 DEF Results
  <2>3. QED BY <1>1, <1>2, <1>3, <2>1, <2>2 DEF s, DurableInv, TypeOK, Results
<1>9. StoreOK'
  BY <1>2 DEF DurableInv, StoreOK, Affordable, OverBudget
<1>10. OwnerOK'
  BY <1>2, <1>3, <1>7 DEF OwnerOK, Statuses, Affordable, OverBudget
<1>11. Advances'
  BY <1>2, <1>3, <1>6, <1>7 DEF Advances, s
<1>12. BegunOK'
  <2>1. result'[owner'] # "lost"
    BY <1>2, <1>7 DEF Statuses
  <2>2. Pends(st[owner])' = Pends(s)
    BY <1>2, <1>7 DEF Pends, TimesBegun
  <2>3. \A e \in store : Dated(FromDict(e))' = Dated(FromDict(e))
    BY <1>2 DEF Dated
  <2>4. \A id : TimesBegun(id)' = TimesBegun(id)
    BY <1>2 DEF TimesBegun
  <2>5. QED BY <1>2, <1>5, <2>1, <2>2, <2>3, <2>4 DEF DurableInv, BegunOK
<1>13. QED BY <1>8, <1>9, <1>10, <1>11, <1>12 DEF DurableInv

LEMMA DurableInvNext == DurableInv /\ [DurableNext]_durableVars => DurableInv'
<1> SUFFICES ASSUME DurableInv, [DurableNext]_durableVars PROVE DurableInv'
  OBVIOUS
<1>1. CASE AtRest \/ UNCHANGED durableVars
  <2>1. UNCHANGED durableVars
    BY <1>1 DEF AtRest
  <2>2. /\ UNCHANGED <<pc, st, result, batch, asks, turns, resumes, cleared, invoked>>
        /\ UNCHANGED <<store, owner, losses, begun>>
    BY <2>1 DEF durableVars, vars
  <2>3. TypeOK' /\ StoreOK' /\ OwnerOK' /\ Advances'
    BY <2>2 DEF DurableInv, TypeOK, StoreOK, OwnerOK, Advances, Affordable, OverBudget
  <2>4. BegunOK'
    BY <2>2 DEF DurableInv, BegunOK, Pends, Dated, TimesBegun
  <2>5. QED BY <2>3, <2>4 DEF DurableInv
<1>2. QED BY <1>1, RunKeeps, SaveKeeps, LoseKeeps, LoadKeeps DEF DurableNext

LEMMA DurableInvariant == DurableSpec => []DurableInv
BY DurableInvInit, DurableInvNext, PTL DEF DurableSpec

-----------------------------------------------------------------------------
(* The theorems *)

\* The shape of the loop's state, with the states that come back from a snapshot.
THEOREM DurableTypeCorrect == DurableSpec => []TypeOK
<1>1. DurableInv => TypeOK
  BY DEF DurableInv
<1>2. QED BY <1>1, DurableInvariant, PTL

\* The batch of a decision begins once, and once more at most for every loss,
\* wherever the run is saved, loaded and approved.
THEOREM BeginsOncePerLoss == DurableSpec => []BegunOncePerLoss
<1>1. DurableInv => BegunOncePerLoss
  <2> SUFFICES ASSUME DurableInv, NEW k \in 1..Len(begun)
               PROVE  TimesBegun(begun[k]) <= 1 + losses
    BY DEF BegunOncePerLoss
  <2>1. begun[k] \in Nat
    BY ElementOfSeq DEF DurableInv, StoreOK
  <2>2. QED BY <2>1 DEF DurableInv, BegunOK
<1>2. QED BY <1>1, DurableInvariant, PTL

\* No tool runs for a run over its budget, though the cost comes back from a store.
THEOREM DurableToolsStayWithinBudget == DurableSpec => []ToolsWithinBudget
<1>1. DurableInv => ToolsWithinBudget
  <2> SUFFICES ASSUME DurableInv, NEW w \in Workers, pc[w] = "tools", MaxCost # 0
               PROVE  st[w].cost <= MaxCost
    BY DEF ToolsWithinBudget
  <2>1. w = owner
    BY DEF DurableInv, OwnerOK
  <2>2. ~OverBudget(st[w])
    BY <2>1 DEF DurableInv, OwnerOK, Affordable
  <2>3. st[w].cost \in Nat
    BY WorkerTyped DEF DurableInv
  <2>4. QED BY <2>2, <2>3, LoopAssumption DEF OverBudget
<1>2. QED BY <1>1, DurableInvariant, PTL

\* A saved run is never replaced by an earlier one: cost and iteration of what is
\* saved only grow.
THEOREM StoreAlwaysAdvances == DurableSpec => StoreAdvances
<1> DEFINE Later ==
      \A s \in store, t \in store' :
        s.iteration <= t.iteration /\ s.metadata.cost_usd <= t.metadata.cost_usd
<1>1. ASSUME DurableInv, NEW d \in store
      PROVE  /\ FromDict(d).iteration = d.iteration
             /\ FromDict(d).cost = d.metadata.cost_usd
             /\ d.iteration \in Nat /\ d.metadata.cost_usd \in Nat
  <2>1. FromDict(d).iteration = d.iteration /\ FromDict(d).cost = d.metadata.cost_usd
    BY DEF FromDict
  <2>2. FromDict(d) \in RunStates
    BY <1>1 DEF DurableInv, StoreOK
  <2>3. QED BY <2>1, <2>2 DEF RunStates
<1>2. DurableInv /\ [DurableNext]_durableVars => [Later]_durableVars
  <2> SUFFICES ASSUME DurableInv, [DurableNext]_durableVars PROVE Later
    BY DEF durableVars
  <2>1. CASE store' = store
    <3>1. \A s, t \in store : s = t
      BY DEF DurableInv, StoreOK
    <3>2. QED BY <1>1, <2>1, <3>1
  <2>2. CASE Save
    <3>1. /\ store' = {ToDict(st[owner])} /\ result[owner] # "lost"
          /\ ToDict(st[owner]).iteration = st[owner].iteration
          /\ ToDict(st[owner]).metadata.cost_usd = st[owner].cost
      BY <2>2, WorkerTyped, RoundTrip DEF Save, Statuses, DurableInv, StoreOK
    <3>2. \A d \in store : /\ FromDict(d).iteration <= st[owner].iteration
                           /\ FromDict(d).cost <= st[owner].cost
      BY <3>1 DEF DurableInv, Advances
    <3>3. QED BY <1>1, <3>1, <3>2
  <2>3. store' = store \/ Save
    BY DEF DurableNext, Run, Lose, Load, AtRest, durableVars
  <2>4. QED BY <2>1, <2>2, <2>3
<1>3. QED BY <1>2, DurableInvariant, PTL DEF DurableSpec, StoreAdvances

-----------------------------------------------------------------------------
(* The cost of every turn *)

\* TurnsAccounted for a cost and a number of turns.
Accounts(cost, n, c) ==
  /\ cost <= n * (c + Grain \div 2)
  /\ n * c <= cost + n * (Grain \div 2)

\* One more turn that costs c, rounded, is off by half a grain more at most.
LEMMA OneMoreTurn ==
  ASSUME NEW cost \in Nat, NEW n \in Nat, NEW c \in Nat, NEW total \in Nat,
         Accounts(cost, n, c),
         2 * total <= 2 * (cost + c) + Grain, 2 * (cost + c) <= 2 * total + Grain
  PROVE  Accounts(total, n + 1, c)
<1> DEFINE h == Grain \div 2
<1>1. h \in Nat /\ Grain \in Nat /\ Grain <= 2 * h + 1
  BY LoopAssumption
<1>2. total <= cost + c + h /\ cost + c <= total + h
  BY <1>1
<1> HIDE DEF h
<1>3. /\ (n + 1) * (c + h) = n * (c + h) + c + h
      /\ (n + 1) * c = n * c + c
      /\ (n + 1) * h = n * h + h
      /\ n * (c + h) \in Nat /\ n * c \in Nat /\ n * h \in Nat
  BY <1>1
<1>4. cost <= n * (c + h) /\ n * c <= cost + n * h
  BY DEF Accounts, h
<1>5. total <= (n + 1) * (c + h) /\ (n + 1) * c <= total + (n + 1) * h
  BY <1>1, <1>2, <1>3, <1>4
<1>6. QED BY <1>5 DEF Accounts, h

Accounted(c) ==
  losses = 0 /\ Costs = {c} => Accounts(st[owner].cost, asks, c)

LEMMA AccountedNext ==
  ASSUME NEW c \in Costs, DurableInv, Accounted(c), [DurableNext]_durableVars
  PROVE  Accounted(c)'
<1> SUFFICES ASSUME losses' = 0, Costs = {c}
             PROVE  Accounts(st'[owner'].cost, asks', c)
  BY DEF Accounted
<1>1. /\ losses \in Nat /\ owner \in Workers /\ TypeOK
      /\ st[owner].cost \in Nat /\ asks \in Nat /\ c \in Nat
  BY WorkerTyped, LoopAssumption DEF DurableInv, StoreOK
<1>2. ~Lose
  BY <1>1 DEF Lose
<1>3. losses = 0
  BY <1>2 DEF DurableNext, Run, Save, Lose, Load, AtRest, durableVars
<1>4. Accounts(st[owner].cost, asks, c) /\ result[owner] # "lost"
  BY <1>3 DEF Accounted, DurableInv, OwnerOK
<1>5. CASE Run
  <2>1. Kinds(owner) /\ owner' = owner /\ TypeOK'
    BY <1>5, RunKinds
  <2>2. CASE Starts(owner)
    <3>1. result[owner] = "new" /\ asks' = asks /\ st'[owner].cost = 0
      BY <2>2 DEF Starts
    <3>2. asks = 0
      BY <3>1 DEF DurableInv, OwnerOK
    <3>3. 0 <= 0 * (c + Grain \div 2) /\ 0 * c <= 0 + 0 * (Grain \div 2)
      BY <1>1, LoopAssumption
    <3>4. QED BY <2>1, <3>1, <3>2, <3>3 DEF Accounts
  <2>3. CASE asks' = asks /\ st'[owner].cost = st[owner].cost
    BY <1>4, <2>1, <2>3
  <2>4. CASE asks' = asks + 1 /\ st'[owner].cost \in Totals(owner)
    <3>1. st'[owner].cost \in Rounded(st[owner].cost + c)
      BY <2>4 DEF Totals
    <3>2. /\ 2 * st'[owner].cost <= 2 * (st[owner].cost + c) + Grain
          /\ 2 * (st[owner].cost + c) <= 2 * st'[owner].cost + Grain
      BY <3>1 DEF Rounded
    <3>3. st'[owner].cost \in Nat
      BY <1>1, <2>1 DEF TypeOK, RunStates
    <3>4. QED BY <1>1, <1>4, <2>1, <2>4, <3>2, <3>3, OneMoreTurn
  <2>5. QED
    BY <2>1, <2>2, <2>3, <2>4
       DEF Kinds, Goes, Begins, CallOver, Records, Raises, Turn
<1>6. ASSUME NEW w \in Workers, Load(w) PROVE Accounts(st'[owner'].cost, asks', c)
  <2>1. PICK d \in store :
          st' = [v \in Workers |-> IF v = w THEN FromDict(d) ELSE FreshState]
    BY <1>6 DEF Load
  <2>2. owner' = w /\ asks' = asks /\ ToDict(st[owner]) \in store
    BY <1>4, <1>6 DEF Load, HandedOver
  <2>3. FromDict(ToDict(st[owner])) = st[owner] /\ ToDict(st[owner]) = d
    BY <1>1, <2>2, WorkerTyped, RoundTrip DEF DurableInv, StoreOK
  <2>4. st'[owner'] = st[owner]
    BY <2>1, <2>2, <2>3
  <2>5. QED BY <1>4, <2>2, <2>4
<1>7. CASE Save \/ AtRest \/ UNCHANGED durableVars
  BY <1>4, <1>7 DEF Save, AtRest, durableVars, vars
<1>8. QED BY <1>2, <1>5, <1>6, <1>7 DEF DurableNext

\* Where nothing was lost and the turns cost the same, the cost on the state is that
\* of every turn taken for the run at any worker, give or take half a grain each.
THEOREM TurnsAreAccounted == DurableSpec => []TurnsAccounted
<1>1. ASSUME NEW c \in Costs PROVE DurableSpec => []Accounted(c)
  <2>1. DurableInit => Accounted(c)
    <3> SUFFICES ASSUME DurableInit PROVE Accounts(st[owner].cost, asks, c)
      BY DEF Accounted
    <3>1. owner \in Workers /\ asks = 0 /\ st[owner].cost = 0
      BY DEF DurableInit, Init, FreshState
    <3>2. 0 <= 0 * (c + Grain \div 2) /\ 0 * c <= 0 + 0 * (Grain \div 2)
      BY LoopAssumption
    <3>3. QED BY <3>1, <3>2 DEF Accounts
  <2>2. DurableInv /\ Accounted(c) /\ [DurableNext]_durableVars => Accounted(c)'
    BY AccountedNext
  <2>3. QED BY <2>1, <2>2, DurableInvariant, PTL DEF DurableSpec
<1>2. DurableSpec => \A c \in Costs : []Accounted(c)
  BY <1>1
<1>3. (\A c \in Costs : []Accounted(c)) <=> [](\A c \in Costs : Accounted(c))
  OBVIOUS
<1>4. (\A c \in Costs : Accounted(c)) => TurnsAccounted
  BY DEF Accounted, Accounts, TurnsAccounted
<1>5. QED BY <1>2, <1>3, <1>4, PTL
=============================================================================
