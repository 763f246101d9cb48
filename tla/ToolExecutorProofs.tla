------------------------- MODULE ToolExecutorProofs -------------------------
(***************************************************************************)
(* Proofs about ToolExecutor, for every set of calls, every policy, every  *)
(* cap and every size of the thread pool.                                  *)
(***************************************************************************)
EXTENDS ToolExecutor, FiniteSetTheorems, TLAPS

\* A job is an attempt that its call's policy admits.
LEMMA JobsDef ==
  ASSUME NEW c, NEW a
  PROVE  <<c, a>> \in Jobs <=> c \in Calls /\ a \in 1..MaxAttempts[c]
  BY DEF Jobs

\* Every job is a pair of a call and an attempt number.
LEMMA JobsAreJobs ==
  ASSUME NEW j \in Jobs
  PROVE  /\ j = <<j[1], j[2]>>
         /\ j[1] \in Calls /\ j[2] \in 1..MaxAttempts[j[1]]
  BY DEF Jobs

\* The ways execute() goes on after an attempt change pc, the permits and the
\* answer as a failure, a retry or an escape does, and nothing else of these.
LEMMA EndsOfAttempt ==
  ASSUME TypeOK, NEW c \in Calls, NEW o \in Outcomes, attempt[c] > 0,
         Settled(c, o) \/ Failed(c, o, {})
  PROVE  /\ \/ pc' = [pc EXCEPT ![c] = "backoff"] /\ permits' = permits
            \/ \E end \in {"answered", "raised"} : Leave(c, end)
         /\ pc' \in [Calls -> Stages]
         /\ \A d \in Calls : pc'[d] \in {"invoking", "backoff"} => attempt[d] > 0
         /\ permits' \in Nat
         /\ answer' \in [Calls -> Answers]
         /\ events' \subseteq Kinds \X Jobs
         /\ events \subseteq events'
  <1> DEFINE EventSet == Kinds \X Jobs
  <1>1. <<c, attempt[c]>> \in Jobs
    BY JobsDef, PolicyAssumption DEF TypeOK
  <1>2. ASSUME NEW kinds \in SUBSET Kinds, Tell(c, kinds)
        PROVE  events' \subseteq EventSet /\ events \subseteq events'
    BY <1>1, <1>2 DEF Tell, TypeOK, Current
  <1>3. events' \subseteq EventSet /\ events \subseteq events'
    <2>1. \A e : Complaint(e) \in Kinds
      BY DEF Complaint, Kinds
    <2>2. \E kinds \in SUBSET Kinds : Tell(c, kinds)
      BY <2>1 DEF Settled, Failed, Kinds
    <2> QED BY <2>2, <1>2
  <1>4. \/ /\ pc' = [pc EXCEPT ![c] = "backoff"]
           /\ UNCHANGED <<permits, answer>>
        \/ \E good \in BOOLEAN, n \in Nat : Answer(c, good, n)
        \/ Escape(c)
    <2>1. MaxAttempts[c] \in Nat /\ attempt[c] \in Nat /\ (o = "ok") \in BOOLEAN
      BY PolicyAssumption DEF TypeOK
    <2> QED BY <2>1 DEF Settled, Failed, RetryOrGiveUp
  <1>5. ASSUME NEW end \in Ends, Leave(c, end)
        PROVE  pc' \in [Calls -> Stages] /\ permits' \in Nat
    BY <1>5 DEF Leave, TypeOK, Stages
  <1>6. ASSUME NEW d \in Calls, pc'[d] \in {"invoking", "backoff"}
        PROVE  attempt[d] > 0
    BY <1>4, <1>6 DEF Answer, Escape, Leave, TypeOK
  <1>7. \/ pc' = [pc EXCEPT ![c] = "backoff"] /\ permits' = permits
        \/ \E end \in {"answered", "raised"} : Leave(c, end)
    BY <1>4 DEF Answer, Escape
  <1>8. answer' \in [Calls -> Answers]
    BY <1>4 DEF Answer, Escape, TypeOK, Answers
  <1> QED BY <1>3, <1>5, <1>6, <1>7, <1>8 DEF TypeOK, Stages, Ends, Inside

\* The state keeps its shape: permits never go negative, attempts never pass
\* max_attempts, and no handler runs that the policy does not admit.
LEMMA TypeInit == Init => TypeOK
  BY CapAssumption, PolicyAssumption DEF Init, TypeOK, Stages, Inside, Ends, Answers

LEMMA TypeStep == TypeOK /\ [Next]_vars => TypeOK'
  <1> SUFFICES ASSUME TypeOK, [Next]_vars PROVE TypeOK'
    OBVIOUS
  <1> USE CapAssumption, PolicyAssumption
  <1> DEFINE Shape(before) ==
        /\ pc' \in [Calls -> Stages]
        /\ \A d \in Calls : pc'[d] \in {"invoking", "backoff"} => before[d] > 0
        /\ permits' \in Nat
        /\ answer' \in [Calls -> Answers]
        /\ events' \subseteq Kinds \X Jobs
  <1>1. ASSUME NEW c \in Calls, Enter(c) PROVE TypeOK'
    BY <1>1 DEF Enter, PermitFree, TypeOK, workVars, Stages, Inside
  <1>2. ASSUME NEW c \in Calls, NoAttempt(c) PROVE TypeOK'
    BY <1>2 DEF NoAttempt, Answer, Leave, TypeOK, workVars, Stages, Ends, Answers
  <1>3. ASSUME NEW c \in Calls, BeginAttempt(c) PROVE TypeOK'
    <2>1. <<c, attempt[c] + 1>> \in Jobs
      BY <1>3, JobsDef DEF BeginAttempt, AttemptsLeft, TypeOK
    <2>2. pc' \in [Calls -> Stages] /\ permits' \in Nat /\ answer' \in [Calls -> Answers]
      BY <1>3 DEF BeginAttempt, Escape, Leave, TypeOK, Stages, Ends, Inside
    <2>3. /\ attempt' \in [Calls -> Nat]
          /\ \A d \in Calls : attempt'[d] <= MaxAttempts[d]
      BY <1>3 DEF BeginAttempt, AttemptsLeft, TypeOK
    <2>4. /\ queued' \subseteq Jobs /\ running' \subseteq Jobs /\ started' \subseteq Jobs
          /\ UNCHANGED <<outcome, finished>>
      BY <1>3, <2>1 DEF BeginAttempt, TypeOK
    <2>5. events' \subseteq Kinds \X Jobs
      BY <1>3, <2>1 DEF BeginAttempt, TypeOK, Kinds
    <2>6. \A d \in Calls : pc'[d] \in {"invoking", "backoff"} => attempt'[d] > 0
      BY <1>3 DEF BeginAttempt, Escape, Leave, TypeOK
    <2> QED BY <2>2, <2>3, <2>4, <2>5, <2>6 DEF TypeOK
  <1>4. ASSUME NEW c \in Calls, NEW o \in Outcomes, HandlerEnds(c, o) PROVE TypeOK'
    <2>1. attempt[c] > 0 /\ Settled(c, o) /\ UNCHANGED <<attempt, queued, outcome, started>>
      BY <1>4 DEF HandlerEnds, TypeOK
    <2>2. <<c, attempt[c]>> \in Jobs
      BY <2>1, JobsDef DEF TypeOK
    <2>3. /\ running' \subseteq Jobs
          /\ finished' \subseteq Jobs \X Outcomes
      BY <1>4, <2>2 DEF HandlerEnds, TypeOK, Current
    <2>4. Shape(attempt)
      BY <2>1, EndsOfAttempt
    <2> QED BY <2>1, <2>3, <2>4 DEF TypeOK
  <1>5. ASSUME NEW j \in Jobs, ThreadTakes(j) PROVE TypeOK'
    BY <1>5 DEF ThreadTakes, TypeOK
  <1>6. ASSUME NEW j \in Jobs, NEW o \in Outcomes, ThreadEnds(j, o) PROVE TypeOK'
    <2>1. outcome' \in [Calls -> Outcomes \cup {"none"}]
      BY <1>6, JobsAreJobs DEF ThreadEnds, TypeOK
    <2>2. running' \subseteq Jobs /\ finished' \subseteq Jobs \X Outcomes
      BY <1>6 DEF ThreadEnds, TypeOK
    <2> QED BY <1>6, <2>1, <2>2 DEF ThreadEnds, TypeOK
  <1>7. ASSUME NEW c \in Calls, Deliver(c) PROVE TypeOK'
    <2>1. /\ attempt[c] > 0 /\ outcome[c] \in Outcomes
          /\ Settled(c, outcome[c])
          /\ outcome' \in [Calls -> Outcomes \cup {"none"}]
          /\ UNCHANGED <<attempt, queued, running, started, finished>>
      BY <1>7 DEF Deliver, TypeOK
    <2>2. Shape(attempt)
      BY <2>1, EndsOfAttempt
    <2> QED BY <2>1, <2>2 DEF TypeOK
  <1>8. ASSUME NEW c \in Calls, TimesOut(c) PROVE TypeOK'
    <2>1. /\ attempt[c] > 0 /\ "timeout" \in Outcomes
          /\ Failed(c, "timeout", {})
          /\ outcome' \in [Calls -> Outcomes \cup {"none"}]
          /\ queued' \subseteq Jobs /\ running' \subseteq Jobs
          /\ UNCHANGED <<attempt, started, finished>>
      BY <1>8 DEF TimesOut, Withdraw, TypeOK, Outcomes, Errors
    <2>2. Shape(attempt)
      BY <2>1, EndsOfAttempt
    <2> QED BY <2>1, <2>2 DEF TypeOK
  <1>9. ASSUME NEW c \in Calls, Cancel(c) PROVE TypeOK'
    <2>1. pc' \in [Calls -> Stages] /\ permits' \in Nat
      BY <1>9 DEF Cancel, Leave, TypeOK, Stages, Ends
    <2>2. \A d \in Calls : pc'[d] \in {"invoking", "backoff"} => attempt[d] > 0
      BY <1>9 DEF Cancel, Leave, TypeOK
    <2>3. queued' \subseteq Jobs /\ running' \subseteq Jobs
      BY <1>9 DEF Cancel, Withdraw, TypeOK
    <2>4. /\ outcome' \in [Calls -> Outcomes \cup {"none"}]
          /\ UNCHANGED <<attempt, answer, events, started, finished>>
      BY <1>9 DEF Cancel, TypeOK
    <2> QED BY <2>1, <2>2, <2>3, <2>4 DEF TypeOK
  <1>10. CASE Rest \/ UNCHANGED vars
    BY <1>10 DEF Rest, vars, TypeOK
  <1> QED BY <1>1, <1>2, <1>3, <1>4, <1>5, <1>6, <1>7, <1>8, <1>9, <1>10 DEF Next

\* Permits, attempts, jobs and events keep their shape in every behaviour.
THEOREM TypeCorrect == Spec => []TypeOK
  <1>1. Init => TypeOK BY TypeInit
  <1>2. TypeOK /\ [Next]_vars => TypeOK' BY TypeStep
  <1> QED BY <1>1, <1>2, PTL DEF Spec

-----------------------------------------------------------------------------
\* What the jobs in flight and the outcomes left for the loop have in common
\* with the calls' stages: the part of the state that the three invariants
\* below need to be preserved together.
JobInv ==
  /\ NothingLeftQueued
  /\ OrphansAnnounced
  /\ SuccessIsOfItsAttempt
  /\ \A j \in queued : j[1] \in Sync /\ j \notin running
  /\ \A j \in running : j[2] <= attempt[j[1]]
  /\ \A c \in Calls : outcome[c] # "none" =>
       /\ pc[c] = "invoking" /\ c \in Sync
       /\ Current(c) \notin queued \cup running
       /\ <<Current(c), outcome[c]>> \in finished

\* An attempt's end concerns its own call only, and makes it succeed only if its
\* handler returned a success.
LEMMA EndsOnlyItsCall ==
  ASSUME TypeOK, NEW c \in Calls, NEW o \in Outcomes,
         Settled(c, o) \/ Failed(c, o, {})
  PROVE  /\ \A d \in Calls \ {c} : pc'[d] = pc[d] /\ answer'[d] = answer[d]
         /\ pc'[c] \in {"backoff", "answered", "raised"}
         /\ pc'[c] = "answered" /\ answer'[c].ok =>
              o = "ok" /\ answer'[c].attempts = attempt[c]
  <1>1. \/ /\ pc' = [pc EXCEPT ![c] = "backoff"]
           /\ UNCHANGED answer
        \/ /\ pc' = [pc EXCEPT ![c] = "raised"]
           /\ UNCHANGED answer
        \/ /\ pc' = [pc EXCEPT ![c] = "answered"]
           /\ \/ answer' = [answer EXCEPT ![c] = [ok |-> FALSE, attempts |-> MaxAttempts[c]]]
              \/ answer' = [answer EXCEPT ![c] = [ok |-> (o = "ok"), attempts |-> attempt[c]]]
    BY DEF Settled, Failed, RetryOrGiveUp, Escape, Answer, Leave
  <1>2. pc \in [Calls -> Stages] /\ answer \in [Calls -> Answers]
    BY DEF TypeOK
  <1>3. CASE pc' # [pc EXCEPT ![c] = "answered"]
    BY <1>1, <1>2, <1>3
  <1>4. CASE pc' = [pc EXCEPT ![c] = "answered"]
    <2>1. ASSUME NEW good \in BOOLEAN, NEW n, good => o = "ok" /\ n = attempt[c],
                 answer' = [answer EXCEPT ![c] = [ok |-> good, attempts |-> n]]
          PROVE  /\ \A d \in Calls \ {c} : answer'[d] = answer[d]
                 /\ answer'[c].ok => o = "ok" /\ answer'[c].attempts = attempt[c]
      BY <1>2, <2>1
    <2>2. /\ \A d \in Calls \ {c} : pc'[d] = pc[d]
          /\ pc'[c] = "answered"
      BY <1>2, <1>4
    <2>3. \E good \in BOOLEAN, n \in {MaxAttempts[c], attempt[c]} :
            /\ good => o = "ok" /\ n = attempt[c]
            /\ answer' = [answer EXCEPT ![c] = [ok |-> good, attempts |-> n]]
      <3>1. (o = "ok") \in BOOLEAN
        OBVIOUS
      <3>2. pc'[c] # "backoff" /\ pc'[c] # "raised"
        BY <2>2
      <3> QED BY <1>1, <1>2, <3>1, <3>2
    <2> QED BY <2>1, <2>2, <2>3
  <1> QED BY <1>3, <1>4

LEMMA JobInit == Init => JobInv
  BY PolicyAssumption
  DEF Init, JobInv, NothingLeftQueued, OrphansAnnounced, SuccessIsOfItsAttempt, Ends

LEMMA JobStep == TypeOK /\ JobInv /\ [Next]_vars => JobInv'
  <1> SUFFICES ASSUME TypeOK, JobInv, [Next]_vars PROVE JobInv'
    OBVIOUS
  <1> USE DEF NothingLeftQueued, OrphansAnnounced, SuccessIsOfItsAttempt, Awaited, Current
  <1>0. \A j \in Jobs : j = <<j[1], j[2]>> /\ j[1] \in Calls /\ j[2] \in Nat
    BY JobsAreJobs, PolicyAssumption
  <1>1. ASSUME NEW c \in Calls, Enter(c) PROVE JobInv'
    BY <1>0, <1>1 DEF Enter, JobInv, TypeOK, workVars
  <1>2. ASSUME NEW c \in Calls, NoAttempt(c) PROVE JobInv'
    BY <1>0, <1>2 DEF NoAttempt, Answer, Leave, JobInv, TypeOK, workVars
  <1>3. ASSUME NEW c \in Calls, BeginAttempt(c) PROVE JobInv'
    <2> DEFINE new == <<c, attempt[c] + 1>>
    <2>1. /\ pc[c] \in {"entered", "backoff"}
          /\ attempt' = [attempt EXCEPT ![c] = @ + 1]
          /\ events \subseteq events'
          /\ UNCHANGED <<outcome, finished>>
      BY <1>3 DEF BeginAttempt, TypeOK
    <2>2. /\ \A d \in Calls \ {c} : pc'[d] = pc[d]
          /\ pc'[c] \in {"invoking", "raised"}
          /\ answer' = answer
      BY <1>3 DEF BeginAttempt, Escape, Leave, TypeOK
    <2>3. /\ queued' \subseteq queued \cup {new} /\ running' \subseteq running \cup {new}
          /\ new \in queued' => new \notin running'
          /\ new \in queued' => pc'[c] = "invoking" /\ c \in Sync
          /\ new \in running' => pc'[c] = "invoking"
      <3>1. new \notin queued \cup running
        BY <1>0, <2>1 DEF JobInv, TypeOK
      <3> QED BY <1>3, <3>1 DEF BeginAttempt, Escape, Leave, TypeOK
    <2>4. new \in queued' \cup running' => pc'[c] = "invoking" /\ attempt'[c] = new[2]
      BY <2>1, <2>3 DEF TypeOK
    <2>5. \A j \in queued \cup running : j[1] \in Calls /\ j[2] <= attempt'[j[1]]
                                        /\ (Awaited(j) => Awaited(j)')
      BY <1>0, <2>1, <2>2 DEF JobInv, TypeOK
    <2>6. OrphansAnnounced' /\ NothingLeftQueued'
      BY <1>0, <2>1, <2>2, <2>3, <2>4, <2>5 DEF JobInv, TypeOK
    <2>7. SuccessIsOfItsAttempt'
      BY <2>1, <2>2 DEF JobInv, TypeOK
    <2>8. \A j \in running' : j[2] <= attempt'[j[1]]
      BY <2>1, <2>3, <2>5 DEF TypeOK
    <2>9. \A j \in queued' : j[1] \in Sync /\ j \notin running'
      BY <2>3 DEF JobInv
    <2>10. \A d \in Calls : outcome[d] # "none" => d # c
      BY <2>1 DEF JobInv
    <2> QED BY <1>0, <2>1, <2>2, <2>3, <2>6, <2>7, <2>8, <2>9, <2>10 DEF JobInv, TypeOK
  <1>4. ASSUME NEW c \in Calls, NEW o \in Outcomes, HandlerEnds(c, o) PROVE JobInv'
    BY <1>0, <1>4, EndsOfAttempt, EndsOnlyItsCall DEF HandlerEnds, JobInv, TypeOK
  <1>5. ASSUME NEW j \in Jobs, ThreadTakes(j) PROVE JobInv'
    BY <1>0, <1>5 DEF ThreadTakes, JobInv, TypeOK
  <1>6. ASSUME NEW j \in Jobs, NEW o \in Outcomes, ThreadEnds(j, o) PROVE JobInv'
    BY <1>0, <1>6 DEF ThreadEnds, JobInv, TypeOK
  <1>7. ASSUME NEW c \in Calls, Deliver(c) PROVE JobInv'
    <2>1. /\ pc[c] = "invoking" /\ attempt[c] > 0 /\ outcome[c] \in Outcomes
          /\ Settled(c, outcome[c])
          /\ outcome' = [outcome EXCEPT ![c] = "none"]
          /\ UNCHANGED <<attempt, queued, running, started, finished>>
      BY <1>7 DEF Deliver, TypeOK
    <2>2. /\ Current(c) \notin queued \cup running
          /\ <<Current(c), outcome[c]>> \in finished
      BY <1>7 DEF Deliver, JobInv
    <2>3. /\ \A d \in Calls \ {c} : pc'[d] = pc[d] /\ answer'[d] = answer[d]
          /\ pc'[c] \in {"backoff", "answered", "raised"}
          /\ pc'[c] = "answered" /\ answer'[c].ok =>
               outcome[c] = "ok" /\ answer'[c].attempts = attempt[c]
          /\ events \subseteq events'
      BY <2>1, EndsOfAttempt, EndsOnlyItsCall
    <2>4. \A j \in Jobs : j[1] = c /\ Awaited(j) => j \notin queued \cup running
      BY <1>0, <2>2
    <2> QED BY <1>0, <2>1, <2>2, <2>3, <2>4 DEF JobInv, TypeOK
  <1>8. ASSUME NEW c \in Calls, TimesOut(c) PROVE JobInv'
    <2>1. /\ pc[c] = "invoking" /\ attempt[c] > 0 /\ "timeout" \in Outcomes
          /\ Failed(c, "timeout", {}) /\ Withdraw(c)
          /\ outcome' = [outcome EXCEPT ![c] = "none"]
          /\ UNCHANGED <<attempt, started, finished>>
      BY <1>8 DEF TimesOut, TypeOK, Outcomes, Errors
    <2>2. /\ \A d \in Calls \ {c} : pc'[d] = pc[d] /\ answer'[d] = answer[d]
          /\ pc'[c] \in {"backoff", "answered", "raised"}
          /\ ~(pc'[c] = "answered" /\ answer'[c].ok)
          /\ events \subseteq events'
      BY <2>1, EndsOfAttempt, EndsOnlyItsCall
    <2>3. <<"tool_timeout", Current(c)>> \in events'
      BY <2>1 DEF Failed, Tell, Complaint
    <2>4. queued' \subseteq queued /\ running' \subseteq running
      BY <2>1 DEF Withdraw
    <2>5. \A j \in queued' : j[1] # c
      BY <1>0, <2>1 DEF Withdraw, JobInv, TypeOK
    <2>6. ASSUME NEW j \in running', j[1] = c, c \notin Sync PROVE FALSE
      <3>1. j \in running /\ j # <<c, attempt[c]>>
        BY <2>1, <2>6 DEF Withdraw
      <3>2. j \in Jobs /\ Awaited(j)
        BY <2>6, <3>1 DEF JobInv, TypeOK
      <3> QED BY <1>0, <2>6, <3>1, <3>2
    <2>7. OrphansAnnounced'
      BY <1>0, <2>1, <2>2, <2>3, <2>4, <2>6 DEF JobInv, TypeOK
    <2>8. NothingLeftQueued'
      BY <1>0, <2>1, <2>2, <2>4, <2>5 DEF JobInv, TypeOK
    <2>9. SuccessIsOfItsAttempt'
      BY <2>1, <2>2 DEF JobInv, TypeOK
    <2> QED BY <1>0, <2>1, <2>2, <2>4, <2>7, <2>8, <2>9 DEF JobInv, TypeOK
  <1>9. ASSUME NEW c \in Calls, Cancel(c) PROVE JobInv'
    BY <1>0, <1>9 DEF Cancel, Withdraw, Leave, JobInv, TypeOK
  <1>10. CASE Rest \/ UNCHANGED vars
    BY <1>10 DEF Rest, vars, JobInv
  <1> QED BY <1>1, <1>2, <1>3, <1>4, <1>5, <1>6, <1>7, <1>8, <1>9, <1>10 DEF Next

LEMMA JobsInvariant == Spec => [](TypeOK /\ JobInv)
  <1>1. Init => TypeOK /\ JobInv
    BY TypeInit, JobInit
  <1>2. TypeOK /\ JobInv /\ [Next]_vars => TypeOK' /\ JobInv'
    BY TypeStep, JobStep
  <1> QED BY <1>1, <1>2, PTL DEF Spec

\* A thread never begins a job whose attempt is no longer awaited.
THEOREM NoLateStart == Spec => []NothingLeftQueued
  <1>1. JobInv => NothingLeftQueued BY DEF JobInv
  <1> QED BY <1>1, JobsInvariant, PTL

\* A handler that outlives its attempt was announced by a tool_timeout event.
THEOREM OrphansAreAnnounced == Spec => []OrphansAnnounced
  <1>1. JobInv => OrphansAnnounced BY DEF JobInv
  <1> QED BY <1>1, JobsInvariant, PTL

\* A late result of an abandoned attempt never becomes the call's answer.
THEOREM SuccessIsGenuine == Spec => []SuccessIsOfItsAttempt
  <1>1. JobInv => SuccessIsOfItsAttempt BY DEF JobInv
  <1> QED BY <1>1, JobsInvariant, PTL

-----------------------------------------------------------------------------
\* A call that goes from one stage to another adds to the permits' holders,
\* leaves them, or changes nothing about them.
LEMMA HoldersStep ==
  ASSUME TypeOK, NEW c \in Calls, NEW stage \in Stages,
         pc' = [pc EXCEPT ![c] = stage]
  PROVE  /\ IsFiniteSet(Holders)
         /\ Cardinality(Holders) \in Nat /\ Cardinality(Holders') \in Nat
         /\ pc[c] \in Inside /\ stage \in Inside => Cardinality(Holders') = Cardinality(Holders)
         /\ pc[c] \notin Inside /\ stage \notin Inside => Cardinality(Holders') = Cardinality(Holders)
         /\ pc[c] \notin Inside /\ stage \in Inside => Cardinality(Holders') = Cardinality(Holders) + 1
         /\ pc[c] \in Inside /\ stage \notin Inside => Cardinality(Holders) = Cardinality(Holders') + 1
  <1>1. IsFiniteSet(Holders) /\ IsFiniteSet(Holders')
    BY CallsAssumption, FS_Subset DEF Holders
  <1>2. Cardinality(Holders) \in Nat /\ Cardinality(Holders') \in Nat
    BY <1>1, FS_CardinalityType
  <1>3. CASE (pc[c] \in Inside) = (stage \in Inside)
    <2>1. Holders' = Holders
      BY <1>3 DEF Holders, TypeOK
    <2> QED BY <1>1, <1>2, <1>3, <2>1
  <1>4. CASE pc[c] \notin Inside /\ stage \in Inside
    <2>1. Holders' = Holders \cup {c} /\ c \notin Holders
      BY <1>4 DEF Holders, TypeOK
    <2> QED BY <1>1, <1>2, <1>4, <2>1, FS_AddElement
  <1>5. CASE pc[c] \in Inside /\ stage \notin Inside
    <2>1. Holders = Holders' \cup {c} /\ c \notin Holders'
      BY <1>5 DEF Holders, TypeOK
    <2> QED BY <1>1, <1>2, <1>5, <2>1, FS_AddElement
  <1> QED BY <1>3, <1>4, <1>5

\* Leaving the semaphore's block gives the permit back.
LEMMA LeaveConserves ==
  ASSUME TypeOK, PermitsConserved, NEW c \in Calls, pc[c] \in Inside,
         NEW end \in Ends, Leave(c, end)
  PROVE  PermitsConserved'
  <1>1. end \in Stages /\ end \notin Inside
    BY DEF Stages, Ends, Inside
  <1>2. Cardinality(Holders) = Cardinality(Holders') + 1 /\ Cardinality(Holders') \in Nat
    BY <1>1, HoldersStep DEF Leave
  <1> QED BY <1>2 DEF Leave, PermitsConserved, TypeOK

LEMMA PermitsInit == Init => PermitsConserved
  <1> SUFFICES ASSUME Init PROVE PermitsConserved
    OBVIOUS
  <1>1. Holders = {}
    BY DEF Init, Holders, Inside
  <1> QED BY <1>1, FS_EmptySet, CapAssumption DEF Init, PermitsConserved

LEMMA PermitsStep == TypeOK /\ PermitsConserved /\ [Next]_vars => PermitsConserved'
  <1> SUFFICES ASSUME TypeOK, PermitsConserved, [Next]_vars PROVE PermitsConserved'
    OBVIOUS
  <1>1. ASSUME NEW c \in Calls, Enter(c) PROVE PermitsConserved'
    <2>1. /\ pc[c] \notin Inside /\ "entered" \in Inside \cap Stages
          /\ pc' = [pc EXCEPT ![c] = "entered"]
      BY <1>1 DEF Enter, Inside, Stages
    <2>2. Cardinality(Holders') = Cardinality(Holders) + 1 /\ Cardinality(Holders) \in Nat
      BY <2>1, HoldersStep
    <2> QED BY <1>1, <2>2 DEF Enter, PermitsConserved, TypeOK
  <1>2. ASSUME NEW c \in Calls, NoAttempt(c) PROVE PermitsConserved'
    BY <1>2, LeaveConserves DEF NoAttempt, Answer, Inside, Ends
  <1>3. ASSUME NEW c \in Calls, BeginAttempt(c) PROVE PermitsConserved'
    <2>1. pc[c] \in Inside
      BY <1>3 DEF BeginAttempt, Inside
    <2>2. CASE Escape(c)
      BY <2>1, <2>2, LeaveConserves DEF Escape, Ends
    <2>3. CASE pc' = [pc EXCEPT ![c] = "invoking"] /\ UNCHANGED permits
      <3>1. "invoking" \in Inside \cap Stages
        BY DEF Inside, Stages
      <3>2. Cardinality(Holders') = Cardinality(Holders)
        BY <2>1, <2>3, <3>1, HoldersStep
      <3> QED BY <2>3, <3>2 DEF PermitsConserved
    <2> QED BY <1>3, <2>2, <2>3 DEF BeginAttempt
  <1>4. ASSUME NEW c \in Calls, NEW o \in Outcomes, pc[c] = "invoking",
               Settled(c, o) \/ Failed(c, o, {})
        PROVE  PermitsConserved'
    <2>1. pc[c] \in Inside /\ "backoff" \in Inside \cap Stages
      BY <1>4 DEF Inside, Stages
    <2>2. \/ pc' = [pc EXCEPT ![c] = "backoff"] /\ permits' = permits
          \/ \E end \in {"answered", "raised"} : Leave(c, end)
      BY <1>4, EndsOfAttempt DEF TypeOK
    <2>3. CASE pc' = [pc EXCEPT ![c] = "backoff"] /\ permits' = permits
      <3>1. Cardinality(Holders') = Cardinality(Holders)
        BY <2>1, <2>3, HoldersStep
      <3> QED BY <2>3, <3>1 DEF PermitsConserved
    <2> QED BY <2>1, <2>2, <2>3, LeaveConserves DEF Ends
  <1>5. ASSUME NEW c \in Calls, Deliver(c) \/ TimesOut(c) \/ \E o \in Outcomes : HandlerEnds(c, o)
        PROVE  PermitsConserved'
    <2>1. pc[c] = "invoking" /\ \E o \in Outcomes : Settled(c, o) \/ Failed(c, o, {})
      BY <1>5 DEF Deliver, TimesOut, HandlerEnds, TypeOK, Outcomes, Errors
    <2> QED BY <2>1, <1>4
  <1>6. ASSUME NEW c \in Calls, Cancel(c) PROVE PermitsConserved'
    <2>1. CASE pc[c] \in Inside
      <3>1. Leave(c, "cancelled")
        BY <1>6, <2>1 DEF Cancel, Inside
      <3> QED BY <2>1, <3>1, LeaveConserves DEF Ends
    <2>2. CASE pc[c] \notin Inside
      <3>1. /\ pc' = [pc EXCEPT ![c] = "cancelled"] /\ UNCHANGED permits
            /\ "cancelled" \in Stages /\ "cancelled" \notin Inside
        BY <1>6, <2>2 DEF Cancel, Stages, Ends, Inside
      <3>2. Cardinality(Holders') = Cardinality(Holders)
        BY <2>2, <3>1, HoldersStep
      <3> QED BY <3>1, <3>2 DEF PermitsConserved
    <2> QED BY <2>1, <2>2
  <1>7. CASE \/ Rest \/ UNCHANGED vars
             \/ \E j \in Jobs : ThreadTakes(j) \/ \E o \in Outcomes : ThreadEnds(j, o)
    <2>1. pc' = pc /\ permits' = permits
      BY <1>7 DEF Rest, vars, ThreadTakes, ThreadEnds
    <2> QED BY <2>1 DEF PermitsConserved, Holders
  <1> QED BY <1>1, <1>2, <1>3, <1>5, <1>6, <1>7 DEF Next

\* Whatever way calls leave execute(), no permit is lost and none is made up.
THEOREM PermitsAreConserved == Spec => []PermitsConserved
  <1>1. Init => TypeOK /\ PermitsConserved
    BY TypeInit, PermitsInit
  <1>2. TypeOK /\ PermitsConserved /\ [Next]_vars => TypeOK' /\ PermitsConserved'
    BY TypeStep, PermitsStep
  <1> QED BY <1>1, <1>2, PTL DEF Spec

\* max_concurrency bounds the awaited handlers: each belongs to a call that
\* holds a permit, and no call awaits two.
THEOREM AwaitedIsCapped == Spec => []AwaitedCapped
  <1>1. TypeOK /\ PermitsConserved => AwaitedCapped
    <2> SUFFICES ASSUME TypeOK, PermitsConserved, MaxConcurrency > 0
                 PROVE  Cardinality({j \in running : Awaited(j)}) <= MaxConcurrency
      BY DEF AwaitedCapped
    <2> DEFINE awaited == {j \in running : Awaited(j)}
               current == {Current(c) : c \in Holders}
    <2>1. IsFiniteSet(Holders)
      BY CallsAssumption, FS_Subset DEF Holders
    <2>2. IsFiniteSet(current) /\ Cardinality(current) <= Cardinality(Holders)
      <3> DEFINE job == [c \in Holders |-> Current(c)]
      <3>1. job \in Surjection(Holders, current)
        BY DEF Surjection
      <3> QED BY <2>1, <3>1, FS_Surjection
    <2>3. awaited \subseteq current
      <3> SUFFICES ASSUME NEW j \in awaited PROVE j \in current
        OBVIOUS
      <3>1. j \in Jobs /\ Awaited(j)
        BY DEF TypeOK
      <3>2. j = Current(j[1]) /\ j[1] \in Holders
        BY <3>1, JobsAreJobs DEF Awaited, Current, Holders, Inside
      <3> QED BY <3>2
    <2>4. Cardinality(awaited) <= Cardinality(current) /\ IsFiniteSet(awaited)
      BY <2>2, <2>3, FS_Subset
    <2>5. /\ Cardinality(awaited) \in Nat /\ Cardinality(current) \in Nat
          /\ Cardinality(Holders) \in Nat
      BY <2>1, <2>2, <2>4, FS_CardinalityType
    <2> QED BY <2>2, <2>4, <2>5, CapAssumption DEF PermitsConserved, TypeOK
  <1> QED BY <1>1, TypeCorrect, PermitsAreConserved, PTL
-----------------------------------------------------------------------------
\* Attempt j ended with e: wait_for expired, its handler raised e, or the sink did.
EndedWith(j, e) == e = "timeout" \/ <<j, e>> \in finished \/ <<"tool_completed", j>> \in events

\* Attempt a of call c failed, and was reported, in a class that the tool's policy
\* retries.
Reported(c, a) ==
  \E e \in RetryableOn[c] :
    <<Complaint(e), <<c, a>>>> \in events /\ EndedWith(<<c, a>>, e)

\* Every attempt but the last one was, and the last one too once the call sleeps
\* before the next; a call that was not tried yet has no attempt.
RetryInv ==
  \A c \in Calls :
    /\ pc[c] \in {"waiting", "entered"} => attempt[c] = 0
    /\ \A a \in 1..attempt[c] : a < attempt[c] \/ pc[c] = "backoff" => Reported(c, a)

\* A call goes into its backoff only with the event that reports the failure.
LEMMA BackoffIsReported ==
  ASSUME TypeOK, NEW c \in Calls, NEW o \in Outcomes,
         pc'[c] = "backoff", UNCHANGED attempt,
         \/ Settled(c, o) /\ <<Current(c), o>> \in finished'
         \/ Failed(c, o, {}) /\ o = "timeout"
  PROVE  Reported(c, attempt[c])'
  <1>1. PICK e \in Errors, told \in {{}, {"tool_completed"}} :
          /\ Failed(c, e, told) /\ RetryOrGiveUp(c, e)
          /\ e = o \/ told = {"tool_completed"}
    <2>1. pc' # [pc EXCEPT ![c] = "answered"] /\ pc' # [pc EXCEPT ![c] = "raised"]
      BY DEF TypeOK
    <2>2. ~Escape(c) /\ \A good, n : ~Answer(c, good, n)
      BY <2>1 DEF Escape, Answer, Leave
    <2>3. CASE o \in Errors /\ Failed(c, o, {})
      BY <2>2, <2>3 DEF Failed
    <2>4. CASE \E e \in Errors : Failed(c, e, {"tool_completed"})
      BY <2>2, <2>4 DEF Failed
    <2> QED BY <2>2, <2>3, <2>4 DEF Settled, Errors
  <1>2. e \in RetryableOn[c]
    <2>1. pc' # [pc EXCEPT ![c] = "answered"]
      BY DEF TypeOK
    <2> QED BY <1>1, <2>1 DEF RetryOrGiveUp, Retried, Answer, Leave
  <1>3. events' = events \cup ((told \cup {Complaint(e)}) \X {<<c, attempt[c]>>})
    BY <1>1 DEF Failed, Tell, Current
  <1>4. EndedWith(<<c, attempt[c]>>, e)'
    BY <1>1, <1>3 DEF EndedWith, Current
  <1> QED BY <1>2, <1>3, <1>4 DEF Reported

\* What was reported stays on record.
LEMMA ReportedStays ==
  ASSUME NEW c, NEW a, Reported(c, a), events \subseteq events', finished \subseteq finished'
  PROVE  Reported(c, a)'
  BY DEF Reported, EndedWith

LEMMA RetryInit == Init => RetryInv
  BY DEF Init, RetryInv

LEMMA RetryStep == TypeOK /\ JobInv /\ RetryInv /\ [Next]_vars => RetryInv'
  <1> SUFFICES ASSUME TypeOK, JobInv, RetryInv, [Next]_vars PROVE RetryInv'
    OBVIOUS
  <1> DEFINE Of(c) == /\ pc[c] \in {"waiting", "entered"} => attempt[c] = 0
                      /\ \A a \in 1..attempt[c] :
                           a < attempt[c] \/ pc[c] = "backoff" => Reported(c, a)
  <1>0. (\A c \in Calls : Of(c)) /\ ((\A c \in Calls : Of(c)') => RetryInv')
    BY DEF RetryInv
  \* Calls whose stage and attempt stay as they are.
  <1>others. ASSUME NEW d \in Calls, pc'[d] = pc[d], attempt'[d] = attempt[d],
                    events \subseteq events', finished \subseteq finished'
             PROVE  Of(d)'
    BY <1>0, <1>others, ReportedStays
  \* Calls that are over, or on their way to the next attempt.
  <1>moved. ASSUME NEW d \in Calls, attempt'[d] = attempt[d], pc'[d] \in Ends,
                   events \subseteq events', finished \subseteq finished'
            PROVE  Of(d)'
    BY <1>0, <1>moved, ReportedStays DEF Ends
  <1> HIDE DEF Of
  <1>1. ASSUME NEW c \in Calls, Enter(c) PROVE RetryInv'
    <2>1. /\ pc[c] = "waiting" /\ pc' = [pc EXCEPT ![c] = "entered"]
          /\ UNCHANGED <<attempt, events, finished>>
      BY <1>1 DEF Enter, workVars
    <2>2. Of(c)'
      BY <1>0, <2>1 DEF Of, TypeOK
    <2> QED BY <1>0, <1>others, <2>1, <2>2 DEF TypeOK
  <1>2. ASSUME NEW c \in Calls, NoAttempt(c) \/ Cancel(c) PROVE RetryInv'
    <2>1. /\ UNCHANGED <<attempt, events, finished>>
          /\ \E end \in Ends : pc' = [pc EXCEPT ![c] = end]
      BY <1>2 DEF NoAttempt, Cancel, Answer, Leave, Ends, workVars
    <2>2. pc'[c] \in Ends /\ \A d \in Calls \ {c} : pc'[d] = pc[d]
      BY <2>1 DEF TypeOK
    <2> QED BY <1>0, <1>others, <1>moved, <2>1, <2>2
  <1>3. ASSUME NEW c \in Calls, BeginAttempt(c) PROVE RetryInv'
    <2>1. /\ pc[c] \in {"entered", "backoff"}
          /\ attempt'[c] = attempt[c] + 1 /\ attempt[c] \in Nat
          /\ pc'[c] \in {"invoking", "raised"}
          /\ events \subseteq events' /\ finished' = finished
          /\ \A d \in Calls \ {c} : pc'[d] = pc[d] /\ attempt'[d] = attempt[d]
      BY <1>3 DEF BeginAttempt, Escape, Leave, TypeOK
    <2>2. \A a \in 1..attempt[c] : Reported(c, a)
      BY <1>0, <2>1 DEF Of
    <2>3. Of(c)'
      BY <2>1, <2>2, ReportedStays DEF Of
    <2> QED BY <1>0, <1>others, <2>1, <2>3
  <1>4. ASSUME NEW c \in Calls, Deliver(c) \/ TimesOut(c) \/ \E o \in Outcomes : HandlerEnds(c, o)
        PROVE  RetryInv'
    <2>1. PICK o \in Outcomes :
            /\ pc[c] = "invoking" /\ attempt[c] > 0 /\ attempt' = attempt
            /\ finished \subseteq finished'
            /\ \/ Settled(c, o) /\ <<Current(c), o>> \in finished'
               \/ Failed(c, o, {}) /\ o = "timeout"
      <3>1. ASSUME Deliver(c) PROVE <<Current(c), outcome[c]>> \in finished
        BY <3>1 DEF Deliver, JobInv
      <3> QED BY <1>4, <3>1 DEF Deliver, TimesOut, HandlerEnds, TypeOK, Outcomes, Errors
    <2>2. /\ \A d \in Calls \ {c} : pc'[d] = pc[d]
          /\ pc'[c] \in {"backoff", "answered", "raised"}
          /\ events \subseteq events'
      BY <2>1, EndsOfAttempt, EndsOnlyItsCall
    <2>3. CASE pc'[c] = "backoff"
      <3>1. Reported(c, attempt[c])'
        BY <2>1, <2>3, BackoffIsReported
      <3>2. attempt[c] \in Nat
        BY DEF TypeOK
      <3>3. Of(c)'
        BY <1>0, <2>1, <2>2, <2>3, <3>1, <3>2, ReportedStays DEF Of
      <3> QED BY <1>0, <1>others, <2>1, <2>2, <3>3
    <2>4. CASE pc'[c] # "backoff"
      BY <1>0, <1>others, <1>moved, <2>1, <2>2, <2>4 DEF Ends
    <2> QED BY <2>3, <2>4
  <1>5. CASE \/ Rest \/ UNCHANGED vars
             \/ \E j \in Jobs : ThreadTakes(j) \/ \E o \in Outcomes : ThreadEnds(j, o)
    <2>1. UNCHANGED <<pc, attempt, events>> /\ finished \subseteq finished'
      BY <1>5 DEF Rest, vars, ThreadTakes, ThreadEnds
    <2> QED BY <1>0, <1>others, <2>1
  <1> QED BY <1>1, <1>2, <1>3, <1>4, <1>5 DEF Next

\* No attempt is made but after the one before it failed, and was reported, in one
\* and the same class, and that class is one the policy retries.
THEOREM RetriesAreJustified == Spec => []RetriesJustified
  <1>1. TypeOK /\ RetryInv => RetriesJustified
    <2> SUFFICES ASSUME TypeOK, RetryInv, NEW c \in Calls, NEW a \in 2..attempt[c]
                 PROVE  Reported(c, a - 1)
      BY DEF RetriesJustified, Reported, EndedWith
    <2>1. attempt[c] \in Nat
      BY DEF TypeOK
    <2>2. a - 1 \in 1..attempt[c] /\ a - 1 < attempt[c]
      BY <2>1
    <2> QED BY <2>2 DEF RetryInv
  <1> QED BY <1>1, TypeInit, TypeStep, JobInit, JobStep, RetryInit, RetryStep, PTL DEF Spec

-----------------------------------------------------------------------------
\* A completion that the sink accepts ends the call: the same step answers it, for
\* this attempt.
LEMMA CompletionAnswers ==
  ASSUME TypeOK, NEW c \in Calls, NEW o \in Outcomes, c \notin Unloggable,
         Settled(c, o) \/ Failed(c, o, {})
  PROVE  \/ /\ pc'[c] = "answered" /\ answer'[c].attempts = attempt[c]
            /\ events' = events \cup {<<"tool_completed", Current(c)>>}
         \/ \E kind \in Kinds \ {"tool_completed"} :
              events' = events \cup {<<kind, Current(c)>>}
  <1>1. CASE o \in Returns /\ Tell(c, {"tool_completed"}) /\ Answer(c, o = "ok", attempt[c])
    <2>1. events' = events \cup {<<"tool_completed", Current(c)>>}
      BY <1>1 DEF Tell
    <2>2. pc'[c] = "answered"
      BY <1>1 DEF Answer, Leave, TypeOK
    <2>3. answer'[c] = [ok |-> (o = "ok"), attempts |-> attempt[c]]
      BY <1>1 DEF Answer, TypeOK
    <2> QED BY <2>1, <2>2, <2>3
  <1>2. CASE Failed(c, o, {})
    BY <1>2 DEF Failed, Tell, Complaint, Kinds
  <1> QED BY <1>1, <1>2 DEF Settled

LEMMA CompletionStep ==
  TypeOK /\ CompletionIsFinal /\ [Next]_vars => CompletionIsFinal'
  <1> SUFFICES ASSUME TypeOK, CompletionIsFinal, [Next]_vars,
                      NEW j \in Jobs, <<"tool_completed", j>> \in events',
                      j[1] \notin Unloggable
               PROVE  pc'[j[1]] = "answered" /\ answer'[j[1]].attempts = j[2]
    BY DEF CompletionIsFinal
  <1>0. j = <<j[1], j[2]>> /\ j[1] \in Calls
    BY JobsAreJobs
  <1> DEFINE Final == pc[j[1]] = "answered" /\ answer[j[1]].attempts = j[2]
  <1>old. <<"tool_completed", j>> \in events => Final
    BY DEF CompletionIsFinal
  \* Steps that make no completion and move no call that was answered.
  <1>quiet. ASSUME <<"tool_completed", j>> \in events,
                   pc[j[1]] = "answered" => pc'[j[1]] = pc[j[1]] /\ answer'[j[1]] = answer[j[1]]
            PROVE  Final'
    BY <1>old, <1>quiet
  <1>1. ASSUME NEW c \in Calls, Enter(c) \/ NoAttempt(c) \/ Cancel(c) PROVE Final'
    BY <1>0, <1>1, <1>quiet
       DEF Enter, NoAttempt, Cancel, Answer, Leave, TypeOK, Ends
  <1>2. ASSUME NEW c \in Calls, BeginAttempt(c) PROVE Final'
    BY <1>0, <1>2, <1>quiet DEF BeginAttempt, Escape, Leave, TypeOK
  <1>3. ASSUME NEW c \in Calls, Deliver(c) \/ TimesOut(c) \/ \E o \in Outcomes : HandlerEnds(c, o)
        PROVE  Final'
    <2>1. PICK o \in Outcomes :
            /\ pc[c] = "invoking" /\ attempt[c] > 0
            /\ Settled(c, o) \/ Failed(c, o, {})
      BY <1>3 DEF Deliver, TimesOut, HandlerEnds, TypeOK, Outcomes, Errors
    <2>2. \A d \in Calls \ {c} : pc'[d] = pc[d] /\ answer'[d] = answer[d]
      BY <2>1, EndsOnlyItsCall
    <2>3. CASE j[1] = c
      <3>1. <<"tool_completed", j>> \notin events
        BY <1>old, <2>1, <2>3
      <3> QED BY <1>0, <2>1, <2>3, <3>1, CompletionAnswers DEF Current
    <2>4. CASE j[1] # c
      <3>1. \E kinds : Tell(c, kinds)
        BY <2>1 DEF Settled, Failed
      <3>2. <<"tool_completed", j>> \in events
        BY <1>0, <2>4, <3>1 DEF Tell, Current
      <3> QED BY <1>0, <1>quiet, <2>2, <2>4, <3>2
    <2> QED BY <2>3, <2>4
  <1>4. CASE \/ Rest \/ UNCHANGED vars
             \/ \E k \in Jobs : ThreadTakes(k) \/ \E o \in Outcomes : ThreadEnds(k, o)
    BY <1>4, <1>quiet DEF Rest, vars, ThreadTakes, ThreadEnds
  <1> QED BY <1>1, <1>2, <1>3, <1>4 DEF Next

\* Where the sink takes the event, a reported completion is the last word on the
\* call: it stays answered, for the attempt that completed.
THEOREM CompletionsAreFinal == Spec => []CompletionIsFinal
  <1>1. Init => CompletionIsFinal
    BY DEF Init, CompletionIsFinal
  <1> QED BY <1>1, TypeInit, TypeStep, CompletionStep, PTL DEF Spec
-----------------------------------------------------------------------------
(* The contract *)

\* Handlers begin once per attempt, in the order of the attempts: what ran has
\* begun, what waits in the pool has not, and nothing is ahead of the loop.
StartInv ==
  /\ running \subseteq started
  /\ \A j \in started : j[2] <= attempt[j[1]] /\ j \notin queued
  /\ \A f \in finished : f[1] \in started
  /\ \A c \in Calls : pc[c] = "invoking" /\ c \notin Sync => Current(c) \in started

LEMMA StartInit == Init => StartInv
  BY DEF Init, StartInv

LEMMA StartStep == TypeOK /\ JobInv /\ StartInv /\ [Next]_vars => StartInv'
  <1> SUFFICES ASSUME TypeOK, JobInv, StartInv, [Next]_vars PROVE StartInv'
    OBVIOUS
  <1> USE DEF StartInv, Current
  <1>0. \A j \in Jobs : j = <<j[1], j[2]>> /\ j[1] \in Calls /\ j[2] \in Nat
    BY JobsAreJobs, PolicyAssumption
  <1>1. ASSUME NEW c \in Calls, Enter(c) \/ NoAttempt(c) PROVE StartInv'
    BY <1>1 DEF Enter, NoAttempt, Answer, Leave, workVars, TypeOK
  <1>2. ASSUME NEW c \in Calls, BeginAttempt(c) PROVE StartInv'
    <2> DEFINE new == <<c, attempt[c] + 1>>
    <2>1. /\ attempt' = [attempt EXCEPT ![c] = @ + 1] /\ finished' = finished
          /\ \A d \in Calls \ {c} : pc'[d] = pc[d]
          /\ attempt[c] \in Nat
      BY <1>2 DEF BeginAttempt, Escape, Leave, TypeOK
    <2>2. new \notin started
      BY <1>0, <2>1 DEF TypeOK
    <2>3. \/ UNCHANGED <<queued, running, started>> /\ pc'[c] = "raised"
          \/ UNCHANGED <<running, started>> /\ queued' = queued \cup {new} /\ c \in Sync
          \/ /\ running' = running \cup {new} /\ started' = started \cup {new}
             /\ queued' = queued /\ c \notin Sync
      BY <1>2 DEF BeginAttempt, Escape, Leave, TypeOK
    <2>4. new \notin queued
      BY <1>0, <2>1 DEF JobInv, NothingLeftQueued, Awaited, TypeOK
    <2>5. \A j \in started' : j[2] <= attempt'[j[1]] /\ j \notin queued'
      BY <1>0, <2>1, <2>2, <2>3, <2>4 DEF TypeOK
    <2>6. running' \subseteq started' /\ started \subseteq started'
      BY <2>3
    <2>7. ASSUME NEW d \in Calls, pc'[d] = "invoking", d \notin Sync
          PROVE  <<d, attempt'[d]>> \in started'
      BY <2>1, <2>3, <2>6, <2>7 DEF TypeOK
    <2> QED BY <2>1, <2>5, <2>6, <2>7
  <1>3. ASSUME NEW c \in Calls, Deliver(c) \/ TimesOut(c) \/ \E o \in Outcomes : HandlerEnds(c, o)
        PROVE  StartInv'
    <2>1. PICK o \in Outcomes :
            /\ pc[c] = "invoking" /\ UNCHANGED <<attempt, started>>
            /\ Settled(c, o) \/ Failed(c, o, {})
            /\ \A f \in finished' : f \in finished \/ (f = <<Current(c), o>> /\ c \notin Sync)
            /\ running' \subseteq running /\ queued' \subseteq queued
      BY <1>3 DEF Deliver, TimesOut, HandlerEnds, Withdraw, TypeOK, Outcomes, Errors
    <2>2. /\ \A d \in Calls \ {c} : pc'[d] = pc[d]
          /\ pc'[c] # "invoking"
      BY <2>1, EndsOnlyItsCall
    <2> QED BY <2>1, <2>2
  <1>4. ASSUME NEW c \in Calls, Cancel(c) PROVE StartInv'
    BY <1>4 DEF Cancel, Withdraw, Leave, TypeOK
  <1>5. ASSUME NEW j \in Jobs, ThreadTakes(j) PROVE StartInv'
    BY <1>0, <1>5 DEF ThreadTakes, TypeOK, JobInv, NothingLeftQueued, Awaited
  <1>6. ASSUME NEW j \in Jobs, NEW o \in Outcomes, ThreadEnds(j, o) PROVE StartInv'
    BY <1>6 DEF ThreadEnds
  <1>7. CASE Rest \/ UNCHANGED vars
    BY <1>7 DEF Rest, vars
  <1> QED BY <1>1, <1>2, <1>3, <1>4, <1>5, <1>6, <1>7 DEF Next

\* The contract's view of the executor: how a call stands, and which of its
\* attempts have begun.
Phase(c) == IF pc[c] \in Ends THEN pc[c] ELSE "pending"
Starts(c) == {j[2] : j \in {k \in started : k[1] = c}}
Ok(c) == pc[c] = "answered" /\ answer[c].ok

\* A step that ends one call, and begins no handler, is the contract's Answer or
\* Escape.
LEMMA EndIsContract ==
  ASSUME TypeOK, NEW c \in Calls, NEW end \in Ends,
         pc[c] \notin Ends, pc' = [pc EXCEPT ![c] = end], started' = started,
         \A d \in Calls \ {c} : answer'[d] = answer[d],
         end = "answered" => answer'[c].ok \in BOOLEAN /\ (answer'[c].ok => Starts(c) # {})
  PROVE  Contract!Next
  <1> DEFINE phase == [d \in Calls |-> Phase(d)]
             ok == [d \in Calls |-> Ok(d)]
  <1>1. phase[c] = "pending" /\ phase' = [phase EXCEPT ![c] = end]
    BY DEF Phase, TypeOK
  <1>2. /\ end = "answered" => ok' = [ok EXCEPT ![c] = answer'[c].ok]
        /\ end # "answered" => ok' = ok
    <2>1. \A d \in Calls \ {c} : Ok(d)' = Ok(d)
      BY DEF Ok, TypeOK
    <2>2. end # "answered" => Ok(c)' = FALSE
      BY DEF Ok, TypeOK
    <2>3. Ok(c) = FALSE
      BY DEF Ok, Ends
    <2>4. end = "answered" => Ok(c)' = answer'[c].ok
      BY DEF Ok, TypeOK
    <2> QED BY <2>1, <2>2, <2>3, <2>4
  <1>3. [d \in Calls |-> Starts(d)]' = [d \in Calls |-> Starts(d)]
    BY DEF Starts
  <1>4. CASE end = "answered"
    <2>1. PICK good \in BOOLEAN : good = answer'[c].ok
      BY <1>4
    <2>2. ok' = [ok EXCEPT ![c] = good] /\ (good => Starts(c) # {})
      BY <1>2, <1>4, <2>1
    <2>3. Contract!Answer(c, good)
      BY <1>1, <1>3, <1>4, <2>2 DEF Contract!Answer, Phase, Starts, Ok
    <2> QED BY <2>3 DEF Contract!Next
  <1>5. CASE end # "answered"
    <2>1. Contract!Escape(c, end)
      BY <1>1, <1>2, <1>3, <1>5 DEF Contract!Escape, Phase, Starts, Ok
    <2> QED BY <1>5, <2>1 DEF Contract!Next, Ends
  <1> QED BY <1>4, <1>5

\* A handler that begins is the contract's Start.
LEMMA StartIsContract ==
  ASSUME TypeOK, NEW c \in Calls, NEW a \in 1..MaxAttempts[c],
         pc[c] \notin Ends, \A b \in Starts(c) : b < a,
         started' = started \cup {<<c, a>>}, answer' = answer,
         \A d \in Calls : Phase(d)' = Phase(d),
         \A d \in Calls : Ok(d)' = Ok(d)
  PROVE  Contract!Next
  <1> DEFINE starts == [d \in Calls |-> Starts(d)]
  <1> DEFINE new == <<c, a>>
  <1>1. ASSUME NEW d \in Calls
        PROVE  Starts(d)' = IF d = c THEN Starts(c) \cup {a} ELSE Starts(d)
    <2>1. new[1] = c /\ new[2] = a /\ started' = started \cup {new}
      OBVIOUS
    <2> HIDE DEF new
    <2>2. \A b : b \in Starts(d)' <=> b \in Starts(d) \/ (d = c /\ b = a)
      BY <2>1 DEF Starts
    <2> QED BY <2>2
  <1>2. starts' = [starts EXCEPT ![c] = @ \cup {a}]
    BY <1>1
  <1>3. [d \in Calls |-> Phase(d)]' = [d \in Calls |-> Phase(d)]
    OBVIOUS
  <1>4. [d \in Calls |-> Ok(d)]' = [d \in Calls |-> Ok(d)]
    OBVIOUS
  <1>5. Contract!Start(c, a)
    BY <1>2, <1>3, <1>4 DEF Contract!Start, Phase, Starts, Ok
  <1> QED BY <1>5 DEF Contract!Next

\* A step after which every call stands as before is none of the contract.
LEMMA StutterIsContract ==
  ASSUME \A d \in Calls : Phase(d)' = Phase(d) /\ Ok(d)' = Ok(d), started' = started
  PROVE  UNCHANGED Contract!vars
  BY DEF Contract!vars, Phase, Ok
\* Every step of the executor is a step of its contract or none of it.
LEMMA ContractStep ==
  TypeOK /\ JobInv /\ StartInv /\ [Next]_vars => [Contract!Next]_(Contract!vars)
  <1> SUFFICES ASSUME TypeOK, JobInv, StartInv, [Next]_vars
               PROVE  [Contract!Next]_(Contract!vars)
    OBVIOUS
  \* An answer that can be good is of a handler that began.
  <1>began. ASSUME NEW c \in Calls, Current(c) \in started PROVE Starts(c) # {}
    BY <1>began DEF Starts, Current
  <1>1. ASSUME NEW c \in Calls, Enter(c) PROVE UNCHANGED Contract!vars
    BY <1>1, StutterIsContract DEF Enter, Phase, Ok, workVars, TypeOK, Ends
  <1>2. ASSUME NEW c \in Calls, NoAttempt(c) PROVE Contract!Next
    <2>1. /\ pc[c] \notin Ends /\ pc' = [pc EXCEPT ![c] = "answered"]
          /\ answer' = [answer EXCEPT ![c] = [ok |-> FALSE, attempts |-> MaxAttempts[c]]]
          /\ started' = started
      BY <1>2 DEF NoAttempt, Answer, Leave, workVars, Ends
    <2>2. answer'[c].ok = FALSE /\ \A d \in Calls \ {c} : answer'[d] = answer[d]
      BY <2>1 DEF TypeOK
    <2> QED BY <2>1, <2>2, EndIsContract DEF Ends
  <1>3. ASSUME NEW c \in Calls, BeginAttempt(c) PROVE [Contract!Next]_(Contract!vars)
    <2>1. pc[c] \notin Ends /\ answer' = answer
      BY <1>3 DEF BeginAttempt, Escape, Ends
    <2>2. CASE pc' = [pc EXCEPT ![c] = "invoking"] /\ c \in Sync /\ started' = started
      BY <2>1, <2>2, StutterIsContract DEF Phase, Ok, TypeOK, Ends
    <2>3. CASE /\ pc' = [pc EXCEPT ![c] = "invoking"]
               /\ started' = started \cup {<<c, attempt[c] + 1>>}
      <3>1. attempt[c] + 1 \in 1..MaxAttempts[c] /\ attempt[c] \in Nat
        <4>1. attempt[c] \in Nat /\ MaxAttempts[c] \in Nat /\ attempt[c] < MaxAttempts[c]
          BY <1>3, PolicyAssumption DEF BeginAttempt, AttemptsLeft, TypeOK
        <4> QED BY <4>1
      <3>2. \A b \in Starts(c) : b < attempt[c] + 1
        BY <3>1, JobsAreJobs, PolicyAssumption DEF Starts, StartInv, TypeOK
      <3>3. \A d \in Calls : Phase(d)' = Phase(d)
        BY <2>1, <2>3 DEF Phase, TypeOK, Ends
      <3>4. \A d \in Calls : Ok(d)' = Ok(d)
        BY <2>1, <2>3 DEF Ok, TypeOK, Ends
      <3> QED BY <2>1, <2>3, <3>1, <3>2, <3>3, <3>4, StartIsContract
    <2>4. CASE pc' = [pc EXCEPT ![c] = "raised"] /\ started' = started
      BY <2>1, <2>4, EndIsContract DEF Ends
    <2> QED BY <1>3, <2>2, <2>3, <2>4 DEF BeginAttempt, Escape, Leave
  <1>4. ASSUME NEW c \in Calls, NEW o \in Outcomes, pc[c] = "invoking", attempt[c] > 0,
               Settled(c, o) \/ Failed(c, o, {}), started' = started,
               o = "ok" => Current(c) \in started
        PROVE  [Contract!Next]_(Contract!vars)
    <2>1. /\ \A d \in Calls \ {c} : pc'[d] = pc[d] /\ answer'[d] = answer[d]
          /\ pc'[c] = "answered" /\ answer'[c].ok => o = "ok"
      BY <1>4, EndsOnlyItsCall
    <2>2. answer'[c].ok \in BOOLEAN
      BY <1>4, EndsOfAttempt DEF Answers
    <2>3. \/ pc' = [pc EXCEPT ![c] = "backoff"]
          \/ \E end \in {"answered", "raised"} : pc' = [pc EXCEPT ![c] = end]
      BY <1>4, EndsOfAttempt DEF Leave
    <2>4. CASE pc' = [pc EXCEPT ![c] = "backoff"]
      BY <1>4, <2>1, <2>4, StutterIsContract DEF Phase, Ok, TypeOK, Ends
    <2>5. ASSUME NEW end \in {"answered", "raised"}, pc' = [pc EXCEPT ![c] = end]
          PROVE  Contract!Next
      <3>1. end = "answered" => pc'[c] = "answered"
        BY <2>5 DEF TypeOK
      <3>2. pc[c] \notin Ends /\ end \in Ends
        BY <1>4 DEF Ends
      <3> QED BY <1>4, <1>began, <2>1, <2>2, <2>5, <3>1, <3>2, EndIsContract
    <2> QED BY <2>3, <2>4, <2>5
  <1>5. ASSUME NEW c \in Calls, NEW o \in Outcomes, HandlerEnds(c, o)
        PROVE  [Contract!Next]_(Contract!vars)
    <2>1. /\ pc[c] = "invoking" /\ attempt[c] > 0 /\ Settled(c, o) /\ started' = started
          /\ Current(c) \in started
      BY <1>5 DEF HandlerEnds, TypeOK, StartInv
    <2> QED BY <2>1, <1>4
  <1>6. ASSUME NEW c \in Calls, Deliver(c) PROVE [Contract!Next]_(Contract!vars)
    <2>1. /\ pc[c] = "invoking" /\ attempt[c] > 0 /\ started' = started
          /\ outcome[c] \in Outcomes /\ Settled(c, outcome[c])
          /\ <<Current(c), outcome[c]>> \in finished
      BY <1>6 DEF Deliver, TypeOK, JobInv
    <2>2. Current(c) \in started
      BY <2>1 DEF StartInv
    <2> QED BY <2>1, <2>2, <1>4
  <1>7. ASSUME NEW c \in Calls, TimesOut(c) PROVE [Contract!Next]_(Contract!vars)
    <2>1. /\ pc[c] = "invoking" /\ attempt[c] > 0 /\ started' = started
          /\ Failed(c, "timeout", {}) /\ "timeout" \in Outcomes
      BY <1>7 DEF TimesOut, TypeOK, Outcomes, Errors
    <2> QED BY <2>1, <1>4
  <1>8. ASSUME NEW c \in Calls, Cancel(c) PROVE Contract!Next
    <2>1. /\ pc[c] \notin Ends /\ pc' = [pc EXCEPT ![c] = "cancelled"]
          /\ UNCHANGED <<answer, started>>
      BY <1>8 DEF Cancel, Leave
    <2> QED BY <2>1, EndIsContract DEF Ends
  <1>9. ASSUME NEW j \in Jobs, ThreadTakes(j) PROVE Contract!Next
    <2>1. /\ j = <<j[1], j[2]>> /\ j[1] \in Calls /\ j[2] \in 1..MaxAttempts[j[1]]
          /\ MaxAttempts[j[1]] \in Nat
      BY JobsAreJobs, PolicyAssumption
    <2>2. /\ j \in queued /\ started' = started \cup {j}
          /\ UNCHANGED <<pc, attempt, answer>>
      BY <1>9 DEF ThreadTakes
    <2>3. pc[j[1]] \notin Ends /\ attempt[j[1]] = j[2] /\ j \notin started
      BY <2>2 DEF JobInv, NothingLeftQueued, Awaited, Ends, StartInv
    <2>4. ASSUME NEW b \in Starts(j[1]) PROVE b < j[2]
      <3>1. PICK k \in started : k[1] = j[1] /\ k[2] = b
        BY DEF Starts
      <3>2. k \in Jobs /\ k # j /\ k[2] <= j[2]
        BY <2>3, <3>1 DEF StartInv, TypeOK
      <3>3. k = <<k[1], k[2]>> /\ k[2] \in Nat
        BY <3>1, <3>2, JobsAreJobs, PolicyAssumption
      <3> QED BY <2>1, <3>1, <3>2, <3>3
    <2>5. \A d \in Calls : Phase(d)' = Phase(d)
      BY <2>2 DEF Phase
    <2>6. \A d \in Calls : Ok(d)' = Ok(d)
      BY <2>2 DEF Ok
    <2> QED BY <2>1, <2>2, <2>3, <2>4, <2>5, <2>6, StartIsContract
  <1>10. CASE \/ Rest \/ UNCHANGED vars
              \/ \E j \in Jobs : \E o \in Outcomes : ThreadEnds(j, o)
    BY <1>10, StutterIsContract DEF Rest, vars, ThreadEnds, Phase, Ok
  <1> QED BY <1>1, <1>2, <1>3, <1>5, <1>6, <1>7, <1>8, <1>9, <1>10 DEF Next

\* The executor implements its contract, for every policy, cap and pool: handlers
\* begin in the order of the attempts, never after the call's end, at most
\* max_attempts of them, and an answer is given once and never taken back.
THEOREM KeepsContract == Spec => Contract!Safe
  <1>1. Init => Contract!Init
    <2> SUFFICES ASSUME Init PROVE Contract!Init
      OBVIOUS
    <2>1. \A c \in Calls : Phase(c) = "pending" /\ Ok(c) = FALSE
      BY DEF Init, Phase, Ok, Ends
    <2>2. \A c \in Calls : Starts(c) = {}
      BY DEF Init, Starts
    <2> QED BY <2>1, <2>2 DEF Contract!Init, Phase, Starts, Ok
  <1>2. TypeOK /\ JobInv /\ StartInv /\ [Next]_vars => TypeOK' /\ JobInv' /\ StartInv'
    BY TypeStep, JobStep, StartStep
  <1>3. Init => TypeOK /\ JobInv /\ StartInv
    BY TypeInit, JobInit, StartInit
  <1> QED BY <1>1, <1>2, <1>3, ContractStep, PTL DEF Spec, Contract!Safe
=============================================================================
