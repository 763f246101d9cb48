-------------------------- MODULE EvaluationProofs --------------------------
(* What a grade of a parallel split is worth, for any questions, ground truths, *)
(* decisions and concurrency.                                                   *)
EXTENDS Evaluation, TLAPS

Places == {"queued", "asking", "grading", "ended"}

\* f finds for each of the first n entries of truth a call of answer that fits,
\* for no two of them the same.
Finds(f, n, truth, answer) ==
  /\ f \in [1..n -> 1..Len(answer)]
  /\ \A i, j \in 1..n : i # j => f[i] # f[j]
  /\ \A i \in 1..n : Fits(truth[i], answer[f[i]])

Taken(f, n) == {f[i] : i \in 1..n}

\* One decision is graded at a time; calls, matched and used are about it.
OneGrading ==
  /\ \A q, r \in Questions : at[q] = "grading" /\ at[r] = "grading" => q = r
  /\ (\A q \in Questions : at[q] # "grading") => matched = 0 /\ used = {}
  /\ \A q \in Questions : at[q] = "grading" => calls \in Decisions

\* What good records, from the decision on.
GoodIsAnswered ==
  \A q \in Questions :
    /\ at[q] \in {"queued", "asking"} => q \notin good
    /\ at[q] = "grading" => (q \in good <=> Answered(ground[q], calls))

\* The entries matched so far have found calls of their own: those used.
Found ==
  \A q \in Parallel : at[q] = "grading" =>
    /\ matched \in 0..Len(ground[q])
    /\ matched # 0 => Len(calls) = Len(ground[q])
    /\ \E f \in [1..matched -> 1..Len(calls)] :
         Finds(f, matched, ground[q], calls) /\ used = Taken(f, matched)

VerdictsAtEnd == \A q \in Questions : at[q] # "ended" => verdict[q] = "none"

GradingShape ==
  /\ \A q \in Questions : ground[q] \in Truths[q]
  /\ at \in [Questions -> Places]
  /\ verdict \in [Questions -> Verdicts \cup {"none"}]
  /\ good \subseteq Questions

GradingInv ==
  /\ GradingShape /\ OneGrading /\ GoodIsAnswered /\ Found /\ VerdictsAtEnd
  /\ GradesSound /\ ClearCasesAreExact

-----------------------------------------------------------------------------
(* Lemmas about the operators *)

LEMMA SingleVerdicts ==
  ASSUME NEW call, NEW truth
  PROVE  SingleVerdict(call, truth) \in Verdicts
BY DEF SingleVerdict, Verdicts

\* Every entry found: the decision answers the ground truth.
LEMMA FindsAnswer ==
  ASSUME NEW truth, NEW answer, Len(truth) = Len(answer),
         NEW f, Finds(f, Len(truth), truth, answer)
  PROVE  Answered(truth, answer)
BY DEF Finds, Answered

\* One more entry finds a call that is not used yet.
LEMMA FindsMore ==
  ASSUME NEW truth, NEW answer, NEW n \in Nat, NEW f, Finds(f, n, truth, answer),
         NEW k \in 1..Len(answer), k \notin Taken(f, n), Fits(truth[n + 1], answer[k])
  PROVE  \E g \in [1..n + 1 -> 1..Len(answer)] :
           Finds(g, n + 1, truth, answer)
             /\ Taken(g, n + 1) = Taken(f, n) \cup {k}
<1> DEFINE g == [i \in 1..n + 1 |-> IF i <= n THEN f[i] ELSE k]
<1>1. /\ g \in [1..n + 1 -> 1..Len(answer)] /\ g[n + 1] = k
      /\ \A i \in 1..n : g[i] = f[i] /\ f[i] # k
  BY DEF Finds, Taken
<1>2. \A i \in 1..n + 1 : i \in 1..n \/ i = n + 1
  OBVIOUS
<1>3. n + 1 \in 1..n + 1 /\ \A i \in 1..n : i \in 1..n + 1
  OBVIOUS
<1> HIDE DEF g
<1>4. Finds(g, n + 1, truth, answer)
  BY <1>1, <1>2 DEF Finds
<1>5. Taken(g, n + 1) = Taken(f, n) \cup {k}
  BY <1>1, <1>2, <1>3 DEF Taken
<1>6. QED BY <1>1, <1>4, <1>5

\* Where no call fits two entries, an answered entry always finds a call that is
\* not used: the call that answers it is used by no other entry.
LEMMA ClearEntryFits ==
  ASSUME NEW q \in Questions, Unambiguous(q), Answered(ground[q], calls), calls \in Decisions,
         NEW f, Finds(f, matched, ground[q], calls), used = Taken(f, matched),
         Len(ground[q]) \in Nat, matched \in 0..Len(ground[q]), matched < Len(ground[q])
  PROVE  Fitting(q) # {}
<1>1. PICK h \in [1..Len(ground[q]) -> 1..Len(calls)] :
        \A i \in 1..Len(ground[q]) : Fits(ground[q][i], calls[h[i]])
  BY DEF Answered
<1>2. matched + 1 \in 1..Len(ground[q]) /\ \A i \in 1..matched :
        i \in 1..Len(ground[q]) /\ i # matched + 1
  OBVIOUS
<1>3. h[matched + 1] \in 1..Len(calls) /\ Fits(ground[q][matched + 1], calls[h[matched + 1]])
  BY <1>1, <1>2
<1>4. ASSUME NEW i \in 1..matched, f[i] = h[matched + 1] PROVE FALSE
  <2>1. Fits(ground[q][i], calls[h[matched + 1]])
    BY <1>4 DEF Finds
  <2>2. i = matched + 1
    BY <1>2, <1>3, <2>1 DEF Unambiguous
  <2>3. QED BY <1>2, <2>2
<1>5. h[matched + 1] \in Fitting(q)
  BY <1>3, <1>4 DEF Fitting, Taken
<1>6. QED BY <1>5

-----------------------------------------------------------------------------
(* The invariant *)

LEMMA GradingInit == Init => GradingInv
<1> SUFFICES ASSUME Init PROVE GradingInv
  OBVIOUS
<1>1. /\ \A q \in Questions : ground[q] \in Truths[q] /\ at[q] = "queued" /\ verdict[q] = "none"
      /\ at = [q \in Questions |-> "queued"] /\ verdict = [q \in Questions |-> "none"]
      /\ good = {} /\ matched = 0 /\ used = {}
  BY DEF Init
<1>2. GradingShape /\ OneGrading /\ GoodIsAnswered /\ VerdictsAtEnd
  BY <1>1 DEF GradingShape, Places, Verdicts, OneGrading, GoodIsAnswered, VerdictsAtEnd
<1>3. Found /\ GradesSound /\ ClearCasesAreExact
  BY <1>1, EvaluationAssumption DEF Found, GradesSound, ClearCasesAreExact
<1>4. QED BY <1>2, <1>3 DEF GradingInv

\* Whether a question is clear is settled when the split is loaded.
LEMMA ClearForGood ==
  ASSUME ground' = ground, NEW q
  PROVE  Unambiguous(q)' <=> Unambiguous(q)
BY DEF Unambiguous

\* A verdict is given: it is sound and exact if the question's is.
LEMMA EndsKeeps ==
  ASSUME GradingInv, NEW q \in Questions, at[q] \in {"asking", "grading"},
         \A r \in Questions \ {q} : at[r] # "grading",
         NEW v \in Verdicts, Ends(q, v),
         q \in Parallel /\ v = "correct" => q \in good,
         q \in Parallel /\ q \in good /\ Unambiguous(q) => v = "correct"
  PROVE  GradingInv'
<1>1. /\ at' = [at EXCEPT ![q] = "ended"] /\ verdict' = [verdict EXCEPT ![q] = v]
      /\ matched' = 0 /\ used' = {} /\ ground' = ground /\ good' = good
  BY DEF Ends
<1>2. \A r \in Questions : at'[r] = IF r = q THEN "ended" ELSE at[r]
  BY <1>1 DEF GradingInv, GradingShape
<1>3. \A r \in Questions : verdict'[r] = IF r = q THEN v ELSE verdict[r]
  BY <1>1 DEF GradingInv, GradingShape
<1>4. \A r \in Questions : at'[r] # "grading"
  BY <1>2
<1>5. GradingShape'
  BY <1>1 DEF GradingInv, GradingShape, Places
<1>6. OneGrading' /\ GoodIsAnswered' /\ VerdictsAtEnd'
  BY <1>1, <1>2, <1>3, <1>4 DEF GradingInv, OneGrading, GoodIsAnswered, VerdictsAtEnd
<1>7. Found' /\ GradesSound'
  BY <1>1, <1>3, <1>4, EvaluationAssumption DEF GradingInv, Found, GradesSound
<1>8. ClearCasesAreExact'
  BY <1>1, <1>2, <1>3, ClearForGood, EvaluationAssumption DEF GradingInv, ClearCasesAreExact
<1>9. QED BY <1>5, <1>6, <1>7, <1>8 DEF GradingInv

\* What graded questions keep while another one moves on.
LEMMA VerdictsStay ==
  ASSUME GradingInv, UNCHANGED <<ground, verdict>>, good \subseteq good',
         \A r \in Questions : at'[r] = "ended" => at[r] = "ended" /\ (r \in good' => r \in good)
  PROVE  GradesSound' /\ ClearCasesAreExact'
<1>1. \A r \in Parallel : r \in Questions
  BY EvaluationAssumption
<1>2. GradesSound'
  BY DEF GradingInv, GradesSound
<1>3. ClearCasesAreExact'
  BY <1>1, ClearForGood DEF GradingInv, ClearCasesAreExact
<1>4. QED BY <1>2, <1>3

LEMMA GradingStep == GradingInv /\ [Next]_vars => GradingInv'
<1> SUFFICES ASSUME GradingInv, [Next]_vars PROVE GradingInv'
  OBVIOUS
<1>1. ASSUME NEW q \in Questions, Ask(q) PROVE GradingInv'
  <2>1. /\ at[q] = "queued" /\ at' = [at EXCEPT ![q] = "asking"]
        /\ UNCHANGED <<ground, verdict, calls, matched, used, good>>
    BY <1>1 DEF Ask
  <2>2. \A r \in Questions : at'[r] = IF r = q THEN "asking" ELSE at[r]
    BY <2>1 DEF GradingInv, GradingShape
  <2>3. GradesSound' /\ ClearCasesAreExact'
    BY <2>1, <2>2, VerdictsStay
  <2>4. GradingShape'
    BY <2>1 DEF GradingInv, GradingShape, Places
  <2>5. OneGrading' /\ GoodIsAnswered' /\ Found' /\ VerdictsAtEnd'
    BY <2>1, <2>2, EvaluationAssumption
    DEF GradingInv, OneGrading, GoodIsAnswered, Found, VerdictsAtEnd
  <2>6. QED BY <2>3, <2>4, <2>5 DEF GradingInv
<1>2. ASSUME NEW q \in Questions, Fails(q) \/ NoCall(q) PROVE GradingInv'
  <2>1. PICK v \in {"error", "no_call"} : Free /\ at[q] = "asking" /\ Ends(q, v)
    BY <1>2 DEF Fails, NoCall
  <2>2. q \notin good /\ v \in Verdicts /\ \A r \in Questions \ {q} : at[r] # "grading"
    BY <2>1 DEF GradingInv, GoodIsAnswered, Verdicts, Free
  <2>3. QED BY <2>1, <2>2, EndsKeeps
<1>3. ASSUME NEW q \in Questions, Decides(q) PROVE GradingInv'
  <2>1. /\ Free /\ at[q] = "asking" /\ calls' \in Decisions
        /\ at' = [at EXCEPT ![q] = "grading"]
        /\ good' = IF Answered(ground[q], calls') THEN good \cup {q} ELSE good
        /\ UNCHANGED <<ground, verdict, matched, used>>
    BY <1>3 DEF Decides
  <2>2. /\ \A r \in Questions : at'[r] = IF r = q THEN "grading" ELSE at[r]
        /\ \A r \in Questions : at[r] # "grading"
        /\ matched = 0 /\ used = {} /\ q \notin good
    BY <2>1 DEF GradingInv, GradingShape, OneGrading, GoodIsAnswered, Free
  <2>3. GradesSound' /\ ClearCasesAreExact'
    BY <2>1, <2>2, VerdictsStay
  <2>4. GradingShape'
    BY <2>1 DEF GradingInv, GradingShape, Places
  <2>5. OneGrading' /\ GoodIsAnswered' /\ VerdictsAtEnd'
    BY <2>1, <2>2 DEF GradingInv, OneGrading, GoodIsAnswered, VerdictsAtEnd
  <2>6. Found'
    <3> SUFFICES ASSUME NEW r \in Parallel
                 PROVE  /\ matched' \in 0..Len(ground'[r])
                        /\ matched' # 0 => Len(calls') = Len(ground'[r])
                        /\ \E f \in [1..matched' -> 1..Len(calls')] :
                             Finds(f, matched', ground'[r], calls')
                               /\ used' = Taken(f, matched')
      BY DEF Found
    <3>1. Len(ground'[r]) \in Nat /\ matched' = 0 /\ used' = {}
      BY <2>1, <2>2, EvaluationAssumption DEF GradingInv, GradingShape
    <3>2. PICK f : f = [i \in {} |-> 1]
      OBVIOUS
    <3>3. 1..0 = {}
      OBVIOUS
    <3>4. f \in [1..0 -> 1..Len(calls')] /\ Taken(f, 0) = {}
      BY <3>2, <3>3 DEF Taken
    <3>5. Finds(f, 0, ground'[r], calls')
      BY <3>3, <3>4 DEF Finds
    <3>6. matched' \in 0..Len(ground'[r]) /\ (matched' # 0 => Len(calls') = Len(ground'[r]))
      BY <3>1
    <3>7. f \in [1..matched' -> 1..Len(calls')] /\ used' = Taken(f, matched')
      BY <3>1, <3>4
    <3>8. Finds(f, matched', ground'[r], calls')
      BY <3>1, <3>5
    <3>9. QED BY <3>6, <3>7, <3>8
  <2>7. QED BY <2>3, <2>4, <2>5, <2>6 DEF GradingInv
<1>4. ASSUME NEW q \in Questions, Grade(q) PROVE GradingInv'
  <2>1. /\ at[q] = "grading" /\ \A r \in Questions \ {q} : at[r] # "grading"
        /\ calls \in Decisions /\ (q \in good <=> Answered(ground[q], calls))
        /\ Len(ground[q]) \in Nat /\ Len(calls) \in Nat \ {0}
    <3>1. at[q] = "grading"
      BY <1>4 DEF Grade, GradeSingle, GradeRaises, CountDiffers, Take, NoneFits, AllMatched, Grading
    <3>2. QED
      BY <3>1, EvaluationAssumption DEF GradingInv, GradingShape, OneGrading, GoodIsAnswered
  <2>2. CASE GradeSingle(q)
    <3>1. PICK v \in Verdicts : Ends(q, v) /\ q \notin Parallel
      BY <2>2, SingleVerdicts DEF GradeSingle, Verdicts
    <3>2. QED BY <2>1, <3>1, EndsKeeps
  <2>3. CASE GradeRaises(q)
    <3>1. UNCHANGED <<ground, at, verdict, calls, matched, used, good>>
      BY <2>3 DEF GradeRaises
    <3>2. GradesSound' /\ ClearCasesAreExact'
      BY <3>1, VerdictsStay
    <3>3. QED
      BY <3>1, <3>2 DEF GradingInv, GradingShape, OneGrading, GoodIsAnswered, Found, VerdictsAtEnd
  <2>4. CASE CountDiffers(q)
    <3>1. Len(calls) # Len(ground[q]) /\ Ends(q, "wrong_count")
      BY <2>4 DEF CountDiffers
    <3>2. q \notin good
      BY <2>1, <3>1 DEF Answered
    <3>3. QED BY <2>1, <3>1, <3>2, EndsKeeps DEF Verdicts
  <2>5. ASSUME q \in Parallel
        PROVE  \E f : /\ Finds(f, matched, ground[q], calls)
                      /\ used = Taken(f, matched)
                      /\ matched \in 0..Len(ground[q])
    BY <2>1, <2>5 DEF GradingInv, Found
  <2>6. CASE Take(q)
    <3>1. /\ q \in Parallel /\ Len(calls) = Len(ground[q]) /\ matched < Len(ground[q])
          /\ matched' = matched + 1
          /\ UNCHANGED <<ground, at, verdict, calls, good>>
      BY <2>6 DEF Take, Grading
    <3>2. PICK k \in (1..Len(calls)) \ used :
            Fits(ground[q][matched + 1], calls[k]) /\ used' = used \cup {k}
      BY <2>6 DEF Take, Fitting
    <3>3. PICK f : /\ Finds(f, matched, ground[q], calls)
                   /\ used = Taken(f, matched)
                   /\ matched \in 0..Len(ground[q])
      BY <2>5, <3>1
    <3>4. PICK g \in [1..matched + 1 -> 1..Len(calls)] :
            Finds(g, matched + 1, ground[q], calls)
              /\ Taken(g, matched + 1) = Taken(f, matched) \cup {k}
      <4>1. PICK n \in Nat : n = matched
        BY <2>1, <3>3
      <4>2. PICK truth, answer : truth = ground[q] /\ answer = calls
        OBVIOUS
      <4>3. /\ Finds(f, n, truth, answer) /\ k \in 1..Len(answer)
            /\ k \notin Taken(f, n) /\ Fits(truth[n + 1], answer[k])
        BY <3>2, <3>3, <4>1, <4>2
      <4>4. \E g \in [1..n + 1 -> 1..Len(answer)] :
              Finds(g, n + 1, truth, answer)
                /\ Taken(g, n + 1) = Taken(f, n) \cup {k}
        BY <4>3, FindsMore
      <4>5. QED BY <4>1, <4>2, <4>4
    <3>5. Found'
      <4>1. matched' \in 0..Len(ground[q])
        BY <2>1, <3>1, <3>3
      <4>2. used' = Taken(g, matched')
        BY <3>1, <3>2, <3>3, <3>4
      <4>3. g \in [1..matched' -> 1..Len(calls)] /\ Finds(g, matched', ground[q], calls)
        BY <3>1, <3>4
      <4>4. \A r \in Parallel : at'[r] = "grading" => r = q
        BY <2>1, <3>1, EvaluationAssumption
      <4>5. QED BY <3>1, <4>1, <4>2, <4>3, <4>4 DEF Found
    <3>6. GradesSound' /\ ClearCasesAreExact'
      BY <3>1, VerdictsStay
    <3>7. GradingShape' /\ OneGrading' /\ GoodIsAnswered' /\ VerdictsAtEnd'
      BY <2>1, <3>1 DEF GradingInv, GradingShape, OneGrading, GoodIsAnswered, VerdictsAtEnd
    <3>8. QED BY <3>5, <3>6, <3>7 DEF GradingInv
  <2>7. CASE NoneFits(q)
    <3>1. /\ q \in Parallel /\ matched < Len(ground[q]) /\ Fitting(q) = {}
          /\ Ends(q, "wrong_args")
      BY <2>7 DEF NoneFits, Grading
    <3>2. PICK f : /\ Finds(f, matched, ground[q], calls)
                   /\ used = Taken(f, matched)
                   /\ matched \in 0..Len(ground[q])
      BY <2>5, <3>1
    <3>3. ~(q \in good /\ Unambiguous(q))
      BY <2>1, <3>1, <3>2, ClearEntryFits
    <3>4. QED BY <2>1, <3>1, <3>3, EndsKeeps DEF Verdicts
  <2>8. CASE AllMatched(q)
    <3>1. /\ q \in Parallel /\ Len(calls) = Len(ground[q]) /\ matched = Len(ground[q])
          /\ Ends(q, "correct")
      BY <2>8 DEF AllMatched, Grading
    <3>2. PICK f : Finds(f, matched, ground[q], calls)
      BY <2>5, <3>1
    <3>3. q \in good
      <4>1. PICK truth, answer : truth = ground[q] /\ answer = calls
        OBVIOUS
      <4>2. QED BY <2>1, <3>1, <3>2, <4>1, FindsAnswer
    <3>4. QED BY <2>1, <3>1, <3>3, EndsKeeps DEF Verdicts
  <2>9. QED BY <1>4, <2>2, <2>3, <2>4, <2>6, <2>7, <2>8 DEF Grade
<1>5. CASE Collect \/ UNCHANGED vars
  <2>1. UNCHANGED <<ground, at, verdict, calls, matched, used, good>>
    BY <1>5 DEF Collect, vars
  <2>2. GradesSound' /\ ClearCasesAreExact'
    BY <2>1, VerdictsStay
  <2>3. QED
    BY <2>1, <2>2 DEF GradingInv, GradingShape, OneGrading, GoodIsAnswered, Found, VerdictsAtEnd
<1>6. QED BY <1>1, <1>2, <1>3, <1>4, <1>5 DEF Next, Over

THEOREM GradingInvariance == Spec => []GradingInv
BY GradingInit, GradingStep, PTL DEF Spec

\* No parallel question is graded correct unless every entry of its ground truth
\* has a call of its own among the calls of the decision (grade_decision).
THEOREM GradesAreSound == Spec => []GradesSound
BY GradingInvariance, PTL DEF GradingInv

\* Where no call a model may answer with fits two entries, the first call that fits
\* is the right one: such a decision is graded correct in any order of its calls.
THEOREM ClearCasesAreAlwaysExact == Spec => []ClearCasesAreExact
BY GradingInvariance, PTL DEF GradingInv
=============================================================================
