----------------------------- MODULE Evaluation -----------------------------
(***************************************************************************)
(* lingyia_kit/eval/bfcl_runner.py: run_split puts every question to the   *)
(* model, several at a time, and grades the decision that comes back.      *)
(*                                                                         *)
(* Grading has no await: while a decision is graded nothing else moves,    *)
(* and a step of it is one round of grade_decision's loop.  Of the texts   *)
(* _values_match compares, those it takes for equal (another case, a       *)
(* number written differently, a list in another order) are one value.     *)
(* An operator named ...Slip is a plausible slip in the definition that    *)
(* follows it; only mutants use it.                                        *)
(***************************************************************************)
EXTENDS Naturals, Sequences, FiniteSets

CONSTANTS
  Questions,    \* those of the split
  Parallel,     \* which of them are graded as the "parallel" split
  Truths,       \* [Questions -> sets of sequences of entries]: possible ground_truth
  Decisions,    \* tool_calls a model may answer with, each with some call
  Concurrency   \* run_split's concurrency

CONSTANTS Empty, Missing  \* the value "", and that of an argument not given

ASSUME EvaluationAssumption ==
  /\ IsFiniteSet(Questions) /\ Parallel \subseteq Questions
  /\ Concurrency \in Nat \ {0}
  /\ \A q \in Questions : \A truth \in Truths[q] : Len(truth) \in Nat
  /\ \A calls \in Decisions : Len(calls) \in Nat \ {0}

VARIABLES
  ground,   \* [Questions -> sequences of entries]; never changes
  at,       \* [Questions -> {"queued", "asking", "grading", "ended"}]
  verdict,  \* [Questions -> Verdicts \cup {"none"}]
  calls,    \* the tool_calls of the decision being graded
  matched,  \* how many entries of the ground truth have found their call
  used,     \* the calls they have found
  good,     \* history: questions whose decision answers the ground truth
  outcome   \* {"running", "stats", "raised"}: how run_split ends

vars == <<ground, at, verdict, calls, matched, used, good, outcome>>

Verdicts == {"correct", "wrong_name", "wrong_args", "wrong_count", "no_call", "error"}

-----------------------------------------------------------------------------
(* One call against one entry *)

\* The value is acceptable, or may be left out and is.
ValuesMatch(actual, acceptable) ==
  actual \in acceptable \/ (Empty \in acceptable /\ actual \in {Missing, Empty})

Actual(call, arg) == IF arg \in DOMAIN call.args THEN call.args[arg] ELSE Missing

\* _grade_single_call: arguments that the entry does not name are not looked at.
SingleVerdict(call, truth) ==
  IF call.name # truth.name THEN "wrong_name"
  ELSE IF \A arg \in DOMAIN truth.args : ValuesMatch(Actual(call, arg), truth.args[arg])
       THEN "correct" ELSE "wrong_args"

Fits(truth, call) == SingleVerdict(call, truth) = "correct"

\* What the grades are about: every entry has a call of its own that fits.
Answered(truth, answer) ==
  /\ Len(truth) = Len(answer)
  /\ \E f \in [1..Len(truth) -> 1..Len(answer)] :
       /\ \A i, j \in 1..Len(truth) : i # j => f[i] # f[j]
       /\ \A i \in 1..Len(truth) : Fits(truth[i], answer[f[i]])

-----------------------------------------------------------------------------
Init ==
  /\ ground \in [Questions -> UNION {Truths[q] : q \in Questions}]
  /\ \A q \in Questions : ground[q] \in Truths[q]
  /\ at = [q \in Questions |-> "queued"]
  /\ verdict = [q \in Questions |-> "none"]
  /\ calls = <<>> /\ matched = 0 /\ used = {}
  /\ good = {}
  /\ outcome = "running"

\* The event loop is free: no decision is being graded.
Free == outcome = "running" /\ \A q \in Questions : at[q] # "grading"

\* _run_one returns: its permit goes back, its locals are gone.
Ends(q, v) ==
  /\ at' = [at EXCEPT ![q] = "ended"]
  /\ verdict' = [verdict EXCEPT ![q] = v]
  /\ calls' = <<>> /\ matched' = 0 /\ used' = {}
  /\ UNCHANGED <<ground, good, outcome>>

Holders == {q \in Questions : at[q] \in {"asking", "grading"}}

Ask(q) ==
  /\ Free /\ at[q] = "queued"
  /\ Cardinality(Holders) < Concurrency
  /\ at' = [at EXCEPT ![q] = "asking"]
  /\ UNCHANGED <<ground, verdict, calls, matched, used, good, outcome>>

\* adecide raises, or the answers have no entry for the question.
Fails(q) ==
  /\ Free /\ at[q] = "asking"
  /\ Ends(q, "error")

\* The model answers in words.
NoCall(q) ==
  /\ Free /\ at[q] = "asking"
  /\ Ends(q, "no_call")

Decides(q) ==
  /\ Free /\ at[q] = "asking"
  /\ calls' \in Decisions
  /\ at' = [at EXCEPT ![q] = "grading"]
  /\ good' = IF Answered(ground[q], calls') THEN good \cup {q} ELSE good
  /\ UNCHANGED <<ground, verdict, matched, used, outcome>>

-----------------------------------------------------------------------------
(* grade_decision *)

\* The split expects one call: it is held against the first entry.
GradeSingle(q) ==
  /\ at[q] = "grading" /\ q \notin Parallel
  /\ \/ Len(calls) # 1 /\ Ends(q, "wrong_count")
     \/ /\ Len(calls) = 1 /\ ground[q] # <<>>
        /\ Ends(q, SingleVerdict(calls[1], ground[q][1]))

\* There is no first entry: the IndexError goes through gather to the caller of
\* run_split, and with asyncio.run everything else ends.
GradeRaises(q) ==
  /\ at[q] = "grading" /\ q \notin Parallel
  /\ Len(calls) = 1 /\ ground[q] = <<>>
  /\ outcome' = "raised"
  /\ UNCHANGED <<ground, at, verdict, calls, matched, used, good>>

Grading(q) == at[q] = "grading" /\ q \in Parallel

CountDiffers(q) ==
  /\ Grading(q) /\ Len(calls) # Len(ground[q])
  /\ Ends(q, "wrong_count")

\* The calls that the next entry could take.
FittingSlip(q) == {i \in {matched + 1} : Fits(ground[q][matched + 1], calls[i])}
Fitting(q) == {i \in (1..Len(calls)) \ used : Fits(ground[q][matched + 1], calls[i])}

\* The entry takes the first of them.
TakeSlip(q) ==
  /\ Grading(q) /\ Len(calls) = Len(ground[q]) /\ matched < Len(ground[q])
  /\ \E i \in 1..Len(calls) : Fits(ground[q][matched + 1], calls[i])
  /\ matched' = matched + 1
  /\ UNCHANGED <<ground, at, verdict, calls, used, good, outcome>>
Take(q) ==
  /\ Grading(q) /\ Len(calls) = Len(ground[q]) /\ matched < Len(ground[q])
  /\ \E i \in Fitting(q) :
       /\ \A j \in Fitting(q) : i <= j
       /\ used' = used \cup {i}
  /\ matched' = matched + 1
  /\ UNCHANGED <<ground, at, verdict, calls, good, outcome>>

NoneFits(q) ==
  /\ Grading(q) /\ Len(calls) = Len(ground[q]) /\ matched < Len(ground[q])
  /\ Fitting(q) = {}
  /\ Ends(q, "wrong_args")

AllMatched(q) ==
  /\ Grading(q) /\ Len(calls) = Len(ground[q]) /\ matched = Len(ground[q])
  /\ Ends(q, "correct")

\* gather has every verdict, in the order of the questions; stats.add counts them.
Collect ==
  /\ outcome = "running"
  /\ \A q \in Questions : at[q] = "ended"
  /\ outcome' = "stats"
  /\ UNCHANGED <<ground, at, verdict, calls, matched, used, good>>

Over == outcome # "running" /\ UNCHANGED vars

Grade(q) ==
  /\ outcome = "running"
  /\ \/ GradeSingle(q) \/ GradeRaises(q) \/ CountDiffers(q)
     \/ Take(q) \/ NoneFits(q) \/ AllMatched(q)

Next ==
  \/ \E q \in Questions : Ask(q) \/ Fails(q) \/ NoCall(q) \/ Decides(q) \/ Grade(q)
  \/ Collect
  \/ Over

Spec == Init /\ [][Next]_vars

-----------------------------------------------------------------------------
(* Properties *)

\* A "correct" is deserved: in a parallel split every entry of the ground truth
\* has a call of its own, none serves two of them, and no call is left over.
GradesSound ==
  \A q \in Parallel : verdict[q] = "correct" => q \in good

\* "Order-insensitive matching: each ground-truth call must find a match among
\* actual calls" (bfcl_runner.py:229): a decision that answers every entry is
\* graded correct, whatever the order of its calls and of the entries.
OrderInsensitive ==
  \A q \in good \cap Parallel : at[q] = "ended" => verdict[q] = "correct"

\* What is left of it, although each entry takes the first call that fits: where
\* no call fits two entries the grade depends on no order.
Unambiguous(q) ==
  \A answer \in Decisions : \A k \in 1..Len(answer) :
    \A i, j \in 1..Len(ground[q]) :
      Fits(ground[q][i], answer[k]) /\ Fits(ground[q][j], answer[k]) => i = j

ClearCasesAreExact ==
  \A q \in good \cap Parallel :
    at[q] = "ended" /\ Unambiguous(q) => verdict[q] = "correct"
=============================================================================
