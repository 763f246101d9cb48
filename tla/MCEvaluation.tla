---------------------------- MODULE MCEvaluation ----------------------------
(***************************************************************************)
(* A question of the parallel split and one of the others.  One entry wants *)
(* x, one takes x or y, one lets the argument be left out; answers of up to *)
(* three calls with x, with y, without the argument, or of another name.   *)
(***************************************************************************)
EXTENDS Evaluation

CONSTANTS p1, s1, x, y

UpTo(n, S) == UNION {[1..k -> S] : k \in 0..n}

Entry(acceptable) == [name |-> "f", args |-> [a |-> acceptable]]
MCEntries == {Entry({x}), Entry({x, y}), Entry({y, Empty})}
Call(value) == [name |-> "f", args |-> [a |-> value]]
MCCalls == {Call(x), Call(y), [name |-> "f", args |-> <<>>], [name |-> "g", args |-> <<>>]}

MCQuestions == {p1, s1}
MCParallel == {p1}
MCTruths ==
  [q \in MCQuestions |-> IF q \in MCParallel THEN UpTo(3, MCEntries) ELSE UpTo(1, MCEntries)]
MCDecisions == UpTo(3, MCCalls) \ {<<>>}
=============================================================================
