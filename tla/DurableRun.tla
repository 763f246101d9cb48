----------------------------- MODULE DurableRun -----------------------------
(***************************************************************************)
(* One run that outlives its processes: RunLoop in every worker, and a     *)
(* checkpoint store between them.  The loop never touches the store.  As   *)
(* in lingyia_kit/tests/test_integration_e2e.py:216-231 the application    *)
(* saves the state a call returned, and loads it where the run goes on.    *)
(*                                                                         *)
(* The workers hand the run over: one owns it, and it changes hands when   *)
(* its owner has saved it or lost it.  Nothing in the code sees to that.   *)
(* The store keeps one snapshot, whole (see Checkpointers), in the form    *)
(* that to_dict gives it.                                                  *)
(***************************************************************************)
EXTENDS RunLoop, FiniteSets

CONSTANTS MaxLosses  \* bound: how often an owner loses what it holds

ASSUME LossesAssumption == MaxLosses \in Nat

VARIABLES
  store,   \* {} or {the snapshot last saved}
  owner,   \* the worker the run is at
  losses,  \* history: how often the owner's memory was lost
  begun    \* history: Seq(Nat), the decisions whose batches began

durableVars == <<vars, store, owner, losses, begun>>

DurableInit ==
  /\ Init
  /\ store = {}
  /\ owner \in Workers
  /\ losses = 0
  /\ begun = <<>>

\* A step of the loop at the owner; arun and aresume are never called elsewhere.
Run ==
  /\ ModelAnswers(owner) \/ SomeCallEnds(owner) \/ BatchEnds(owner) \/ Caller(owner)
  /\ begun' = IF pc[owner] # "tools" /\ pc'[owner] = "tools"
              THEN Append(begun, batch'[owner].decision.id)
              ELSE begun
  /\ UNCHANGED <<store, owner, losses>>

\* RunState.to_dict: a run that waits for nobody has no interrupt to write.
ToDict(s) ==
  [iteration |-> s.iteration, observations |-> s.observations, feedback |-> s.feedback,
   interrupt |-> {s.interrupt} \ {NoInterrupt}, metadata |-> [cost_usd |-> s.cost]]

\* RunState.from_dict.  The usage of a pending decision does not come back, but it
\* was charged when the decision was made and is not looked at again.
InterruptFromDict(raw) == IF raw = {} THEN NoInterrupt ELSE CHOOSE i \in raw : TRUE

FromDictSlip(d) ==
  [iteration |-> d.iteration, observations |-> d.observations, feedback |-> d.feedback,
   interrupt |-> InterruptFromDict(d.interrupt), cost |-> 0]
FromDict(d) ==
  [iteration |-> d.iteration, observations |-> d.observations, feedback |-> d.feedback,
   interrupt |-> InterruptFromDict(d.interrupt), cost |-> d.metadata.cost_usd]

\* asave of the state that a call of arun or aresume returned.
Save ==
  /\ pc[owner] = "idle" /\ result[owner] \in Statuses
  /\ store' = {ToDict(st[owner])}
  /\ UNCHANGED <<vars, owner, losses, begun>>

\* The process dies, or arun raises and leaves its caller no state to save.
Lose ==
  /\ losses < MaxLosses
  /\ result[owner] # "lost"
  /\ losses' = losses + 1
  /\ pc' = [pc EXCEPT ![owner] = "idle"]
  /\ st' = [st EXCEPT ![owner] = FreshState]
  /\ result' = [result EXCEPT ![owner] = "lost"]
  /\ UNCHANGED <<batch, asks, turns, resumes, cleared, invoked>>
  /\ UNCHANGED <<store, owner, begun>>

\* A RunState holds no status.  What a loaded run waits for is its interrupt,
\* and without one it goes on, even if it was completed.
StatusOf(s) ==
  CASE s.interrupt.reason = "approval" -> "approval_required"
    [] s.interrupt.reason = "question" -> "paused"
    [] OTHER -> "stopped"

\* aload at any worker; what the last owner still holds is not used again.
HandedOver == pc[owner] = "idle" /\ (ToDict(st[owner]) \in store \/ result[owner] = "lost")

Load(w) ==
  /\ HandedOver
  /\ \E d \in store :
       /\ st' = [v \in Workers |-> IF v = w THEN FromDict(d) ELSE FreshState]
       /\ result' = [v \in Workers |-> IF v = w THEN StatusOf(FromDict(d)) ELSE "lost"]
  /\ owner' = w
  /\ UNCHANGED <<pc, batch, asks, turns, resumes, cleared, invoked>>
  /\ UNCHANGED <<store, losses, begun>>

\* Nothing is saved and everything is lost, or no call of aresume is left.
AtRest ==
  /\ pc[owner] = "idle" /\ result[owner] # "new"
  /\ UNCHANGED durableVars

DurableNext == Run \/ Save \/ Lose \/ (\E w \in Workers : Load(w)) \/ AtRest

DurableSpec == DurableInit /\ [][DurableNext]_durableVars

-----------------------------------------------------------------------------
(* Properties *)

\* The tools of a decision run once, and once more at most for every loss: a
\* run that is paused, saved, loaded and approved elsewhere never repeats what
\* was recorded, and what a loss takes back it repeats only once.
TimesBegun(id) == Cardinality({k \in 1..Len(begun) : begun[k] = id})

BegunOncePerLoss == \A k \in 1..Len(begun) : TimesBegun(begun[k]) <= 1 + losses

\* A saved run is never replaced by an earlier one.
StoreAdvances ==
  [][\A s \in store, t \in store' :
       s.iteration <= t.iteration /\ s.metadata.cost_usd <= t.metadata.cost_usd]_durableVars

\* Where nothing was lost, the cost on the state is that of every turn any
\* worker's model took for the run, give or take the rounding of each: no pause,
\* save, load, resume or compaction drops one.  (For turns that cost the same.)
TurnsAccounted ==
  losses = 0 => \A c \in Costs :
    Costs = {c} => /\ st[owner].cost <= asks * (c + Grain \div 2)
                   /\ asks * c <= st[owner].cost + asks * (Grain \div 2)
=============================================================================
