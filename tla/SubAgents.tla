----------------------------- MODULE SubAgents -----------------------------
(***************************************************************************)
(* lingyia_kit/tools/sub_agent.py: tools that run an agent, on the Runtime *)
(* of the agent that calls them.  The calls of all of them go through one  *)
(* ToolExecutor: the call of a sub-agent keeps its permit while the calls  *)
(* of the sub-agent wait for permits of the same semaphore.                *)
(*                                                                         *)
(* A run asks its model and executes a batch of calls, turn after turn     *)
(* (RunLoop has the whole loop); a call takes a permit, runs its handler   *)
(* and ends (ToolExecutor has its attempts; here it has one).  A handler   *)
(* that is cancelled ends at once.  The specification's own names begin    *)
(* with Agents, so that BuiltinToolsProofs can extend it with that of the  *)
(* other tools.  An operator named ...Slip is a plausible slip in the      *)
(* definition that follows it; only mutants use it.                        *)
(***************************************************************************)
EXTENDS Naturals, FiniteSets

CONSTANTS
  Tops,      \* runs the application starts
  ToolCalls, \* the tool calls of all runs
  Agents,    \* those of a sub_agent_tool; also the names of the runs they start
  By,        \* [ToolCalls -> Runs]: the run whose model asks for the call
  MaxTurns,  \* max_iterations
  Caps       \* values of max_concurrency; 0 disables the semaphore

Runs == Tops \cup Agents

ASSUME SubAgentsAssumption ==
  /\ IsFiniteSet(ToolCalls) /\ Agents \subseteq ToolCalls /\ Tops \cap ToolCalls = {}
  /\ By \in [ToolCalls -> Runs]
  /\ MaxTurns \in Nat /\ Caps \subseteq Nat

VARIABLES
  cap,    \* max_concurrency; never changes
  place,  \* [ToolCalls -> {"idle", "waiting", "inside"}]: of the semaphore
  run,    \* [Runs -> {"idle", "model", "tools", "done"}]: what arun awaits
  turns,  \* [Runs -> Nat]: turns of the run under way
  batch,  \* [Runs -> SUBSET Calls]: the calls its gather waits for
  raised  \* history: runs that ended while calls of their batch were under way

agentsVars == <<cap, place, run, turns, batch, raised>>

Inside == {c \in ToolCalls : place[c] = "inside"}
PermitFreeSlip == cap > 0 => Cardinality(Inside) + 1 < cap
PermitFree == cap > 0 => Cardinality(Inside) < cap

AgentsInit ==
  /\ cap \in Caps
  /\ place = [c \in ToolCalls |-> "idle"]
  /\ run = [r \in Runs |-> "idle"]
  /\ turns = [r \in Runs |-> 0]
  /\ batch = [r \in Runs |-> {}]
  /\ raised = {}

-----------------------------------------------------------------------------
(* Runs *)

Start(t) ==
  /\ t \in Tops /\ run[t] = "idle"
  /\ run' = [run EXCEPT ![t] = "model"]
  /\ UNCHANGED <<cap, place, turns, batch, raised>>

\* The model answers with calls, all of which go to the executor at once.
Asks(r) ==
  /\ run[r] = "model" /\ turns[r] < MaxTurns
  /\ \E calls \in SUBSET {c \in ToolCalls : By[c] = r /\ place[c] = "idle"} :
       /\ calls # {}
       /\ place' = [c \in ToolCalls |-> IF c \in calls THEN "waiting" ELSE place[c]]
       /\ batch' = [batch EXCEPT ![r] = calls]
  /\ turns' = [turns EXCEPT ![r] = @ + 1]
  /\ run' = [run EXCEPT ![r] = "tools"]
  /\ UNCHANGED <<cap, raised>>

\* A final answer, a pause, a failure, or no iteration left; a sub-agent that
\* was given no goal ends as soon.
Ends(r) ==
  /\ run[r] = "model"
  /\ run' = [run EXCEPT ![r] = "done"]
  /\ UNCHANGED <<cap, place, turns, batch, raised>>

BatchEnds(r) ==
  /\ run[r] = "tools"
  /\ \A c \in batch[r] : place[c] = "idle"
  /\ run' = [run EXCEPT ![r] = "model"]
  /\ batch' = [batch EXCEPT ![r] = {}]
  /\ UNCHANGED <<cap, place, turns, raised>>

-----------------------------------------------------------------------------
(* Calls *)

\* A permit is taken; the handler of a sub-agent calls arun.
Enter(c) ==
  /\ place[c] = "waiting" /\ PermitFree
  /\ place' = [place EXCEPT ![c] = "inside"]
  /\ IF c \in Agents
     THEN /\ run' = [run EXCEPT ![c] = "model"]
          /\ turns' = [turns EXCEPT ![c] = 0]
     ELSE UNCHANGED <<run, turns>>
  /\ UNCHANGED <<cap, batch, raised>>

\* The handler returned, or arun raised in it: the call is answered.
Returns(c) ==
  /\ place[c] = "inside"
  /\ c \in Agents => run[c] = "done"
  /\ place' = [place EXCEPT ![c] = "idle"]
  /\ run' = [r \in Runs |-> IF r = c THEN "idle" ELSE run[r]]
  /\ UNCHANGED <<cap, turns, batch, raised>>

\* A cancellation goes from a run to the calls its gather waits for, from a call
\* to the run its handler awaits, and so on down.
ReachedSlip(r) == batch[r]
Reached(r) ==
  {c \in ToolCalls : \A S \in SUBSET ToolCalls :
     batch[r] \subseteq S /\ (\A a \in S \cap Agents : batch[a] \subseteq S) => c \in S}

\* A call and what is cancelled with it.
Below(c) == {c} \cup (IF c \in Agents THEN Reached(c) ELSE {})

\* The telemetry sink raises on an event of the call: at its start, at its end, or
\* when wait_for has expired on its handler, which by then is cancelled.  gather
\* passes the exception on, arun ends, and nobody waits any longer for the other
\* calls of the batch: they go on.
Raises(c) ==
  /\ place[c] = "inside"
  /\ LET gone  == Below(c)
         heard == {By[c]} \cap {r \in Runs : c \in batch[r]}
     IN  /\ place' = [d \in ToolCalls |-> IF d \in gone THEN "idle" ELSE place[d]]
         /\ run' = [r \in Runs |-> IF r \in gone THEN "idle"
                                   ELSE IF r \in heard THEN "done" ELSE run[r]]
         /\ batch' = [r \in Runs |-> IF r \in gone \cup heard THEN {} ELSE batch[r]]
         /\ raised' = raised \cup heard
  /\ UNCHANGED <<cap, turns>>

Withdraw(calls) ==
  /\ place' = [c \in ToolCalls |-> IF c \in calls THEN "idle" ELSE place[c]]
  /\ UNCHANGED <<cap, turns, raised>>

\* wait_for expires on a handler.
Expires(c) ==
  /\ place[c] = "inside"
  /\ Withdraw(Below(c))
  /\ run' = [r \in Runs |-> IF r \in Below(c) THEN "idle" ELSE run[r]]
  /\ batch' = [r \in Runs |-> IF r \in Below(c) THEN {} ELSE batch[r]]

\* The application cancels a run of its own.
CancelRun(t) ==
  /\ t \in Tops /\ run[t] \in {"model", "tools"}
  /\ Withdraw(Reached(t))
  /\ run' = [r \in Runs |-> IF r = t THEN "done"
                            ELSE IF r \in Reached(t) THEN "idle" ELSE run[r]]
  /\ batch' = [r \in Runs |-> IF r \in Reached(t) \cup {t} THEN {} ELSE batch[r]]

Rest ==
  /\ \A t \in Tops : run[t] = "done"
  /\ \A c \in ToolCalls : place[c] = "idle"
  /\ UNCHANGED agentsVars

AgentsNext ==
  \/ \E r \in Runs : Asks(r) \/ Ends(r) \/ BatchEnds(r)
  \/ \E t \in Tops : Start(t) \/ CancelRun(t)
  \/ \E c \in ToolCalls : Enter(c) \/ Returns(c) \/ Raises(c) \/ Expires(c)
  \/ Rest

\* Models answer, handlers end, permits are handed on.  Timers are not assumed
\* here: see RunsEnd.
Fairness ==
  /\ \A r \in Runs : WF_agentsVars(Asks(r) \/ Ends(r)) /\ WF_agentsVars(BatchEnds(r))
  /\ \A c \in ToolCalls : WF_agentsVars(Enter(c)) /\ WF_agentsVars(Returns(c))

AgentsSpec == AgentsInit /\ [][AgentsNext]_agentsVars /\ Fairness

-----------------------------------------------------------------------------
(* Properties *)

\* The shape of the state; an agent's run is under way while its call is inside.
AgentsTypeOK ==
  /\ cap \in Caps
  /\ place \in [ToolCalls -> {"idle", "waiting", "inside"}]
  /\ run \in [Runs -> {"idle", "model", "tools", "done"}]
  /\ turns \in [Runs -> 0..MaxTurns]
  /\ batch \in [Runs -> SUBSET ToolCalls]
  /\ \A r \in Runs : \A c \in batch[r] : By[c] = r
  /\ raised \subseteq Runs
  /\ \A a \in Agents : run[a] # "idle" <=> place[a] = "inside"

\* Timeouts and cancellations reach all the way down: no call of a sub-agent goes
\* on without its run.  Only an exception that gather passes on leaves calls
\* behind, with their permits and their sub-agents (runtime.py:488): those of the run
\* it ends, not those below the call that raised, even when its sink raises on its
\* timeout (executor.py:209) with its agent at work.
OnlyRaisesLeaveCalls ==
  \A c \in ToolCalls : place[c] # "idle" => c \in batch[By[c]] \/ By[c] \in raised

\* Agents that wait for permits which their callers hold do not wait for ever: with
\* more permits than there are calls of sub-agents no timeout is needed, and with
\* fewer the timeouts of the executor see to it.
EnoughPermits == cap = 0 \/ cap > Cardinality(Agents)
Timers == \A c \in ToolCalls : WF_agentsVars(Expires(c))

RunsEnd ==
  []EnoughPermits \/ Timers
    => \A t \in Tops : run[t] # "idle" ~> run[t] = "done"
=============================================================================
