----------------------------- MODULE Streaming -----------------------------
(***************************************************************************)
(* Runtime.astream of lingyia_core/runtime.py: generators that replace the *)
(* runtime's telemetry sink while they run an agent, on a Runtime that     *)
(* other runs share.  A step goes from one suspension to the next: the     *)
(* agent's task between its awaits, the generator in asyncio.wait or at a  *)
(* yield.                                                                  *)
(*                                                                         *)
(* A chain of sinks is the sequence of what it forwards to: the runtime's  *)
(* own sink, "primary", then the queues of the streams.  An event is the   *)
(* run it is of and its number in that run.                                *)
(***************************************************************************)
EXTENDS Naturals, Sequences, FiniteSets

CONSTANTS
  Streams,    \* calls of astream, each with a run of its own
  Plain,      \* runs that use arun on the same Runtime
  MaxEvents   \* bound: [Runs -> Nat], events of a run

Runs == Streams \cup Plain

ASSUME StreamingAssumption ==
  /\ Streams \cap Plain = {}
  /\ "primary" \notin Runs
  /\ MaxEvents \in [Runs -> Nat]

VARIABLES
  telemetry,  \* Runtime.telemetry: the sinks an event goes to, in order
  original,   \* [Streams -> ...]: original_telemetry of the generator
  gen,        \* [Streams -> where the generator is suspended]
  run,        \* [Runs -> how far the run is]
  emitted,    \* [Runs -> Nat]: how many events the run emitted
  queue,      \* [Streams -> Seq(Events)]: what waits to be yielded
  yielded,    \* history: [Streams -> Seq(Events)], what the consumer got
  logged,     \* history: Seq(Events), what the runtime's own sink got
  met         \* history: the streams that were open together with another one

vars == <<telemetry, original, gen, run, emitted, queue, yielded, logged,
          met>>

Events  == UNION {{r} \X (1..MaxEvents[r]) : r \in Runs}
GenPlaces == {"new", "waiting", "event", "final", "closed"}
Open == {s \in Streams : gen[s] \in {"waiting", "event", "final"}}
Over(r) == run[r] \in {"done", "raised"}

Init ==
  /\ telemetry = <<"primary">>
  /\ original = [s \in Streams |-> <<"primary">>]
  /\ gen = [s \in Streams |-> "new"]
  /\ run = [r \in Runs |-> "new"]
  /\ emitted = [r \in Runs |-> 0]
  /\ queue = [s \in Streams |-> <<>>]
  /\ yielded = [s \in Streams |-> <<>>]
  /\ logged = <<>>
  /\ met = {}

\* The consumer asks for the first time: the sinks are chained and the run starts.
StartSlip(s) ==
  /\ gen[s] = "new"
  /\ original' = [original EXCEPT ![s] = telemetry]
  /\ telemetry' = <<s>>
  /\ run' = [run EXCEPT ![s] = "running"]
  /\ gen' = [gen EXCEPT ![s] = "waiting"]
  /\ met' = IF Open = {} THEN met ELSE met \cup Open \cup {s}
  /\ UNCHANGED <<emitted, queue, yielded, logged>>
Start(s) ==
  /\ gen[s] = "new"
  /\ original' = [original EXCEPT ![s] = telemetry]
  /\ telemetry' = Append(telemetry, s)
  /\ run' = [run EXCEPT ![s] = "running"]
  /\ gen' = [gen EXCEPT ![s] = "waiting"]
  /\ met' = IF Open = {} THEN met ELSE met \cup Open \cup {s}
  /\ UNCHANGED <<emitted, queue, yielded, logged>>

Arun(r) ==
  /\ run[r] = "new"
  /\ run' = [run EXCEPT ![r] = "running"]
  /\ UNCHANGED <<telemetry, original, gen, emitted, queue, yielded, logged, met>>

\* _emit: the event goes to whatever sinks the runtime has now.
To(sink) == \E k \in 1..Len(telemetry) : telemetry[k] = sink

Emit(r) ==
  /\ run[r] = "running" /\ emitted[r] < MaxEvents[r]
  /\ emitted' = [emitted EXCEPT ![r] = @ + 1]
  /\ LET event == <<r, emitted[r] + 1>>
     IN  /\ queue' = [s \in Streams |-> IF To(s) THEN Append(queue[s], event) ELSE queue[s]]
         /\ logged' = IF To("primary") THEN Append(logged, event) ELSE logged
  /\ UNCHANGED <<telemetry, original, gen, run, yielded, met>>

RunEnds(r) ==
  /\ run[r] = "running"
  /\ \E end \in {"done", "raised"} : run' = [run EXCEPT ![r] = end]
  /\ UNCHANGED <<telemetry, original, gen, emitted, queue, yielded, logged, met>>

YieldEvent(s) ==
  /\ queue[s] # <<>>
  /\ yielded' = [yielded EXCEPT ![s] = Append(@, Head(queue[s]))]
  /\ queue' = [queue EXCEPT ![s] = Tail(@)]
  /\ gen' = [gen EXCEPT ![s] = "event"]
  /\ UNCHANGED <<telemetry, original, run, emitted, logged, met>>

\* The generator's finally clause.
RestoreSlip(s) == UNCHANGED telemetry
Restore(s) == telemetry' = original[s]

\* ("final", result), or the exception of the run.
YieldFinal(s) ==
  /\ \/ /\ run[s] = "done"
        /\ gen' = [gen EXCEPT ![s] = "final"]
        /\ UNCHANGED telemetry
     \/ /\ run[s] = "raised"
        /\ gen' = [gen EXCEPT ![s] = "closed"]
        /\ Restore(s)
  /\ UNCHANGED <<original, run, emitted, queue, yielded, logged, met>>

\* asyncio.wait returns: an event is there, or the run is over and none is.  (An
\* event put while the getter is being cancelled stays in the queue.)
WakeSlip(s) ==
  /\ gen[s] = "waiting"
  /\ YieldEvent(s)
Wake(s) ==
  /\ gen[s] = "waiting"
  /\ \/ YieldEvent(s)
     \/ queue[s] = <<>> /\ Over(s) /\ YieldFinal(s)

\* The consumer asks for more: the generator waits, or drains the queue of a run
\* that is over.
MoreSlip(s) ==
  /\ gen[s] = "event"
  /\ \/ /\ ~Over(s)
        /\ gen' = [gen EXCEPT ![s] = "waiting"]
        /\ UNCHANGED <<telemetry, original, run, emitted, queue, yielded, logged, met>>
     \/ Over(s) /\ YieldFinal(s)
More(s) ==
  /\ gen[s] = "event"
  /\ \/ /\ ~Over(s)
        /\ gen' = [gen EXCEPT ![s] = "waiting"]
        /\ UNCHANGED <<telemetry, original, run, emitted, queue, yielded, logged, met>>
     \/ Over(s) /\ YieldEvent(s)
     \/ Over(s) /\ queue[s] = <<>> /\ YieldFinal(s)

\* The consumer runs the generator to its end; or closes it at a yield or is
\* cancelled while it waits, and the run goes on by itself.
Finish(s) ==
  /\ gen[s] = "final"
  /\ gen' = [gen EXCEPT ![s] = "closed"]
  /\ Restore(s)
  /\ UNCHANGED <<original, run, emitted, queue, yielded, logged, met>>

Close(s) ==
  /\ s \in Open
  /\ gen' = [gen EXCEPT ![s] = "closed"]
  /\ Restore(s)
  /\ UNCHANGED <<original, run, emitted, queue, yielded, logged, met>>

Rest ==
  /\ \A r \in Runs : Over(r)
  /\ \A s \in Streams : gen[s] = "closed"
  /\ UNCHANGED vars

Next ==
  \/ \E s \in Streams :
       \/ Start(s) \/ Wake(s) \/ More(s) \/ Finish(s) \/ Close(s)
  \/ \E r \in Plain : Arun(r)
  \/ \E r \in Runs : Emit(r) \/ RunEnds(r)
  \/ Rest

\* Runs end (RunLoop's CallsReturn), the event loop wakes the generators, and the
\* consumers go on asking.  Nobody has to start a run.
Fairness ==
  /\ \A r \in Runs : WF_vars(RunEnds(r))
  /\ \A s \in Streams : WF_vars(Wake(s)) /\ WF_vars(More(s)) /\ WF_vars(Finish(s))

Spec == Init /\ [][Next]_vars /\ Fairness

-----------------------------------------------------------------------------
(* Properties *)

\* The shape of the state; a chain of sinks begins with the runtime's own.
TypeOK ==
  /\ telemetry \in Seq(Streams \cup {"primary"})
  /\ telemetry # <<>> /\ Head(telemetry) = "primary"
  /\ original \in [Streams -> Seq(Streams \cup {"primary"})]
  /\ gen \in [Streams -> GenPlaces]
  /\ run \in [Runs -> {"new", "running", "done", "raised"}]
  /\ emitted \in [Runs -> Nat]
  /\ queue \in [Streams -> Seq(Events)]
  /\ yielded \in [Streams -> Seq(Events)]
  /\ logged \in Seq(Events)
  /\ met \subseteq Streams

Got(s, n) == \E k \in 1..Len(yielded[s]) : yielded[s][k] = <<s, n>>

\* The consumer gets the events of its run in the order they were emitted, none
\* twice and none skipped; and at ("final", result) all of them.
Complete(s) ==
  /\ \A k \in 1..Len(yielded[s]) : \A n \in 1..emitted[s] :
       yielded[s][k] = <<s, n>> =>
         /\ \A m \in 1..(n - 1) : \E j \in 1..(k - 1) : yielded[s][j] = <<s, m>>
         /\ \A j \in 1..(k - 1) : yielded[s][j] # <<s, n>>
  /\ gen[s] = "final" => \A n \in 1..emitted[s] : Got(s, n)

\* "("event", TelemetryEvent) for each emitted telemetry event" (runtime.py:209).
StreamComplete == \A s \in Streams : Complete(s)

\* That much holds of a stream that was open with no other, whatever runs and
\* abandoned or overlapping streams came before it.
LoneStreamComplete == \A s \in Streams \ met : Complete(s)

\* The runtime's own sink gets every event of every run, in the order they were
\* emitted, whatever streams are open, overlap, fail or are given up.
NothingHidden ==
  /\ \A r \in Runs : \A n \in 1..emitted[r] :
       \E k \in 1..Len(logged) : logged[k] = <<r, n>>
  /\ \A j, k \in 1..Len(logged) :
       j < k => logged[j][1] # logged[k][1] \/ logged[j][2] < logged[k][2]

\* Between streams that were opened one at a time the runtime has its own sink
\* back, and no queue is fed.
Restored == Open = {} /\ met = {} => telemetry = <<"primary">>

\* A stream whose consumer goes on asking comes to its end, however many events
\* wait when its run is over.
StreamsEnd == \A s \in Streams : gen[s] # "new" ~> gen[s] = "closed"
=============================================================================
