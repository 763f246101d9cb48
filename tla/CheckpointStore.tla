--------------------------- MODULE CheckpointStore ---------------------------
(***************************************************************************)
(* What a caller may rely on of a checkpointer, for one run_id: the store  *)
(* holds at most one snapshot, whole, and a call that is answered took     *)
(* effect at one moment between its start and its answer.  A call that     *)
(* Fails, by itself, did nothing.  A call whose connection broke, or whose *)
(* caller was cancelled or died, took effect once, or never -- perhaps     *)
(* later --, so an exception alone does not tell its caller which.         *)
(*                                                                         *)
(* A snapshot is known by the call of asave that brought it.               *)
(***************************************************************************)
EXTENDS FiniteSets

CONSTANTS
  Calls,  \* calls of asave, aload and adelete
  Newer   \* those of them whose snapshot has a later schema_version

VARIABLES
  mortal,  \* a snapshot has a time to live; never changes
  op,      \* [Calls -> Ops \cup {"none"}]
  stage,   \* [Calls -> {"new", "open", "done", "left", "over"}]
  held,    \* SUBSET Calls: the snapshot held, if any
  read,    \* [Calls -> SUBSET Calls]: what it held when the call took effect
  answer   \* [Calls -> STRING]: what its caller was told

vars == <<mortal, op, stage, held, read, answer>>

Ops == {"save", "load", "delete"}

Promised(c) ==
  CASE op[c] = "save" -> "saved"
    [] op[c] = "delete" -> IF read[c] = {} THEN "absent" ELSE "deleted"
    [] op[c] = "load" /\ read[c] = {} -> "absent"
    [] op[c] = "load" /\ read[c] # {} /\ read[c] \subseteq Newer -> "unknown_version"
    [] OTHER -> "loaded"

Init ==
  /\ mortal \in BOOLEAN
  /\ op = [c \in Calls |-> "none"]
  /\ stage = [c \in Calls |-> "new"]
  /\ held = {}
  /\ read = [c \in Calls |-> {}]
  /\ answer = [c \in Calls |-> "none"]

Start(c) ==
  /\ stage[c] = "new"
  /\ \E o \in Ops : op' = [op EXCEPT ![c] = o]
  /\ stage' = [stage EXCEPT ![c] = "open"]
  /\ UNCHANGED <<mortal, held, read, answer>>

TakeEffect(c) ==
  /\ stage[c] \in {"open", "left"}
  /\ stage' = [stage EXCEPT ![c] = IF @ = "open" THEN "done" ELSE "over"]
  /\ held' = CASE op[c] = "save" -> {c} [] op[c] = "delete" -> {} [] OTHER -> held
  /\ read' = [read EXCEPT ![c] = held]
  /\ UNCHANGED <<mortal, op, answer>>

Return(c) ==
  /\ stage[c] = "done"
  /\ stage' = [stage EXCEPT ![c] = "over"]
  /\ answer' = [answer EXCEPT ![c] = Promised(c)]
  /\ UNCHANGED <<mortal, op, held, read>>

Fail(c) ==
  /\ stage[c] = "open"
  /\ stage' = [stage EXCEPT ![c] = "over"]
  /\ answer' = [answer EXCEPT ![c] = "error"]
  /\ UNCHANGED <<mortal, op, held, read>>

\* The callers of the calls in S are gone: one was cancelled, or all died.  Some
\* of the calls may take effect later, and an abandoned one may also never do.
Leave(S) ==
  /\ \A c \in S : stage[c] \in {"open", "done", "left"}
  /\ \E later \in SUBSET {c \in S : stage[c] # "done"} :
       stage' = [c \in Calls |-> IF c \in later THEN "left"
                                 ELSE IF c \in S THEN "over" ELSE stage[c]]
  /\ \E why \in {"cancelled", "error"} :
       answer' = [c \in Calls |->
                   IF c \in S /\ stage[c] # "left" THEN why ELSE answer[c]]
  /\ UNCHANGED <<mortal, op, held, read>>

Forget ==
  /\ mortal /\ held # {}
  /\ held' = {}
  /\ UNCHANGED <<mortal, op, stage, read, answer>>

Next ==
  \/ \E c \in Calls : Start(c) \/ TakeEffect(c) \/ Return(c) \/ Fail(c)
  \/ \E S \in SUBSET Calls : Leave(S)
  \/ Forget

Spec == Init /\ [][Next]_vars
=============================================================================
