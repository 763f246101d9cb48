--------------------------- MODULE Checkpointers ---------------------------
(***************************************************************************)
(* The three durable checkpointers of lingyia_kit/checkpointers, as one    *)
(* process uses an instance of one of them for one run_id:                 *)
(*   sqlite    a statement is a job of a thread pool (asyncio.to_thread)   *)
(*             that runs it under the instance's lock;                     *)
(*   redis     HSET, and then EXPIRE, are commands sent to the server, for *)
(*             an instance with ttl_seconds;                               *)
(*   postgres  a statement is sent over a pool that the first call makes.  *)
(* A statement is atomic: SQLite's autocommit and the two servers see to   *)
(* it.  A snapshot is known by the call of asave that took it: to_dict and *)
(* json.dumps run before the call first waits.                             *)
(*                                                                         *)
(* Bounds: each call of Calls is made at most once, the process dies       *)
(* MaxCrashes times.  An operator named ...Slip is a plausible slip in the *)
(* definition that follows it; only mutants use it.                        *)
(***************************************************************************)
EXTENDS Naturals, FiniteSets

CONSTANTS Calls, Newer, Backends, MaxCrashes

ASSUME CrashesAssumption == MaxCrashes \in Nat

VARIABLES
  backend,  \* the class of the instance; never changes
  op,       \* [Calls -> {"none", "save", "load", "delete"}]
  pc,       \* [Calls -> Places]
  answer,   \* [Calls -> STRING], "none" while the caller waits or has not called
  read,     \* [Calls -> SUBSET Calls], the row its statement found
  row,      \* the save whose snapshot is stored, if any
  ttl,      \* redis: the key has a time to live
  pool,     \* postgres: self._pool is not None
  table,    \* postgres: the table exists
  closed,   \* sqlite: the connection is closed
  crashes   \* how often the process died

vars == <<backend, op, pc, answer, read, row, ttl, pool, table, closed, crashes>>

\* "pool": in create_pool; "ddl": creating the table; "asked": the job or command
\* was handed over; "running": a thread has the job; "applied": the statement was
\* executed; "expire": EXPIRE was sent.
Places == {"new", "pool", "ddl", "asked", "running", "applied", "expire", "over"}

Awaited(c) == pc[c] \notin {"new", "over"} /\ answer[c] = "none"

Init ==
  /\ backend \in Backends
  /\ op = [c \in Calls |-> "none"]
  /\ pc = [c \in Calls |-> "new"]
  /\ answer = [c \in Calls |-> "none"]
  /\ read = [c \in Calls |-> {}]
  /\ row = {} /\ ttl = FALSE
  /\ pool = FALSE /\ table = FALSE /\ closed = FALSE
  /\ crashes = 0

-----------------------------------------------------------------------------
(* Calls *)

Goes(c, place) == pc' = [pc EXCEPT ![c] = place]

Call(c, place) ==
  /\ pc[c] = "new"
  /\ \E o \in {"save", "load", "delete"} : op' = [op EXCEPT ![c] = o]
  /\ Goes(c, place)
  /\ UNCHANGED <<backend, answer, read, row, ttl, pool, table, closed, crashes>>

SqliteCall(c) == backend = "sqlite" /\ Call(c, "asked")
RedisCall(c) == backend = "redis" /\ Call(c, "asked")
PostgresCall(c) == backend = "postgres" /\ Call(c, IF pool THEN "asked" ELSE "pool")

\* _ensure_pool: self._pool is set before the table is there, and every call
\* that found no pool makes one.
PoolMade(c) ==
  /\ pc[c] = "pool"
  /\ pool' = TRUE
  /\ Goes(c, "ddl")
  /\ UNCHANGED <<backend, op, answer, read, row, ttl, table, closed, crashes>>

TableMade(c) ==
  /\ pc[c] = "ddl"
  /\ table' = TRUE
  /\ Goes(c, "asked")
  /\ UNCHANGED <<backend, op, answer, read, row, ttl, pool, closed, crashes>>

ThreadTakes(c) ==
  /\ backend = "sqlite" /\ pc[c] = "asked"
  /\ Goes(c, "running")
  /\ UNCHANGED <<backend, op, answer, read, row, ttl, pool, table, closed, crashes>>

-----------------------------------------------------------------------------
(* Statements *)

RowAfterSlip(c) ==
  CASE op[c] = "save" -> row \cup {c} [] op[c] = "delete" -> {} [] OTHER -> row
RowAfter(c) ==
  CASE op[c] = "save" -> {c} [] op[c] = "delete" -> {} [] OTHER -> row

Applied(c) ==
  /\ read' = [read EXCEPT ![c] = row]
  /\ row' = RowAfter(c)
  /\ Goes(c, IF Awaited(c) THEN "applied" ELSE "over")
  /\ UNCHANGED <<backend, op, answer, pool, table, closed, crashes>>

\* The statement raises; only a caller that still waits is told.
Raises(c, why) ==
  /\ answer' = [answer EXCEPT ![c] = IF Awaited(c) THEN why ELSE @]
  /\ Goes(c, "over")
  /\ UNCHANGED <<backend, op, read, row, ttl, pool, table, closed, crashes>>

SqliteJob(c) ==
  /\ pc[c] = "running"
  /\ \/ ~closed /\ Applied(c) /\ UNCHANGED ttl
     \/ closed /\ Raises(c, "error")

\* HSET keeps the time to live of a key that exists; DEL takes it away.
RedisCommand(c) ==
  /\ backend = "redis" /\ pc[c] = "asked"
  /\ Applied(c)
  /\ ttl' = (ttl /\ op[c] # "delete")

PostgresStatement(c) ==
  /\ backend = "postgres" /\ pc[c] = "asked"
  /\ \/ table /\ Applied(c) /\ UNCHANGED ttl
     \/ ~table /\ Raises(c, "no_table")

-----------------------------------------------------------------------------
(* Answers *)

\* aload checks schema_version when the row is back.
AnswerToSlip(c) ==
  CASE op[c] = "save" -> "saved"
    [] op[c] = "delete" -> IF read[c] = {} THEN "absent" ELSE "deleted"
    [] OTHER -> IF read[c] = {} THEN "absent" ELSE "loaded"
AnswerTo(c) ==
  CASE op[c] = "save" -> "saved"
    [] op[c] = "delete" -> IF read[c] = {} THEN "absent" ELSE "deleted"
    [] OTHER -> IF read[c] = {} THEN "absent"
                ELSE IF read[c] \subseteq Newer THEN "unknown_version" ELSE "loaded"

ToldExpirySlip(c) == FALSE
ToldExpiry(c) == backend = "redis" /\ op[c] = "save"

Reply(c) ==
  /\ pc[c] = "applied" /\ ~ToldExpiry(c)
  /\ answer' = [answer EXCEPT ![c] = AnswerTo(c)]
  /\ Goes(c, "over")
  /\ UNCHANGED <<backend, op, read, row, ttl, pool, table, closed, crashes>>

\* The second await of RedisCheckpointer.asave.
SendExpire(c) ==
  /\ pc[c] = "applied" /\ ToldExpiry(c)
  /\ Goes(c, "expire")
  /\ UNCHANGED <<backend, op, answer, read, row, ttl, pool, table, closed, crashes>>

\* EXPIRE of a key that is gone does nothing, and asave does not look.
Expire(c) ==
  /\ pc[c] = "expire"
  /\ ttl' = (row # {})
  /\ answer' = [answer EXCEPT ![c] = IF Awaited(c) THEN AnswerTo(c) ELSE @]
  /\ Goes(c, "over")
  /\ UNCHANGED <<backend, op, read, row, pool, table, closed, crashes>>

KeyExpires ==
  /\ ttl /\ row # {}
  /\ row' = {} /\ ttl' = FALSE
  /\ UNCHANGED <<backend, op, pc, answer, read, pool, table, closed, crashes>>

-----------------------------------------------------------------------------
(* Callers that go, and the instance's end *)

\* A job still queued is withdrawn with its future; a job that a thread has, and
\* what was sent to a server, can no longer be stopped.
StaysBehind(c) == pc[c] \in {"running", "expire"} \/ (pc[c] = "asked" /\ backend # "sqlite")

\* The caller's task is cancelled, or its connection breaks.
Leave(c, why) ==
  /\ Awaited(c)
  /\ why = "error" => backend # "sqlite"
  /\ answer' = [answer EXCEPT ![c] = why]
  /\ pc' = [pc EXCEPT ![c] = IF StaysBehind(c) THEN @ ELSE "over"]
  /\ table' \in {table, table \/ pc[c] = "ddl"}
  /\ UNCHANGED <<backend, op, read, row, ttl, pool, closed, crashes>>

\* What was sent never arrives.
Dropped(c) ==
  /\ pc[c] \in {"asked", "expire"} /\ answer[c] # "none"
  /\ Goes(c, "over")
  /\ UNCHANGED <<backend, op, answer, read, row, ttl, pool, table, closed, crashes>>

\* The process dies, its threads with it; the next one makes a new instance.
Crash ==
  /\ crashes < MaxCrashes
  /\ crashes' = crashes + 1
  /\ answer' = [c \in Calls |-> IF Awaited(c) THEN "cancelled" ELSE answer[c]]
  /\ pc' = [c \in Calls |->
              IF pc[c] = "new" \/ (StaysBehind(c) /\ pc[c] # "running") THEN pc[c] ELSE "over"]
  /\ table' \in {table, table \/ \E c \in Calls : pc[c] = "ddl"}
  /\ pool' = FALSE /\ closed' = FALSE
  /\ UNCHANGED <<backend, op, read, row, ttl>>

\* SqliteCheckpointer.close and PostgresCheckpointer.aclose; the pool's close
\* waits for the connections in use.  A closed redis client connects again.
Close ==
  /\ \/ backend = "sqlite" /\ ~closed /\ closed' = TRUE /\ UNCHANGED pool
     \/ /\ backend = "postgres" /\ pool /\ pool' = FALSE /\ UNCHANGED closed
        /\ \A c \in Calls : Awaited(c) => pc[c] = "pool"
  /\ UNCHANGED <<backend, op, pc, answer, read, row, ttl, table, crashes>>

AllOver == (\A c \in Calls : pc[c] = "over") /\ UNCHANGED vars

Next ==
  \/ \E c \in Calls :
       \/ SqliteCall(c) \/ RedisCall(c) \/ PostgresCall(c)
       \/ PoolMade(c) \/ TableMade(c) \/ ThreadTakes(c)
       \/ SqliteJob(c) \/ RedisCommand(c) \/ PostgresStatement(c)
       \/ Reply(c) \/ SendExpire(c) \/ Expire(c)
       \/ \E why \in {"cancelled", "error"} : Leave(c, why)
       \/ Dropped(c)
  \/ KeyExpires \/ Crash \/ Close \/ AllOver

Spec == Init /\ [][Next]_vars

-----------------------------------------------------------------------------
(* Properties *)

\* Every variable keeps to its values; at most one snapshot is stored.
TypeOK ==
  /\ backend \in Backends
  /\ op \in [Calls -> {"none", "save", "load", "delete"}]
  /\ pc \in [Calls -> Places]
  /\ answer \in [Calls -> {"none", "saved", "loaded", "absent", "deleted", "unknown_version",
                           "cancelled", "error", "no_table"}]
  /\ read \in [Calls -> SUBSET Calls]
  /\ row \subseteq Calls /\ Cardinality(row) <= 1
  /\ {ttl, pool, table, closed} \subseteq BOOLEAN
  /\ crashes \in 0..MaxCrashes

\* With ttl_seconds set, a stored run is one that will expire ("Optional TTL auto-
\* expires old runs", redis.py:29) -- but for a save between its two commands, and
\* one that was cut short there: that run stays for ever.
KeysExpire ==
  backend = "redis" => \A c \in row :
    ttl \/ pc[c] \in {"applied", "expire"} \/ answer[c] \in {"cancelled", "error"}

\* Whatever the backend, and with calls that overlap, are cancelled, break or die:
\* answered calls took effect once between their start and their answer, ones that
\* failed by themselves (no connection, no table, closed) never, and ones whose
\* connection broke or whose caller left at most once.
Stage(c) ==
  CASE pc[c] \in {"pool", "ddl", "asked", "running"} ->
         IF answer[c] = "none" THEN "open" ELSE "left"
    [] pc[c] \in {"applied", "expire"} -> IF answer[c] = "none" THEN "done" ELSE "over"
    [] OTHER -> pc[c]

Store == INSTANCE CheckpointStore WITH
  mortal <- backend = "redis",
  stage <- [c \in Calls |-> Stage(c)],
  held <- row,
  answer <- [c \in Calls |-> IF answer[c] = "no_table" THEN "error" ELSE answer[c]]

ImplementsStore == Store!Spec
=============================================================================
