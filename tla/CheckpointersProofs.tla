------------------------ MODULE CheckpointersProofs ------------------------
(* What holds of a checkpointer of any backend, for any number of calls that *)
(* overlap, are cancelled, break or die, and that it is a CheckpointStore.   *)
EXTENDS Checkpointers, FiniteSetTheorems, TLAPS

\* TypeOK without the number of snapshots.
Shape ==
  /\ backend \in Backends
  /\ op \in [Calls -> {"none", "save", "load", "delete"}]
  /\ pc \in [Calls -> Places]
  /\ answer \in [Calls -> {"none", "saved", "loaded", "absent", "deleted", "unknown_version",
                           "cancelled", "error", "no_table"}]
  /\ read \in [Calls -> SUBSET Calls]
  /\ ttl \in BOOLEAN /\ pool \in BOOLEAN /\ table \in BOOLEAN /\ closed \in BOOLEAN
  /\ crashes \in 0..MaxCrashes

\* One snapshot at most is stored, a save's; only a Redis key has a time to live.
RowOK ==
  /\ row = {} \/ \E c \in Calls : row = {c}
  /\ \A c \in row : op[c] = "save" /\ pc[c] # "new"
  /\ ttl => backend = "redis"

\* A call under way has no answer, or its caller is gone, and then it is no longer
\* about to be answered.  Only SQLite's statements are jobs, and only a save of Redis
\* has a second command to wait for.
AnswerOK ==
  \A c \in Calls :
    /\ pc[c] # "new" => op[c] # "none"
    /\ pc[c] = "running" => backend = "sqlite"
    /\ pc[c] = "expire" => backend = "redis" /\ op[c] = "save"
    /\ pc[c] \in {"new", "applied"} => answer[c] = "none"
    /\ pc[c] \notin {"new", "over"} => answer[c] \in {"none", "cancelled", "error"}

CheckpointInv == Shape /\ RowOK /\ AnswerOK /\ KeysExpire

LEMMA CheckpointInit == Init => CheckpointInv
<1> SUFFICES ASSUME Init PROVE CheckpointInv
  OBVIOUS
<1>1. Shape
  <2>1. /\ backend \in Backends /\ crashes = 0
        /\ ttl = FALSE /\ pool = FALSE /\ table = FALSE /\ closed = FALSE
    BY DEF Init
  <2>2. /\ op = [c \in Calls |-> "none"] /\ pc = [c \in Calls |-> "new"]
        /\ answer = [c \in Calls |-> "none"] /\ read = [c \in Calls |-> {}]
    BY DEF Init
  <2>3. crashes \in 0..MaxCrashes
    BY <2>1, CrashesAssumption
  <2>4. QED BY <2>1, <2>2, <2>3 DEF Shape, Places
<1>2. RowOK /\ AnswerOK /\ KeysExpire
  BY DEF Init, RowOK, AnswerOK, KeysExpire
<1>3. QED BY <1>1, <1>2 DEF CheckpointInv

\* Every answer is one the caller may get.
LEMMA AnswersTyped ==
  ASSUME NEW c
  PROVE  AnswerTo(c) \in {"saved", "loaded", "absent", "deleted", "unknown_version"}
BY DEF AnswerTo

\* A statement of a backend is executed: for redis, with the time to live it leaves.
LEMMA AppliedKeeps ==
  ASSUME CheckpointInv, NEW c \in Calls, pc[c] \in {"asked", "running"}, Applied(c),
         ttl' \in BOOLEAN, ttl' => backend = "redis",
         backend = "redis" /\ op[c] # "delete" => ttl' = ttl
  PROVE  CheckpointInv'
<1>1. /\ pc' = [pc EXCEPT ![c] = IF Awaited(c) THEN "applied" ELSE "over"]
      /\ read' = [read EXCEPT ![c] = row] /\ row' = RowAfter(c)
      /\ UNCHANGED <<backend, op, answer, pool, table, closed, crashes>>
      /\ Awaited(c) <=> answer[c] = "none"
  BY DEF Applied, Goes, Awaited
<1>2. row \subseteq Calls
  BY DEF CheckpointInv, RowOK
<1>3. Shape'
  BY <1>1, <1>2 DEF CheckpointInv, Shape, Places
<1>4. \/ op[c] = "save" /\ row' = {c}
      \/ op[c] = "delete" /\ row' = {}
      \/ op[c] \notin {"save", "delete"} /\ row' = row
  BY <1>1 DEF RowAfter
<1>5. /\ \A d \in Calls : d # c => pc'[d] = pc[d]
      /\ pc'[c] = IF answer[c] = "none" THEN "applied" ELSE "over"
      /\ answer[c] \in {"none", "cancelled", "error"}
  BY <1>1 DEF CheckpointInv, Shape, AnswerOK
<1>6. RowOK'
  BY <1>1, <1>2, <1>4, <1>5 DEF CheckpointInv, RowOK
<1>7. AnswerOK'
  BY <1>1, <1>5 DEF CheckpointInv, AnswerOK
<1>8. KeysExpire'
  BY <1>1, <1>2, <1>4, <1>5 DEF CheckpointInv, KeysExpire
<1>9. QED BY <1>3, <1>6, <1>7, <1>8 DEF CheckpointInv

LEMMA RaisesKeeps ==
  ASSUME CheckpointInv, NEW c \in Calls, pc[c] \in {"asked", "running"},
         backend # "redis", NEW why \in {"error", "no_table"}, Raises(c, why)
  PROVE  CheckpointInv'
<1>1. /\ answer' = [answer EXCEPT ![c] = IF Awaited(c) THEN why ELSE @]
      /\ pc' = [pc EXCEPT ![c] = "over"]
      /\ UNCHANGED <<backend, op, read, row, ttl, pool, table, closed, crashes>>
  BY DEF Raises, Goes
<1>2. Shape'
  BY <1>1 DEF CheckpointInv, Shape, Places
<1>3. RowOK' /\ AnswerOK' /\ KeysExpire'
  BY <1>1 DEF CheckpointInv, Shape, RowOK, AnswerOK, KeysExpire
<1>4. QED BY <1>2, <1>3 DEF CheckpointInv

LEMMA CheckpointStep == CheckpointInv /\ [Next]_vars => CheckpointInv'
<1> SUFFICES ASSUME CheckpointInv, [Next]_vars PROVE CheckpointInv'
  OBVIOUS
<1> USE DEF CheckpointInv
<1>1. ASSUME NEW c \in Calls, NEW place \in {"asked", "pool"}, Call(c, place)
      PROVE  CheckpointInv'
  <2>1. PICK o \in {"save", "load", "delete"} : op' = [op EXCEPT ![c] = o]
    BY <1>1 DEF Call
  <2>2. /\ pc[c] = "new" /\ pc' = [pc EXCEPT ![c] = place]
        /\ UNCHANGED <<backend, answer, read, row, ttl, pool, table, closed, crashes>>
    BY <1>1 DEF Call, Goes
  <2>3. Shape'
    BY <2>1, <2>2 DEF Shape, Places
  <2>4. RowOK' /\ AnswerOK' /\ KeysExpire'
    BY <2>1, <2>2 DEF Shape, RowOK, AnswerOK, KeysExpire
  <2>5. QED BY <2>3, <2>4
<1>2. ASSUME NEW c \in Calls, PoolMade(c) \/ TableMade(c) \/ ThreadTakes(c)
      PROVE  CheckpointInv'
  <2>1. PICK place \in {"ddl", "asked", "running"} :
          /\ place = "running" => backend = "sqlite"
          /\ pc[c] \in {"pool", "ddl", "asked"} /\ pc' = [pc EXCEPT ![c] = place]
          /\ pool' \in {pool, TRUE} /\ table' \in {table, TRUE}
          /\ UNCHANGED <<backend, op, answer, read, row, ttl, closed, crashes>>
    BY <1>2 DEF PoolMade, TableMade, ThreadTakes, Goes
  <2>2. Shape'
    BY <2>1 DEF Shape, Places
  <2>3. RowOK' /\ AnswerOK' /\ KeysExpire'
    BY <2>1 DEF Shape, RowOK, AnswerOK, KeysExpire
  <2>4. QED BY <2>2, <2>3
<1>3. ASSUME NEW c \in Calls, SqliteJob(c) PROVE CheckpointInv'
  <2>1. CASE Applied(c) /\ UNCHANGED ttl
    BY <1>3, <2>1, AppliedKeeps DEF SqliteJob, Shape, RowOK
  <2>2. CASE Raises(c, "error")
    BY <1>3, <2>2, RaisesKeeps DEF SqliteJob, AnswerOK
  <2>3. QED BY <1>3, <2>1, <2>2 DEF SqliteJob
<1>4. ASSUME NEW c \in Calls, RedisCommand(c) PROVE CheckpointInv'
  BY <1>4, AppliedKeeps DEF RedisCommand, Shape, RowOK
<1>5. ASSUME NEW c \in Calls, PostgresStatement(c) PROVE CheckpointInv'
  <2>1. CASE Applied(c) /\ UNCHANGED ttl
    BY <1>5, <2>1, AppliedKeeps DEF PostgresStatement, Shape, RowOK
  <2>2. CASE Raises(c, "no_table")
    BY <1>5, <2>2, RaisesKeeps DEF PostgresStatement
  <2>3. QED BY <1>5, <2>1, <2>2 DEF PostgresStatement
<1>6. ASSUME NEW c \in Calls, Reply(c) PROVE CheckpointInv'
  <2>1. /\ pc[c] = "applied" /\ ~ToldExpiry(c)
        /\ answer' = [answer EXCEPT ![c] = AnswerTo(c)]
        /\ pc' = [pc EXCEPT ![c] = "over"]
        /\ UNCHANGED <<backend, op, read, row, ttl, pool, table, closed, crashes>>
    BY <1>6 DEF Reply, Goes
  <2>2. Shape'
    BY <2>1, AnswersTyped DEF Shape, Places
  <2>3. RowOK' /\ AnswerOK' /\ KeysExpire'
    BY <2>1 DEF Shape, RowOK, AnswerOK, KeysExpire, ToldExpiry
  <2>4. QED BY <2>2, <2>3
<1>7. ASSUME NEW c \in Calls, SendExpire(c) PROVE CheckpointInv'
  <2>1. /\ pc[c] = "applied" /\ backend = "redis" /\ op[c] = "save"
        /\ pc' = [pc EXCEPT ![c] = "expire"]
        /\ UNCHANGED <<backend, op, answer, read, row, ttl, pool, table, closed, crashes>>
    BY <1>7 DEF SendExpire, ToldExpiry, Goes
  <2>2. Shape'
    BY <2>1 DEF Shape, Places
  <2>3. RowOK' /\ AnswerOK' /\ KeysExpire'
    BY <2>1 DEF Shape, RowOK, AnswerOK, KeysExpire
  <2>4. QED BY <2>2, <2>3
<1>8. ASSUME NEW c \in Calls, Expire(c) PROVE CheckpointInv'
  <2>1. /\ pc[c] = "expire" /\ ttl' = (row # {})
        /\ answer' = [answer EXCEPT ![c] = IF Awaited(c) THEN AnswerTo(c) ELSE @]
        /\ pc' = [pc EXCEPT ![c] = "over"]
        /\ UNCHANGED <<backend, op, read, row, pool, table, closed, crashes>>
    BY <1>8 DEF Expire, Goes
  <2>2. Shape'
    BY <2>1, AnswersTyped DEF Shape, Places
  <2>3. RowOK' /\ AnswerOK' /\ KeysExpire'
    BY <2>1 DEF Shape, RowOK, AnswerOK, KeysExpire
  <2>4. QED BY <2>2, <2>3
<1>9. ASSUME KeyExpires PROVE CheckpointInv'
  <2>1. /\ row' = {} /\ ttl' = FALSE
        /\ UNCHANGED <<backend, op, pc, answer, read, pool, table, closed, crashes>>
    BY <1>9 DEF KeyExpires
  <2>2. Shape' /\ RowOK' /\ AnswerOK' /\ KeysExpire'
    BY <2>1 DEF Shape, RowOK, AnswerOK, KeysExpire
  <2>3. QED BY <2>2
<1>10. ASSUME NEW c \in Calls, NEW why \in {"cancelled", "error"}, Leave(c, why)
       PROVE  CheckpointInv'
  <2>1. /\ pc[c] \notin {"new", "over"}
        /\ answer' = [answer EXCEPT ![c] = why]
        /\ pc' = [pc EXCEPT ![c] = IF StaysBehind(c) THEN @ ELSE "over"]
        /\ table' \in BOOLEAN
        /\ UNCHANGED <<backend, op, read, row, ttl, pool, closed, crashes>>
    BY <1>10 DEF Leave, Awaited, Shape
  <2>2. Shape'
    BY <2>1 DEF Shape, Places
  <2>3. pc[c] = "applied" => ~StaysBehind(c)
    BY DEF StaysBehind
  <2>4. RowOK' /\ AnswerOK' /\ KeysExpire'
    BY <2>1, <2>3 DEF Shape, RowOK, AnswerOK, KeysExpire
  <2>5. QED BY <2>2, <2>4
<1>11. ASSUME NEW c \in Calls, Dropped(c) PROVE CheckpointInv'
  <2>1. /\ pc[c] \in {"asked", "expire"} /\ answer[c] \in {"cancelled", "error"}
        /\ pc' = [pc EXCEPT ![c] = "over"]
        /\ UNCHANGED <<backend, op, answer, read, row, ttl, pool, table, closed, crashes>>
    BY <1>11 DEF Dropped, Goes, AnswerOK
  <2>2. Shape'
    BY <2>1 DEF Shape, Places
  <2>3. RowOK' /\ AnswerOK' /\ KeysExpire'
    BY <2>1 DEF Shape, RowOK, AnswerOK, KeysExpire
  <2>4. QED BY <2>2, <2>3
<1>12. ASSUME Crash PROVE CheckpointInv'
  <2>1. /\ crashes < MaxCrashes /\ crashes' = crashes + 1
        /\ table' \in BOOLEAN /\ pool' = FALSE /\ closed' = FALSE
        /\ UNCHANGED <<backend, op, read, row, ttl>>
    BY <1>12 DEF Crash, Shape
  <2>2. /\ answer' = [c \in Calls |-> IF Awaited(c) THEN "cancelled" ELSE answer[c]]
        /\ pc' = [c \in Calls |->
                   IF pc[c] = "new" \/ (StaysBehind(c) /\ pc[c] # "running") THEN pc[c] ELSE "over"]
    BY <1>12 DEF Crash
  <2>3. Shape'
    <3>1. crashes' \in 0..MaxCrashes
      BY <2>1, CrashesAssumption DEF Shape
    <3>2. pc' \in [Calls -> Places]
      BY <2>2 DEF Shape, Places
    <3>3. /\ answer' \in [Calls -> {"none", "saved", "loaded", "absent", "deleted",
                                    "unknown_version", "cancelled", "error", "no_table"}]
          /\ op' \in [Calls -> {"none", "save", "load", "delete"}]
      BY <2>1, <2>2 DEF Shape
    <3>4. QED BY <2>1, <3>1, <3>2, <3>3 DEF Shape
  <2>4. \A c \in Calls :
          /\ answer'[c] = IF pc[c] \notin {"new", "over"} /\ answer[c] = "none"
                          THEN "cancelled" ELSE answer[c]
          /\ \/ pc'[c] = pc[c] /\ pc[c] \in {"new", "asked", "expire"}
             \/ pc[c] # "new" /\ pc'[c] = "over"
    <3> SUFFICES ASSUME NEW c \in Calls
                 PROVE  /\ answer'[c] = IF pc[c] \notin {"new", "over"} /\ answer[c] = "none"
                                        THEN "cancelled" ELSE answer[c]
                        /\ \/ pc'[c] = pc[c] /\ pc[c] \in {"new", "asked", "expire"}
                           \/ pc[c] # "new" /\ pc'[c] = "over"
      OBVIOUS
    <3>1. QED BY <2>2 DEF Awaited, StaysBehind
  <2>5. RowOK' /\ AnswerOK' /\ KeysExpire'
    BY <2>1, <2>4 DEF Shape, RowOK, AnswerOK, KeysExpire
  <2>6. QED BY <2>3, <2>5
<1>13. ASSUME Close PROVE CheckpointInv'
  <2>1. /\ pool' \in BOOLEAN /\ closed' \in BOOLEAN
        /\ UNCHANGED <<backend, op, pc, answer, read, row, ttl, table, crashes>>
    BY <1>13 DEF Close, Shape
  <2>2. QED
    BY <2>1 DEF Shape, RowOK, AnswerOK, KeysExpire
<1>14. CASE UNCHANGED vars
  BY <1>14 DEF vars, Shape, RowOK, AnswerOK, KeysExpire
<1>15. QED
  BY <1>1, <1>2, <1>3, <1>4, <1>5, <1>6, <1>7, <1>8, <1>9, <1>10, <1>11, <1>12, <1>13, <1>14
  DEF Next, AllOver, SqliteCall, RedisCall, PostgresCall

THEOREM CheckpointersInvariance == Spec => []CheckpointInv
<1>1. Init => CheckpointInv
  BY CheckpointInit
<1>2. CheckpointInv /\ [Next]_vars => CheckpointInv'
  BY CheckpointStep
<1>3. QED BY <1>1, <1>2, PTL DEF Spec

\* Every variable keeps to its values, and at most one snapshot of a run is stored.
THEOREM TypeCorrect == Spec => []TypeOK
<1>1. CheckpointInv => TypeOK
  <2> SUFFICES ASSUME CheckpointInv PROVE TypeOK
    OBVIOUS
  <2>1. row \subseteq Calls /\ Cardinality(row) <= 1
    <3>1. CASE row = {}
      BY <3>1, FS_EmptySet
    <3>2. ASSUME NEW c \in Calls, row = {c}
          PROVE  row \subseteq Calls /\ Cardinality(row) <= 1
      BY <3>2, FS_Singleton
    <3>3. QED BY <3>1, <3>2 DEF CheckpointInv, RowOK
  <2>2. QED BY <2>1 DEF CheckpointInv, Shape, TypeOK
<1>2. QED BY <1>1, CheckpointersInvariance, PTL

\* With ttl_seconds set, the only stored run that does not expire is that of a save
\* between HSET and EXPIRE, or cut short there (RedisCheckpointer.asave), however
\* many calls overlap.
THEOREM KeysAlwaysExpire == Spec => []KeysExpire
BY CheckpointersInvariance, PTL DEF CheckpointInv

-----------------------------------------------------------------------------
(* A checkpointer is a CheckpointStore *)

StageOf == [c \in Calls |-> Stage(c)]
Told == [c \in Calls |-> IF answer[c] = "no_table" THEN "error" ELSE answer[c]]

\* What a step of one call does to the stages, and to what was told.
LEMMA OneStage ==
  ASSUME NEW c \in Calls,
         \A d \in Calls \ {c} : pc'[d] = pc[d] /\ answer'[d] = answer[d]
  PROVE  StageOf' = [StageOf EXCEPT ![c] = Stage(c)']
BY DEF StageOf, Stage

LEMMA OneTold ==
  ASSUME NEW c \in Calls, Shape, NEW a, answer' = [answer EXCEPT ![c] = a], a # "no_table"
  PROVE  Told' = [Told EXCEPT ![c] = a]
BY DEF Told, Shape

\* The steps between the awaits of a call are not seen.
LEMMA HiddenStep ==
  ASSUME UNCHANGED <<backend, op, row, read>>, StageOf' = StageOf, Told' = Told
  PROVE  UNCHANGED Store!vars
BY DEF Store!vars, StageOf, Told

\* The callers in S are gone, and the calls in later stay behind.
LEMMA LeaveStep ==
  ASSUME UNCHANGED <<backend, op, row, read>>,
         NEW S \in SUBSET Calls, \A c \in S : StageOf[c] \in {"open", "done", "left"},
         NEW later \in SUBSET {c \in S : StageOf[c] # "done"},
         StageOf' = [c \in Calls |-> IF c \in later THEN "left"
                                    ELSE IF c \in S THEN "over" ELSE StageOf[c]],
         NEW why \in {"cancelled", "error"},
         Told' = [c \in Calls |-> IF c \in S /\ StageOf[c] # "left" THEN why ELSE Told[c]]
  PROVE  Store!Leave(S)
BY DEF Store!Leave, StageOf, Told

\* The statement of a call is where it takes effect.
LEMMA AppliedTakesEffect ==
  ASSUME CheckpointInv, NEW c \in Calls, pc[c] \in {"asked", "running"}, Applied(c)
  PROVE  Store!TakeEffect(c)
<1>1. /\ pc' = [pc EXCEPT ![c] = IF answer[c] = "none" THEN "applied" ELSE "over"]
      /\ read' = [read EXCEPT ![c] = row] /\ row' = RowAfter(c)
      /\ UNCHANGED <<backend, op, answer>>
  BY DEF Applied, Goes, Awaited
<1>2. /\ Stage(c) = IF answer[c] = "none" THEN "open" ELSE "left"
      /\ Stage(c)' = IF answer[c] = "none" THEN "done" ELSE "over"
  BY <1>1 DEF Stage, CheckpointInv, Shape
<1>3. StageOf' = [StageOf EXCEPT ![c] = Stage(c)']
  BY <1>1, OneStage DEF CheckpointInv, Shape
<1>4. StageOf[c] = Stage(c)
  BY DEF StageOf
<1>5. StageOf' = [StageOf EXCEPT ![c] = IF @ = "open" THEN "done" ELSE "over"]
  BY <1>2, <1>3, <1>4
<1>6. QED BY <1>1, <1>2, <1>4, <1>5 DEF Store!TakeEffect, RowAfter, StageOf

\* One that raises fails, or is abandoned for good.
LEMMA RaisesIsSeen ==
  ASSUME CheckpointInv, NEW c \in Calls, pc[c] \in {"asked", "running"},
         NEW why \in {"error", "no_table"}, Raises(c, why)
  PROVE  Store!Fail(c) \/ Store!Leave({c})
<1>1. /\ pc' = [pc EXCEPT ![c] = "over"]
      /\ answer' = [answer EXCEPT ![c] = IF answer[c] = "none" THEN why ELSE @]
      /\ UNCHANGED <<backend, op, read, row>>
  BY DEF Raises, Goes, Awaited
<1>2. /\ StageOf[c] = IF answer[c] = "none" THEN "open" ELSE "left"
      /\ Stage(c)' = "over"
  BY <1>1 DEF Stage, StageOf, CheckpointInv, Shape
<1>3. StageOf' = [StageOf EXCEPT ![c] = "over"]
  BY <1>1, <1>2, OneStage DEF CheckpointInv, Shape
<1>4. CASE answer[c] = "none"
  <2>1. Told' = [Told EXCEPT ![c] = "error"]
    BY <1>1, <1>4 DEF Told, CheckpointInv, Shape
  <2>2. QED BY <1>1, <1>2, <1>3, <1>4, <2>1 DEF Store!Fail, StageOf, Told
<1>5. CASE answer[c] # "none"
  <2>1. Told' = Told
    BY <1>1, <1>5 DEF Told, CheckpointInv, Shape
  <2>2. StageOf' = [d \in Calls |-> IF d \in {} THEN "left"
                                   ELSE IF d \in {c} THEN "over" ELSE StageOf[d]]
    BY <1>3 DEF StageOf
  <2>3. Told' = [d \in Calls |-> IF d \in {c} /\ StageOf[d] # "left" THEN "error" ELSE Told[d]]
    BY <1>2, <1>5, <2>1 DEF Told
  <2>4. /\ {c} \in SUBSET Calls /\ \A d \in {c} : StageOf[d] \in {"open", "done", "left"}
        /\ {} \in SUBSET {d \in {c} : StageOf[d] # "done"}
    BY <1>2, <1>5
  <2>5. Store!Leave({c})
    BY <1>1, <2>2, <2>3, <2>4, LeaveStep
  <2>6. QED BY <2>5
<1>6. QED BY <1>4, <1>5

\* The caller is told what the store promised it.
LEMMA AnswerIsPromised ==
  ASSUME CheckpointInv, NEW c \in Calls, pc[c] \in {"applied", "expire"}, answer[c] = "none",
         pc' = [pc EXCEPT ![c] = "over"], answer' = [answer EXCEPT ![c] = AnswerTo(c)],
         UNCHANGED <<backend, op, read, row>>
  PROVE  Store!Return(c)
<1>1. Stage(c)' = "over"
  BY DEF Stage, CheckpointInv, Shape
<1>2. StageOf' = [StageOf EXCEPT ![c] = "over"]
  BY <1>1, OneStage DEF CheckpointInv, Shape
<1>3. StageOf[c] = "done"
  BY DEF StageOf, Stage
<1>4. AnswerTo(c) = Store!Promised(c)
  <2>1. op[c] \in {"save", "load", "delete"}
    BY DEF CheckpointInv, Shape, AnswerOK
  <2>2. QED BY <2>1 DEF AnswerTo, Store!Promised
<1>5. Told' = [Told EXCEPT ![c] = AnswerTo(c)]
  BY AnswersTyped, OneTold DEF CheckpointInv
<1>6. QED BY <1>2, <1>3, <1>4, <1>5 DEF Store!Return, StageOf, Told

\* A caller that goes leaves its call behind, or takes it along.
LEMMA LeaveIsSeen ==
  ASSUME CheckpointInv, NEW c \in Calls, NEW why \in {"cancelled", "error"}, Leave(c, why)
  PROVE  Store!Leave({c})
<1> DEFINE later == IF StaysBehind(c) /\ pc[c] # "expire" THEN {c} ELSE {}
<1>1. /\ pc[c] \notin {"new", "over"} /\ answer[c] = "none"
      /\ answer' = [answer EXCEPT ![c] = why]
      /\ pc' = [pc EXCEPT ![c] = IF StaysBehind(c) THEN @ ELSE "over"]
      /\ UNCHANGED <<backend, op, read, row>>
  BY DEF Leave, Awaited
<1>2. StageOf[c] = IF pc[c] \in {"applied", "expire"} THEN "done" ELSE "open"
  BY <1>1 DEF StageOf, Stage, CheckpointInv, Shape, Places
<1>3. Stage(c)' = IF c \in later THEN "left" ELSE "over"
  BY <1>1 DEF Stage, StaysBehind, CheckpointInv, Shape, Places
<1>4. StageOf' = [StageOf EXCEPT ![c] = Stage(c)']
  BY <1>1, OneStage DEF CheckpointInv, Shape
<1>5. StageOf' = [d \in Calls |-> IF d \in later THEN "left"
                                 ELSE IF d \in {c} THEN "over" ELSE StageOf[d]]
  BY <1>3, <1>4 DEF StageOf
<1>6. Told' = [Told EXCEPT ![c] = why]
  BY <1>1, OneTold DEF CheckpointInv
<1>7. Told' = [d \in Calls |-> IF d \in {c} /\ StageOf[d] # "left" THEN why ELSE Told[d]]
  BY <1>2, <1>6 DEF Told
<1>8. /\ {c} \in SUBSET Calls /\ \A d \in {c} : StageOf[d] \in {"open", "done", "left"}
      /\ later \in SUBSET {d \in {c} : StageOf[d] # "done"}
  BY <1>2 DEF StaysBehind
<1>9. QED BY <1>1, <1>5, <1>7, <1>8, LeaveStep

\* What was sent for a caller that is gone may never arrive.
LEMMA DroppedIsSeen ==
  ASSUME CheckpointInv, NEW c \in Calls, Dropped(c)
  PROVE  Store!Leave({c}) \/ UNCHANGED Store!vars
<1>1. /\ pc[c] \in {"asked", "expire"} /\ answer[c] # "none"
      /\ pc' = [pc EXCEPT ![c] = "over"]
      /\ UNCHANGED <<backend, op, answer, read, row>>
  BY DEF Dropped, Goes
<1>2. Stage(c)' = "over" /\ StageOf[c] = IF pc[c] = "asked" THEN "left" ELSE "over"
  BY <1>1 DEF StageOf, Stage, CheckpointInv, Shape
<1>3. StageOf' = [StageOf EXCEPT ![c] = "over"]
  BY <1>1, <1>2, OneStage DEF CheckpointInv, Shape
<1>4. Told' = Told
  BY <1>1 DEF Told
<1>5. CASE pc[c] = "asked"
  <2>1. StageOf' = [d \in Calls |-> IF d \in {} THEN "left"
                                   ELSE IF d \in {c} THEN "over" ELSE StageOf[d]]
    BY <1>3 DEF StageOf
  <2>2. Told' = [d \in Calls |-> IF d \in {c} /\ StageOf[d] # "left" THEN "error" ELSE Told[d]]
    BY <1>2, <1>4, <1>5 DEF Told
  <2>3. /\ {c} \in SUBSET Calls /\ \A d \in {c} : StageOf[d] \in {"open", "done", "left"}
        /\ {} \in SUBSET {d \in {c} : StageOf[d] # "done"}
    BY <1>2, <1>5
  <2>4. Store!Leave({c})
    BY <1>1, <2>1, <2>2, <2>3, LeaveStep
  <2>5. QED BY <2>4
<1>6. CASE pc[c] = "expire"
  <2>1. StageOf' = StageOf
    BY <1>2, <1>3, <1>6 DEF StageOf
  <2>2. QED BY <1>1, <1>4, <2>1, HiddenStep
<1>7. QED BY <1>1, <1>5, <1>6

\* A process that dies takes its callers along, and what it did not send.
LEMMA CrashIsSeen ==
  ASSUME CheckpointInv, Crash
  PROVE  \E S \in SUBSET Calls : Store!Leave(S)
<1> PICK S \in SUBSET Calls : S = {c \in Calls : StageOf[c] \in {"open", "done", "left"}}
  OBVIOUS
<1> PICK later \in SUBSET S : later = {c \in S : pc[c] = "asked" /\ backend # "sqlite"}
  OBVIOUS
<1>1. /\ answer' = [c \in Calls |-> IF Awaited(c) THEN "cancelled" ELSE answer[c]]
      /\ pc' = [c \in Calls |->
                  IF pc[c] = "new" \/ (StaysBehind(c) /\ pc[c] # "running") THEN pc[c] ELSE "over"]
      /\ UNCHANGED <<backend, op, read, row>>
  BY DEF Crash
<1>2. \A c \in Calls : pc[c] \in Places /\ (pc[c] = "new" => answer[c] = "none")
  BY DEF CheckpointInv, Shape, AnswerOK
<1>3. ASSUME NEW c \in Calls
      PROVE  /\ StageOf'[c] = IF c \in later THEN "left" ELSE IF c \in S THEN "over" ELSE StageOf[c]
             /\ Told'[c] = IF c \in S /\ StageOf[c] # "left" THEN "cancelled" ELSE Told[c]
  <2>1. /\ answer'[c] = IF Awaited(c) THEN "cancelled" ELSE answer[c]
        /\ pc'[c] = IF pc[c] = "new" \/ (StaysBehind(c) /\ pc[c] # "running") THEN pc[c] ELSE "over"
        /\ pc[c] \in Places /\ (pc[c] = "new" => answer[c] = "none")
    BY <1>1, <1>2
  <2>2. StageOf[c] = Stage(c) /\ StageOf'[c] = Stage(c)'
    BY DEF StageOf
  <2>3. /\ Told[c] = IF answer[c] = "no_table" THEN "error" ELSE answer[c]
        /\ Told'[c] = IF answer'[c] = "no_table" THEN "error" ELSE answer'[c]
    BY DEF Told
  <2>4. StageOf'[c] = IF c \in later THEN "left" ELSE IF c \in S THEN "over" ELSE StageOf[c]
    BY <2>1, <2>2 DEF Stage, Awaited, StaysBehind, Places
  <2>5. c \in S /\ StageOf[c] # "left" <=> Awaited(c)
    BY <2>1, <2>2 DEF Stage, Awaited, Places
  <2>6. QED BY <2>1, <2>3, <2>4, <2>5
<1>4. /\ StageOf' = [c \in Calls |-> IF c \in later THEN "left"
                                     ELSE IF c \in S THEN "over" ELSE StageOf[c]]
      /\ Told' = [c \in Calls |-> IF c \in S /\ StageOf[c] # "left" THEN "cancelled" ELSE Told[c]]
  BY <1>3 DEF StageOf, Told
<1>5. /\ S \in SUBSET Calls /\ \A c \in S : StageOf[c] \in {"open", "done", "left"}
      /\ later \in SUBSET {c \in S : StageOf[c] # "done"}
  BY DEF StageOf, Stage
<1>6. Store!Leave(S)
  BY <1>1, <1>4, <1>5, LeaveStep
<1>7. QED BY <1>6

LEMMA StoreInit == Init => Store!Init
<1> SUFFICES ASSUME Init PROVE Store!Init
  OBVIOUS
<1>1. /\ op = [c \in Calls |-> "none"] /\ row = {} /\ read = [c \in Calls |-> {}]
      /\ \A c \in Calls : Stage(c) = "new" /\ answer[c] = "none"
  BY DEF Init, Stage
<1>2. QED BY <1>1 DEF Store!Init

\* Every step of a checkpointer is a step of the store, or is not seen.
LEMMA StoreStep ==
  ASSUME CheckpointInv, [Next]_vars
  PROVE  [Store!Next]_(Store!vars)
<1>1. ASSUME NEW c \in Calls, NEW place \in {"asked", "pool"}, Call(c, place)
      PROVE  Store!Start(c)
  <2>1. PICK o \in {"save", "load", "delete"} : op' = [op EXCEPT ![c] = o]
    BY <1>1 DEF Call
  <2>2. /\ pc[c] = "new" /\ pc' = [pc EXCEPT ![c] = place] /\ answer[c] = "none"
        /\ UNCHANGED <<backend, answer, read, row>>
    BY <1>1 DEF Call, Goes, CheckpointInv, AnswerOK
  <2>3. StageOf[c] = "new" /\ Stage(c)' = "open"
    BY <2>2 DEF StageOf, Stage, CheckpointInv, Shape
  <2>4. StageOf' = [StageOf EXCEPT ![c] = "open"] /\ Told' = Told
    BY <2>2, <2>3, OneStage DEF Told, CheckpointInv, Shape
  <2>5. QED BY <2>1, <2>2, <2>3, <2>4 DEF Store!Start, Store!Ops, StageOf, Told
<1>2. ASSUME NEW c \in Calls, PoolMade(c) \/ TableMade(c) \/ ThreadTakes(c) \/ SendExpire(c)
      PROVE  UNCHANGED Store!vars
  <2>1. /\ UNCHANGED <<backend, op, answer, read, row>>
        /\ \E place \in Places :
             /\ pc' = [pc EXCEPT ![c] = place]
             /\ \/ {pc[c], place} \subseteq {"pool", "ddl", "asked", "running"}
                \/ {pc[c], place} \subseteq {"applied", "expire"}
    BY <1>2 DEF PoolMade, TableMade, ThreadTakes, SendExpire, Goes, Places
  <2>2. Stage(c)' = Stage(c)
    BY <2>1 DEF Stage, CheckpointInv, Shape
  <2>3. StageOf' = StageOf /\ Told' = Told
    BY <2>1, <2>2, OneStage DEF StageOf, Told, CheckpointInv, Shape
  <2>4. QED BY <2>1, <2>3, HiddenStep
<1>3. ASSUME NEW c \in Calls, SqliteJob(c) \/ RedisCommand(c) \/ PostgresStatement(c)
      PROVE  Store!TakeEffect(c) \/ Store!Fail(c) \/ Store!Leave({c})
  <2>1. pc[c] \in {"asked", "running"}
    BY <1>3 DEF SqliteJob, RedisCommand, PostgresStatement
  <2>2. CASE Applied(c)
    BY <2>1, <2>2, AppliedTakesEffect
  <2>3. CASE Raises(c, "error") \/ Raises(c, "no_table")
    BY <2>1, <2>3, RaisesIsSeen
  <2>4. QED BY <1>3, <2>2, <2>3 DEF SqliteJob, RedisCommand, PostgresStatement
<1>4. ASSUME NEW c \in Calls, Reply(c) PROVE Store!Return(c)
  BY <1>4, AnswerIsPromised DEF Reply, Goes, CheckpointInv, AnswerOK
<1>5. ASSUME NEW c \in Calls, Expire(c)
      PROVE  Store!Return(c) \/ UNCHANGED Store!vars
  <2>1. /\ pc[c] = "expire" /\ pc' = [pc EXCEPT ![c] = "over"]
        /\ answer' = [answer EXCEPT ![c] = IF answer[c] = "none" THEN AnswerTo(c) ELSE @]
        /\ UNCHANGED <<backend, op, read, row>>
    BY <1>5 DEF Expire, Goes, Awaited
  <2>2. CASE answer[c] = "none"
    BY <2>1, <2>2, AnswerIsPromised
  <2>3. CASE answer[c] # "none"
    <3>1. answer' = answer /\ StageOf[c] = "over" /\ Stage(c)' = "over"
      BY <2>1, <2>3 DEF StageOf, Stage, CheckpointInv, Shape
    <3>2. StageOf' = [StageOf EXCEPT ![c] = "over"]
      BY <2>1, <3>1, OneStage DEF CheckpointInv, Shape
    <3>3. StageOf' = StageOf /\ Told' = Told
      BY <3>1, <3>2 DEF StageOf, Told
    <3>4. QED BY <2>1, <3>3, HiddenStep
  <2>4. QED BY <2>2, <2>3
<1>6. ASSUME KeyExpires PROVE Store!Forget
  <2>1. /\ backend = "redis" /\ row # {} /\ row' = {}
        /\ UNCHANGED <<backend, op, pc, answer, read>>
    BY <1>6 DEF KeyExpires, CheckpointInv, RowOK
  <2>2. QED BY <2>1 DEF Store!Forget, Stage
<1>7. ASSUME NEW c \in Calls, NEW why \in {"cancelled", "error"}, Leave(c, why)
      PROVE  Store!Leave({c})
  BY <1>7, LeaveIsSeen
<1>8. ASSUME NEW c \in Calls, Dropped(c) PROVE Store!Leave({c}) \/ UNCHANGED Store!vars
  BY <1>8, DroppedIsSeen
<1>9. ASSUME Crash PROVE \E S \in SUBSET Calls : Store!Leave(S)
  BY <1>9, CrashIsSeen
<1>10. ASSUME Close \/ UNCHANGED vars PROVE UNCHANGED Store!vars
  <2>1. UNCHANGED <<backend, op, pc, answer, read, row>>
    BY <1>10 DEF Close, vars
  <2>2. QED BY <2>1, HiddenStep DEF StageOf, Told, Stage
<1>11. ASSUME NEW c \in Calls, Store!Leave({c}) PROVE \E S \in SUBSET Calls : Store!Leave(S)
  <2>1. {c} \in SUBSET Calls
    OBVIOUS
  <2>2. QED BY <1>11, <2>1
<1>12. QED
  BY <1>1, <1>2, <1>3, <1>4, <1>5, <1>6, <1>7, <1>8, <1>9, <1>10, <1>11
  DEF Next, AllOver, SqliteCall, RedisCall, PostgresCall, Store!Next

\* Whichever backend keeps the run, and however its calls overlap, are cancelled,
\* break or die: a call that is answered took effect at one moment between its start
\* and its answer, and was told what the store held then; one that failed by itself
\* did nothing; one whose connection broke or whose caller left took effect once or
\* never.
THEOREM CheckpointersAreStores == Spec => ImplementsStore
<1>1. Init => Store!Init
  BY StoreInit
<1>2. CheckpointInv /\ [Next]_vars => [Store!Next]_(Store!vars)
  BY StoreStep
<1>3. QED
  BY <1>1, <1>2, CheckpointersInvariance, PTL DEF Spec, ImplementsStore, Store!Spec
=============================================================================
