------------------------ MODULE ProtectedModelProofs ------------------------
(* What holds of a circuit breaker for every threshold and timeout, of a     *)
(* limiter for every burst, and of a ProtectedModel that has both, for any   *)
(* number of callers.                                                        *)
EXTENDS ProtectedModel, TLAPS

USE DEF CB!BreakerAssumption, RL!LimiterAssumption

Places == Ends \cup {"waiting", "model"}

-----------------------------------------------------------------------------
(* The breaker, whoever records what in whatever order.  These are theorems of *)
(* CircuitBreaker: CB!Spec says nothing of callers.                            *)

\* What the code counts is the streak the history records; failures counted while the
\* circuit is open or half open are gone when it closes.
CountersAreStreaks ==
  /\ state = "closed" => failures = streak /\ failures < FailureThreshold
  /\ state = "half_open" => successes = streak
  /\ state # "half_open" => successes = 0

BreakerInv == CB!TypeOK /\ CountersAreStreaks

LEMMA BreakerInvInit == CB!Init => BreakerInv
BY ProtectedAssumption
   DEF CB!Init, BreakerInv, CB!TypeOK, CB!CircuitStates, CountersAreStreaks

LEMMA BreakerInvNext == BreakerInv /\ [CB!Next]_(CB!vars) => BreakerInv'
<1> SUFFICES ASSUME BreakerInv, [CB!Next]_(CB!vars) PROVE BreakerInv'
  OBVIOUS
<1> USE ProtectedAssumption DEF BreakerInv, CB!TypeOK, CB!CircuitStates, CountersAreStreaks
<1>1. CASE CB!Look
  BY <1>1 DEF CB!Look, CB!MayProbe, CB!vars
<1>2. CASE CB!RecordSuccess
  BY <1>2 DEF CB!RecordSuccess, CB!Close, CB!vars
<1>3. CASE CB!RecordFailure
  BY <1>3 DEF CB!RecordFailure, CB!OneMoreFailure, CB!Opens
<1>4. CASE CB!Tick
  BY <1>4 DEF CB!Tick
<1>5. CASE UNCHANGED CB!vars
  BY <1>5 DEF CB!vars
<1>6. QED BY <1>1, <1>2, <1>3, <1>4, <1>5 DEF CB!Next

LEMMA BreakerInvariant == CB!Spec => []BreakerInv
BY BreakerInvInit, BreakerInvNext, PTL DEF CB!Spec

\* _consecutive_failures, while the circuit is closed, is the streak of failures
\* recorded since it closed, and below the threshold; _half_open_successes, while it is
\* half open, the streak of successes recorded since it became so, and 0 in every other
\* state: no result recorded in one state counts in the next (circuit_breaker.py:65-93).
THEOREM CountersAreAlwaysStreaks == CB!Spec => []CountersAreStreaks
<1>1. BreakerInv => CountersAreStreaks
  BY DEF BreakerInv
<1>2. QED BY <1>1, BreakerInvariant, PTL

\* The shape of the breaker's state.
LEMMA BreakerTypeCorrect == CB!Spec => []CB!TypeOK
<1>1. BreakerInv => CB!TypeOK
  BY DEF BreakerInv
<1>2. QED BY <1>1, BreakerInvariant, PTL

\* "consecutive failures count up to threshold" and consecutive successes close
\* (circuit_breaker.py:4-7), whatever results come back in whatever state.
THEOREM StreaksAlwaysAct == CB!Spec => []CB!StreaksAct
<1>1. BreakerInv => CB!StreaksAct
  BY ProtectedAssumption
     DEF BreakerInv, CB!TypeOK, CB!CircuitStates, CountersAreStreaks, CB!StreaksAct
<1>2. QED BY <1>1, BreakerInvariant, PTL

\* The circuit opens, is probed, reopens and closes only as the docstring says.
THEOREM BreakerChangesCorrect == CB!Spec => CB!ChangesAsDocumented
<1> DEFINE Documented ==
      state' # state =>
        \/ state = "closed" /\ state' = "open" /\ streak + 1 = FailureThreshold
        \/ state = "open" /\ state' = "half_open" /\ openFor = Reset
        \/ state = "half_open" /\ state' = "open"
        \/ state = "half_open" /\ state' = "closed" /\ streak + 1 = SuccessThreshold
<1>1. BreakerInv /\ [CB!Next]_(CB!vars) => [Documented]_(CB!vars)
  <2> SUFFICES ASSUME BreakerInv, CB!Next PROVE Documented
    BY DEF CB!vars
  <2> USE ProtectedAssumption DEF BreakerInv, CB!TypeOK, CB!CircuitStates, CountersAreStreaks
  <2>1. CASE CB!Look
    BY <2>1 DEF CB!Look, CB!MayProbe, CB!vars
  <2>2. CASE CB!RecordSuccess
    BY <2>2 DEF CB!RecordSuccess, CB!Close, CB!vars
  <2>3. CASE CB!RecordFailure
    BY <2>3 DEF CB!RecordFailure, CB!OneMoreFailure, CB!Opens
  <2>4. CASE CB!Tick
    BY <2>4 DEF CB!Tick
  <2>5. QED BY <2>1, <2>2, <2>3, <2>4 DEF CB!Next
<1>2. QED BY <1>1, BreakerInvariant, PTL DEF CB!Spec, CB!ChangesAsDocumented

-----------------------------------------------------------------------------
(* The limiter, with tasks that ask for whatever they like.  These are theorems *)
(* of RateLimiter: a specification with fewer Needs implies this one.           *)

Limiter == INSTANCE RateLimiter WITH Tasks <- Callers, Needs <- Nat

\* What the windows of time have taken beyond their length is missing from the
\* bucket, unread refill counted.
Conserved ==
  /\ tokens \in 0..Burst
  /\ unread \in 0..Burst
  /\ need \in [Callers -> Nat]
  /\ at \in [Callers -> Limiter!Places]
  /\ timer \in Nat
  /\ excess \in Nat
  /\ excess + Limiter!Available <= Burst

LEMMA ConservedInit ==
  Limiter!Init => Conserved
BY ProtectedAssumption DEF Limiter!Init, Conserved, Limiter!Available, Limiter!Places

\* One round of the loop keeps the account, for any need.
LEMMA RoundConserves ==
  ASSUME Conserved, NEW t \in Callers, NEW n \in Nat, Limiter!Round(t, n)
  PROVE  /\ tokens' \in 0..Burst /\ unread' \in 0..Burst
         /\ at' \in [Callers -> Limiter!Places]
         /\ timer' \in Nat /\ excess' \in Nat
         /\ excess' + Limiter!Available' <= Burst
<1> USE ProtectedAssumption DEF Conserved
<1>1. Limiter!Available \in 0..Burst
  BY DEF Limiter!Available
<1>2. at' \in [Callers -> Limiter!Places]
  BY DEF Limiter!Round, Limiter!Places
<1>3. /\ tokens' \in 0..Burst /\ unread' \in 0..Burst
      /\ timer' \in Nat /\ excess' \in Nat
      /\ excess' + tokens' <= Burst
  BY <1>1 DEF Limiter!Round, Limiter!Deficit
<1>4. Limiter!Available' = tokens'
  <2>1. unread' = 0
    BY DEF Limiter!Round
  <2>2. Limiter!Available' = IF tokens' + 0 < Burst THEN tokens' + 0 ELSE Burst
    BY <2>1 DEF Limiter!Available
  <2>3. \A left \in 0..Burst : left = IF left + 0 < Burst THEN left + 0 ELSE Burst
    OBVIOUS
  <2>4. QED BY <1>3, <2>2, <2>3
<1>5. QED BY <1>2, <1>3, <1>4

LEMMA ConservedNext ==
  Conserved /\ [Limiter!Next]_(Limiter!vars) => Conserved'
<1> SUFFICES ASSUME Conserved, [Limiter!Next]_(Limiter!vars) PROVE Conserved'
  OBVIOUS
<1> USE ProtectedAssumption
<1>1. CASE \E t \in Callers : \E n \in Nat : Limiter!Acquire(t, n)
  <2>1. PICK t \in Callers, n \in Nat : Limiter!Acquire(t, n)
    BY <1>1
  <2>2. need' \in [Callers -> Nat]
    BY <2>1 DEF Limiter!Acquire, Conserved
  <2>3. CASE Limiter!Round(t, n)
    BY <2>2, <2>3, RoundConserves DEF Conserved
  <2>4. CASE UNCHANGED <<tokens, unread, timer, excess>>
    <3>1. at' \in [Callers -> Limiter!Places]
      BY <2>1, <2>4, RoundConserves DEF Limiter!Acquire, Limiter!AnsweredAtOnce, Conserved, Limiter!Places
    <3>2. QED BY <2>2, <2>4, <3>1 DEF Conserved, Limiter!Available
  <2>5. QED BY <2>1, <2>3, <2>4 DEF Limiter!Acquire, Limiter!AnsweredAtOnce
<1>2. CASE \E t \in Callers : Limiter!Proceed(t)
  <2>1. PICK t \in Callers : Limiter!Proceed(t)
    BY <1>2
  <2>2. need[t] \in Nat /\ Limiter!Round(t, need[t]) /\ need' = need
    BY <2>1 DEF Limiter!Proceed, Conserved
  <2>3. QED BY <2>2, RoundConserves DEF Conserved
<1>3. CASE \E t \in Callers : Limiter!Cancel(t)
  BY <1>3 DEF Limiter!Cancel, Conserved, Limiter!Available, Limiter!Places
<1>4. CASE Limiter!Tick
  BY <1>4 DEF Limiter!Tick, Limiter!Less, Conserved, Limiter!Available
<1>5. CASE UNCHANGED Limiter!vars
  BY <1>5 DEF Limiter!vars, Conserved, Limiter!Available
<1>6. QED BY <1>1, <1>2, <1>3, <1>4, <1>5 DEF Limiter!Next

\* "enforces a smooth target rate with a configurable burst budget"
\* (rate_limiter.py:4): whatever the tasks ask and whoever is cancelled, no
\* window of time takes more tokens than its length and one burst.
THEOREM RateAlwaysConforms ==
  Limiter!Spec => []Limiter!RateConforms
<1>1. Conserved => Limiter!RateConforms
  BY ProtectedAssumption DEF Conserved, Limiter!Available, Limiter!RateConforms
<1>2. QED BY <1>1, ConservedInit, ConservedNext, PTL DEF Limiter!Spec

-----------------------------------------------------------------------------
(* The line of the lock *)

Injective(s) == \A i, j \in 1..Len(s) : s[i] = s[j] => i = j

\* Whoever stands in line waits, in one place; whoever waits asked for what the
\* bucket can hold.
InLine ==
  /\ line \in Seq(Callers)
  /\ Injective(line)
  /\ \A i \in 1..Len(line) : Limiter!Waiting(line[i])
  /\ \A t \in Callers : Limiter!Waiting(t) => need[t] \in 1..Burst
  /\ timer \in 0..Burst

LEMMA LeftIsTheRest ==
  ASSUME line \in Seq(Callers), Injective(line), NEW t \in Callers
  PROVE  /\ Limiter!Left(t) \in Seq(Callers)
         /\ Injective(Limiter!Left(t))
         /\ \A i \in 1..Len(Limiter!Left(t)) :
              Limiter!Left(t)[i] # t /\ \E j \in 1..Len(line) : Limiter!Left(t)[i] = line[j]
<1>1. CASE \E i \in 1..Len(line) : line[i] = t
  <2> DEFINE k == CHOOSE i \in 1..Len(line) : line[i] = t
             rest == [j \in 1..(Len(line) - 1) |-> line[IF j < k THEN j ELSE j + 1]]
  <2> DEFINE from(i) == IF i < k THEN i ELSE i + 1
  <2>1. k \in 1..Len(line) /\ line[k] = t
    BY <1>1
  <2>2. Limiter!Left(t) = rest
    BY <1>1 DEF Limiter!Left
  <2>3. Len(line) \in Nat /\ Len(line) - 1 \in Nat
    BY <2>1
  <2> HIDE DEF k
  <2>4. rest \in Seq(Callers) /\ Len(rest) = Len(line) - 1
    BY <2>1, <2>3
  <2>5. \A i \in 1..Len(rest) :
          from(i) \in 1..Len(line) /\ from(i) # k /\ rest[i] = line[from(i)]
    BY <2>1, <2>3, <2>4
  <2>6. \A i, j \in 1..Len(rest) : from(i) = from(j) => i = j
    BY <2>1, <2>3, <2>4
  <2> HIDE DEF rest, from
  <2>7. Injective(rest)
    <3>1. SUFFICES ASSUME NEW i \in 1..Len(rest), NEW j \in 1..Len(rest), rest[i] = rest[j]
                   PROVE  i = j
      BY DEF Injective
    <3>2. from(i) = from(j)
      BY <2>5, <3>1 DEF Injective
    <3>3. QED BY <2>6, <3>2
  <2>8. \A i \in 1..Len(rest) : rest[i] # t /\ \E j \in 1..Len(line) : rest[i] = line[j]
    BY <2>1, <2>5 DEF Injective
  <2>9. QED BY <2>2, <2>4, <2>7, <2>8
<1>2. CASE ~\E i \in 1..Len(line) : line[i] = t
  BY <1>2 DEF Limiter!Left
<1>3. QED BY <1>1, <1>2

\* One round keeps the line, if the need is what the bucket can hold.
LEMMA RoundKeepsLine ==
  ASSUME Conserved, InLine, NEW t \in Callers, NEW n \in 1..Burst,
         Limiter!Round(t, n), need' = [need EXCEPT ![t] = n]
  PROVE  InLine'
<1>1. CASE Limiter!Available >= n
  <2>1. line' = Limiter!Left(t) /\ at' = [at EXCEPT ![t] = "granted"] /\ timer' = 0
    BY <1>1, ProtectedAssumption DEF Limiter!Round, Conserved, Limiter!Available
  <2>2. /\ line' \in Seq(Callers) /\ Injective(line')
        /\ \A i \in 1..Len(line') :
             line'[i] # t /\ \E j \in 1..Len(line) : line'[i] = line[j]
    BY <2>1, LeftIsTheRest DEF InLine
  <2>3. timer' \in 0..Burst
    BY <2>1, ProtectedAssumption
  <2>4. ASSUME NEW i \in 1..Len(line') PROVE at'[line'[i]] \in {"queued", "asleep"}
    <3>1. PICK j \in 1..Len(line) : line'[i] = line[j] /\ line[j] # t
      BY <2>2
    <3>2. line[j] \in Callers /\ at[line[j]] \in {"queued", "asleep"}
      BY DEF InLine, Limiter!Waiting
    <3>3. QED BY <2>1, <3>1, <3>2 DEF Conserved
  <2>5. ASSUME NEW u \in Callers, at'[u] \in {"queued", "asleep"} PROVE need'[u] \in 1..Burst
    BY <2>1, <2>5 DEF InLine, Conserved, Limiter!Waiting
  <2>6. QED BY <2>2, <2>3, <2>4, <2>5 DEF InLine, Limiter!Waiting
<1>2. CASE Limiter!Available < n
  <2>1. /\ at' = [at EXCEPT ![t] = "asleep"] /\ timer' = n - Limiter!Available
        /\ line' = IF Limiter!Waiting(t) THEN line ELSE Append(line, t)
    BY <1>2, ProtectedAssumption DEF Limiter!Round, Limiter!Deficit, Conserved, Limiter!Available
  <2>2. timer' \in 0..Burst
    BY <1>2, <2>1, ProtectedAssumption DEF Conserved, Limiter!Available
  <2>3. QED BY <2>1, <2>2 DEF InLine, Conserved, Limiter!Waiting, Injective
<1>3. QED BY <1>1, <1>2, ProtectedAssumption DEF Conserved, Limiter!Available

LEMMA InLineNext ==
  Conserved /\ InLine /\ [Limiter!Next]_(Limiter!vars) => InLine'
<1> SUFFICES ASSUME Conserved, InLine, [Limiter!Next]_(Limiter!vars) PROVE InLine'
  OBVIOUS
<1> USE ProtectedAssumption
<1>1. ASSUME NEW t \in Callers, NEW n \in Nat, Limiter!Acquire(t, n) PROVE InLine'
  <2>1. CASE Limiter!AnsweredAtOnce(t, n)
    BY <1>1, <2>1 DEF Limiter!Acquire, Limiter!AnsweredAtOnce, InLine, Conserved, Limiter!Waiting
  <2>2. CASE n \in 1..Burst /\ Limiter!Round(t, n)
    BY <1>1, <2>2, RoundKeepsLine DEF Limiter!Acquire
  <2>3. CASE n \in 1..Burst /\ line # <<>> /\ line' = Append(line, t)
             /\ at' = [at EXCEPT ![t] = "queued"] /\ timer' = timer
    BY <1>1, <2>3 DEF Limiter!Acquire, InLine, Conserved, Limiter!Waiting, Injective
  <2>4. QED BY <1>1, <2>1, <2>2, <2>3 DEF Limiter!Acquire
<1>2. ASSUME NEW t \in Callers, Limiter!Proceed(t) PROVE InLine'
  <2>1. need[t] \in 1..Burst
    BY <1>2 DEF Limiter!Proceed, InLine
  <2>2. need' = [need EXCEPT ![t] = need[t]]
    BY <1>2 DEF Limiter!Proceed, Conserved
  <2>3. QED BY <1>2, <2>1, <2>2, RoundKeepsLine DEF Limiter!Proceed
<1>3. ASSUME NEW t \in Callers, Limiter!Cancel(t) PROVE InLine'
  <2>1. line' = Limiter!Left(t) /\ at' = [at EXCEPT ![t] = "cancelled"] /\ need' = need
    BY <1>3 DEF Limiter!Cancel
  <2>2. timer' \in 0..Burst
    BY <1>3 DEF Limiter!Cancel, InLine
  <2>3. /\ line' \in Seq(Callers) /\ Injective(line')
        /\ \A i \in 1..Len(line') :
             line'[i] # t /\ \E j \in 1..Len(line) : line'[i] = line[j]
    BY <2>1, LeftIsTheRest DEF InLine
  <2>4. ASSUME NEW i \in 1..Len(line') PROVE at'[line'[i]] \in {"queued", "asleep"}
    <3>1. PICK j \in 1..Len(line) : line'[i] = line[j] /\ line[j] # t
      BY <2>3
    <3>2. line[j] \in Callers /\ at[line[j]] \in {"queued", "asleep"}
      BY DEF InLine, Limiter!Waiting
    <3>3. QED BY <2>1, <3>1, <3>2 DEF Conserved
  <2>5. ASSUME NEW u \in Callers, at'[u] \in {"queued", "asleep"} PROVE need'[u] \in 1..Burst
    BY <2>1, <2>5 DEF InLine, Conserved, Limiter!Waiting
  <2>6. QED BY <2>2, <2>3, <2>4, <2>5 DEF InLine, Limiter!Waiting
<1>4. CASE Limiter!Tick
  BY <1>4 DEF Limiter!Tick, Limiter!Less, InLine, Limiter!Waiting
<1>5. CASE UNCHANGED Limiter!vars
  BY <1>5 DEF Limiter!vars, InLine, Limiter!Waiting
<1>6. QED BY <1>1, <1>2, <1>3, <1>4, <1>5 DEF Limiter!Next

\* The shape of the state: no sleep is longer than it takes to fill the bucket.
THEOREM LimiterTypeCorrect ==
  Limiter!Spec => []Limiter!TypeOK
<1>1. Limiter!Init => InLine
  BY ProtectedAssumption DEF Limiter!Init, InLine, Injective, Limiter!Waiting
<1>2. Conserved /\ InLine => Limiter!TypeOK
  BY DEF Conserved, InLine, Limiter!TypeOK
<1>3. QED BY <1>1, <1>2, ConservedInit, ConservedNext, InLineNext, PTL DEF Limiter!Spec

-----------------------------------------------------------------------------
(* The parts in the whole *)

\* Every result reaches the breaker by an operation of its own, so with callers
\* that interleave in any way the circuit still is a CircuitBreaker.
THEOREM BreakerHolds == Spec => CB!Spec
<1>1. Init => CB!Init
  BY DEF Init
<1>2. [Next]_vars => [CB!Next]_(CB!vars)
  <2> SUFFICES ASSUME [Next]_vars PROVE [CB!Next]_(CB!vars)
    OBVIOUS
  <2>1. ASSUME NEW c \in Callers, Begin(c) PROVE CB!Next
    BY <2>1 DEF Begin, CB!Allowed, CB!Next
  <2>2. ASSUME NEW c \in Callers, Reject(c) PROVE CB!Next
    BY <2>2 DEF Reject, CB!Refused, CB!Next
  <2>3. ASSUME NEW c \in Callers, Succeeds(c) PROVE CB!Next
    BY <2>3 DEF Succeeds, CB!Next
  <2>4. ASSUME NEW c \in Callers, Fails(c) PROVE CB!Next
    BY <2>4 DEF Fails, CB!Next
  <2>5. ASSUME NEW c \in Callers, Proceed(c) \/ Cancel(c) PROVE UNCHANGED CB!vars
    BY <2>5 DEF Proceed, Cancel, breakerVars, CB!vars
  <2>6. CASE Tick
    BY <2>6 DEF Tick, CB!Next, breakerVars, CB!vars
  <2>7. CASE UNCHANGED vars
    BY <2>7 DEF vars, CB!vars
  <2>8. QED BY <2>1, <2>2, <2>3, <2>4, <2>5, <2>6, <2>7 DEF Next, ModelEnds
<1>3. QED BY <1>1, <1>2, PTL DEF Spec, CB!Spec

\* And the limiter is used as its own specification allows, so that the calls of
\* the model conform to its rate.
THEOREM LimiterHolds == Spec => RL!Spec
<1>1. Init => RL!Init
  BY DEF Init
<1>2. [Next]_vars => [RL!Next]_(RL!vars)
  <2> SUFFICES ASSUME [Next]_vars PROVE [RL!Next]_(RL!vars)
    OBVIOUS
  <2>1. ASSUME NEW c \in Callers, Begin(c) PROVE RL!Next
    BY <2>1 DEF Begin, RL!Next
  <2>2. ASSUME NEW c \in Callers, Proceed(c) PROVE RL!Next
    BY <2>2 DEF Proceed, RL!Next
  <2>3. ASSUME NEW c \in Callers, Cancel(c) PROVE RL!Next \/ UNCHANGED RL!vars
    BY <2>3 DEF Cancel, RL!Next, limiterVars, RL!vars
  <2>4. ASSUME NEW c \in Callers, Reject(c) \/ ModelEnds(c) PROVE UNCHANGED RL!vars
    BY <2>4 DEF Reject, ModelEnds, Succeeds, Fails, limiterVars, RL!vars
  <2>5. CASE Tick
    BY <2>5 DEF Tick, RL!Next
  <2>6. CASE UNCHANGED vars
    BY <2>6 DEF vars, RL!vars
  <2>7. QED BY <2>1, <2>2, <2>3, <2>4, <2>5, <2>6 DEF Next
<1>3. QED BY <1>1, <1>2, PTL DEF Spec, RL!Spec

-----------------------------------------------------------------------------
\* Calls under way while the circuit is open are at least as old as its opening.
LateInv ==
  /\ state \in CB!CircuitStates
  /\ openFor \in 0..Reset
  /\ pc \in [Callers -> Places]
  /\ age \in [Callers -> 0..(Reset + 1)]
  /\ LateCallsAreOld

LEMMA LateInvInit == Init => LateInv
BY ProtectedAssumption
   DEF Init, CB!Init, LateInv, LateCallsAreOld, Places, Ends, CB!CircuitStates

LEMMA PlaceIsPlace == ASSUME NEW c \in Callers PROVE Place(c) \in Places
BY DEF Place, Places, Ends

\* What a result does to the breaker: it opens it with the clock at zero, or the
\* circuit is open already and nothing is to be seen of the result.
LEMMA RecordsOpenAfresh ==
  ASSUME LateInv, CB!RecordSuccess \/ CB!RecordFailure
  PROVE  /\ state' \in CB!CircuitStates /\ openFor' \in 0..Reset
         /\ state' = "open" => openFor' = 0 \/ (state = "open" /\ openFor' = openFor)
BY ProtectedAssumption
   DEF LateInv, CB!RecordSuccess, CB!RecordFailure, CB!OneMoreFailure, CB!Opens,
       CB!Close, CB!vars, CB!CircuitStates

LEMMA LateInvNext == LateInv /\ [Next]_vars => LateInv'
<1> SUFFICES ASSUME LateInv, [Next]_vars PROVE LateInv'
  OBVIOUS
<1> USE ProtectedAssumption
<1>1. ASSUME NEW c \in Callers, Begin(c) PROVE LateInv'
  <2>1. pc' = [pc EXCEPT ![c] = Place(c)] /\ age' = [age EXCEPT ![c] = 0]
    BY <1>1 DEF Begin
  <2>2. state' # "open" /\ state' \in CB!CircuitStates /\ openFor' = openFor
    BY <1>1 DEF Begin, CB!Allowed, CB!Look, CB!MayProbe, CB!vars, CB!CircuitStates, LateInv
  <2>3. QED BY <2>1, <2>2, PlaceIsPlace DEF LateInv, LateCallsAreOld
<1>2. ASSUME NEW c \in Callers, Reject(c) PROVE LateInv'
  <2>1. pc' = [pc EXCEPT ![c] = "rejected"] /\ age' = age
    BY <1>2 DEF Reject
  <2>2. state' = "open" /\ state = "open" /\ openFor' = openFor
    BY <1>2 DEF Reject, CB!Refused, CB!Look, CB!vars
  <2>3. QED BY <2>1, <2>2 DEF LateInv, LateCallsAreOld, Places, Ends
<1>3. ASSUME NEW c \in Callers, Proceed(c) PROVE LateInv'
  <2>1. /\ pc[c] = "waiting" /\ pc' = [pc EXCEPT ![c] = Place(c)] /\ age' = age
        /\ state' = state /\ openFor' = openFor
    BY <1>3 DEF Proceed, breakerVars
  <2>2. QED BY <2>1, PlaceIsPlace DEF LateInv, LateCallsAreOld
<1>4. ASSUME NEW c \in Callers, ModelEnds(c) PROVE LateInv'
  <2>1. /\ \E end \in {"answered", "raised"} : pc' = [pc EXCEPT ![c] = end]
        /\ age' = age
        /\ CB!RecordSuccess \/ CB!RecordFailure
    BY <1>4 DEF ModelEnds, Succeeds, Fails
  <2>2. /\ state' \in CB!CircuitStates /\ openFor' \in 0..Reset
        /\ state' = "open" => openFor' = 0 \/ (state = "open" /\ openFor' = openFor)
    BY <2>1, RecordsOpenAfresh
  <2>3. QED BY <2>1, <2>2 DEF LateInv, LateCallsAreOld, Places, Ends
<1>5. ASSUME NEW c \in Callers, Cancel(c) PROVE LateInv'
  <2>1. /\ pc' = [pc EXCEPT ![c] = "cancelled"] /\ age' = age
        /\ state' = state /\ openFor' = openFor
    BY <1>5 DEF Cancel, breakerVars
  <2>2. QED BY <2>1 DEF LateInv, LateCallsAreOld, Places, Ends
<1>6. CASE Tick
  <2>1. /\ pc' = pc /\ state' = state
        /\ age' = [d \in Callers |-> IF age[d] <= Reset THEN age[d] + 1 ELSE age[d]]
        /\ \/ openFor < Reset /\ openFor' = openFor + 1
           \/ openFor = Reset /\ openFor' = openFor
    BY <1>6 DEF Tick, CB!Tick, breakerVars
  <2>2. QED BY <2>1 DEF LateInv, LateCallsAreOld
<1>7. CASE UNCHANGED vars
  BY <1>7 DEF vars, LateInv, LateCallsAreOld
<1>8. QED BY <1>1, <1>2, <1>3, <1>4, <1>5, <1>6, <1>7 DEF Next

\* No call gets past the breaker that is younger than the opening of the circuit
\* it runs in: what runs while the circuit is open was allowed before.
THEOREM LateCallsAreAlwaysOld == Spec => []LateCallsAreOld
<1>1. LateInv => LateCallsAreOld
  BY DEF LateInv
<1>2. QED BY <1>1, LateInvInit, LateInvNext, PTL DEF Spec

-----------------------------------------------------------------------------
(* The theorems of the parts, carried over to the whole. *)

\* Calls of the model ask one thing of it, one of those that tasks may ask.
LEMMA AsksAsAnyTask == RL!Spec => Limiter!Spec
<1>1. RL!Init => Limiter!Init
  BY ProtectedAssumption DEF RL!Init, Limiter!Init
<1>2. [RL!Next]_(RL!vars) => [Limiter!Next]_(Limiter!vars)
  BY ProtectedAssumption
  DEF RL!Next, RL!vars, RL!Proceed, RL!Cancel, RL!Acquire, RL!Tick, RL!Round,
      RL!AnsweredAtOnce, RL!Waiting, RL!Left, RL!Available, RL!Deficit, RL!Less,
      Limiter!Next, Limiter!vars, Limiter!Proceed, Limiter!Cancel, Limiter!Acquire,
      Limiter!Tick, Limiter!Round, Limiter!AnsweredAtOnce, Limiter!Waiting,
      Limiter!Left, Limiter!Available, Limiter!Deficit, Limiter!Less
<1>3. QED BY <1>1, <1>2, PTL DEF RL!Spec, Limiter!Spec

\* A full streak of failures or of probe successes changes the state of the
\* circuit, whoever the callers are whose results are counted.
THEOREM StreaksActAmongCallers == Spec => []StreaksAct
BY BreakerHolds, StreaksAlwaysAct, PTL DEF StreaksAct

\* The circuit changes as documented, whoever the callers are.
THEOREM ChangesAsDocumentedAmongCallers == Spec => ChangesAsDocumented
BY BreakerHolds, BreakerChangesCorrect, PTL DEF ChangesAsDocumented

\* The calls let through to the model conform to the limiter's rate.
THEOREM RateConformsAmongCallers == Spec => []RateConforms
<1>1. Limiter!RateConforms => RateConforms
  BY DEF Limiter!RateConforms, RateConforms, RL!RateConforms
<1>2. QED BY <1>1, LimiterHolds, AsksAsAnyTask, RateAlwaysConforms, PTL

\* The shape of the state.
THEOREM TypeCorrect == Spec => []TypeOK
<1> DEFINE OneNeed == need \in [Callers -> {Unit}]
<1>1. LateInv /\ CB!TypeOK /\ Limiter!TypeOK /\ OneNeed => TypeOK
  BY DEF LateInv, Places, TypeOK, Limiter!TypeOK, RL!TypeOK, Limiter!Places, RL!Places
<1>2. RL!Init => OneNeed
  BY DEF RL!Init
<1>3. OneNeed /\ [RL!Next]_(RL!vars) => OneNeed'
  BY DEF RL!Next, RL!vars, RL!Proceed, RL!Cancel, RL!Acquire, RL!Tick
<1>4. RL!Spec => []OneNeed
  BY <1>2, <1>3, PTL DEF RL!Spec
<1>5. QED
  BY <1>1, <1>4, LimiterHolds, AsksAsAnyTask, LimiterTypeCorrect, BreakerHolds,
     BreakerTypeCorrect, LateInvInit, LateInvNext, PTL
  DEF Spec
=============================================================================
