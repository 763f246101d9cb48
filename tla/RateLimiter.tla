---------------------------- MODULE RateLimiter ----------------------------
(***************************************************************************)
(* lingyia_kit/resilience/rate_limiter.py: acquire() of several tasks on   *)
(* one TokenBucketRateLimiter.  A step goes from one await to the next: a  *)
(* task waits for the lock or sleeps with the lock held.                   *)
(*                                                                         *)
(* Tokens are counted in the time it takes to refill them, so rate is 1,   *)
(* and time is discrete: a finer tick is a larger Burst and larger Needs.  *)
(* Of clock() and _last the code uses only their difference, which refills *)
(* at most Burst tokens: unread, that difference, stops at Burst.          *)
(***************************************************************************)
EXTENDS Naturals, Sequences

CONSTANTS
  Tasks,   \* the tasks that call acquire
  Burst,   \* burst
  Needs    \* the values of n

\* What the theorems need of the constants; the composed model assumes it.
LimiterAssumption ==
  /\ Burst \in Nat \ {0}
  /\ Needs \subseteq Nat

VARIABLES
  tokens,  \* _tokens
  unread,  \* clock() - _last, up to Burst
  line,    \* asyncio.Lock: its holder, then its waiters in order
  at,      \* [Tasks -> where the task is in acquire, or how it left]
  need,    \* [Tasks -> Needs]: the n of its last acquire
  timer,   \* what is left of the holder's asyncio.sleep
  excess   \* history: over all windows of time up to now, the most by which the
           \* tokens consumed in the window exceed its length

vars == <<tokens, unread, line, at, need, timer, excess>>

Places == {"new", "queued", "asleep", "granted", "refused", "cancelled"}
Waiting(t) == at[t] \in {"queued", "asleep"}

Init ==
  /\ tokens = Burst
  /\ unread = 0
  /\ line = <<>>
  /\ at = [t \in Tasks |-> "new"]
  /\ need \in [Tasks -> Needs]
  /\ timer = 0
  /\ excess = 0

\* What a reading of the clock makes of the bucket; also available_tokens.
Available == IF tokens + unread < Burst THEN tokens + unread ELSE Burst

Deficit(n) == n - Available

\* The line without t, who stands in it at most once.
Left(t) ==
  IF \E i \in 1..Len(line) : line[i] = t
  THEN LET k == CHOOSE i \in 1..Len(line) : line[i] = t
       IN  [j \in 1..(Len(line) - 1) |-> line[IF j < k THEN j ELSE j + 1]]
  ELSE line

\* One round of the loop for t, with the lock: consume and leave, or sleep for
\* the deficit with the lock held.
RoundSlip(t, n) ==
  \/ /\ Available >= n
     /\ tokens' = Available - n
     /\ at' = [at EXCEPT ![t] = "granted"]
     /\ line' = Left(t)
     /\ timer' = 0
     /\ excess' = excess + n
     /\ UNCHANGED unread
  \/ /\ Available < n
     /\ tokens' = Available
     /\ unread' = 0
     /\ at' = [at EXCEPT ![t] = "asleep"]
     /\ line' = IF Waiting(t) THEN line ELSE Append(line, t)
     /\ timer' = Deficit(n)
     /\ UNCHANGED excess
Round(t, n) ==
  /\ unread' = 0
  /\ \/ /\ Available >= n
        /\ tokens' = Available - n
        /\ at' = [at EXCEPT ![t] = "granted"]
        /\ line' = Left(t)
        /\ timer' = 0
        /\ excess' = excess + n
     \/ /\ Available < n
        /\ tokens' = Available
        /\ at' = [at EXCEPT ![t] = "asleep"]
        /\ line' = IF Waiting(t) THEN line ELSE Append(line, t)
        /\ timer' = Deficit(n)
        /\ UNCHANGED excess

\* A call that does not come to the lock.
AnsweredAtOnce(t, n) ==
  /\ \/ n = 0 /\ at' = [at EXCEPT ![t] = "granted"]
     \/ n > Burst /\ at' = [at EXCEPT ![t] = "refused"]
  /\ UNCHANGED <<tokens, unread, line, timer, excess>>

\* The lock is free: acquire goes on without a pause.  Else it queues.
Acquire(t, n) ==
  /\ ~Waiting(t)
  /\ n \in Needs
  /\ need' = [need EXCEPT ![t] = n]
  /\ \/ AnsweredAtOnce(t, n)
     \/ n \in 1..Burst /\ line = <<>> /\ Round(t, n)
     \/ /\ n \in 1..Burst /\ line # <<>>
        /\ at' = [at EXCEPT ![t] = "queued"]
        /\ line' = Append(line, t)
        /\ UNCHANGED <<tokens, unread, timer, excess>>

\* The lock has come to t, or t's sleep is over.
Proceed(t) ==
  /\ line # <<>> /\ Head(line) = t
  /\ timer = 0
  /\ Round(t, need[t])
  /\ UNCHANGED need

\* The task is cancelled in acquire; if it slept it gives up the lock.
CancelSlip(t) ==
  /\ Waiting(t)
  /\ at' = [at EXCEPT ![t] = "cancelled"]
  /\ timer' = IF at[t] = "asleep" THEN 0 ELSE timer
  /\ line' = IF at[t] = "asleep" THEN line ELSE Left(t)
  /\ UNCHANGED <<tokens, unread, need, excess>>
Cancel(t) ==
  /\ Waiting(t)
  /\ at' = [at EXCEPT ![t] = "cancelled"]
  /\ timer' = IF at[t] = "asleep" THEN 0 ELSE timer
  /\ line' = Left(t)
  /\ UNCHANGED <<tokens, unread, need, excess>>

\* Time goes by.  Every window that began earlier gets longer.
Less(n) == IF n > 0 THEN n - 1 ELSE 0

Tick ==
  /\ unread' = IF unread < Burst THEN unread + 1 ELSE unread
  /\ timer' = Less(timer)
  /\ excess' = Less(excess)
  /\ UNCHANGED <<tokens, line, at, need>>

Next ==
  \/ \E t \in Tasks : Proceed(t) \/ Cancel(t) \/ \E n \in Needs : Acquire(t, n)
  \/ Tick

Spec == Init /\ [][Next]_vars

-----------------------------------------------------------------------------
(* Properties *)

\* The shape of the state.
TypeOK ==
  /\ tokens \in 0..Burst
  /\ unread \in 0..Burst
  /\ line \in Seq(Tasks)
  /\ at \in [Tasks -> Places]
  /\ need \in [Tasks -> Needs]
  /\ timer \in 0..Burst
  /\ excess \in Nat

\* "enforces a smooth target rate with a configurable burst budget"
\* (rate_limiter.py:4): in no window of time are more tokens consumed than its
\* length and one burst.
RateConforms == excess <= Burst
=============================================================================
