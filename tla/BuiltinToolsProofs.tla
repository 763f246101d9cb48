------------------------- MODULE BuiltinToolsProofs -------------------------
(***************************************************************************)
(* What holds of the tools of lingyia_kit/tools: of the file and shell     *)
(* tools for any calls, files and contents, and, at the end, of sub-agents *)
(* for every nesting of runs and calls and every cap.                      *)
(***************************************************************************)
EXTENDS BuiltinTools, SubAgents, TLAPS

Answers == {"idle", "awaited", "ok", "error", "timed_out", "cancelled"}
Places  == {"none", "queued", "running", "opened", "sized", "communicating", "reaping"}

\* A call and its handler: an outcome waits only for an awaited call, of a handler
\* that has returned; a handler is at work only if the events leave it possible.
CallInv(c) ==
  /\ result[c] # "none" => at[c] = "awaited" /\ doing[c] = "none"
  /\ doing[c] # "none" => MayRun(c)
  /\ c \in Shells /\ doing[c] # "none" => at[c] = "awaited"
  /\ c \in Shells /\ doing[c] = "queued" => FALSE
  /\ c \in told => at[c] = "timed_out"

\* A write that no other may disturb has its file to itself.
WriteInv(w) ==
  /\ doing[w] \notin {"sized", "communicating", "reaping"}
  /\ at[w] = "idle" \/ doing[w] \in {"queued", "running"} => written[w] = 0
  /\ doing[w] = "opened" => file[Target[w]] \in Seq(Blocks \cup {Hole})
  /\ w \in alone =>
       /\ at[w] = "awaited"
       /\ \A v \in Rivals(w) : ~MayRun(v)
       /\ doing[w] = "opened" =>
            /\ written[w] <= Len(Content[w])
            /\ file[Target[w]] = [i \in 1..written[w] |-> Content[w][i]]
       /\ result[w] = "ok" => file[Target[w]] = Content[w]

\* Contents that are vouched for are there, and no handler may change them.
PathInv(p) ==
  trusted[p] # Unknown =>
    /\ file[p] = trusted[p]
    /\ \A w \in Writes : Target[w] = p => ~MayRun(w)

ReadInv(r) ==
  /\ doing[r] \notin {"opened", "communicating", "reaping"}
  /\ at[r] = "idle" => believed[r] = Unknown
  /\ doing[r] = "sized" => file[Target[r]] \in Seq(Blocks \cup {Hole})
  /\ believed[r] # Unknown =>
       /\ at[r] = "awaited" => trusted[Target[r]] = believed[r]
       /\ at[r] = "ok" \/ result[r] = "ok" => text[r] = Text(believed[r])

ShellInv(s) ==
  /\ doing[s] \notin {"opened", "sized"}
  /\ s \in alive => \/ at[s] = "awaited" /\ doing[s] = "communicating"
                    \/ at[s] \in {"timed_out", "cancelled"}

Inv ==
  /\ TypeOK
  /\ \A c \in Calls : CallInv(c)
  /\ \A w \in Writes : WriteInv(w)
  /\ \A p \in Paths : PathInv(p)
  /\ \A r \in Reads : ReadInv(r)
  /\ \A s \in Shells : ShellInv(s)

-----------------------------------------------------------------------------
(* Sequences of blocks *)

AnyBlocks == Seq(Blocks \cup {Hole})

\* What a writer has written so far is a sequence as long as its count.
LEMMA PrefixTyped ==
  ASSUME NEW s \in Seq(Blocks), NEW n \in Nat, n <= Len(s)
  PROVE  /\ [i \in 1..n |-> s[i]] \in AnyBlocks
         /\ Len([i \in 1..n |-> s[i]]) = n
BY DEF AnyBlocks

LEMMA EmptyPrefix ==
  ASSUME NEW s \in Seq(Blocks)
  PROVE  <<>> = [i \in 1..0 |-> s[i]]
OBVIOUS

LEMMA WholePrefix ==
  ASSUME NEW s \in Seq(Blocks)
  PROVE  [i \in 1..Len(s) |-> s[i]] = s
OBVIOUS

\* The next block goes at the end of what one writer alone has written.
LEMMA OverlayExtends ==
  ASSUME NEW s \in Seq(Blocks), NEW n \in Nat, n < Len(s)
  PROVE  Overlaid([i \in 1..n |-> s[i]], n + 1, s[n + 1]) = [i \in 1..(n + 1) |-> s[i]]
<1> DEFINE t == [i \in 1..n |-> s[i]]
<1>1. Len(t) = n
  BY PrefixTyped
<1> HIDE DEF t
<1>2. Overlaid(t, n + 1, s[n + 1])
        = [j \in 1..(n + 1) |-> IF j = n + 1 THEN s[n + 1]
                                ELSE IF j <= n THEN t[j] ELSE Hole]
  BY <1>1 DEF Overlaid
<1>3. \A j \in 1..(n + 1) : (IF j = n + 1 THEN s[n + 1]
                             ELSE IF j <= n THEN t[j] ELSE Hole) = s[j]
  BY DEF t
<1>4. Overlaid(t, n + 1, s[n + 1]) = [i \in 1..(n + 1) |-> s[i]]
  BY <1>2, <1>3
<1>5. QED BY <1>4 DEF t

\* Whoever stands where, a block more leaves a sequence of blocks.
LEMMA OverlayTyped ==
  ASSUME NEW s \in AnyBlocks, NEW n \in Nat \ {0}, NEW b \in Blocks
  PROVE  Overlaid(s, n, b) \in AnyBlocks
<1> DEFINE m == IF n > Len(s) THEN n ELSE Len(s)
<1>1. m \in Nat
  BY DEF AnyBlocks
<1>2. \A j \in 1..m : (IF j = n THEN b ELSE IF j <= Len(s) THEN s[j] ELSE Hole)
                        \in Blocks \cup {Hole}
  BY DEF AnyBlocks
<1>3. QED BY <1>1, <1>2 DEF Overlaid, AnyBlocks

\* Read as text, a sequence of blocks is one of as many blocks.
LEMMA TextTyped ==
  ASSUME NEW s \in AnyBlocks
  PROVE  Text(s) \in AnyBlocks /\ Len(Text(s)) = Len(s)
<1>1. DOMAIN s = 1..Len(s) /\ Len(s) \in Nat
  BY DEF AnyBlocks
<1>2. \A i \in 1..Len(s) : (IF s[i] = Hole THEN Hole ELSE Shown[s[i]]) \in Blocks \cup {Hole}
  BY BuiltinAssumption DEF AnyBlocks
<1>3. QED BY <1>1, <1>2 DEF Text, AnyBlocks

-----------------------------------------------------------------------------
(* The invariant *)

LEMMA InvInit == Init => Inv
<1> SUFFICES ASSUME Init PROVE Inv
  OBVIOUS
<1> USE DEF Calls, Sync
<1>1. TypeOK
  BY BuiltinAssumption DEF Init, TypeOK
<1>2. \A c \in Calls : CallInv(c)
  BY DEF Init, CallInv
<1>3. \A w \in Writes : WriteInv(w)
  BY DEF Init, WriteInv
<1>4. \A p \in Paths : PathInv(p)
  BY DEF Init, PathInv, MayRun
<1>5. \A r \in Reads : ReadInv(r)
  BY DEF Init, ReadInv
<1>6. \A s \in Shells : ShellInv(s)
  BY DEF Init, ShellInv
<1>7. QED BY <1>1, <1>2, <1>3, <1>4, <1>5, <1>6 DEF Inv

LEMMA BeginKeeps ==
  ASSUME Inv, NEW c \in Calls, Begin(c)
  PROVE  Inv'
<1> USE BuiltinAssumption DEF Calls, Sync
<1>b. /\ at' = [at EXCEPT ![c] = "awaited"]
      /\ doing' = [doing EXCEPT ![c] = IF c \in Sync THEN "queued" ELSE "running"]
      /\ IF c \in Writes
         THEN /\ trusted' = [trusted EXCEPT ![Target[c]] = Unknown]
              /\ believed' = [r \in Reads |->
                                IF Meets(c, r) /\ at[r] = "awaited" THEN Unknown
                                ELSE believed[r]]
         ELSE /\ believed' = [r \in Reads |->
                                IF r = c THEN trusted[Target[r]] ELSE believed[r]]
              /\ trusted' = trusted
      /\ alone' \subseteq alone \cup (Writes \cap {c})
      /\ beside' \subseteq beside \cup Reads
      /\ UNCHANGED <<result, file, written, text, alive, told, raced>>
  BY DEF Begin, files, processes
<1>1. TypeOK'
  <2>1. TypeOK
    BY DEF Inv
  <2>2. /\ at' \in [Calls -> Answers] /\ doing' \in [Calls -> Places]
        /\ UNCHANGED <<result, file, written, text, alive, told, raced>>
    BY <1>b, <2>1 DEF TypeOK, Answers, Places
  <2>3. trusted' \in [Paths -> {Absent, Unknown} \cup Seq(Blocks \cup {Hole})]
    BY <1>b, <2>1 DEF TypeOK
  <2>4. believed' \in [Reads -> {Absent, Unknown} \cup Seq(Blocks \cup {Hole})]
    BY <1>b, <2>1 DEF TypeOK
  <2>5. alone' \subseteq Writes /\ beside' \subseteq Reads
    BY <1>b, <2>1 DEF TypeOK
  <2>6. QED BY <2>1, <2>2, <2>3, <2>4, <2>5 DEF TypeOK, Answers, Places
<1>2. doing[c] = "none" /\ result[c] = "none" /\ c \notin told
  BY DEF Inv, TypeOK, CallInv, MayRun, Begin
<1>3. ASSUME NEW d \in Calls PROVE CallInv(d)'
  BY <1>2 DEF Inv, TypeOK, CallInv, MayRun, Begin, files, processes
<1>4. ASSUME NEW w \in Writes PROVE WriteInv(w)'
  BY <1>2 DEF Inv, TypeOK, WriteInv, Rivals, MayRun, Begin, files, processes
<1>5. ASSUME NEW p \in Paths PROVE PathInv(p)'
  <2>1. PathInv(p) /\ file \in [Paths -> {Absent} \cup Seq(Blocks \cup {Hole})]
        /\ at \in [Calls -> Answers] /\ DOMAIN trusted = Paths
    BY DEF Inv, TypeOK, Answers
  <2>2. QED BY <1>b, <2>1 DEF PathInv, MayRun
<1>6. ASSUME NEW r \in Reads PROVE ReadInv(r)'
  <2>1. ReadInv(r) /\ at \in [Calls -> Answers] /\ doing \in [Calls -> Places]
        /\ DOMAIN believed = Reads /\ DOMAIN trusted = Paths
    BY DEF Inv, TypeOK, Answers, Places
  <2>2. QED BY <1>b, <1>2, <2>1 DEF ReadInv, Meets
<1>7. ASSUME NEW s \in Shells PROVE ShellInv(s)'
  BY <1>2 DEF Inv, TypeOK, ShellInv, Begin, files, processes
<1>8. QED BY <1>1, <1>3, <1>4, <1>5, <1>6, <1>7 DEF Inv

LEMMA TakesKeeps ==
  ASSUME Inv, NEW c \in Sync, Takes(c)
  PROVE  Inv'
<1> USE BuiltinAssumption DEF Calls, Sync
<1>1. TypeOK'
  BY DEF Inv, TypeOK, Takes, files, processes, history
<1>3. ASSUME NEW d \in Calls PROVE CallInv(d)'
  BY DEF Inv, TypeOK, CallInv, MayRun, Takes, files, processes, history
<1>4. ASSUME NEW w \in Writes PROVE WriteInv(w)'
  BY DEF Inv, TypeOK, WriteInv, Rivals, MayRun, Takes, files, processes, history
<1>5. ASSUME NEW p \in Paths PROVE PathInv(p)'
  BY DEF Inv, TypeOK, PathInv, MayRun, Takes, files, processes, history
<1>6. ASSUME NEW r \in Reads PROVE ReadInv(r)'
  BY DEF Inv, TypeOK, ReadInv, Takes, files, processes, history
<1>7. ASSUME NEW s \in Shells PROVE ShellInv(s)'
  BY DEF Inv, TypeOK, ShellInv, Takes, files, processes, history
<1>8. QED BY <1>1, <1>3, <1>4, <1>5, <1>6, <1>7 DEF Inv

LEMMA DeliverKeeps ==
  ASSUME Inv, NEW c \in Calls, Deliver(c)
  PROVE  Inv'
<1> USE BuiltinAssumption DEF Calls, Sync
<1>1. TypeOK'
  BY DEF Inv, TypeOK, Deliver, files, processes
<1>2. ASSUME NEW d \in Calls PROVE CallInv(d)'
  BY DEF Inv, TypeOK, CallInv, MayRun, Deliver, files, processes
<1>3. ASSUME NEW v \in Writes PROVE WriteInv(v)'
  BY DEF Inv, TypeOK, CallInv, WriteInv, Rivals, MayRun, Deliver, files, processes
<1>4. ASSUME NEW p \in Paths PROVE PathInv(p)'
  <2>1. \A w \in Writes : MayRun(w)' => MayRun(w)
    BY DEF Inv, TypeOK, MayRun, Deliver, processes
  <2>2. CASE c \in alone /\ result[c] = "ok" /\ p = Target[c]
    <3>1. c \in Writes /\ file[p] = Content[c] /\ \A v \in Rivals(c) : ~MayRun(v)
      BY <2>2 DEF Inv, TypeOK, WriteInv
    <3>2. ~MayRun(c)'
      BY <2>2 DEF Inv, TypeOK, CallInv, MayRun, Deliver, processes
    <3>3. \A w \in Writes : Target[w] = p => ~MayRun(w)'
      BY <2>1, <2>2, <3>1, <3>2 DEF Rivals
    <3>4. file'[p] = trusted'[p]
      BY <2>2, <3>1 DEF Inv, TypeOK, Deliver, files
    <3>5. QED BY <3>3, <3>4 DEF PathInv
  <2>3. CASE ~(c \in alone /\ result[c] = "ok" /\ p = Target[c])
    BY <2>1, <2>3 DEF Inv, TypeOK, PathInv, Deliver, files
  <2>4. QED BY <2>2, <2>3
<1>5. ASSUME NEW q \in Reads PROVE ReadInv(q)'
  BY DEF Inv, TypeOK, CallInv, PathInv, ReadInv, MayRun, WriteInv, Deliver, files, processes
<1>6. ASSUME NEW t \in Shells PROVE ShellInv(t)'
  BY DEF Inv, TypeOK, CallInv, ShellInv, MayRun, Deliver, files, processes
<1>7. QED BY <1>1, <1>2, <1>3, <1>4, <1>5, <1>6 DEF Inv

LEMMA TimesOutKeeps ==
  ASSUME Inv, NEW c \in Calls, TimesOut(c)
  PROVE  Inv'
<1> USE BuiltinAssumption DEF Calls, Sync
<1>1. TypeOK'
  BY DEF Inv, TypeOK, TimesOut, Announced, Abandon, files
<1>2. ASSUME NEW d \in Calls PROVE CallInv(d)'
  BY DEF Inv, TypeOK, CallInv, MayRun, TimesOut, Announced, Abandon, files
<1>3. ASSUME NEW v \in Writes PROVE WriteInv(v)'
  BY DEF Inv, TypeOK, CallInv, WriteInv, Rivals, MayRun, TimesOut, Announced, Abandon, files
<1>4. ASSUME NEW p \in Paths PROVE PathInv(p)'
  BY DEF Inv, TypeOK, CallInv, PathInv, MayRun, TimesOut, Announced, Abandon, files
<1>5. ASSUME NEW q \in Reads PROVE ReadInv(q)'
  BY DEF Inv, TypeOK, CallInv, PathInv, ReadInv, MayRun, TimesOut, Announced, Abandon, files
<1>6. ASSUME NEW t \in Shells PROVE ShellInv(t)'
  BY DEF Inv, TypeOK, CallInv, ShellInv, MayRun, TimesOut, Announced, Abandon, files
<1>7. QED BY <1>1, <1>2, <1>3, <1>4, <1>5, <1>6 DEF Inv

LEMMA CancelKeeps ==
  ASSUME Inv, NEW c \in Calls, Cancel(c)
  PROVE  Inv'
<1> USE BuiltinAssumption DEF Calls, Sync
<1>1. TypeOK'
  BY DEF Inv, TypeOK, Cancel, Abandon, files
<1>2. ASSUME NEW d \in Calls PROVE CallInv(d)'
  BY DEF Inv, TypeOK, CallInv, MayRun, Cancel, Abandon, files
<1>3. ASSUME NEW v \in Writes PROVE WriteInv(v)'
  BY DEF Inv, TypeOK, CallInv, WriteInv, Rivals, MayRun, Cancel, Abandon, files
<1>4. ASSUME NEW p \in Paths PROVE PathInv(p)'
  BY DEF Inv, TypeOK, CallInv, PathInv, MayRun, Cancel, Abandon, files
<1>5. ASSUME NEW q \in Reads PROVE ReadInv(q)'
  BY DEF Inv, TypeOK, CallInv, PathInv, ReadInv, MayRun, Cancel, Abandon, files
<1>6. ASSUME NEW t \in Shells PROVE ShellInv(t)'
  BY DEF Inv, TypeOK, CallInv, ShellInv, MayRun, Cancel, Abandon, files
<1>7. QED BY <1>1, <1>2, <1>3, <1>4, <1>5, <1>6 DEF Inv

LEMMA RefusesKeeps ==
  ASSUME Inv, NEW c \in Calls, Refuses(c)
  PROVE  Inv'
<1> USE BuiltinAssumption DEF Calls, Sync
<1>1. TypeOK'
  BY DEF Inv, TypeOK, Refuses, HandlerEnds, files, history
<1>2. ASSUME NEW d \in Calls PROVE CallInv(d)'
  BY DEF Inv, TypeOK, CallInv, MayRun, Refuses, HandlerEnds, files, history
<1>3. ASSUME NEW v \in Writes PROVE WriteInv(v)'
  BY DEF Inv, TypeOK, CallInv, WriteInv, Rivals, MayRun, Refuses, HandlerEnds, files, history
<1>4. ASSUME NEW p \in Paths PROVE PathInv(p)'
  BY DEF Inv, TypeOK, CallInv, PathInv, MayRun, Refuses, HandlerEnds, files, history
<1>5. ASSUME NEW q \in Reads PROVE ReadInv(q)'
  BY DEF Inv, TypeOK, CallInv, PathInv, ReadInv, MayRun, Refuses, HandlerEnds, files, history
<1>6. ASSUME NEW t \in Shells PROVE ShellInv(t)'
  BY DEF Inv, TypeOK, CallInv, ShellInv, MayRun, Refuses, HandlerEnds, files, history
<1>7. QED BY <1>1, <1>2, <1>3, <1>4, <1>5, <1>6 DEF Inv

LEMMA OpensKeeps ==
  ASSUME Inv, NEW w \in Writes, Opens(w)
  PROVE  Inv'
<1> USE BuiltinAssumption DEF Calls, Sync
<1>1. TypeOK'
  BY DEF Inv, TypeOK, Opens, processes, history
<1>2. ASSUME NEW d \in Calls PROVE CallInv(d)'
  BY DEF Inv, TypeOK, CallInv, MayRun, Opens, processes, history
<1>3. ASSUME NEW v \in Writes PROVE WriteInv(v)'
  BY EmptyPrefix DEF Inv, TypeOK, CallInv, WriteInv, Rivals, MayRun, Opens, processes, history
<1>4. ASSUME NEW p \in Paths PROVE PathInv(p)'
  BY DEF Inv, TypeOK, CallInv, PathInv, MayRun, Opens, processes, history
<1>5. ASSUME NEW q \in Reads PROVE ReadInv(q)'
  BY DEF Inv, TypeOK, CallInv, PathInv, ReadInv, MayRun, Opens, processes, history
<1>6. ASSUME NEW t \in Shells PROVE ShellInv(t)'
  BY DEF Inv, TypeOK, CallInv, ShellInv, MayRun, Opens, processes, history
<1>7. QED BY <1>1, <1>2, <1>3, <1>4, <1>5, <1>6 DEF Inv

LEMMA WritesBlockKeeps ==
  ASSUME Inv, NEW w \in Writes, WritesBlock(w)
  PROVE  Inv'
<1> USE BuiltinAssumption DEF Calls, Sync
<1> DEFINE n == written[w]
           blocks == file[Target[w]]
           more == Overlaid(blocks, n + 1, Content[w][n + 1])
<1>a. n \in Nat /\ n < Len(Content[w]) /\ blocks \in AnyBlocks /\ Content[w] \in Seq(Blocks)
  BY DEF Inv, TypeOK, WriteInv, WritesBlock, AnyBlocks
<1>b. n + 1 \in Nat \ {0} /\ Content[w][n + 1] \in Blocks
  BY <1>a
<1>c. more \in AnyBlocks
  BY <1>a, <1>b, OverlayTyped
<1>d. /\ written' = [written EXCEPT ![w] = n + 1]
      /\ file' = [file EXCEPT ![Target[w]] = more]
      /\ UNCHANGED <<at, doing, result, text, alive, told, alone, trusted, believed, beside>>
      /\ raced' \subseteq Reads
  BY DEF WritesBlock, Inv, TypeOK, handlers, processes, history
<1> HIDE DEF more
<1>1. TypeOK'
  BY <1>a, <1>c, <1>d DEF Inv, TypeOK, AnyBlocks
<1>2. ASSUME NEW d \in Calls PROVE CallInv(d)'
  BY <1>d DEF Inv, TypeOK, CallInv, MayRun
<1>3. ASSUME NEW v \in Writes PROVE WriteInv(v)'
  <2>1. CASE v = w /\ w \in alone
    <3>1. n + 1 <= Len(Content[w])
      BY <1>a
    <3>2. WriteInv(w) /\ doing[w] = "opened"
      BY DEF Inv, WritesBlock
    <3>3. blocks = [i \in 1..n |-> Content[w][i]]
      BY <2>1, <3>2 DEF WriteInv
    <3>4. more = [i \in 1..(n + 1) |-> Content[w][i]]
      BY <1>a, <3>3, OverlayExtends DEF more
    <3>5. written'[w] = n + 1 /\ file'[Target[w]] = more
      BY <1>d DEF Inv, TypeOK
    <3>6. file'[Target[w]] = [i \in 1..written'[w] |-> Content[w][i]]
      BY <3>4, <3>5
    <3>7. result[w] # "ok"
      BY <3>2 DEF Inv, CallInv
    <3>8. \A u \in Rivals(w) : ~MayRun(u)'
      BY <1>d, <2>1, <3>2 DEF WriteInv, MayRun
    <3> HIDE DEF n, blocks
    <3>9. Rivals(w)' = Rivals(w)
      BY DEF Rivals
    <3>10. QED
      BY <1>c, <1>d, <2>1, <3>1, <3>2, <3>5, <3>6, <3>7, <3>8, <3>9
      DEF WriteInv, AnyBlocks
  <2>2. CASE ~(v = w /\ w \in alone)
    BY <1>a, <1>c, <1>d, <2>2
    DEF Inv, TypeOK, CallInv, WriteInv, WritesBlock, Rivals, MayRun, AnyBlocks
  <2>3. QED BY <2>1, <2>2
<1>4. ASSUME NEW p \in Paths PROVE PathInv(p)'
  BY DEF Inv, TypeOK, CallInv, PathInv, MayRun, WritesBlock, handlers, processes, history
<1>5. ASSUME NEW q \in Reads PROVE ReadInv(q)'
  BY <1>c, <1>d DEF Inv, TypeOK, ReadInv, AnyBlocks
<1>6. ASSUME NEW t \in Shells PROVE ShellInv(t)'
  BY DEF Inv, TypeOK, CallInv, ShellInv, MayRun, WritesBlock, handlers, processes, history
<1>7. QED BY <1>1, <1>2, <1>3, <1>4, <1>5, <1>6 DEF Inv

LEMMA ClosesKeeps ==
  ASSUME Inv, NEW w \in Writes, Closes(w)
  PROVE  Inv'
<1> USE BuiltinAssumption DEF Calls, Sync
<1>1. TypeOK'
  BY DEF Inv, TypeOK, Closes, HandlerEnds, files, history
<1>2. ASSUME NEW d \in Calls PROVE CallInv(d)'
  BY DEF Inv, TypeOK, CallInv, MayRun, Closes, HandlerEnds, files, history
<1>3. ASSUME NEW v \in Writes PROVE WriteInv(v)'
  BY WholePrefix DEF Inv, TypeOK, CallInv, WriteInv, Rivals, MayRun, Closes, HandlerEnds, files, history
<1>4. ASSUME NEW p \in Paths PROVE PathInv(p)'
  BY DEF Inv, TypeOK, CallInv, PathInv, MayRun, Closes, HandlerEnds, files, history
<1>5. ASSUME NEW q \in Reads PROVE ReadInv(q)'
  BY DEF Inv, TypeOK, CallInv, PathInv, ReadInv, MayRun, Closes, HandlerEnds, files, history
<1>6. ASSUME NEW t \in Shells PROVE ShellInv(t)'
  BY DEF Inv, TypeOK, CallInv, ShellInv, MayRun, Closes, HandlerEnds, files, history
<1>7. QED BY <1>1, <1>2, <1>3, <1>4, <1>5, <1>6 DEF Inv

LEMMA SizesKeeps ==
  ASSUME Inv, NEW r \in Reads, Sizes(r)
  PROVE  Inv'
<1> USE BuiltinAssumption DEF Calls, Sync
<1>1. TypeOK'
  BY DEF Inv, TypeOK, Sizes, files, processes, history
<1>2. ASSUME NEW d \in Calls PROVE CallInv(d)'
  BY DEF Inv, TypeOK, CallInv, MayRun, Sizes, files, processes, history
<1>3. ASSUME NEW v \in Writes PROVE WriteInv(v)'
  BY DEF Inv, TypeOK, CallInv, WriteInv, Rivals, MayRun, Sizes, files, processes, history
<1>4. ASSUME NEW p \in Paths PROVE PathInv(p)'
  BY DEF Inv, TypeOK, CallInv, PathInv, MayRun, Sizes, files, processes, history
<1>5. ASSUME NEW q \in Reads PROVE ReadInv(q)'
  BY DEF Inv, TypeOK, CallInv, PathInv, ReadInv, MayRun, Sizes, files, processes, history
<1>6. ASSUME NEW t \in Shells PROVE ShellInv(t)'
  BY DEF Inv, TypeOK, CallInv, ShellInv, MayRun, Sizes, files, processes, history
<1>7. QED BY <1>1, <1>2, <1>3, <1>4, <1>5, <1>6 DEF Inv

LEMMA ReadsTextKeeps ==
  ASSUME Inv, NEW r \in Reads, ReadsText(r)
  PROVE  Inv'
<1> USE BuiltinAssumption DEF Calls, Sync
<1>1. TypeOK'
  <2>1. Text(file[Target[r]]) \in Seq(Blocks \cup {Hole})
    BY TextTyped DEF Inv, ReadInv, ReadsText, AnyBlocks
  <2>2. QED BY <2>1 DEF Inv, TypeOK, ReadsText, HandlerEnds, history
<1>2. ASSUME NEW d \in Calls PROVE CallInv(d)'
  BY DEF Inv, TypeOK, CallInv, MayRun, ReadsText, HandlerEnds, history
<1>3. ASSUME NEW v \in Writes PROVE WriteInv(v)'
  BY DEF Inv, TypeOK, CallInv, WriteInv, Rivals, MayRun, ReadsText, HandlerEnds, history
<1>4. ASSUME NEW p \in Paths PROVE PathInv(p)'
  BY DEF Inv, TypeOK, CallInv, PathInv, MayRun, ReadsText, HandlerEnds, history
<1>5. ASSUME NEW q \in Reads PROVE ReadInv(q)'
  <2>1. CASE q = r /\ at[r] = "awaited" /\ believed[r] # Unknown
    <3>1. text'[r] = Text(believed[r])
      BY <2>1 DEF Inv, TypeOK, PathInv, ReadInv, ReadsText
    <3>2. QED BY <2>1, <3>1 DEF Inv, TypeOK, ReadInv, ReadsText, HandlerEnds, history
  <2>2. CASE ~(q = r /\ at[r] = "awaited" /\ believed[r] # Unknown)
    BY <2>2 DEF Inv, TypeOK, CallInv, ReadInv, MayRun, ReadsText, HandlerEnds, history
  <2>3. QED BY <2>1, <2>2
<1>6. ASSUME NEW t \in Shells PROVE ShellInv(t)'
  BY DEF Inv, TypeOK, CallInv, ShellInv, MayRun, ReadsText, HandlerEnds, history
<1>7. QED BY <1>1, <1>2, <1>3, <1>4, <1>5, <1>6 DEF Inv

LEMMA SpawnsKeeps ==
  ASSUME Inv, NEW s \in Shells, Spawns(s)
  PROVE  Inv'
<1> USE BuiltinAssumption DEF Calls, Sync
<1>1. TypeOK'
  BY DEF Inv, TypeOK, Spawns, files, history
<1>2. ASSUME NEW d \in Calls PROVE CallInv(d)'
  BY DEF Inv, TypeOK, CallInv, MayRun, Spawns, files, history
<1>3. ASSUME NEW v \in Writes PROVE WriteInv(v)'
  BY DEF Inv, TypeOK, CallInv, WriteInv, Rivals, MayRun, Spawns, files, history
<1>4. ASSUME NEW p \in Paths PROVE PathInv(p)'
  BY DEF Inv, TypeOK, CallInv, PathInv, MayRun, Spawns, files, history
<1>5. ASSUME NEW q \in Reads PROVE ReadInv(q)'
  BY DEF Inv, TypeOK, CallInv, PathInv, ReadInv, MayRun, Spawns, files, history
<1>6. ASSUME NEW t \in Shells PROVE ShellInv(t)'
  BY DEF Inv, TypeOK, CallInv, ShellInv, MayRun, Spawns, files, history
<1>7. QED BY <1>1, <1>2, <1>3, <1>4, <1>5, <1>6 DEF Inv

LEMMA ProcessExitsKeeps ==
  ASSUME Inv, NEW s \in Shells, ProcessExits(s)
  PROVE  Inv'
<1> USE BuiltinAssumption DEF Calls, Sync
<1>1. TypeOK'
  BY DEF Inv, TypeOK, ProcessExits, handlers, files, history
<1>2. ASSUME NEW d \in Calls PROVE CallInv(d)'
  BY DEF Inv, TypeOK, CallInv, MayRun, ProcessExits, handlers, files, history
<1>3. ASSUME NEW v \in Writes PROVE WriteInv(v)'
  BY DEF Inv, TypeOK, CallInv, WriteInv, Rivals, MayRun, ProcessExits, handlers, files, history
<1>4. ASSUME NEW p \in Paths PROVE PathInv(p)'
  BY DEF Inv, TypeOK, CallInv, PathInv, MayRun, ProcessExits, handlers, files, history
<1>5. ASSUME NEW q \in Reads PROVE ReadInv(q)'
  BY DEF Inv, TypeOK, CallInv, PathInv, ReadInv, MayRun, ProcessExits, handlers, files, history
<1>6. ASSUME NEW t \in Shells PROVE ShellInv(t)'
  BY DEF Inv, TypeOK, CallInv, ShellInv, MayRun, ProcessExits, handlers, files, history
<1>7. QED BY <1>1, <1>2, <1>3, <1>4, <1>5, <1>6 DEF Inv

LEMMA CommunicatesKeeps ==
  ASSUME Inv, NEW s \in Shells, Communicates(s)
  PROVE  Inv'
<1> USE BuiltinAssumption DEF Calls, Sync
<1>1. TypeOK'
  BY DEF Inv, TypeOK, Communicates, HandlerEnds, files, history
<1>2. ASSUME NEW d \in Calls PROVE CallInv(d)'
  BY DEF Inv, TypeOK, CallInv, MayRun, Communicates, HandlerEnds, files, history
<1>3. ASSUME NEW v \in Writes PROVE WriteInv(v)'
  BY DEF Inv, TypeOK, CallInv, WriteInv, Rivals, MayRun, Communicates, HandlerEnds, files, history
<1>4. ASSUME NEW p \in Paths PROVE PathInv(p)'
  BY DEF Inv, TypeOK, CallInv, PathInv, MayRun, Communicates, HandlerEnds, files, history
<1>5. ASSUME NEW q \in Reads PROVE ReadInv(q)'
  BY DEF Inv, TypeOK, CallInv, PathInv, ReadInv, MayRun, Communicates, HandlerEnds, files, history
<1>6. ASSUME NEW t \in Shells PROVE ShellInv(t)'
  BY DEF Inv, TypeOK, CallInv, ShellInv, MayRun, Communicates, HandlerEnds, files, history
<1>7. QED BY <1>1, <1>2, <1>3, <1>4, <1>5, <1>6 DEF Inv

LEMMA KillsKeeps ==
  ASSUME Inv, NEW s \in Shells, Kills(s)
  PROVE  Inv'
<1> USE BuiltinAssumption DEF Calls, Sync
<1>1. TypeOK'
  BY DEF Inv, TypeOK, Kills, files, history
<1>2. ASSUME NEW d \in Calls PROVE CallInv(d)'
  BY DEF Inv, TypeOK, CallInv, MayRun, Kills, files, history
<1>3. ASSUME NEW v \in Writes PROVE WriteInv(v)'
  BY DEF Inv, TypeOK, CallInv, WriteInv, Rivals, MayRun, Kills, files, history
<1>4. ASSUME NEW p \in Paths PROVE PathInv(p)'
  BY DEF Inv, TypeOK, CallInv, PathInv, MayRun, Kills, files, history
<1>5. ASSUME NEW q \in Reads PROVE ReadInv(q)'
  BY DEF Inv, TypeOK, CallInv, PathInv, ReadInv, MayRun, Kills, files, history
<1>6. ASSUME NEW t \in Shells PROVE ShellInv(t)'
  BY DEF Inv, TypeOK, CallInv, ShellInv, MayRun, Kills, files, history
<1>7. QED BY <1>1, <1>2, <1>3, <1>4, <1>5, <1>6 DEF Inv

LEMMA ReapsKeeps ==
  ASSUME Inv, NEW s \in Shells, Reaps(s)
  PROVE  Inv'
<1> USE BuiltinAssumption DEF Calls, Sync
<1>1. TypeOK'
  BY DEF Inv, TypeOK, Reaps, HandlerEnds, files, history
<1>2. ASSUME NEW d \in Calls PROVE CallInv(d)'
  BY DEF Inv, TypeOK, CallInv, MayRun, Reaps, HandlerEnds, files, history
<1>3. ASSUME NEW v \in Writes PROVE WriteInv(v)'
  BY DEF Inv, TypeOK, CallInv, WriteInv, Rivals, MayRun, Reaps, HandlerEnds, files, history
<1>4. ASSUME NEW p \in Paths PROVE PathInv(p)'
  BY DEF Inv, TypeOK, CallInv, PathInv, MayRun, Reaps, HandlerEnds, files, history
<1>5. ASSUME NEW q \in Reads PROVE ReadInv(q)'
  BY DEF Inv, TypeOK, CallInv, PathInv, ReadInv, MayRun, Reaps, HandlerEnds, files, history
<1>6. ASSUME NEW t \in Shells PROVE ShellInv(t)'
  BY DEF Inv, TypeOK, CallInv, ShellInv, MayRun, Reaps, HandlerEnds, files, history
<1>7. QED BY <1>1, <1>2, <1>3, <1>4, <1>5, <1>6 DEF Inv

LEMMA InvNext == Inv /\ [Next]_vars => Inv'
<1> SUFFICES ASSUME Inv, [Next]_vars PROVE Inv'
  OBVIOUS
<1>1. CASE UNCHANGED vars
  BY <1>1
  DEF Inv, TypeOK, CallInv, WriteInv, PathInv, ReadInv, ShellInv, Rivals, MayRun,
      vars, handlers, files, processes, history
<1>2. CASE \E c \in Calls : Begin(c) \/ Deliver(c) \/ TimesOut(c) \/ Cancel(c) \/ Refuses(c)
  BY <1>2, BeginKeeps, DeliverKeeps, TimesOutKeeps, CancelKeeps, RefusesKeeps
<1>3. CASE \E c \in Sync : Takes(c)
  BY <1>3, TakesKeeps
<1>4. CASE \E w \in Writes : Opens(w) \/ WritesBlock(w) \/ Closes(w)
  BY <1>4, OpensKeeps, WritesBlockKeeps, ClosesKeeps
<1>5. CASE \E r \in Reads : Sizes(r) \/ ReadsText(r)
  BY <1>5, SizesKeeps, ReadsTextKeeps
<1>6. CASE \E s \in Shells : Spawns(s) \/ ProcessExits(s) \/ Communicates(s) \/ Kills(s) \/ Reaps(s)
  BY <1>6, SpawnsKeeps, ProcessExitsKeeps, CommunicatesKeeps, KillsKeeps, ReapsKeeps
<1>7. CASE Over
  BY <1>1, <1>7 DEF Over
<1>8. QED BY <1>1, <1>2, <1>3, <1>4, <1>5, <1>6, <1>7 DEF Next

\* The invariant holds of every behaviour.
THEOREM Invariance == Spec => []Inv
<1>1. QED BY InvInit, InvNext, PTL DEF Spec

\* The shape of the state.
THEOREM TypeCorrect == Spec => []TypeOK
<1>1. Inv => TypeOK
  BY DEF Inv
<1>2. QED BY Invariance, <1>1, PTL

\* For any writes and any timeouts among them: what the answers and the events of
\* write_file vouch for is in the file (fs.py:72-95, executor.py:206-262).
THEOREM WritesAreAlwaysKept == Spec => []WritesAreKept
<1>1. Inv => WritesAreKept
  BY DEF Inv, PathInv, WritesAreKept
<1>2. QED BY Invariance, <1>1, PTL

\* However its check of the size and its read interleave with other calls,
\* read_file answers with the text of what was vouched for (fs.py:22-46).
THEOREM ReadsAreAlwaysTrue == Spec => []ReadsAreTrue
<1>1. Inv => ReadsAreTrue
  BY DEF Inv, ReadInv, ReadsAreTrue
<1>2. QED BY Invariance, <1>1, PTL

-----------------------------------------------------------------------------
(* Reads beside writes *)

\* What a read has measured stays as it was measured or has got blocks since, and
\* then from a write that its caller knows of.
MeetInv(r) ==
  /\ at[r] = "idle" => r \notin beside /\ r \notin raced
  /\ at[r] = "awaited" => \A w \in Writes : Meets(w, r) /\ MayRun(w) => r \in beside
  /\ at[r] \in {"awaited", "ok"} /\ r \in raced => r \in beside
  /\ doing[r] = "sized" => r \in raced \/ Len(file[Target[r]]) <= MaxBlocks
  /\ at[r] = "ok" \/ result[r] = "ok" => r \in raced \/ Len(text[r]) <= MaxBlocks

Met == \A r \in Reads : MeetInv(r)

\* Steps that begin no call: none puts a write at work, as far as the events say, or
\* makes a read an awaited one, and one that answers a read delivers its result.
Quiet(r) ==
  /\ beside' = beside
  /\ \A w \in Writes : MayRun(w)' => MayRun(w)
  /\ at'[r] \in {"idle", "awaited"} => at'[r] = at[r]
  /\ at'[r] = "ok" => at[r] = "ok" \/ (at[r] = "awaited" /\ result[r] = "ok")

LEMMA QuietSteps ==
  ASSUME Inv, [Next]_vars, NEW r \in Reads
  PROVE  Quiet(r) \/ \E c \in Calls : Begin(c)
<1> USE BuiltinAssumption DEF Calls, Sync
<1>1. at \in [Calls -> Answers] /\ result \in [Calls -> {"none", "ok", "error"}]
  BY DEF Inv, TypeOK, Answers
<1>2. ASSUME NEW c \in Calls, Deliver(c) PROVE Quiet(r)
  BY <1>1, <1>2 DEF Quiet, MayRun, Deliver, processes
<1>3. ASSUME NEW c \in Calls, NEW ending \in {"timed_out", "cancelled"},
             Abandon(c, ending), told \subseteq told', told' \subseteq told \cup {c}
      PROVE  Quiet(r)
  BY <1>1, <1>3 DEF Quiet, MayRun, Abandon
<1>4. ASSUME NEW c \in Calls, TimesOut(c) \/ Cancel(c) PROVE Quiet(r)
  BY <1>3, <1>4 DEF TimesOut, Cancel, Announced
<1>5. ASSUME UNCHANGED <<at, told, beside>> PROVE Quiet(r)
  BY <1>5 DEF Quiet, MayRun
<1>6. ASSUME NEW c \in Calls, NEW answer, HandlerEnds(c, answer) PROVE Quiet(r)
  BY <1>5, <1>6 DEF HandlerEnds, history
<1>7. ASSUME \/ \E c \in Sync : Takes(c)
             \/ \E w \in Writes : Opens(w) \/ WritesBlock(w)
             \/ \E q \in Reads : Sizes(q)
             \/ \E s \in Shells : Spawns(s) \/ ProcessExits(s) \/ Kills(s)
             \/ Over \/ UNCHANGED vars
      PROVE  UNCHANGED <<at, told, beside>>
  BY <1>7
  DEF Takes, Opens, WritesBlock, Sizes, Spawns, ProcessExits, Kills, Over,
      vars, handlers, processes, history
<1>8. QED
  BY <1>2, <1>4, <1>5, <1>6, <1>7 DEF Next, Refuses, Closes, ReadsText, Communicates, Reaps

LEMMA MetInit == Init => Met
BY DEF Init, Met, MeetInv, MayRun, Calls

LEMMA MetNext == Inv /\ Met /\ [Next]_vars => Met'
<1> SUFFICES ASSUME Inv, Met, [Next]_vars, NEW r \in Reads PROVE MeetInv(r)'
  BY DEF Met
<1> USE BuiltinAssumption DEF Calls, Sync
<1>0. /\ MeetInv(r) /\ CallInv(r) /\ ReadInv(r)
      /\ at \in [Calls -> Answers] /\ doing \in [Calls -> Places]
      /\ result \in [Calls -> {"none", "ok", "error"}]
      /\ DOMAIN file = Paths /\ DOMAIN text = Reads
  BY DEF Met, Inv, TypeOK, Answers, Places
<1>1. ASSUME NEW c \in Calls, Begin(c) PROVE MeetInv(r)'
  <2>1. /\ at[c] = "idle" /\ at' = [at EXCEPT ![c] = "awaited"]
        /\ doing' = [doing EXCEPT ![c] = IF c \in Sync THEN "queued" ELSE "running"]
        /\ UNCHANGED <<result, file, text, told, raced>>
        /\ beside \subseteq beside'
        /\ beside' \subseteq beside \cup {q \in Reads : at'[q] = "awaited"}
    BY <1>0, <1>1 DEF Begin, files, processes
  <2>2. \A w \in Writes \ {c} : MayRun(w)' => MayRun(w)
    BY <1>0, <2>1 DEF MayRun
  <2>3. c \in Writes /\ Meets(c, r) /\ at[r] = "awaited" => r \in beside'
    BY <1>1 DEF Begin
  <2>4. c = r => \A w \in Writes : Meets(w, r) /\ MayRun(w) => r \in beside'
    BY <1>1 DEF Begin
  <2>5. at'[r] = "awaited" => \A w \in Writes : Meets(w, r) /\ MayRun(w)' => r \in beside'
    BY <1>0, <2>1, <2>2, <2>3, <2>4 DEF MeetInv
  <2>6. QED BY <1>0, <2>1, <2>5 DEF MeetInv, CallInv, Meets
<1>2. ASSUME Quiet(r) PROVE MeetInv(r)'
  <2>1. /\ at'[r] = "idle" => r \notin beside' /\ r \notin raced
        /\ at'[r] = "awaited" => \A w \in Writes : Meets(w, r)' /\ MayRun(w)' => r \in beside'
        /\ at'[r] \in {"awaited", "ok"} /\ r \in raced => r \in beside'
    BY <1>0, <1>2 DEF MeetInv, Quiet, Meets
  <2> DEFINE Goal == /\ at'[r] = "idle" => r \notin raced'
                     /\ at'[r] \in {"awaited", "ok"} /\ r \in raced' => r \in beside'
                     /\ doing'[r] = "sized" => r \in raced' \/ Len(file'[Target[r]]) <= MaxBlocks
                     /\ at'[r] = "ok" \/ result'[r] = "ok" =>
                          r \in raced' \/ Len(text'[r]) <= MaxBlocks
  <2>2. SUFFICES Goal
    BY <2>1 DEF MeetInv
  \* What was true of an answer stays true when the executor delivers it.
  <2>3. ASSUME UNCHANGED text, raced \subseteq raced', result'[r] = "ok" => result[r] = "ok"
        PROVE  at'[r] = "ok" \/ result'[r] = "ok" => r \in raced' \/ Len(text'[r]) <= MaxBlocks
    BY <1>0, <1>2, <2>3 DEF MeetInv, Quiet
  <2>4. ASSUME UNCHANGED <<file, raced>>, doing'[r] = "sized" => doing[r] = "sized"
        PROVE  doing'[r] = "sized" => r \in raced' \/ Len(file'[Target[r]]) <= MaxBlocks
    BY <1>0, <2>4 DEF MeetInv
  <2>5. ASSUME NEW w \in Writes, WritesBlock(w) PROVE Goal
    <3>1. /\ raced' = raced \cup {q \in Reads : Meets(w, q) /\ doing[q] = "sized"}
          /\ doing[w] = "opened" /\ \A p \in Paths : p # Target[w] => file'[p] = file[p]
          /\ UNCHANGED <<at, doing, result, text>>
      BY <1>0, <2>5 DEF WritesBlock, handlers
    <3>2. MayRun(w)
      BY <3>1 DEF Inv, CallInv
    <3>3. r \in raced' /\ r \notin raced =>
            at[r] # "idle" /\ (at[r] \in {"awaited", "ok"} => r \in beside')
      BY <1>0, <1>2, <3>1, <3>2 DEF MeetInv, CallInv, MayRun, Quiet
    <3>4. QED BY <1>0, <2>1, <2>3, <3>1, <3>3 DEF MeetInv, Meets
  <2>6. ASSUME NEW w \in Writes, Opens(w) PROVE Goal
    <3>1. /\ file' = [file EXCEPT ![Target[w]] = <<>>] /\ Len(<<>>) = 0
          /\ w # r /\ doing' = [doing EXCEPT ![w] = "opened"]
          /\ UNCHANGED <<result, text, raced>>
      BY <2>6 DEF Opens, history
    <3>2. QED BY <1>0, <2>1, <2>3, <3>1 DEF MeetInv
  <2>7. ASSUME NEW q \in Reads, Sizes(q) PROVE Goal
    <3>1. UNCHANGED <<result, file, text, raced>> /\ doing' = [doing EXCEPT ![q] = "sized"]
          /\ (q = r => Len(file[Target[r]]) <= MaxBlocks)
      BY <2>7 DEF Sizes, files, history
    <3>2. QED BY <1>0, <2>1, <2>3, <3>1 DEF MeetInv
  <2>8. ASSUME NEW q \in Reads, ReadsText(q) PROVE Goal
    <3>1. /\ UNCHANGED <<at, file, raced>> /\ doing' = [doing EXCEPT ![q] = "none"]
          /\ result' = IF at[q] = "awaited" THEN [result EXCEPT ![q] = "ok"] ELSE result
          /\ text' = [text EXCEPT ![q] = Text(file[Target[q]])]
          /\ doing[q] = "sized"
      BY <2>8 DEF ReadsText, HandlerEnds, history
    <3>2. CASE q = r
      <4>1. Len(text'[r]) = Len(file[Target[r]])
        BY <1>0, <3>1, <3>2, TextTyped DEF ReadInv, AnyBlocks
      <4>2. QED BY <1>0, <2>1, <3>1, <3>2, <4>1 DEF MeetInv
    <3>3. CASE q # r
      BY <1>0, <2>1, <3>1, <3>3 DEF MeetInv
    <3>4. QED BY <3>2, <3>3
  <2>9. ASSUME UNCHANGED <<file, text, raced>>, doing'[r] = "sized" => doing[r] = "sized",
               result'[r] = "ok" => result[r] = "ok"
        PROVE  Goal
    BY <2>1, <2>3, <2>4, <2>9
  <2>10. ASSUME NEW c \in Calls, NEW answer, HandlerEnds(c, answer), c # r \/ answer # "ok",
                UNCHANGED <<file, text>>
         PROVE  Goal
    BY <1>0, <2>9, <2>10 DEF HandlerEnds, history
  <2>11. ASSUME NEW c \in Calls, Deliver(c) \/ TimesOut(c) \/ Cancel(c) PROVE Goal
    BY <1>0, <2>9, <2>11 DEF Deliver, TimesOut, Cancel, Abandon, files, processes
  <2>12. ASSUME \/ \E c \in Sync : Takes(c)
                \/ \E s \in Shells : Spawns(s) \/ ProcessExits(s) \/ Kills(s)
                \/ Over \/ UNCHANGED vars
         PROVE  Goal
    BY <1>0, <2>9, <2>12
    DEF Takes, Spawns, ProcessExits, Kills, Over, vars, handlers, files, processes, history
  <2>13. ASSUME \/ \E c \in Calls : Refuses(c)
                \/ \E w \in Writes : Closes(w)
                \/ \E s \in Shells : Communicates(s) \/ Reaps(s)
         PROVE  Goal
    BY <2>10, <2>13 DEF Refuses, Closes, Communicates, Reaps, files
  <2>14. CASE \E c \in Calls : Begin(c)
    BY <1>1, <2>14 DEF MeetInv
  <2>15. QED
    BY <2>5, <2>6, <2>7, <2>8, <2>11, <2>12, <2>13, <2>14 DEF Next
<1>3. QED BY <1>1, <1>2, QuietSteps

\* For any writes beside a read, any timeouts and any file: read_file passes
\* max_bytes only when a write that its caller could know of has put something into
\* the file after its look at the size (fs.py:34-41, executor.py:6-9).
THEOREM LongReadsAreAlwaysRaces == Spec => []LongReadsAreRaces
<1>1. Inv /\ Met => LongReadsAreRaces
  <2>1. ASSUME Inv, Met, NEW r \in Reads, at[r] = "ok", Len(text[r]) > MaxBlocks
        PROVE  r \in raced /\ r \in beside
    <3>1. MeetInv(r) /\ text[r] \in {Absent} \cup AnyBlocks
      BY <2>1 DEF Met, Inv, TypeOK, AnyBlocks
    <3>2. r \in raced \/ Len(text[r]) <= MaxBlocks
      BY <2>1, <3>1 DEF MeetInv
    <3>3. QED BY <2>1, <3>1, <3>2, BuiltinAssumption DEF MeetInv
  <2>2. QED BY <2>1 DEF LongReadsAreRaces
<1>2. QED BY Invariance, InvNext, MetInit, MetNext, <1>1, PTL DEF Spec

\* No command and no timeout of run_shell's own leaves a process behind an answer
\* (shell.py:27-74).
THEOREM ProcessesAlwaysEndWithAnswers == Spec => []ProcessesEndWithAnswers
<1>1. Inv => ProcessesEndWithAnswers
  BY DEF Inv, TypeOK, ShellInv, ProcessesEndWithAnswers
<1>2. QED BY Invariance, <1>1, PTL

-----------------------------------------------------------------------------
(* Sub-agents: the names that begin with Agents are those of SubAgents *)

\* A run that does not wait for a gather waits for no call.
SubInv == AgentsTypeOK /\ \A r \in Runs : run[r] # "tools" => batch[r] = {}

\* What a cancellation of r reaches: its batch, and the batch of each agent that
\* it reaches.
LEMMA ReachedIsClosed ==
  ASSUME AgentsTypeOK, NEW r \in Runs
  PROVE  /\ Reached(r) \subseteq ToolCalls
         /\ batch[r] \subseteq Reached(r)
         /\ \A a \in Reached(r) \cap Agents : batch[a] \subseteq Reached(r)
  <1>1. Reached(r) \subseteq ToolCalls
    BY DEF Reached
  <1>2. \A q \in Runs : batch[q] \subseteq ToolCalls
    BY DEF AgentsTypeOK
  <1>3. batch[r] \subseteq Reached(r)
    BY <1>2 DEF Reached
  <1>4. ASSUME NEW a \in Reached(r) \cap Agents, NEW c \in batch[a]
        PROVE  c \in Reached(r)
    <2>1. c \in ToolCalls
      BY <1>2 DEF Runs
    <2>2. ASSUME NEW S \in SUBSET ToolCalls, batch[r] \subseteq S,
                 \A b \in S \cap Agents : batch[b] \subseteq S
          PROVE  c \in S
      BY <2>2 DEF Reached
    <2> QED BY <2>1, <2>2 DEF Reached
  <1> QED BY <1>1, <1>3, <1>4

LEMMA BelowIsClosed ==
  ASSUME AgentsTypeOK, NEW c \in ToolCalls
  PROVE  /\ Below(c) \subseteq ToolCalls
         /\ \A a \in Below(c) \cap Agents : batch[a] \subseteq Below(c)
  BY ReachedIsClosed, SubAgentsAssumption DEF Below, Runs

\* An agent is a call and, while that call is inside, a run.
LEMMA SubNames ==
  /\ Agents \subseteq ToolCalls
  /\ Agents \subseteq Runs
  /\ Tops \subseteq Runs
  /\ \A c \in ToolCalls : c \in Runs => c \in Agents
  /\ \A t \in Tops : t \notin ToolCalls
  /\ \A c \in ToolCalls : By[c] \in Runs
  BY SubAgentsAssumption DEF Runs

LEMMA SubInvInit == AgentsInit => SubInv
  BY SubAgentsAssumption, SubNames DEF AgentsInit, SubInv, AgentsTypeOK

LEMMA SubInvStep == SubInv /\ [AgentsNext]_agentsVars => SubInv'
  <1> SUFFICES ASSUME SubInv, [AgentsNext]_agentsVars PROVE SubInv'
    OBVIOUS
  <1> USE SubAgentsAssumption, SubNames
  <1>1. ASSUME NEW t \in Tops, Start(t) PROVE SubInv'
    BY <1>1 DEF SubInv, AgentsTypeOK, Start
  <1>2. ASSUME NEW r \in Runs, Asks(r) PROVE SubInv'
    BY <1>2 DEF SubInv, AgentsTypeOK, Asks
  <1>3. ASSUME NEW r \in Runs, Ends(r) PROVE SubInv'
    BY <1>3 DEF SubInv, AgentsTypeOK, Ends
  <1>4. ASSUME NEW r \in Runs, BatchEnds(r) PROVE SubInv'
    BY <1>4 DEF SubInv, AgentsTypeOK, BatchEnds
  <1>5. ASSUME NEW c \in ToolCalls, Enter(c) PROVE SubInv'
    BY <1>5 DEF SubInv, AgentsTypeOK, Enter
  <1>6. ASSUME NEW c \in ToolCalls, Returns(c) PROVE SubInv'
    BY <1>6 DEF SubInv, AgentsTypeOK, Returns
  <1>7. ASSUME NEW c \in ToolCalls, Raises(c) PROVE SubInv'
    <2>1. Below(c) \subseteq ToolCalls
      BY BelowIsClosed DEF SubInv
    <2> QED BY <1>7, <2>1 DEF SubInv, AgentsTypeOK, Raises, Below
  <1>8. ASSUME NEW c \in ToolCalls, Expires(c) PROVE SubInv'
    <2>1. Below(c) \subseteq ToolCalls
      BY BelowIsClosed DEF SubInv
    <2> QED BY <1>8, <2>1 DEF SubInv, AgentsTypeOK, Expires, Withdraw, Below
  <1>9. ASSUME NEW t \in Tops, CancelRun(t) PROVE SubInv'
    <2>1. Reached(t) \subseteq ToolCalls
      BY ReachedIsClosed DEF SubInv
    <2> QED BY <1>9, <2>1 DEF SubInv, AgentsTypeOK, CancelRun, Withdraw
  <1>10. CASE UNCHANGED agentsVars
    BY <1>10 DEF SubInv, AgentsTypeOK, agentsVars
  <1> QED
    BY <1>1, <1>2, <1>3, <1>4, <1>5, <1>6, <1>7, <1>8, <1>9, <1>10 DEF AgentsNext, Rest

LEMMA SubInvAlways == AgentsSpec => []SubInv
  BY SubInvInit, SubInvStep, PTL DEF AgentsSpec

\* The state keeps its shape: a sub-agent's run is under way exactly while its
\* call is inside, whatever ends the call.
THEOREM AgentsTypeCorrect == AgentsSpec => []AgentsTypeOK
  <1>1. SubInv => AgentsTypeOK
    BY DEF SubInv
  <1> QED BY <1>1, SubInvAlways, PTL

LEMMA LeaveStep ==
  SubInv /\ OnlyRaisesLeaveCalls /\ [AgentsNext]_agentsVars
  => OnlyRaisesLeaveCalls'
  <1> SUFFICES ASSUME SubInv, OnlyRaisesLeaveCalls, [AgentsNext]_agentsVars,
                      NEW d \in ToolCalls, place'[d] # "idle"
               PROVE  d \in batch'[By[d]] \/ By[d] \in raised'
    BY DEF OnlyRaisesLeaveCalls
  <1> USE SubAgentsAssumption, SubNames DEF OnlyRaisesLeaveCalls
  <1>1. CASE UNCHANGED <<place, batch, raised>>
    BY <1>1
  <1>2. ASSUME NEW r \in Runs, Asks(r)
        PROVE  d \in batch'[By[d]] \/ By[d] \in raised'
    BY <1>2 DEF SubInv, AgentsTypeOK, Asks
  <1>3. ASSUME NEW r \in Runs, BatchEnds(r)
        PROVE  d \in batch'[By[d]] \/ By[d] \in raised'
    BY <1>3 DEF SubInv, AgentsTypeOK, BatchEnds
  <1>4. ASSUME NEW c \in ToolCalls, Enter(c) \/ Returns(c)
        PROVE  d \in batch'[By[d]] \/ By[d] \in raised'
    BY <1>4 DEF SubInv, AgentsTypeOK, Enter, Returns
  <1>5. ASSUME NEW c \in ToolCalls, Raises(c)
        PROVE  d \in batch'[By[d]] \/ By[d] \in raised'
    <2>1. \A a \in Below(c) \cap Agents : batch[a] \subseteq Below(c)
      BY BelowIsClosed DEF SubInv
    <2>2. PICK heard \in SUBSET Runs :
            /\ d \notin Below(c) /\ place[d] # "idle"
            /\ batch' = [r \in Runs |-> IF r \in Below(c) \cup heard THEN {} ELSE batch[r]]
            /\ raised' = raised \cup heard
      BY <1>5 DEF Raises
    <2>3. By[d] \in Runs /\ (By[d] \in Below(c) => By[d] \in Agents)
      BY BelowIsClosed DEF SubInv
    <2> QED BY <2>1, <2>2, <2>3
  <1>6. ASSUME NEW c \in ToolCalls, Expires(c)
        PROVE  d \in batch'[By[d]] \/ By[d] \in raised'
    <2>1. \A a \in Below(c) \cap Agents : batch[a] \subseteq Below(c)
      BY BelowIsClosed DEF SubInv
    <2>2. Below(c) \subseteq ToolCalls
      BY BelowIsClosed DEF SubInv
    <2>3. /\ d \notin Below(c) /\ place[d] # "idle"
          /\ batch' = [r \in Runs |-> IF r \in Below(c) THEN {} ELSE batch[r]]
          /\ raised' = raised
      BY <1>6 DEF Expires, Withdraw
    <2> QED BY <2>1, <2>2, <2>3
  <1>7. ASSUME NEW t \in Tops, CancelRun(t)
        PROVE  d \in batch'[By[d]] \/ By[d] \in raised'
    <2>1. /\ \A a \in Reached(t) \cap Agents : batch[a] \subseteq Reached(t)
          /\ batch[t] \subseteq Reached(t)
          /\ Reached(t) \subseteq ToolCalls
      BY ReachedIsClosed DEF SubInv
    <2>2. /\ d \notin Reached(t) /\ place[d] # "idle"
          /\ batch' = [r \in Runs |-> IF r \in Reached(t) \cup {t} THEN {} ELSE batch[r]]
          /\ raised' = raised
      BY <1>7 DEF CancelRun, Withdraw
    <2> QED BY <2>1, <2>2
  <1>8. ASSUME \/ \E t \in Tops : Start(t)
               \/ \E r \in Runs : Ends(r)
               \/ UNCHANGED agentsVars
        PROVE  UNCHANGED <<place, batch, raised>>
    BY <1>8 DEF Start, Ends, agentsVars
  <1> QED
    BY <1>1, <1>2, <1>3, <1>4, <1>5, <1>6, <1>7, <1>8 DEF AgentsNext, Rest

\* However deep agents are nested, a timeout or a cancellation leaves no call
\* running below it: calls are left behind only where gather passed an exception on.
THEOREM NothingElseLeavesCalls == AgentsSpec => []OnlyRaisesLeaveCalls
  <1>1. AgentsInit => OnlyRaisesLeaveCalls
    BY DEF AgentsInit, OnlyRaisesLeaveCalls
  <1> QED BY <1>1, LeaveStep, SubInvAlways, PTL DEF AgentsSpec
=============================================================================
