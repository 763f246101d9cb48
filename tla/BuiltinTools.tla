---------------------------- MODULE BuiltinTools ----------------------------
(***************************************************************************)
(* lingyia_kit/tools/fs.py and shell.py: the handlers of write_file,       *)
(* read_file and run_shell under ToolExecutor.  Calls come in any order,   *)
(* one after the other or in one batch.  The file handlers run on threads, *)
(* which a timeout does not stop; run_shell is a coroutine, which a        *)
(* timeout cancels, with a process outside.                                *)
(*                                                                         *)
(* A file is a sequence of blocks, stretches of one length that end        *)
(* between two characters and not inside a CRLF.  Opening it to write      *)
(* truncates it, each block goes where its writer stands, as it is (a      *)
(* POSIX system writes no other line ends), and what nobody has written in *)
(* between is a Hole.  A read takes the whole file at once, as text: see   *)
(* Shown.  Which arguments a handler turns down (a path outside the root,  *)
(* a command not on the list) is left open.  A call is one attempt: a      *)
(* retry is another call with the same contents.                           *)
(* An operator named ...Slip is a plausible slip in the definition that    *)
(* follows it; only mutants use it.                                        *)
(***************************************************************************)
EXTENDS Naturals, Sequences

CONSTANTS
  Writes, Reads, Shells,  \* the calls, by tool
  Paths, Blocks,
  Target,                 \* [Writes \cup Reads -> Paths]
  Content,                \* [Writes -> Seq(Blocks)]
  Found,                  \* contents that a file may have before the first call
  Shown,                  \* [Blocks -> Blocks]: a block as text mode reads it, with CR and
                          \* CRLF as LF and bytes that are no UTF-8 as U+FFFD
  MaxBlocks,              \* read_file's max_bytes
  Patient                 \* shell calls for which the executor's timeout is the longer one

CONSTANTS Absent, Unknown, Hole

ASSUME BuiltinAssumption ==
  /\ Writes \cap Reads = {} /\ Shells \cap (Writes \cup Reads) = {}
  /\ Target \in [Writes \cup Reads -> Paths]
  /\ Content \in [Writes -> Seq(Blocks)]
  /\ Found \subseteq Seq(Blocks) /\ Shown \in [Blocks -> Blocks]
  /\ MaxBlocks \in Nat /\ Patient \subseteq Shells

VARIABLES
  at,       \* [Calls -> "idle", "awaited", or how the executor answered the call]
  doing,    \* [Calls -> where its handler is, "none" when it is not running]
  result,   \* [Calls -> {"none", "ok", "error"}]: of a handler the executor has not seen yet
  file,     \* [Paths -> sequences of blocks, or Absent]
  written,  \* [Writes -> how many blocks its handler has written]
  text,     \* [Reads -> the text its handler answers with]
  alive,    \* the shell calls whose process lives
  told,     \* the calls that a tool_timeout announced with may_still_be_running
  alone,    \* history: awaited writes that no other write to the path may disturb
  trusted,  \* history: [Paths -> the contents the answers so far vouch for, or Unknown]
  believed, \* history: [Reads -> what they vouched for throughout the read, or Unknown]
  beside,   \* history: reads beside which, as far as the events say, a write was at work
  raced     \* history: reads whose file got a block after they had looked at its size

handlers == <<at, doing, result>>
files == <<file, written, text>>
processes == <<alive, told>>
history == <<alone, trusted, believed, beside, raced>>
vars == <<handlers, files, processes, history>>

Calls == Writes \cup Reads \cup Shells
Sync == Writes \cup Reads

-----------------------------------------------------------------------------
(* The executor *)

Init ==
  /\ at = [c \in Calls |-> "idle"]
  /\ doing = [c \in Calls |-> "none"]
  /\ result = [c \in Calls |-> "none"]
  /\ file \in [Paths -> {Absent} \cup Found]
  /\ written = [w \in Writes |-> 0]
  /\ text = [r \in Reads |-> Absent]
  /\ alive = {} /\ told = {}
  /\ alone = {} /\ trusted = file /\ believed = [r \in Reads |-> Unknown]
  /\ beside = {} /\ raced = {}

Rivals(w) == {v \in Writes \ {w} : Target[v] = Target[w]}

\* As far as the events say, the handler may be at work.
MayRun(c) == at[c] \in {"awaited", "cancelled"} \/ c \in told

Meets(w, r) == Target[w] = Target[r]

\* A thread's job waits in the pool; a coroutine starts.
Begin(c) ==
  /\ at[c] = "idle"
  /\ at' = [at EXCEPT ![c] = "awaited"]
  /\ doing' = [doing EXCEPT ![c] = IF c \in Sync THEN "queued" ELSE "running"]
  /\ IF c \in Writes
     THEN /\ alone' = (alone \ Rivals(c)) \cup
                      (IF \E v \in Rivals(c) : MayRun(v) THEN {} ELSE {c})
          /\ trusted' = [trusted EXCEPT ![Target[c]] = Unknown]
          /\ believed' = [r \in Reads |->
                            IF Meets(c, r) /\ at[r] = "awaited" THEN Unknown
                            ELSE believed[r]]
          /\ beside' = beside \cup {r \in Reads : Meets(c, r) /\ at[r] = "awaited"}
     ELSE /\ believed' = [r \in Reads |->
                            IF r = c THEN trusted[Target[r]] ELSE believed[r]]
          /\ beside' = beside \cup
                         {r \in Reads \cap {c} : \E w \in Writes : Meets(w, r) /\ MayRun(w)}
          /\ UNCHANGED <<alone, trusted>>
  /\ UNCHANGED <<result, files, processes, raced>>

Takes(c) ==
  /\ doing[c] = "queued"
  /\ doing' = [doing EXCEPT ![c] = "running"]
  /\ UNCHANGED <<at, result, files, processes, history>>

\* The handler returns; its result is lost when nobody awaits it.
HandlerEnds(c, answer) ==
  /\ doing' = [doing EXCEPT ![c] = "none"]
  /\ result' = IF at[c] = "awaited" THEN [result EXCEPT ![c] = answer] ELSE result
  /\ UNCHANGED <<at, told, history>>

Deliver(c) ==
  /\ at[c] = "awaited" /\ result[c] # "none"
  /\ at' = [at EXCEPT ![c] = result[c]]
  /\ result' = [result EXCEPT ![c] = "none"]
  /\ trusted' = IF c \in alone /\ result[c] = "ok"
                THEN [trusted EXCEPT ![Target[c]] = Content[c]] ELSE trusted
  /\ alone' = alone \ {c}
  /\ UNCHANGED <<doing, files, processes, believed, beside, raced>>

\* A job still in the pool is withdrawn; a thread goes on; a coroutine ends where
\* it awaits, for no except clause of run_shell is about CancelledError.
Abandon(c, ending) ==
  /\ at[c] = "awaited"
  /\ at' = [at EXCEPT ![c] = ending]
  /\ doing' = [doing EXCEPT ![c] = IF c \in Shells \/ @ = "queued" THEN "none" ELSE @]
  /\ result' = [result EXCEPT ![c] = "none"]
  /\ alone' = alone \ {c}
  /\ UNCHANGED <<files, alive, trusted, believed, beside, raced>>

AnnouncedSlip(c) == {c} \cap Shells
Announced(c) == {c} \cap Sync

TimesOut(c) == Abandon(c, "timed_out") /\ told' = told \cup Announced(c)
Cancel(c) == Abandon(c, "cancelled") /\ UNCHANGED told

-----------------------------------------------------------------------------
(* The handlers *)

\* Its checks turn the arguments down, or an exception becomes its answer: a write
\* that fails after it has opened the file leaves it truncated.
Refuses(c) ==
  /\ doing[c] \in {"running", "opened", "sized"}
  /\ HandlerEnds(c, "error")
  /\ UNCHANGED <<files, alive>>

Opens(w) ==
  /\ doing[w] = "running"
  /\ doing' = [doing EXCEPT ![w] = "opened"]
  /\ file' = [file EXCEPT ![Target[w]] = <<>>]
  /\ UNCHANGED <<at, result, written, text, processes, history>>

\* The i-th block of a file becomes b.
Overlaid(blocks, i, b) ==
  [j \in 1..(IF i > Len(blocks) THEN i ELSE Len(blocks)) |->
     IF j = i THEN b ELSE IF j <= Len(blocks) THEN blocks[j] ELSE Hole]

WritesBlock(w) ==
  /\ doing[w] = "opened" /\ written[w] < Len(Content[w])
  /\ written' = [written EXCEPT ![w] = @ + 1]
  /\ file' = [file EXCEPT ![Target[w]] = Overlaid(@, written'[w], Content[w][written'[w]])]
  /\ raced' = raced \cup {r \in Reads : Meets(w, r) /\ doing[r] = "sized"}
  /\ UNCHANGED <<handlers, text, processes, alone, trusted, believed, beside>>

ClosesSlip(w) ==
  /\ doing[w] = "opened"
  /\ HandlerEnds(w, "ok")
  /\ UNCHANGED <<files, alive>>
Closes(w) ==
  /\ doing[w] = "opened" /\ written[w] = Len(Content[w])
  /\ HandlerEnds(w, "ok")
  /\ UNCHANGED <<files, alive>>

\* read_file looks at the size first, and reads what is there by then.
SizesSlip(r) ==
  /\ doing[r] = "running"
  /\ file[Target[r]] # Absent
  /\ doing' = [doing EXCEPT ![r] = "sized"]
  /\ UNCHANGED <<at, result, files, processes, history>>
Sizes(r) ==
  /\ doing[r] = "running"
  /\ file[Target[r]] # Absent /\ Len(file[Target[r]]) <= MaxBlocks
  /\ doing' = [doing EXCEPT ![r] = "sized"]
  /\ UNCHANGED <<at, result, files, processes, history>>

\* The whole of a file as text; zero bytes are characters like any other.
Text(blocks) == [i \in DOMAIN blocks |-> IF blocks[i] = Hole THEN Hole ELSE Shown[blocks[i]]]

ReadsTextSlip(r) ==
  /\ doing[r] = "sized"
  /\ text' = [text EXCEPT ![r] = file[Target[r]]]
  /\ HandlerEnds(r, "ok")
  /\ UNCHANGED <<file, written, alive>>
ReadsText(r) ==
  /\ doing[r] = "sized"
  /\ text' = [text EXCEPT ![r] = Text(file[Target[r]])]
  /\ HandlerEnds(r, "ok")
  /\ UNCHANGED <<file, written, alive>>

Spawns(s) ==
  /\ doing[s] = "running"
  /\ doing' = [doing EXCEPT ![s] = "communicating"]
  /\ alive' = alive \cup {s}
  /\ UNCHANGED <<at, result, files, told, history>>

ProcessExits(s) ==
  /\ s \in alive
  /\ alive' = alive \ {s}
  /\ UNCHANGED <<handlers, files, told, history>>

\* Its output has ended and it has exited, with any code.
Communicates(s) ==
  /\ doing[s] = "communicating" /\ s \notin alive
  /\ \E answer \in {"ok", "error"} : HandlerEnds(s, answer)
  /\ UNCHANGED <<files, alive>>

\* run_shell's own timer has the length of the executor's and starts after it: it
\* comes first only where the executor has been given more time.
KillsSlip(s) ==
  /\ doing[s] = "communicating" /\ s \in Patient
  /\ doing' = [doing EXCEPT ![s] = "reaping"]
  /\ UNCHANGED <<at, result, files, processes, history>>
Kills(s) ==
  /\ doing[s] = "communicating" /\ s \in Patient
  /\ doing' = [doing EXCEPT ![s] = "reaping"]
  /\ alive' = alive \ {s}
  /\ UNCHANGED <<at, result, files, told, history>>

Reaps(s) ==
  /\ doing[s] = "reaping"
  /\ HandlerEnds(s, "error")
  /\ UNCHANGED <<files, alive>>

\* Every call is over, and so is what it has started.
Over ==
  /\ \A c \in Calls : at[c] \notin {"idle", "awaited"} /\ doing[c] = "none"
  /\ alive = {}
  /\ UNCHANGED vars

Next ==
  \/ \E c \in Calls : Begin(c) \/ Deliver(c) \/ TimesOut(c) \/ Cancel(c) \/ Refuses(c)
  \/ \E c \in Sync : Takes(c)
  \/ \E w \in Writes : Opens(w) \/ WritesBlock(w) \/ Closes(w)
  \/ \E r \in Reads : Sizes(r) \/ ReadsText(r)
  \/ \E s \in Shells : Spawns(s) \/ ProcessExits(s) \/ Communicates(s) \/ Kills(s) \/ Reaps(s)
  \/ Over

Spec == Init /\ [][Next]_vars

-----------------------------------------------------------------------------
(* Properties *)

\* The shape of the state.
TypeOK ==
  /\ at \in [Calls -> {"idle", "awaited", "ok", "error", "timed_out", "cancelled"}]
  /\ doing \in [Calls -> {"none", "queued", "running", "opened", "sized",
                         "communicating", "reaping"}]
  /\ result \in [Calls -> {"none", "ok", "error"}]
  /\ file \in [Paths -> {Absent} \cup Seq(Blocks \cup {Hole})]
  /\ written \in [Writes -> Nat]
  /\ text \in [Reads -> {Absent} \cup Seq(Blocks \cup {Hole})]
  /\ alive \subseteq Shells /\ told \subseteq Sync
  /\ alone \subseteq Writes
  /\ trusted \in [Paths -> {Absent, Unknown} \cup Seq(Blocks \cup {Hole})]
  /\ believed \in [Reads -> {Absent, Unknown} \cup Seq(Blocks \cup {Hole})]
  /\ beside \subseteq Reads /\ raced \subseteq Reads

\* What the answers and events of the file tools let a caller rely on.  A file
\* holds what the last successful write_file put there, unless another write to it
\* failed, was cancelled, ran at the same time, or timed out with the announcement
\* "may_still_be_running" (executor.py:6-9).  So no thread that a timeout left
\* behind changes a file behind the caller's back.
WritesAreKept == \A p \in Paths : trusted[p] # Unknown => file[p] = trusted[p]

\* read_file answers with what the answers and events vouch for, whole, although it
\* looks at the file twice.  It is not the text that write_file was given: line ends
\* have become LF and bytes that are no UTF-8 U+FFFD (fs.py:41).
ReadsAreTrue ==
  \A r \in Reads :
    at[r] = "ok" /\ believed[r] # Unknown => text[r] = Text(believed[r])

\* Of any file, vouched for or not, read_file answers with more than max_bytes only
\* if a write put something there between its look at the size and its read
\* (fs.py:34-41), and then no caller need be surprised: of that write the answers
\* and events had it that it might be at work beside the read.
LongReadsAreRaces ==
  \A r \in Reads :
    at[r] = "ok" /\ Len(text[r]) > MaxBlocks => r \in raced /\ r \in beside

\* A process outlives its call only when the executor's timeout or a cancellation
\* took the call from its handler: run_shell never answers, and never gives up on
\* its own timeout, with the process alive.
ProcessesEndWithAnswers ==
  \A s \in alive :
    \/ at[s] = "awaited" /\ doing[s] = "communicating"
    \/ at[s] \in {"timed_out", "cancelled"}
=============================================================================
