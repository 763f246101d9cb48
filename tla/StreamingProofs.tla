--------------------------- MODULE StreamingProofs ---------------------------
(* What holds of event streams for any number of streams, runs and events. *)
EXTENDS Streaming, TLAPS

\* A chain of sinks, current or to be restored, begins with the runtime's own.
ChainInv ==
  \A s \in Streams : original[s] # <<>> /\ Head(original[s]) = "primary"

\* What is logged has been emitted, and what has been emitted is logged.
LogInv ==
  /\ \A k \in 1..Len(logged) : \E r \in Runs : \E n \in 1..emitted[r] : logged[k] = <<r, n>>
  /\ NothingHidden

StartInv ==
  /\ \A r \in Runs : run[r] = "new" => emitted[r] = 0
  /\ \A s \in Streams : gen[s] = "new" => run[s] = "new"

\* As long as no two streams have met, one at most is open and knows the sink to
\* give back.
MetInv == \A s, u \in Open : s # u => s \in met

BackInv ==
  met = {} => /\ Open = {} => telemetry = <<"primary">>
              /\ \A s \in Open : original[s] = <<"primary">>

\* The n-th event of s is in the sequence before its k-th place.
Before(seq, s, n, k) == \E j \in 1..(k - 1) : seq[j] = <<s, n>>
Has(seq, s, n) == \E j \in 1..Len(seq) : seq[j] = <<s, n>>

\* No event of s in the sequence is beyond the e-th.
UpTo(s, e, seq) == \A n \in Nat \ {0} : Has(seq, s, n) => n <= e

\* The events of s are there in order.
InOrder(s, e, got) ==
  \A k \in 1..Len(got) : \A n \in 1..e :
    got[k] = <<s, n>> =>
      /\ \A m \in 1..(n - 1) : Before(got, s, m, k)
      /\ ~Before(got, s, n, k)

\* seq goes on in order where got ends, up to the e-th event of s.
GoesOn(s, e, got, seq) ==
  /\ \A k \in 1..Len(seq) : \A n \in 1..e :
       seq[k] = <<s, n>> =>
         /\ ~Has(got, s, n)
         /\ \A m \in 1..(n - 1) : Has(got, s, m) \/ Before(seq, s, m, k)
         /\ ~Before(seq, s, n, k)
  /\ \A n \in 1..e : Has(got, s, n) \/ Has(seq, s, n)

AllThere(s, e, got) == \A n \in 1..e : Has(got, s, n)

EmittedInv ==
  \A s \in Streams : UpTo(s, emitted[s], yielded[s]) /\ UpTo(s, emitted[s], queue[s])

LoneInv(s) ==
  s \notin met =>
    /\ InOrder(s, emitted[s], yielded[s])
    /\ s \in Open => To(s) /\ GoesOn(s, emitted[s], yielded[s], queue[s])
    /\ gen[s] = "final" => Over(s) /\ AllThere(s, emitted[s], yielded[s])

Inv ==
  /\ TypeOK /\ ChainInv /\ LogInv /\ StartInv /\ MetInv /\ BackInv /\ EmittedInv
  /\ \A s \in Streams : LoneInv(s)

-----------------------------------------------------------------------------
(* Sequences of events *)

LEMMA HasAppend ==
  ASSUME NEW S, NEW seq \in Seq(S), NEW e \in S, NEW s, NEW n
  PROVE  Has(Append(seq, e), s, n) <=> Has(seq, s, n) \/ e = <<s, n>>
<1> DEFINE more == Append(seq, e)
<1>1. Len(seq) \in Nat /\ Len(more) = Len(seq) + 1 /\ more[Len(seq) + 1] = e
  OBVIOUS
<1>2. \A k \in 1..Len(seq) : more[k] = seq[k]
  OBVIOUS
<1> HIDE DEF more
<1>3. \A k \in 1..Len(more) : k \in 1..Len(seq) \/ k = Len(seq) + 1
  BY <1>1
<1>4. \A k \in 1..Len(seq) : k \in 1..Len(more)
  BY <1>1
<1>5. Len(seq) + 1 \in 1..Len(more)
  BY <1>1
<1>6. Has(more, s, n) <=> Has(seq, s, n) \/ e = <<s, n>>
  BY <1>1, <1>2, <1>3, <1>4, <1>5, Zenon DEF Has
<1>7. QED BY <1>6 DEF more

LEMMA BeforeAppend ==
  ASSUME NEW S, NEW seq \in Seq(S), NEW e \in S, NEW s, NEW n
  PROVE  /\ \A k \in 1..Len(seq) :
              Append(seq, e)[k] = seq[k] /\ (Before(Append(seq, e), s, n, k) <=> Before(seq, s, n, k))
         /\ Append(seq, e)[Len(seq) + 1] = e
         /\ Before(Append(seq, e), s, n, Len(seq) + 1) <=> Has(seq, s, n)
         /\ Len(Append(seq, e)) = Len(seq) + 1
BY DEF Has, Before

LEMMA HasTail ==
  ASSUME NEW S, NEW seq \in Seq(S), seq # <<>>, NEW s, NEW n
  PROVE  Has(seq, s, n) <=> Head(seq) = <<s, n>> \/ Has(Tail(seq), s, n)
<1>1. \A k \in 1..Len(Tail(seq)) : k + 1 \in 1..Len(seq) /\ Tail(seq)[k] = seq[k + 1]
  OBVIOUS
<1>2. \A k \in 1..Len(seq) : k = 1 \/ (k - 1 \in 1..Len(Tail(seq)) /\ k - 1 + 1 = k)
  OBVIOUS
<1>3. Head(seq) = seq[1] /\ 1 \in 1..Len(seq)
  OBVIOUS
<1>4. QED BY <1>1, <1>2, <1>3 DEF Has

LEMMA BeforeTail ==
  ASSUME NEW S, NEW seq \in Seq(S), seq # <<>>, NEW s, NEW n,
         NEW k \in 1..Len(Tail(seq))
  PROVE  /\ k + 1 \in 1..Len(seq) /\ Tail(seq)[k] = seq[k + 1]
         /\ Before(seq, s, n, k + 1) <=> Head(seq) = <<s, n>> \/ Before(Tail(seq), s, n, k)
<1> DEFINE rest == Tail(seq)
<1>1. /\ k \in Nat /\ k + 1 \in 1..Len(seq) /\ k + 1 - 1 = k
      /\ Head(seq) = seq[1] /\ 1 \in 1..k
  OBVIOUS
<1>2. \A j \in 1..k : rest[j] = seq[j + 1]
  OBVIOUS
<1> HIDE DEF rest
<1>3. \A j \in 1..k : j = 1 \/ (j - 1 \in 1..(k - 1) /\ rest[j - 1] = seq[j])
  BY <1>1, <1>2
<1>4. \A j \in 1..(k - 1) : j + 1 \in 1..k /\ rest[j] = seq[j + 1]
  BY <1>1, <1>2
<1>5. ASSUME Before(seq, s, n, k + 1) PROVE Head(seq) = <<s, n>> \/ Before(rest, s, n, k)
  <2>1. PICK j \in 1..k : seq[j] = <<s, n>>
    BY <1>1, <1>5 DEF Before
  <2>2. QED BY <1>1, <1>3, <2>1 DEF Before
<1>6. ASSUME Head(seq) = <<s, n>> \/ Before(rest, s, n, k) PROVE Before(seq, s, n, k + 1)
  <2>1. CASE Head(seq) = <<s, n>>
    BY <1>1, <2>1 DEF Before
  <2>2. CASE Before(rest, s, n, k)
    <3>1. PICK j \in 1..(k - 1) : rest[j] = <<s, n>>
      BY <2>2 DEF Before
    <3>2. j + 1 \in 1..(k + 1 - 1) /\ seq[j + 1] = <<s, n>>
      BY <1>1, <1>4, <3>1
    <3>3. QED BY <3>2 DEF Before
  <2>3. QED BY <1>6, <2>1, <2>2
<1>7. QED BY <1>1, <1>2, <1>5, <1>6 DEF rest

\* The next event of s is queued last.
LEMMA EmitGoesOn ==
  ASSUME NEW S, NEW s, NEW e \in Nat, <<s, e + 1>> \in S,
         NEW got \in Seq(S), NEW seq \in Seq(S), UpTo(s, e, got), UpTo(s, e, seq)
  PROVE  /\ InOrder(s, e, got) => InOrder(s, e + 1, got)
         /\ UpTo(s, e + 1, got) /\ UpTo(s, e + 1, Append(seq, <<s, e + 1>>))
         /\ InOrder(s, e, got) /\ GoesOn(s, e, got, seq)
              => GoesOn(s, e + 1, got, Append(seq, <<s, e + 1>>))
<1> DEFINE more == Append(seq, <<s, e + 1>>)
<1>1. \A n : Has(more, s, n) <=> Has(seq, s, n) \/ n = e + 1
  BY HasAppend
<1>2. /\ \A n, k : k \in 1..Len(seq) =>
           more[k] = seq[k] /\ (Before(more, s, n, k) <=> Before(seq, s, n, k))
      /\ more[Len(seq) + 1] = <<s, e + 1>>
      /\ \A n : Before(more, s, n, Len(seq) + 1) <=> Has(seq, s, n)
      /\ Len(more) = Len(seq) + 1
  BY BeforeAppend
<1>3. Len(seq) \in Nat /\ Len(got) \in Nat
  OBVIOUS
<1> HIDE DEF more
<1>4. ~Has(got, s, e + 1) /\ ~Has(seq, s, e + 1)
  BY DEF UpTo
<1>5. UpTo(s, e + 1, got) /\ UpTo(s, e + 1, more)
  BY <1>1 DEF UpTo
<1>6. ASSUME InOrder(s, e, got) PROVE InOrder(s, e + 1, got)
  BY <1>4, <1>6 DEF InOrder, Has
<1>7. ASSUME GoesOn(s, e, got, seq) PROVE GoesOn(s, e + 1, got, more)
  <2>1. ASSUME NEW n \in 1..(e + 1) PROVE Has(got, s, n) \/ Has(more, s, n)
    BY <1>1, <1>7, <2>1 DEF GoesOn
  <2>2. ASSUME NEW k \in 1..Len(more), NEW n \in 1..(e + 1), more[k] = <<s, n>>
        PROVE  /\ ~Has(got, s, n)
               /\ \A m \in 1..(n - 1) : Has(got, s, m) \/ Before(more, s, m, k)
               /\ ~Before(more, s, n, k)
    <3>1. CASE k \in 1..Len(seq)
      <4>1. seq[k] = <<s, n>>
        BY <1>2, <2>2, <3>1
      <4>2. n \in 1..e
        BY <1>4, <3>1, <4>1 DEF Has
      <4>3. QED BY <1>2, <1>7, <3>1, <4>1, <4>2 DEF GoesOn
    <3>2. CASE k = Len(seq) + 1
      <4>1. n = e + 1
        BY <1>2, <2>2, <3>2
      <4>2. QED BY <1>2, <1>4, <1>7, <3>2, <4>1 DEF GoesOn
    <3>3. QED BY <1>2, <1>3, <2>2, <3>1, <3>2
  <2>3. QED BY <2>1, <2>2 DEF GoesOn
<1>8. QED BY <1>5, <1>6, <1>7 DEF more

\* Events of other runs do not count.
LEMMA OthersGoBy ==
  ASSUME NEW S, NEW s, NEW e \in Nat, NEW other \in S, \A n : other # <<s, n>>,
         NEW got \in Seq(S), NEW seq \in Seq(S)
  PROVE  /\ UpTo(s, e, seq) => UpTo(s, e, Append(seq, other))
         /\ GoesOn(s, e, got, seq) => GoesOn(s, e, got, Append(seq, other))
<1> DEFINE more == Append(seq, other)
<1>1. \A n : Has(more, s, n) <=> Has(seq, s, n)
  BY HasAppend
<1>2. /\ \A n, k : k \in 1..Len(seq) =>
           more[k] = seq[k] /\ (Before(more, s, n, k) <=> Before(seq, s, n, k))
      /\ more[Len(seq) + 1] = other
      /\ Len(more) = Len(seq) + 1
  BY BeforeAppend
<1>3. Len(seq) \in Nat
  OBVIOUS
<1> HIDE DEF more
<1>4. \A k \in 1..Len(more) : k \in 1..Len(seq) \/ k = Len(seq) + 1
  BY <1>2, <1>3
<1>5. UpTo(s, e, seq) => UpTo(s, e, more)
  BY <1>1 DEF UpTo
<1>6. GoesOn(s, e, got, seq) => GoesOn(s, e, got, more)
  BY <1>1, <1>2, <1>4 DEF GoesOn
<1>7. QED BY <1>5, <1>6 DEF more

\* The first event in the queue is yielded.
LEMMA YieldMoves ==
  ASSUME NEW S, NEW s, NEW e \in Nat, NEW got \in Seq(S), NEW seq \in Seq(S), seq # <<>>
  PROVE  /\ UpTo(s, e, got) /\ UpTo(s, e, seq)
              => UpTo(s, e, Append(got, Head(seq))) /\ UpTo(s, e, Tail(seq))
         /\ InOrder(s, e, got) /\ GoesOn(s, e, got, seq)
              => /\ InOrder(s, e, Append(got, Head(seq)))
                 /\ GoesOn(s, e, Append(got, Head(seq)), Tail(seq))
<1> DEFINE first == Head(seq)
           rest == Tail(seq)
           more == Append(got, first)
<1>1. /\ first \in S /\ rest \in Seq(S) /\ first = seq[1] /\ 1 \in 1..Len(seq)
      /\ Len(got) \in Nat
  OBVIOUS
<1>2. \A n : Has(more, s, n) <=> Has(got, s, n) \/ first = <<s, n>>
  BY <1>1, HasAppend
<1>3. \A n : Has(seq, s, n) <=> first = <<s, n>> \/ Has(rest, s, n)
  BY HasTail
<1>4. /\ \A n, k : k \in 1..Len(got) =>
           more[k] = got[k] /\ (Before(more, s, n, k) <=> Before(got, s, n, k))
      /\ more[Len(got) + 1] = first
      /\ \A n : Before(more, s, n, Len(got) + 1) <=> Has(got, s, n)
      /\ Len(more) = Len(got) + 1
  BY <1>1, BeforeAppend
<1>5. \A n, k : k \in 1..Len(rest) =>
        /\ k + 1 \in 1..Len(seq) /\ rest[k] = seq[k + 1]
        /\ Before(seq, s, n, k + 1) <=> first = <<s, n>> \/ Before(rest, s, n, k)
  BY BeforeTail
<1>6. \A n : ~Before(seq, s, n, 1)
  BY DEF Before
<1> HIDE DEF first, rest, more
<1>7. UpTo(s, e, got) /\ UpTo(s, e, seq) => UpTo(s, e, more) /\ UpTo(s, e, rest)
  BY <1>2, <1>3 DEF UpTo
<1>8. ASSUME InOrder(s, e, got), GoesOn(s, e, got, seq) PROVE InOrder(s, e, more)
  <2>1. \A k \in 1..Len(more) : k \in 1..Len(got) \/ k = Len(got) + 1
    BY <1>1, <1>4
  <2>2. \A n \in 1..e : first = <<s, n>> =>
          ~Has(got, s, n) /\ \A m \in 1..(n - 1) : Has(got, s, m)
    BY <1>1, <1>6, <1>8 DEF GoesOn
  <2>3. QED BY <1>4, <1>8, <2>1, <2>2, ZenonT(30) DEF InOrder
<1>9. ASSUME GoesOn(s, e, got, seq) PROVE GoesOn(s, e, more, rest)
  <2>1. ASSUME NEW k \in 1..Len(rest), NEW n \in 1..e, rest[k] = <<s, n>>
        PROVE  /\ ~Has(more, s, n)
               /\ \A m \in 1..(n - 1) : Has(more, s, m) \/ Before(rest, s, m, k)
               /\ ~Before(rest, s, n, k)
    <3>1. k + 1 \in 1..Len(seq) /\ seq[k + 1] = <<s, n>>
      BY <1>5, <2>1
    <3>2. /\ ~Has(got, s, n)
          /\ \A m \in 1..(n - 1) : Has(got, s, m) \/ Before(seq, s, m, k + 1)
          /\ ~Before(seq, s, n, k + 1)
      BY <1>9, <3>1 DEF GoesOn
    <3>3. QED BY <1>2, <1>5, <2>1, <3>2
  <2>2. \A n \in 1..e : Has(more, s, n) \/ Has(rest, s, n)
    BY <1>2, <1>3, <1>9 DEF GoesOn
  <2>3. QED BY <2>1, <2>2 DEF GoesOn
<1>10. QED BY <1>7, <1>8, <1>9 DEF first, rest, more

-----------------------------------------------------------------------------
(* The invariant *)

LEMMA InvInit == Init => Inv
<1> SUFFICES ASSUME Init PROVE Inv
  OBVIOUS
<1> USE StreamingAssumption DEF Init, Runs
<1>1. TypeOK
  BY DEF TypeOK, GenPlaces
<1>2. ChainInv /\ StartInv
  BY DEF ChainInv, StartInv
<1>3. LogInv
  BY DEF LogInv, NothingHidden
<1>4. MetInv /\ BackInv
  BY DEF MetInv, BackInv, Open
<1>5. EmittedInv
  BY DEF EmittedInv, UpTo, Has
<1>6. \A s \in Streams : LoneInv(s)
  BY DEF LoneInv, InOrder, Open
<1>7. QED BY <1>1, <1>2, <1>3, <1>4, <1>5, <1>6 DEF Inv

LEMMA StartKeeps ==
  ASSUME Inv, NEW s \in Streams, Start(s)
  PROVE  Inv'
<1> USE StreamingAssumption DEF Runs
<1>1. TypeOK'
  <2>1. telemetry' \in Seq(Streams \cup {"primary"}) /\ telemetry' # <<>>
    BY DEF Inv, TypeOK, Start
  <2>2. Head(telemetry') = "primary"
    BY DEF Inv, TypeOK, Start
  <2>3. met' \subseteq Streams
    BY DEF Inv, TypeOK, Start, Open
  <2>4. QED BY <2>1, <2>2, <2>3 DEF Inv, TypeOK, Start, GenPlaces
<1>2. ChainInv' /\ StartInv'
  BY DEF Inv, TypeOK, ChainInv, StartInv, Start
<1>3. LogInv'
  BY DEF Inv, LogInv, NothingHidden, Start
<1>4. MetInv' /\ BackInv'
  BY DEF Inv, TypeOK, MetInv, BackInv, Open, Start
<1>5. EmittedInv'
  BY DEF Inv, EmittedInv, Start
<1>6. ASSUME NEW u \in Streams PROVE LoneInv(u)'
  <2>1. CASE u = s
    <3>1. emitted'[s] = 0 /\ gen'[s] = "waiting"
      BY DEF Inv, TypeOK, StartInv, Start
    <3>2. To(s)'
      <4>1. telemetry' = Append(telemetry, s) /\ telemetry \in Seq(Streams \cup {"primary"})
        BY DEF Inv, TypeOK, Start
      <4>2. Len(telemetry) + 1 \in 1..Len(telemetry') /\ telemetry'[Len(telemetry) + 1] = s
        BY <4>1
      <4>3. QED BY <4>2 DEF To
    <3>3. QED BY <2>1, <3>1, <3>2 DEF LoneInv, InOrder, GoesOn
  <2>2. CASE u # s
    <3>1. /\ u \in Open' <=> u \in Open
          /\ u \in Open => u \in met'
          /\ u \in met => u \in met'
          /\ gen'[u] = gen[u] /\ run'[u] = run[u]
          /\ yielded' = yielded /\ emitted' = emitted
      BY <2>2 DEF Inv, TypeOK, Start, Open
    <3>2. QED BY <3>1 DEF Inv, LoneInv, Over
  <2>3. QED BY <2>1, <2>2
<1>7. QED BY <1>1, <1>2, <1>3, <1>4, <1>5, <1>6 DEF Inv

LEMMA ArunKeeps ==
  ASSUME Inv, NEW r \in Plain, Arun(r)
  PROVE  Inv'
<1> USE StreamingAssumption DEF Runs
<1>1. TypeOK'
  BY DEF Inv, TypeOK, Arun
<1>2. ChainInv' /\ StartInv'
  BY DEF Inv, TypeOK, ChainInv, StartInv, Arun
<1>3. LogInv'
  BY DEF Inv, LogInv, NothingHidden, Arun
<1>4. MetInv' /\ BackInv'
  BY DEF Inv, MetInv, BackInv, Open, Arun
<1>5. EmittedInv'
  BY DEF Inv, EmittedInv, Arun
<1>6. ASSUME NEW u \in Streams PROVE LoneInv(u)'
  BY DEF Inv, TypeOK, LoneInv, Open, Over, To, Arun
<1>7. QED BY <1>1, <1>2, <1>3, <1>4, <1>5, <1>6 DEF Inv

LEMMA RunEndsKeeps ==
  ASSUME Inv, NEW r \in Runs, RunEnds(r)
  PROVE  Inv'
<1> USE StreamingAssumption
<1>1. TypeOK'
  BY DEF Inv, TypeOK, RunEnds
<1>2. ChainInv' /\ StartInv'
  BY DEF Inv, TypeOK, ChainInv, StartInv, Runs, RunEnds
<1>3. LogInv'
  BY DEF Inv, LogInv, NothingHidden, RunEnds
<1>4. MetInv' /\ BackInv'
  BY DEF Inv, MetInv, BackInv, Open, RunEnds
<1>5. EmittedInv'
  BY DEF Inv, EmittedInv, RunEnds
<1>6. ASSUME NEW u \in Streams PROVE LoneInv(u)'
  BY DEF Inv, TypeOK, LoneInv, Open, Over, To, Runs, RunEnds
<1>7. QED BY <1>1, <1>2, <1>3, <1>4, <1>5, <1>6 DEF Inv

\* A stream that waits again.
LEMMA WaitsKeeps ==
  ASSUME Inv, NEW s \in Streams, gen[s] = "event", gen' = [gen EXCEPT ![s] = "waiting"],
         UNCHANGED <<telemetry, original, run, emitted, queue, yielded, logged, met>>
  PROVE  Inv'
<1>1. TypeOK'
  BY DEF Inv, TypeOK, GenPlaces
<1>2. ChainInv' /\ StartInv'
  BY DEF Inv, TypeOK, ChainInv, StartInv
<1>3. LogInv'
  BY DEF Inv, LogInv, NothingHidden
<1>4. Open' = Open
  BY DEF Inv, TypeOK, Open
<1>5. MetInv' /\ BackInv'
  BY <1>4 DEF Inv, MetInv, BackInv
<1>6. EmittedInv'
  BY DEF Inv, EmittedInv
<1>7. ASSUME NEW u \in Streams PROVE LoneInv(u)'
  BY <1>4 DEF Inv, TypeOK, LoneInv, Over, To
<1>8. QED BY <1>1, <1>2, <1>3, <1>5, <1>6, <1>7 DEF Inv

\* A stream that is closed, at its end or before, gives its sink back.
LEMMA ClosesKeeps ==
  ASSUME Inv, NEW s \in Open, gen' = [gen EXCEPT ![s] = "closed"], Restore(s),
         UNCHANGED <<original, run, emitted, queue, yielded, logged, met>>
  PROVE  Inv'
<1>1. s \in Streams
  BY DEF Open
<1>2. TypeOK'
  BY <1>1 DEF Inv, TypeOK, ChainInv, GenPlaces, Restore
<1>3. ChainInv' /\ StartInv'
  BY <1>1 DEF Inv, TypeOK, ChainInv, StartInv
<1>4. LogInv'
  BY DEF Inv, LogInv, NothingHidden
<1>5. Open' = Open \ {s}
  BY <1>1 DEF Inv, TypeOK, Open
<1>6. MetInv' /\ BackInv'
  BY <1>5 DEF Inv, MetInv, BackInv, Restore
<1>7. EmittedInv'
  BY DEF Inv, EmittedInv
<1>8. ASSUME NEW u \in Streams PROVE LoneInv(u)'
  <2>1. u \in Open' => u \in met
    BY <1>5 DEF Inv, MetInv
  <2>2. gen'[u] = "final" => gen[u] = "final"
    BY <1>1 DEF Inv, TypeOK
  <2>3. QED BY <2>1, <2>2 DEF Inv, LoneInv, Over
<1>9. QED BY <1>2, <1>3, <1>4, <1>6, <1>7, <1>8 DEF Inv

\* A stream whose run is done, and whose queue is empty, yields the result.
LEMMA FinalKeeps ==
  ASSUME Inv, NEW s \in Open, queue[s] = <<>>, Over(s), gen' = [gen EXCEPT ![s] = "final"],
         UNCHANGED <<telemetry, original, run, emitted, queue, yielded, logged, met>>
  PROVE  Inv'
<1>1. s \in Streams
  BY DEF Open
<1>2. TypeOK'
  BY <1>1 DEF Inv, TypeOK, GenPlaces
<1>3. ChainInv' /\ StartInv'
  BY <1>1 DEF Inv, TypeOK, ChainInv, StartInv
<1>4. LogInv'
  BY DEF Inv, LogInv, NothingHidden
<1>5. Open' = Open
  BY <1>1 DEF Inv, TypeOK, Open
<1>6. MetInv' /\ BackInv'
  BY <1>5 DEF Inv, MetInv, BackInv
<1>7. EmittedInv'
  BY DEF Inv, EmittedInv
<1>8. ASSUME NEW u \in Streams PROVE LoneInv(u)'
  <2>1. CASE u = s
    <3>1. s \notin met => AllThere(s, emitted[s], yielded[s])
      <4>1. \A n : ~Has(queue[s], s, n)
        BY DEF Has
      <4>2. QED BY <1>1, <4>1 DEF Inv, LoneInv, GoesOn, AllThere
    <3>2. QED BY <1>5, <2>1, <3>1 DEF Inv, LoneInv, Over, To
  <2>2. CASE u # s
    BY <1>1, <1>5, <2>2 DEF Inv, TypeOK, LoneInv, Over, To
  <2>3. QED BY <2>1, <2>2
<1>9. QED BY <1>2, <1>3, <1>4, <1>6, <1>7, <1>8 DEF Inv

LEMMA YieldEventKeeps ==
  ASSUME Inv, NEW s \in Streams, gen[s] \in {"waiting", "event"}, YieldEvent(s)
  PROVE  Inv'
<1>1. /\ queue[s] \in Seq(Events) /\ yielded[s] \in Seq(Events) /\ emitted[s] \in Nat
      /\ queue[s] # <<>>
      /\ queue' = [queue EXCEPT ![s] = Tail(queue[s])]
      /\ yielded' = [yielded EXCEPT ![s] = Append(yielded[s], Head(queue[s]))]
      /\ gen' = [gen EXCEPT ![s] = "event"]
      /\ UNCHANGED <<telemetry, original, run, emitted, logged, met>>
  BY DEF Inv, TypeOK, YieldEvent, Runs
<1>2. TypeOK'
  BY <1>1 DEF Inv, TypeOK, GenPlaces
<1>3. ChainInv' /\ StartInv'
  BY <1>1 DEF Inv, TypeOK, ChainInv, StartInv
<1>4. LogInv'
  BY <1>1 DEF Inv, LogInv, NothingHidden
<1>5. Open' = Open
  BY <1>1 DEF Inv, TypeOK, Open
<1>6. MetInv' /\ BackInv'
  BY <1>1, <1>5 DEF Inv, MetInv, BackInv
<1>7. EmittedInv'
  BY <1>1, YieldMoves DEF Inv, TypeOK, EmittedInv
<1>8. ASSUME NEW u \in Streams PROVE LoneInv(u)'
  <2>1. CASE u = s
    <3>1. yielded'[s] = Append(yielded[s], Head(queue[s])) /\ queue'[s] = Tail(queue[s])
          /\ gen'[s] = "event" /\ s \in Open
      BY <1>1 DEF Inv, TypeOK, Open
    <3>2. QED BY <1>1, <1>5, <2>1, <3>1, YieldMoves DEF Inv, LoneInv, To
  <2>2. CASE u # s
    <3>1. yielded'[u] = yielded[u] /\ queue'[u] = queue[u] /\ gen'[u] = gen[u]
      BY <1>1, <2>2 DEF Inv, TypeOK
    <3>2. QED BY <1>1, <1>5, <3>1 DEF Inv, LoneInv, Over, To
  <2>3. QED BY <2>1, <2>2
<1>9. QED BY <1>2, <1>3, <1>4, <1>6, <1>7, <1>8 DEF Inv

LEMMA EmitKeeps ==
  ASSUME Inv, NEW r \in Runs, Emit(r)
  PROVE  Inv'
<1> DEFINE event == <<r, emitted[r] + 1>>
<1>1. /\ run[r] = "running" /\ emitted[r] \in Nat
      /\ emitted' = [emitted EXCEPT ![r] = emitted[r] + 1]
      /\ queue' = [s \in Streams |-> IF To(s) THEN Append(queue[s], event) ELSE queue[s]]
      /\ logged' = IF To("primary") THEN Append(logged, event) ELSE logged
      /\ UNCHANGED <<telemetry, original, gen, run, yielded, met>>
  BY DEF Inv, TypeOK, Emit
<1>2. event \in Events
  <2>1. emitted[r] + 1 \in 1..MaxEvents[r]
    BY <1>1, StreamingAssumption DEF Emit
  <2>2. QED BY <2>1 DEF Events
<1>3. To("primary")
  BY DEF Inv, TypeOK, To
<1>4. emitted'[r] = emitted[r] + 1 /\ \A q \in Runs : q # r => emitted'[q] = emitted[q]
  BY <1>1 DEF Inv, TypeOK
<1>5. logged \in Seq(Events) /\ logged' = Append(logged, event)
  BY <1>1, <1>3 DEF Inv, TypeOK
<1> HIDE DEF event
<1>6. TypeOK'
  <2>1. queue' \in [Streams -> Seq(Events)]
    BY <1>1, <1>2 DEF Inv, TypeOK
  <2>2. QED BY <1>1, <1>2, <1>5, <2>1 DEF Inv, TypeOK
<1>7. ChainInv' /\ StartInv'
  BY <1>1 DEF Inv, TypeOK, ChainInv, StartInv
<1>8. LogInv'
  <2>1. /\ Len(logged) \in Nat /\ Len(logged') = Len(logged) + 1
        /\ \A k \in 1..Len(logged) : logged'[k] = logged[k]
        /\ logged'[Len(logged) + 1] = event
    BY <1>2, <1>5
  <2>2. \A k \in 1..Len(logged') : k \in 1..Len(logged) \/ k = Len(logged) + 1
    BY <2>1
  <2>3. \A k \in 1..Len(logged) : k \in 1..Len(logged')
    BY <2>1
  <2>4. Len(logged) + 1 \in 1..Len(logged')
    BY <2>1
  <2>5. \A q \in Runs : \A n \in 1..emitted[q] : n \in 1..emitted'[q]
    BY <1>1, <1>4 DEF Inv, TypeOK
  <2>6. emitted[r] + 1 \in 1..emitted'[r]
    BY <1>1, <1>4
  <2>7. \A k \in 1..Len(logged') : \E q \in Runs : \E n \in 1..emitted'[q] : logged'[k] = <<q, n>>
    BY <2>1, <2>2, <2>5, <2>6 DEF Inv, LogInv, event
  <2>8. \A q \in Runs : \A n \in 1..emitted'[q] : \E k \in 1..Len(logged') : logged'[k] = <<q, n>>
    <3>1. \A q \in Runs : \A n \in 1..emitted'[q] : n \in 1..emitted[q] \/ (q = r /\ n = emitted[r] + 1)
      BY <1>1, <1>4 DEF Inv, TypeOK
    <3>2. QED BY <2>1, <2>3, <2>4, <3>1, ZenonT(30) DEF Inv, LogInv, NothingHidden, event
  <2>9. \A j, k \in 1..Len(logged') :
          j < k => logged'[j][1] # logged'[k][1] \/ logged'[j][2] < logged'[k][2]
    <3>1. \A j \in 1..Len(logged) : logged[j][1] # r \/ logged[j][2] < emitted[r] + 1
      BY <1>1 DEF Inv, LogInv
    <3>2. \A j, k \in 1..Len(logged') : j < k => j \in 1..Len(logged)
      BY <2>1
    <3>3. \A j, k \in 1..Len(logged) :
            j < k => logged[j][1] # logged[k][1] \/ logged[j][2] < logged[k][2]
      BY DEF Inv, LogInv, NothingHidden
    <3>4. event[1] = r /\ event[2] = emitted[r] + 1
      BY DEF event
    <3>5. QED BY <2>1, <2>2, <3>1, <3>2, <3>3, <3>4
  <2>10. QED BY <2>7, <2>8, <2>9 DEF LogInv, NothingHidden
<1>9. MetInv' /\ BackInv'
  BY <1>1 DEF Inv, MetInv, BackInv, Open
<1>10. ASSUME NEW u \in Streams
       PROVE  /\ UpTo(u, emitted'[u], yielded'[u]) /\ UpTo(u, emitted'[u], queue'[u])
              /\ LoneInv(u)'
  <2>1. /\ yielded'[u] = yielded[u] /\ gen'[u] = gen[u] /\ (To(u)' <=> To(u))
        /\ (u \in Open' <=> u \in Open) /\ met' = met
        /\ queue'[u] = IF To(u) THEN Append(queue[u], event) ELSE queue[u]
        /\ yielded[u] \in Seq(Events) /\ queue[u] \in Seq(Events) /\ emitted[u] \in Nat
    BY <1>1 DEF Inv, TypeOK, To, Open, Runs
  <2>2. UpTo(u, emitted[u], yielded[u]) /\ UpTo(u, emitted[u], queue[u]) /\ LoneInv(u)
    BY DEF Inv, EmittedInv
  <2>3. CASE u = r
    <3>1. event = <<u, emitted[u] + 1>> /\ emitted'[u] = emitted[u] + 1
      BY <1>4, <2>3 DEF event
    <3>2. /\ UpTo(u, emitted'[u], yielded'[u])
          /\ UpTo(u, emitted'[u], Append(queue[u], event))
          /\ InOrder(u, emitted[u], yielded[u]) => InOrder(u, emitted'[u], yielded'[u])
          /\ InOrder(u, emitted[u], yielded[u]) /\ GoesOn(u, emitted[u], yielded[u], queue[u])
               => GoesOn(u, emitted'[u], yielded'[u], Append(queue[u], event))
      BY <1>2, <2>1, <2>2, <3>1, EmitGoesOn
    <3>3. UpTo(u, emitted'[u], queue[u])
      BY <2>1, <2>2, <3>1 DEF UpTo
    <3>4. gen[u] # "final" \/ u \in met
      BY <1>1, <2>2, <2>3 DEF LoneInv, Over
    <3>5. QED BY <2>1, <2>2, <3>2, <3>3, <3>4 DEF LoneInv
  <2>4. CASE u # r
    <3>1. emitted'[u] = emitted[u] /\ \A n : event # <<u, n>>
      BY <1>4, <2>4 DEF event, Runs
    <3>2. /\ UpTo(u, emitted[u], queue[u]) => UpTo(u, emitted[u], Append(queue[u], event))
          /\ GoesOn(u, emitted[u], yielded[u], queue[u])
               => GoesOn(u, emitted[u], yielded[u], Append(queue[u], event))
      BY <1>2, <2>1, <3>1, OthersGoBy
    <3>3. run'[u] = run[u]
      BY <1>1
    <3>4. QED BY <2>1, <2>2, <3>1, <3>2, <3>3 DEF LoneInv, Over
  <2>5. QED BY <2>3, <2>4
<1>11. EmittedInv'
  BY <1>10 DEF EmittedInv
<1>12. QED BY <1>6, <1>7, <1>8, <1>9, <1>10, <1>11 DEF Inv

LEMMA InvNext == Inv /\ [Next]_vars => Inv'
<1> SUFFICES ASSUME Inv, [Next]_vars PROVE Inv'
  OBVIOUS
<1>1. ASSUME NEW s \in Streams, s \in Open, YieldFinal(s), queue[s] = <<>>
      PROVE  Inv'
  <2>1. CASE Over(s) /\ gen' = [gen EXCEPT ![s] = "final"] /\ UNCHANGED telemetry
    BY <1>1, <2>1, FinalKeeps DEF YieldFinal
  <2>2. CASE gen' = [gen EXCEPT ![s] = "closed"] /\ Restore(s)
    BY <1>1, <2>2, ClosesKeeps DEF YieldFinal
  <2>3. QED BY <1>1, <2>1, <2>2 DEF YieldFinal, Over
<1>2. ASSUME NEW s \in Streams, Wake(s) PROVE Inv'
  BY <1>1, <1>2, YieldEventKeeps DEF Wake, Open
<1>3. ASSUME NEW s \in Streams, More(s) PROVE Inv'
  BY <1>1, <1>3, YieldEventKeeps, WaitsKeeps DEF More, Open
<1>4. ASSUME NEW s \in Streams, Finish(s) \/ Close(s) PROVE Inv'
  BY <1>4, ClosesKeeps DEF Finish, Close, Open
<1>5. CASE UNCHANGED vars
  <2>1. TypeOK' /\ ChainInv' /\ LogInv' /\ StartInv' /\ EmittedInv'
    BY <1>5 DEF Inv, TypeOK, ChainInv, LogInv, NothingHidden, StartInv, EmittedInv, vars
  <2>2. Open' = Open
    BY <1>5 DEF Open, vars
  <2>3. MetInv' /\ BackInv'
    BY <1>5, <2>2 DEF Inv, MetInv, BackInv, vars
  <2>4. ASSUME NEW u \in Streams PROVE LoneInv(u)'
    BY <1>5, <2>2 DEF Inv, LoneInv, Over, To, vars
  <2>5. QED BY <2>1, <2>3, <2>4 DEF Inv
<1>6. CASE Rest
  BY <1>5, <1>6 DEF Rest
<1>7. QED
  BY <1>2, <1>3, <1>4, <1>5, <1>6, StartKeeps, ArunKeeps, EmitKeeps, RunEndsKeeps DEF Next

THEOREM Invariance == Spec => []Inv
<1>1. QED BY InvInit, InvNext, PTL DEF Spec

-----------------------------------------------------------------------------
(* Theorems *)

\* The shape of the state; a chain of sinks begins with the runtime's own.
THEOREM TypeCorrect == Spec => []TypeOK
<1>1. Inv => TypeOK
  BY DEF Inv
<1>2. QED BY <1>1, Invariance, PTL

\* However many streams and runs share the Runtime, its own sink gets every event
\* (runtime.py:219-221, 532-579).
THEOREM NothingIsEverHidden == Spec => []NothingHidden
<1>1. Inv => NothingHidden
  BY DEF Inv, LogInv
<1>2. QED BY <1>1, Invariance, PTL

\* Streams that never met leave the runtime with its own sink (runtime.py:240-241).
THEOREM AlwaysRestored == Spec => []Restored
<1>1. Inv => Restored
  BY DEF Inv, BackInv, Restored
<1>2. QED BY <1>1, Invariance, PTL

\* A stream that never met another yields every event of its run, in order and
\* once, before its result (runtime.py:205-241).
THEOREM LoneStreamsAreComplete == Spec => []LoneStreamComplete
<1>1. Inv => LoneStreamComplete
  <2> SUFFICES ASSUME Inv, NEW s \in Streams \ met PROVE Complete(s)
    BY DEF LoneStreamComplete
  <2>1. /\ InOrder(s, emitted[s], yielded[s])
        /\ gen[s] = "final" => AllThere(s, emitted[s], yielded[s])
    BY DEF Inv, LoneInv
  <2>2. QED BY <2>1 DEF Complete, Got, InOrder, AllThere, Before, Has
<1>2. QED BY <1>1, Invariance, PTL
=============================================================================
