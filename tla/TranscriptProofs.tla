-------------------------- MODULE TranscriptProofs --------------------------
(***************************************************************************)
(* Proofs about Transcript.                                                *)
(***************************************************************************)
EXTENDS Transcript, FiniteSetTheorems, TLAPS

-----------------------------------------------------------------------------
(* Numbers.  Induction takes the form of a least counterexample.           *)

LEMMA LeastExists ==
  ASSUME NEW S \in SUBSET Nat, S # {}
  PROVE  \E n \in S : \A m \in S : n <= m
  <1> DEFINE lt == OpToRel(<, Nat)
  <1>1. \A x, y \in Nat : <<x, y>> \in lt <=> x < y
    BY DEF OpToRel
  <1>2. IsWellFoundedOn(lt, Nat)
    BY NatLessThanWellFounded
  <1> HIDE DEF lt
  <1>3. \E x \in S : \A y \in S : ~ (<<y, x>> \in lt)
    BY <1>2, WFMin
  <1>4. PICK x \in S : \A y \in S : ~ (<<y, x>> \in lt)
    BY <1>3
  <1>5. ASSUME NEW y \in S PROVE x <= y
    <2>1. x \in Nat /\ y \in Nat
      OBVIOUS
    <2>2. ~ (y < x)
      BY <1>1, <1>4, <2>1
    <2> QED BY <2>1, <2>2
  <1> QED BY <1>5

LEMMA GreatestExists ==
  ASSUME NEW S \in SUBSET Nat, S # {}, NEW b \in Nat, \A n \in S : n <= b
  PROVE  \E n \in S : \A m \in S : m <= n
  <1> DEFINE U == {u \in Nat : \A n \in S : n <= u}
  <1>1. PICK u \in U : \A v \in U : u <= v
    BY LeastExists
  <1>2. u \in S
    <2> SUFFICES ASSUME u \notin S PROVE FALSE
      OBVIOUS
    <2>1. PICK n \in S : TRUE
      OBVIOUS
    <2>2. u \in Nat /\ n \in Nat /\ n < u
      BY <2>1
    <2>3. u - 1 \in U
      BY <2>2
    <2> QED BY <1>1, <2>2, <2>3
  <1> QED BY <1>2

\* A set of numbers without gaps is an interval.
LEMMA ConvexIsInterval ==
  ASSUME NEW S \in SUBSET Nat, S # {}, NEW b \in Nat, \A n \in S : n <= b,
         \A i, k \in S : \A j \in Nat : i < j /\ j < k => j \in S
  PROVE  \E lo, hi \in S : lo <= hi /\ S = lo..hi
  <1>1. PICK lo \in S : \A m \in S : lo <= m
    BY LeastExists
  <1>2. PICK hi \in S : \A m \in S : m <= hi
    BY GreatestExists
  <1>3. lo \in Nat /\ hi \in Nat /\ lo <= hi
    BY <1>1, <1>2
  <1>4. ASSUME NEW j \in lo..hi PROVE j \in S
    <2>1. j = lo \/ j = hi \/ (lo < j /\ j < hi)
      BY <1>3
    <2>2. j \in Nat
      BY <1>3
    <2> QED BY <2>1, <2>2
  <1>5. ASSUME NEW j \in S PROVE j \in lo..hi
    BY <1>1, <1>2
  <1> QED BY <1>3, <1>4, <1>5

Below(S, k) == {j \in S : j < k}

LEMMA RankIncreases ==
  ASSUME NEW S \in SUBSET Nat, IsFiniteSet(S)
  PROVE  /\ Cardinality(S) \in Nat
         /\ \A k \in S : Cardinality(Below(S, k)) \in 0..(Cardinality(S) - 1)
         /\ \A k, l \in S : k < l => Cardinality(Below(S, k)) < Cardinality(Below(S, l))
  <1>1. Cardinality(S) \in Nat
    BY FS_CardinalityType
  <1>2. \A k \in S : IsFiniteSet(Below(S, k)) /\ Cardinality(Below(S, k)) \in Nat
    BY FS_Subset, FS_CardinalityType DEF Below
  <1>3. ASSUME NEW k \in S PROVE Cardinality(Below(S, k)) < Cardinality(S)
    <2>1. Below(S, k) \in SUBSET S /\ Below(S, k) # S
      BY DEF Below
    <2>2. Cardinality(Below(S, k)) <= Cardinality(S) /\ Cardinality(Below(S, k)) # Cardinality(S)
      BY <2>1, FS_Subset
    <2> QED BY <1>1, <1>2, <2>2
  <1>4. ASSUME NEW k \in S, NEW l \in S, k < l
        PROVE  Cardinality(Below(S, k)) < Cardinality(Below(S, l))
    <2>1. Below(S, k) \in SUBSET Below(S, l) /\ Below(S, k) # Below(S, l)
      <3>1. k \in Nat /\ l \in Nat
        OBVIOUS
      <3>2. \A j \in S : j < k => j < l
        BY <1>4, <3>1
      <3>3. k \in Below(S, l) /\ k \notin Below(S, k)
        BY <1>4, <3>1 DEF Below
      <3> QED BY <3>2, <3>3 DEF Below
    <2>2. /\ Cardinality(Below(S, k)) <= Cardinality(Below(S, l))
          /\ Cardinality(Below(S, k)) # Cardinality(Below(S, l))
      BY <1>2, <2>1, FS_Subset
    <2> QED BY <1>2, <2>2
  <1> QED BY <1>1, <1>2, <1>3, <1>4

\* Nth enumerates the set in increasing order.
LEMMA NthEnumerates ==
  ASSUME NEW S \in SUBSET Nat, IsFiniteSet(S)
  PROVE  /\ Cardinality(S) \in Nat
         /\ \A n \in 1..Cardinality(S) :
              Nth(S, n) \in S /\ Cardinality(Below(S, Nth(S, n))) = n - 1
         /\ \A m, n \in 1..Cardinality(S) : m < n => Nth(S, m) < Nth(S, n)
         /\ \A k \in S : \E n \in 1..Cardinality(S) : k = Nth(S, n)
  <1> DEFINE C == Cardinality(S)
             f == [k \in S |-> Cardinality(Below(S, k)) + 1]
  <1>1. /\ C \in Nat
        /\ \A k \in S : Cardinality(Below(S, k)) \in 0..(C - 1)
        /\ \A k, l \in S : k < l => Cardinality(Below(S, k)) < Cardinality(Below(S, l))
    BY RankIncreases
  <1> HIDE DEF C
  <1>2. f \in [S -> 1..C]
    BY <1>1
  <1>3. ASSUME NEW k \in S, NEW l \in S, f[k] = f[l] PROVE k = l
    <2>1. k \in Nat /\ l \in Nat
      OBVIOUS
    <2>2. Cardinality(Below(S, k)) = Cardinality(Below(S, l))
      BY <1>1, <1>3
    <2> QED BY <1>1, <2>1, <2>2
  <1>4. f \in Injection(S, 1..C)
    BY <1>2, <1>3 DEF Injection, IsInjective
  <1>5. IsFiniteSet(1..C) /\ Cardinality(1..C) = C
    BY <1>1, FS_Interval
  <1>6. f \in Surjection(S, 1..C)
    <2> HIDE DEF f
    <2> QED BY <1>4, <1>5, FS_Injection DEF C
  <1>7. \A n \in 1..C : \E k \in S : f[k] = n
    BY <1>6 DEF Surjection
  <1>8. ASSUME NEW n \in 1..C
        PROVE  Nth(S, n) \in S /\ Cardinality(Below(S, Nth(S, n))) = n - 1
    <2>1. PICK k \in S : f[k] = n
      BY <1>7
    <2>2. Cardinality(Below(S, k)) = n - 1
      BY <1>1, <2>1
    <2>3. \E l \in S : Cardinality({j \in S : j < l}) = n - 1
      BY <2>2 DEF Below
    <2> QED BY <2>3 DEF Nth, Below
  <1>9. ASSUME NEW m \in 1..C, NEW n \in 1..C, m < n PROVE Nth(S, m) < Nth(S, n)
    <2>1. /\ Nth(S, m) \in S /\ Cardinality(Below(S, Nth(S, m))) = m - 1
          /\ Nth(S, n) \in S /\ Cardinality(Below(S, Nth(S, n))) = n - 1
      BY <1>8
    <2>2. Nth(S, m) \in Nat /\ Nth(S, n) \in Nat
      BY <2>1
    <2>3. m - 1 < n - 1
      BY <1>1, <1>9
    <2>4. Nth(S, m) # Nth(S, n)
      BY <2>1, <2>3
    <2>5. ~ (Nth(S, n) < Nth(S, m))
      <3> SUFFICES ASSUME Nth(S, n) < Nth(S, m) PROVE FALSE
        OBVIOUS
      <3>1. Cardinality(Below(S, Nth(S, n))) < Cardinality(Below(S, Nth(S, m)))
        BY <1>1, <2>1
      <3> QED BY <2>1, <2>3, <3>1
    <2> QED BY <2>2, <2>4, <2>5
  <1>10. ASSUME NEW k \in S PROVE \E n \in 1..C : k = Nth(S, n)
    <2>1. f[k] \in 1..C
      BY <1>2
    <2>2. Nth(S, f[k]) \in S /\ Cardinality(Below(S, Nth(S, f[k]))) = f[k] - 1
      BY <1>8, <2>1
    <2>3. f[Nth(S, f[k])] = f[k]
      BY <1>1, <2>2
    <2> QED BY <1>3, <2>1, <2>2, <2>3
  <1> QED BY <1>1, <1>8, <1>9, <1>10 DEF C

\* p lists the N numbers of S in increasing order.
Lists(p, N, S) ==
  /\ N \in Nat /\ p \in [1..N -> Nat]
  /\ \A i, j \in 1..N : i < j => p[i] < p[j]
  /\ \A k : k \in S <=> \E i \in 1..N : k = p[i]

\* Numbers listed in increasing order are the n-th least of their set.
LEMMA NthOfListed ==
  ASSUME NEW N, NEW p, NEW S, Lists(p, N, S)
  PROVE  /\ Cardinality(S) = N
         /\ \A n \in 1..N : Nth(S, n) = p[n]
  <1>0. /\ N \in Nat /\ p \in [1..N -> Nat]
        /\ \A i, j \in 1..N : i < j => p[i] < p[j]
        /\ \A k : k \in S <=> \E i \in 1..N : k = p[i]
    BY DEF Lists
  <1> USE <1>0
  <1>1. \A i, j \in 1..N : p[i] = p[j] => i = j
    <2> SUFFICES ASSUME NEW i \in 1..N, NEW j \in 1..N, p[i] = p[j], i # j PROVE FALSE
      OBVIOUS
    <2>1. i < j \/ j < i
      OBVIOUS
    <2>2. p[i] \in Nat /\ p[j] \in Nat
      OBVIOUS
    <2> QED BY <2>1, <2>2
  <1>2. ASSUME NEW m \in 0..N, NEW T, \A k : k \in T <=> \E i \in 1..m : k = p[i]
        PROVE  IsFiniteSet(T) /\ Cardinality(T) = m
    <2> DEFINE f == [i \in 1..m |-> p[i]]
    <2>1. f \in [1..m -> T] /\ \A k \in T : \E i \in 1..m : f[i] = k
      BY <1>2
    <2>2. \A i, j \in 1..m : f[i] = f[j] => i = j
      BY <1>1
    <2>3. f \in Bijection(1..m, T)
      <3> HIDE DEF f
      <3> QED BY <2>1, <2>2 DEF Bijection, Injection, IsInjective, Surjection
    <2>4. IsFiniteSet(1..m) /\ Cardinality(1..m) = m
      BY FS_Interval
    <2> HIDE DEF f
    <2> QED BY <2>3, <2>4, FS_Bijection DEF ExistsBijection
  <1>3. IsFiniteSet(S) /\ Cardinality(S) = N
    BY <1>2
  <1>4. S \in SUBSET Nat
    OBVIOUS
  <1>5. /\ \A n \in 1..N : Nth(S, n) \in S /\ Cardinality(Below(S, Nth(S, n))) = n - 1
    BY <1>3, <1>4, NthEnumerates
  <1>6. ASSUME NEW n \in 1..N PROVE Nth(S, n) = p[n]
    <2>1. PICK i \in 1..N : Nth(S, n) = p[i]
      BY <1>5
    <2>2. ASSUME NEW k PROVE k \in Below(S, p[i]) <=> \E j \in 1..(i - 1) : k = p[j]
      <3>1. ASSUME k \in Below(S, p[i]) PROVE \E j \in 1..(i - 1) : k = p[j]
        <4>1. PICK j \in 1..N : k = p[j]
          BY <3>1 DEF Below
        <4>2. p[j] < p[i] /\ p[j] \in Nat /\ p[i] \in Nat
          BY <3>1, <4>1 DEF Below
        <4>3. ~ (i < j) /\ i # j
          BY <4>2
        <4> QED BY <4>1, <4>3
      <3>2. ASSUME NEW j \in 1..(i - 1), k = p[j] PROVE k \in Below(S, p[i])
        <4>1. j \in 1..N /\ j < i
          OBVIOUS
        <4> QED BY <3>2, <4>1 DEF Below
      <3> QED BY <3>1, <3>2
    <2>3. i - 1 \in 0..N
      OBVIOUS
    <2>4. Cardinality(Below(S, p[i])) = i - 1
      BY <1>2, <2>2, <2>3
    <2>5. i - 1 = n - 1
      BY <1>5, <2>1, <2>4
    <2> QED BY <2>1, <2>5
  <1> QED BY <1>3, <1>6

\* What s holds from a + 1 to c.
Stretch(s, a, c) == [n \in 1..(c - a) |-> s[a + n]]

\* In particular, what is at the places of an interval.
LEMMA ThoseOfInterval ==
  ASSUME NEW s, NEW a \in Nat, NEW c \in Nat, a <= c
  PROVE  Those(s, (a + 1)..c) = Stretch(s, a, c)
  <1>1. PICK S, N, p : S = (a + 1)..c /\ N = c - a /\ p = [n \in 1..(c - a) |-> a + n]
    OBVIOUS
  <1>2. N \in Nat /\ p \in [1..N -> Nat] /\ \A i \in 1..N : p[i] = a + i
    BY <1>1
  <1>3. \A i, j \in 1..N : i < j => p[i] < p[j]
    BY <1>2
  <1>4. ASSUME NEW k PROVE k \in S <=> \E i \in 1..N : k = p[i]
    <2>1. ASSUME k \in S PROVE \E i \in 1..N : k = p[i]
      <3>1. k - a \in 1..N /\ k = a + (k - a)
        BY <1>1, <2>1
      <3>2. k = p[k - a]
        BY <1>2, <3>1
      <3> QED BY <3>1, <3>2
    <2>2. ASSUME NEW i \in 1..N, k = p[i] PROVE k \in S
      <3>1. k = a + i
        BY <1>2, <2>2
      <3> QED BY <1>1, <3>1
    <2> QED BY <2>1, <2>2
  <1>5. Cardinality(S) = N /\ \A n \in 1..N : Nth(S, n) = p[n]
    <2>1. Lists(p, N, S)
      BY <1>2, <1>3, <1>4 DEF Lists
    <2> QED BY <2>1, NthOfListed
  <1>6. \A n \in 1..N : s[Nth(S, n)] = s[a + n]
    BY <1>2, <1>5
  <1>7. Those(s, S) = [n \in 1..N |-> s[Nth(S, n)]]
    BY <1>5 DEF Those
  <1>8. Those(s, S) = [n \in 1..N |-> s[a + n]]
    BY <1>6, <1>7
  <1> QED BY <1>1, <1>8 DEF Stretch

-----------------------------------------------------------------------------
(* Sequences of sequences                                                  *)

LEMMA FunctionIsSequence ==
  ASSUME NEW E, NEW n \in Nat, NEW f \in [1..n -> E]
  PROVE  f \in Seq(E) /\ Len(f) = n
  OBVIOUS

LEMMA SequenceIsFunction ==
  ASSUME NEW E, NEW s \in Seq(E)
  PROVE  Len(s) \in Nat /\ s \in [1..Len(s) -> E] /\ s = [k \in 1..Len(s) |-> s[k]]
  OBVIOUS

LEMMA Concatenation ==
  ASSUME NEW E, NEW s \in Seq(E), NEW t \in Seq(E)
  PROVE  /\ s \o t \in Seq(E)
         /\ Len(s \o t) = Len(s) + Len(t)
         /\ \A k \in 1..Len(s) : (s \o t)[k] = s[k]
         /\ \A k \in 1..Len(t) : (s \o t)[Len(s) + k] = t[k]
  OBVIOUS

LEMMA EndOfSequence ==
  ASSUME NEW E, NEW s \in Seq(E), NEW q \in Nat, q <= Len(s)
  PROVE  SubSeq(s, q + 1, Len(s)) = [k \in 1..(Len(s) - q) |-> s[q + k]]
  <1> DEFINE t == SubSeq(s, q + 1, Len(s))
  <1>1. /\ Len(s) \in Nat /\ t \in Seq(E) /\ Len(t) = Len(s) - q
        /\ \A k \in 1..(Len(s) - q) : t[k] = s[q + k]
    OBVIOUS
  <1> HIDE DEF t
  <1>2. t = [k \in 1..Len(t) |-> t[k]]
    BY <1>1, SequenceIsFunction
  <1> QED BY <1>1, <1>2 DEF t

\* A place before the last of a list of bounds lies between two of them.
LEMMA PlaceInPart ==
  ASSUME NEW N \in Nat, NEW off \in [0..N -> Nat], off[0] = 0, NEW p \in 1..off[N]
  PROVE  \E n \in 1..N : off[n - 1] < p /\ p <= off[n]
  <1> DEFINE U == {n \in 1..N : p <= off[n]}
  <1>1. N \in U
    BY Z3
  <1>2. U \in SUBSET Nat /\ U # {}
    BY <1>1
  <1> HIDE DEF U
  <1>3. PICK n \in U : \A m \in U : n <= m
    BY <1>2, LeastExists
  <1> USE DEF U
  <1>4. off[n - 1] < p
    <2>1. CASE n = 1
      BY <2>1
    <2>2. CASE n # 1
      <3>1. n - 1 \in 1..N /\ n - 1 \notin U /\ off[n - 1] \in Nat
        BY <1>3, <2>2
      <3> QED BY <3>1
    <2> QED BY <2>1, <2>2
  <1> QED BY <1>3, <1>4

\* off[n] counts the elements of the first n of N sequences.
Counts(off, ss, N) == \A n \in 1..N : off[n] = off[n - 1] + Len(ss[n])
Parts(E, N, ss, off) ==
  /\ N \in Nat /\ ss \in [1..N -> Seq(E)]
  /\ off \in [0..N -> Nat] /\ off[0] = 0 /\ Counts(off, ss, N)

\* What FlattenSeq returns.
LEMMA FlattenParts ==
  ASSUME NEW E, NEW N, NEW ss, NEW off, Parts(E, N, ss, off)
  PROVE  /\ FlattenSeq(ss) \in Seq(E)
         /\ Len(FlattenSeq(ss)) = off[N]
         /\ \A n \in 1..N : \A j \in 1..Len(ss[n]) :
              off[n - 1] + j \in 1..off[N] /\ FlattenSeq(ss)[off[n - 1] + j] = ss[n][j]
  <1>p. /\ N \in Nat /\ ss \in [1..N -> Seq(E)]
        /\ off \in [0..N -> Nat] /\ off[0] = 0 /\ Counts(off, ss, N)
    BY DEF Parts
  <1> USE <1>p
  <1>1. \A n \in 1..N : Len(ss[n]) \in Nat
    OBVIOUS
  <1>2. ASSUME NEW i \in 0..N, NEW j \in i..N PROVE off[i] <= off[j]
    <2> DEFINE U == {k \in i..N : off[k] < off[i]}
    <2> SUFFICES ASSUME ~ (off[i] <= off[j]) PROVE FALSE
      OBVIOUS
    <2>0. off[i] \in Nat /\ off[j] \in Nat
      OBVIOUS
    <2>1. PICK k \in U : \A m \in U : k <= m
      <3>1. U \in SUBSET Nat
        OBVIOUS
      <3>2. j \in U
        BY <2>0
      <3> HIDE DEF U
      <3> QED BY <3>1, <3>2, LeastExists
    <2>2. k # i /\ k - 1 \in i..N /\ k \in 1..N
      BY <2>1
    <2>3. off[k - 1] >= off[i]
      BY <2>1, <2>2
    <2>4. off[k] = off[k - 1] + Len(ss[k]) /\ off[k - 1] \in Nat /\ off[i] \in Nat
      BY <2>2 DEF Counts
    <2> QED BY <1>1, <2>1, <2>2, <2>3, <2>4
  <1>3. \A p \in 1..off[N] : \E n \in 1..N : off[n - 1] < p /\ p <= off[n]
    BY PlaceInPart
  <1> DEFINE Part(p) == CHOOSE n \in 1..N : off[n - 1] < p /\ p <= off[n]
             W == [p \in 1..off[N] |-> ss[Part(p)][p - off[Part(p) - 1]]]
  <1>4. ASSUME NEW n \in 1..N, NEW j \in 1..Len(ss[n])
        PROVE  /\ off[n - 1] + j \in 1..off[N]
               /\ Part(off[n - 1] + j) = n
    <2>1. n - 1 \in 0..N /\ off[n - 1] \in Nat /\ off[n] \in Nat /\ off[N] \in Nat
      OBVIOUS
    <2>2. off[n - 1] < off[n - 1] + j /\ off[n - 1] + j <= off[n]
      BY <1>1, <2>1 DEF Counts
    <2>3. off[n] <= off[N]
      BY <1>2
    <2>4. ASSUME NEW m \in 1..N, off[m - 1] < off[n - 1] + j, off[n - 1] + j <= off[m]
          PROVE  m = n
      <3>1. m - 1 \in 0..N /\ off[m - 1] \in Nat /\ off[m] \in Nat
        OBVIOUS
      <3>2. CASE m < n
        <4>1. off[m] <= off[n - 1]
          BY <1>2, <2>1, <3>2
        <4> QED BY <2>1, <2>4, <3>1, <4>1
      <3>3. CASE n < m
        <4>1. off[n] <= off[m - 1]
          BY <1>2, <3>1, <3>3
        <4> QED BY <2>1, <2>2, <2>4, <3>1, <4>1
      <3> QED BY <3>2, <3>3
    <2> QED BY <2>1, <2>2, <2>3, <2>4
  <1>5. \A n \in 1..N : \A j \in 1..Len(ss[n]) : W[off[n - 1] + j] = ss[n][j]
    <2> SUFFICES ASSUME NEW n \in 1..N, NEW j \in 1..Len(ss[n])
                 PROVE  W[off[n - 1] + j] = ss[n][j]
      OBVIOUS
    <2> DEFINE q == off[n - 1] + j
    <2>1. q - off[n - 1] = j
      OBVIOUS
    <2>2. q \in 1..off[N] /\ Part(q) = n
      BY <1>4
    <2> HIDE DEF Part, q
    <2>3. W[q] = ss[Part(q)][q - off[Part(q) - 1]]
      BY <2>2
    <2> QED BY <2>1, <2>2, <2>3 DEF q
  <1>6. W \in [1..off[N] -> E]
    <2> SUFFICES ASSUME NEW p \in 1..off[N] PROVE W[p] \in E
      OBVIOUS
    <2>1. PICK n \in 1..N : off[n - 1] < p /\ p <= off[n]
      BY <1>3
    <2>2. off[n - 1] \in Nat /\ off[N] \in Nat
      OBVIOUS
    <2>3. p - off[n - 1] \in 1..Len(ss[n])
      BY <1>1, <2>1, <2>2 DEF Counts
    <2>4. W[p] = ss[n][p - off[n - 1]]
      <3> HIDE DEF W
      <3>1. p = off[n - 1] + (p - off[n - 1])
        BY <2>2
      <3> QED BY <1>5, <2>3, <3>1
    <2>5. ss[n] \in Seq(E)
      OBVIOUS
    <2>6. ss[n][p - off[n - 1]] \in E
      BY <2>3, <2>5, SequenceIsFunction
    <2> HIDE DEF W
    <2> QED BY <2>4, <2>6
  <1> HIDE DEF W, Part
  <1> DEFINE G == [i \in 1..N |-> [p \in 1..off[i] |-> W[p]]]
             Def(f) == [i \in 1..N |-> IF i = 1 THEN ss[i] ELSE f[i - 1] \o ss[i]]
  <1>7. G = Def(G)
    <2>1. ASSUME NEW i \in 1..N PROVE off[i] \in Nat /\ off[i - 1] \in Nat /\ off[i] <= off[N] /\ off[N] \in Nat
      BY <1>2
    <2>2. ASSUME NEW i \in 1..N, i = 1 PROVE G[i] = ss[i]
      <3>1. off[1] = Len(ss[1]) /\ ss[1] \in Seq(E) /\ off[1 - 1] = 0
        BY <1>1, <2>2 DEF Counts
      <3>2. \A j \in 1..Len(ss[1]) : W[j] = ss[1][j]
        BY <1>1, <1>5, <2>2, <3>1
      <3>3. G[1] = [p \in 1..Len(ss[1]) |-> ss[1][p]]
        BY <2>2, <3>1, <3>2
      <3>4. ss[1] = [p \in 1..Len(ss[1]) |-> ss[1][p]]
        BY <3>1, SequenceIsFunction
      <3> HIDE DEF G
      <3> QED BY <2>2, <3>3, <3>4
    <2>3. ASSUME NEW i \in 1..N, i # 1 PROVE G[i] = G[i - 1] \o ss[i]
      <3>1. i - 1 \in 1..N /\ off[i - 1] \in Nat /\ off[i] = off[i - 1] + Len(ss[i])
            /\ off[i - 1] <= off[N] /\ off[i] <= off[N] /\ off[N] \in Nat
        BY <2>1, <2>3 DEF Counts
      <3>2. G[i - 1] \in Seq(E) /\ Len(G[i - 1]) = off[i - 1]
        <4>1. G[i - 1] = [p \in 1..off[i - 1] |-> W[p]]
          BY <3>1
        <4>2. ASSUME NEW p \in 1..off[i - 1] PROVE W[p] \in E
          <5>1. p \in 1..off[N]
            BY <3>1
          <5> QED BY <1>6, <5>1
        <4> HIDE DEF G
        <4> DEFINE g == G[i - 1]
                   n == off[i - 1]
        <4>3. g \in [1..n -> E]
          BY <4>1, <4>2
        <4>4. n \in Nat
          BY <3>1
        <4> HIDE DEF g, n
        <4>5. g \in Seq(E) /\ Len(g) = n
          BY <4>3, <4>4, FunctionIsSequence
        <4> QED BY <4>5 DEF g, n
      <3>3. G[i] = [p \in 1..off[i] |-> W[p]] /\ G[i - 1] = [p \in 1..off[i - 1] |-> W[p]]
        BY <3>1
      <3>4. \A j \in 1..Len(ss[i]) : W[off[i - 1] + j] = ss[i][j]
        BY <1>5
      <3>5. Len(ss[i]) \in Nat /\ ss[i] \in Seq(E)
        OBVIOUS
      <3>6. \A p \in 1..off[i] : (G[i - 1] \o ss[i])[p] = W[p]
        <4> SUFFICES ASSUME NEW p \in 1..off[i] PROVE (G[i - 1] \o ss[i])[p] = W[p]
          OBVIOUS
        <4> HIDE DEF G
        <4>1. CASE p <= off[i - 1]
          <5>1. p \in 1..Len(G[i - 1])
            BY <3>1, <3>2, <4>1
          <5>2. (G[i - 1] \o ss[i])[p] = G[i - 1][p]
            BY <3>2, <3>5, <5>1, Concatenation
          <5>3. G[i - 1][p] = W[p]
            BY <3>2, <3>3, <5>1
          <5> QED BY <5>2, <5>3
        <4>2. CASE p > off[i - 1]
          <5> DEFINE k == p - off[i - 1]
          <5>1. p \in Nat /\ k \in 1..Len(ss[i]) /\ p = off[i - 1] + k
            BY <3>1, <3>5, <4>2
          <5> HIDE DEF k
          <5>2. (G[i - 1] \o ss[i])[off[i - 1] + k] = ss[i][k]
            <6>1. PICK x, y, n : x = G[i - 1] /\ y = ss[i] /\ n = off[i - 1]
              OBVIOUS
            <6>2. x \in Seq(E) /\ y \in Seq(E)
              BY <3>2, <3>5, <6>1
            <6>3. \A j \in 1..Len(y) : (x \o y)[Len(x) + j] = y[j]
              BY <6>2, Concatenation
            <6>4. Len(x) = n /\ k \in 1..Len(y)
              BY <3>2, <5>1, <6>1
            <6>5. (x \o y)[n + k] = y[k]
              BY <6>3, <6>4
            <6> QED BY <6>1, <6>5
          <5> QED BY <3>4, <5>1, <5>2
        <4>3. p <= off[i - 1] \/ p > off[i - 1]
          BY <3>1
        <4> QED BY <4>1, <4>2, <4>3
      <3>7. (G[i - 1] \o ss[i]) \in Seq(E) /\ Len(G[i - 1] \o ss[i]) = off[i]
        <4> HIDE DEF G
        <4> QED BY <3>1, <3>2, <3>5, Concatenation
      <3> HIDE DEF G
      <3>8. G[i - 1] \o ss[i] = [p \in 1..off[i] |-> (G[i - 1] \o ss[i])[p]]
        BY <3>7, SequenceIsFunction
      <3> QED BY <3>3, <3>6, <3>8
    <2> QED BY <2>2, <2>3
  <1>8. ASSUME NEW f, f = Def(f), NEW i \in 1..N PROVE f[i] = G[i]
    <2> HIDE DEF G
    <2> DEFINE U == {k \in 1..N : f[k] # G[k]}
    <2> SUFFICES ASSUME U # {} PROVE FALSE
      OBVIOUS
    <2>1. PICK k \in U : \A m \in U : k <= m
      <3> U \in SUBSET Nat
        OBVIOUS
      <3> HIDE DEF U
      <3> QED BY LeastExists
    <2>2. f[k] = IF k = 1 THEN ss[k] ELSE f[k - 1] \o ss[k]
      BY <1>8
    <2>3. G[k] = IF k = 1 THEN ss[k] ELSE G[k - 1] \o ss[k]
      BY <1>7
    <2>4. ASSUME k # 1 PROVE f[k - 1] = G[k - 1]
      <3>1. k - 1 \in 1..N /\ ~ (k <= k - 1)
        BY <2>1, <2>4
      <3>2. k - 1 \notin U
        <4> HIDE DEF U
        <4> QED BY <2>1, <3>1
      <3> QED BY <3>1, <3>2
    <2> QED BY <2>1, <2>2, <2>3, <2>4
  <1>9. FlattenSeq(ss) = W
    <2>1. Len(ss) = N /\ ss \in Seq(Seq(E))
      OBVIOUS
    <2>2. CASE N = 0
      <3>1. ss = << >> /\ W = << >>
        BY <1>6, <2>1, <2>2
      <3> QED BY <2>1, <2>2, <3>1 DEF FlattenSeq
    <2>3. CASE N # 0
      <3> DEFINE F == CHOOSE f : f = Def(f)
      <3>1. F = Def(F)
        BY <1>7
      <3> HIDE DEF F
      <3>2. N \in 1..N
        BY <2>3
      <3> HIDE DEF G, Def
      <3>5. F[N] = G[N]
        BY <1>8, <3>1, <3>2
      <3> USE DEF G, Def
      <3>3. FlattenSeq(ss) = F[N]
        BY <2>1, <2>3 DEF FlattenSeq, F
      <3>4. G[N] = W
        BY <1>6, <3>2
      <3> QED BY <3>3, <3>4, <3>5
    <2> QED BY <2>2, <2>3
  <1>10. off[N] \in Nat /\ W \in Seq(E) /\ Len(W) = off[N]
    <2>1. PICK l : l = off[N]
      OBVIOUS
    <2>2. l \in Nat /\ W \in [1..l -> E]
      BY <1>6, <2>1
    <2> HIDE <1>p
    <2> QED BY <2>1, <2>2, FunctionIsSequence
  <1> QED BY <1>4, <1>5, <1>9, <1>10

LEMMA SuffixByPlace ==
  ASSUME NEW E, NEW s \in Seq(E), NEW t \in Seq(E), Len(s) <= Len(t),
         \A i \in 1..Len(s) : s[i] = t[Len(t) - Len(s) + i]
  PROVE  IsSuffix(s, t)
  <1> DEFINE rs == Reverse(s)
             rt == Reverse(t)
  <1>1. /\ Len(s) \in Nat /\ s \in [1..Len(s) -> E]
        /\ Len(t) \in Nat /\ t \in [1..Len(t) -> E]
    BY SequenceIsFunction
  <1>2. rs = [i \in 1..Len(s) |-> s[Len(s) - i + 1]] /\ rt = [i \in 1..Len(t) |-> t[Len(t) - i + 1]]
    BY DEF Reverse
  <1>3. rs \in [1..Len(s) -> E] /\ rt \in [1..Len(t) -> E]
    BY <1>1, <1>2
  <1> HIDE DEF rs, rt
  <1>4. rs \in Seq(E) /\ Len(rs) = Len(s) /\ rt \in Seq(E) /\ Len(rt) = Len(t)
    BY <1>1, <1>3, FunctionIsSequence
  <1>5. \A i \in 1..Len(s) : rs[i] = rt[i]
    <2> SUFFICES ASSUME NEW i \in 1..Len(s) PROVE rs[i] = rt[i]
      OBVIOUS
    <2> DEFINE j == Len(s) - i + 1
    <2>1. j \in 1..Len(s) /\ Len(t) - i + 1 = Len(t) - Len(s) + j /\ i \in 1..Len(t)
      BY <1>1
    <2>2. rs[i] = s[j] /\ rt[i] = t[Len(t) - i + 1]
      BY <1>2, <2>1
    <2> HIDE DEF j
    <2> QED BY <2>1, <2>2
  <1>6. \A u \in Seq(E) : Len(s) <= Len(u) => SubSeq(u, 1, Len(s)) = [i \in 1..Len(s) |-> u[i]]
    BY <1>1
  <1>7. SubSeq(rs, 1, Len(rs)) = SubSeq(rt, 1, Len(rs))
    BY <1>1, <1>4, <1>5, <1>6
  <1> QED BY <1>1, <1>4, <1>7 DEF IsSuffix, IsPrefix, rs, rt

-----------------------------------------------------------------------------
(* Iterations                                                              *)

\* cut divides the places from a + 1 to b into pieces, one after the other: the n-th
\* of the iterations I has the places from cut[n - 1] + 1 to cut[n].
Divides(cut, it, I, a, b) ==
  /\ cut \in [0..Cardinality(I) -> a..b]
  /\ cut[0] = a /\ cut[Cardinality(I)] = b
  /\ \A i, j \in 0..Cardinality(I) : i < j => cut[i] < cut[j]
  /\ \A n \in 1..Cardinality(I) : \A k \in (a + 1)..b :
       it[k] = Nth(I, n) <=> cut[n - 1] < k /\ k <= cut[n]

LEMMA IterationsCut ==
  ASSUME NEW B \in Nat, NEW it \in [1..B -> Nat],
         \A i, j \in 1..B : i < j => it[i] <= it[j],
         NEW a \in 0..B, NEW I, \A v : v \in I <=> \E k \in (a + 1)..B : v = it[k]
  PROVE  /\ I \in SUBSET Nat /\ IsFiniteSet(I) /\ Cardinality(I) \in Nat
         /\ \E cut : Divides(cut, it, I, a, B)
  <1>1. I \in SUBSET Nat
    OBVIOUS
  <1>2. \A i, j \in 1..B : i <= j => it[i] <= it[j]
    <2> SUFFICES ASSUME NEW i \in 1..B, NEW j \in 1..B, i <= j PROVE it[i] <= it[j]
      OBVIOUS
    <2>1. it[i] \in Nat /\ (i = j \/ i < j)
      OBVIOUS
    <2> QED BY <2>1
  <1>3. IsFiniteSet(I)
    <2>1. CASE B = 0
      <3>1. I = {}
        BY <2>1
      <3> QED BY <3>1, FS_EmptySet
    <2>2. CASE B # 0
      <3>1. B \in 1..B /\ it[B] \in Nat
        BY <2>2
      <3>2. \A v \in I : v <= it[B]
        <4> SUFFICES ASSUME NEW v \in I PROVE v <= it[B]
          OBVIOUS
        <4>1. PICK k \in (a + 1)..B : v = it[k]
          OBVIOUS
        <4>2. k \in 1..B /\ k <= B
          BY <4>1
        <4> QED BY <1>2, <3>1, <4>1, <4>2
      <3> QED BY <1>1, <3>1, <3>2, FS_BoundedSetOfNaturals
    <2> QED BY <2>1, <2>2
  <1> DEFINE N == Cardinality(I)
             its(n) == Nth(I, n)
             Up(n) == {k \in (a + 1)..B : it[k] <= its(n)}
             cut == [n \in 0..N |-> IF n = 0 THEN a ELSE CHOOSE k \in Up(n) : \A m \in Up(n) : m <= k]
  <1>4. /\ N \in Nat
        /\ \A n \in 1..N : its(n) \in I
        /\ \A m, n \in 1..N : m < n => its(m) < its(n)
        /\ \A v \in I : \E n \in 1..N : v = its(n)
    BY <1>1, <1>3, NthEnumerates
  <1> HIDE DEF N, its
  <1>5. ASSUME NEW n \in 1..N
        PROVE  /\ cut[n] \in (a + 1)..B
               /\ \A k \in (a + 1)..B : it[k] <= its(n) <=> k <= cut[n]
    <2> DEFINE U == Up(n)
    <2>1. its(n) \in Nat
      BY <1>1, <1>4
    <2>2. PICK l \in (a + 1)..B : its(n) = it[l]
      BY <1>4
    <2>3. l \in U
      BY <2>1, <2>2
    <2>4. U \in SUBSET Nat /\ \A k \in U : k <= B
      OBVIOUS
    <2> HIDE DEF U
    <2>5. \E k \in U : \A m \in U : m <= k
      BY <2>3, <2>4, GreatestExists
    <2>6. cut[n] = CHOOSE k \in U : \A m \in U : m <= k
      BY DEF U
    <2> HIDE DEF cut
    <2>7. cut[n] \in U /\ \A m \in U : m <= cut[n]
      BY <2>5, <2>6
    <2> USE DEF U
    <2>8. cut[n] \in (a + 1)..B /\ it[cut[n]] <= its(n)
      BY <2>7
    <2>9. ASSUME NEW k \in (a + 1)..B, k <= cut[n] PROVE it[k] <= its(n)
      <3>1. k \in 1..B /\ cut[n] \in 1..B
        BY <2>8
      <3>2. it[k] <= it[cut[n]] /\ it[k] \in Nat /\ it[cut[n]] \in Nat
        BY <1>2, <2>9, <3>1
      <3> QED BY <2>1, <2>8, <3>2
    <2> QED BY <2>7, <2>8, <2>9
  <1>6. cut[0] = a /\ cut \in [0..N -> a..B]
    <2>1. cut[0] = a
      BY <1>4
    <2>2. ASSUME NEW n \in 0..N PROVE cut[n] \in a..B
      <3>1. CASE n = 0
        BY <2>1, <3>1
      <3>2. CASE n # 0
        <4>1. n \in 1..N
          BY <3>2
        <4> HIDE DEF cut
        <4> QED BY <1>5, <4>1
      <3> QED BY <3>1, <3>2
    <2> QED BY <2>1, <2>2
  <1> HIDE DEF cut, Up
  <1>7. ASSUME NEW i \in 0..N, NEW j \in 0..N, i < j PROVE cut[i] < cut[j]
    <2>1. j \in 1..N
      BY <1>7
    <2>2. CASE i = 0
      BY <1>5, <1>6, <2>1, <2>2
    <2>3. CASE i # 0
      <3>1. i \in 1..N
        BY <2>3
      <3>2. its(i) < its(j) /\ its(i) \in Nat /\ its(j) \in Nat
        BY <1>1, <1>4, <1>7, <2>1, <3>1
      <3>3. PICK l \in (a + 1)..B : its(j) = it[l]
        BY <1>4, <2>1
      <3>4. l <= cut[j]
        BY <1>5, <2>1, <3>2, <3>3
      <3>5. ~ (l <= cut[i])
        BY <1>5, <3>1, <3>2, <3>3
      <3>6. cut[i] \in Nat /\ cut[j] \in Nat /\ l \in Nat
        BY <1>6
      <3> QED BY <3>4, <3>5, <3>6
    <2> QED BY <2>2, <2>3
  <1>8. cut[N] = B
    <2>1. CASE N = 0
      <3>1. I = {}
        BY <1>4, <2>1
      <3>2. ~ (a + 1 <= B)
        <4> SUFFICES ASSUME a + 1 <= B PROVE FALSE
          OBVIOUS
        <4>1. B \in (a + 1)..B
          OBVIOUS
        <4> QED BY <3>1, <4>1
      <3> QED BY <1>6, <2>1, <3>2
    <2>2. CASE N # 0
      <3>1. N \in 1..N
        BY <1>4, <2>2
      <3>2. cut[N] \in (a + 1)..B
        BY <1>5, <3>1
      <3>3. B \in (a + 1)..B
        BY <3>2
      <3>4. it[B] \in I
        BY <3>3
      <3>5. PICK j \in 1..N : it[B] = its(j)
        BY <1>4, <3>4
      <3>6. j = N \/ its(j) < its(N)
        BY <1>4, <3>1
      <3>7. its(j) \in Nat /\ its(N) \in Nat
        BY <1>1, <1>4, <3>1
      <3>8. it[B] <= its(N)
        BY <3>5, <3>6, <3>7
      <3>9. B <= cut[N]
        BY <1>5, <3>1, <3>3, <3>8
      <3> QED BY <3>2, <3>9
    <2> QED BY <2>1, <2>2
  <1>9. ASSUME NEW n \in 1..N, NEW k \in (a + 1)..B
        PROVE  it[k] = its(n) <=> cut[n - 1] < k /\ k <= cut[n]
    <2>1. its(n) \in Nat /\ it[k] \in Nat /\ cut[n - 1] \in Nat /\ k \in Nat
      BY <1>1, <1>4, <1>6
    <2>2. it[k] <= its(n) <=> k <= cut[n]
      BY <1>5
    <2>3. CASE n = 1
      <3>1. cut[n - 1] < k
        BY <1>6, <2>3
      <3>2. it[k] \in I
        OBVIOUS
      <3>3. PICK j \in 1..N : it[k] = its(j)
        BY <1>4, <3>2
      <3>4. j = 1 \/ its(1) < its(j)
        BY <1>4, <2>3
      <3>5. its(n) <= it[k]
        BY <2>1, <2>3, <3>3, <3>4
      <3> QED BY <2>1, <2>2, <3>1, <3>5
    <2>4. CASE n # 1
      <3>1. n - 1 \in 1..N /\ n - 1 < n
        BY <1>4, <2>4
      <3>2. it[k] <= its(n - 1) <=> k <= cut[n - 1]
        BY <1>5, <3>1
      <3>3. its(n - 1) < its(n) /\ its(n - 1) \in Nat
        BY <1>1, <1>4, <3>1
      <3>4. it[k] \in I
        OBVIOUS
      <3>5. PICK j \in 1..N : it[k] = its(j)
        BY <1>4, <3>4
      <3>6. CASE j = n
        BY <2>1, <2>2, <3>2, <3>3, <3>5, <3>6
      <3>7. CASE j < n
        <4>1. j = n - 1 \/ j < n - 1
          BY <3>7
        <4>2. its(j) < its(n) /\ its(j) <= its(n - 1)
          <5>1. its(j) < its(n) /\ its(j) \in Nat
            BY <1>1, <1>4, <3>7
          <5>2. j < n - 1 => its(j) < its(n - 1)
            BY <1>4, <3>1
          <5> QED BY <3>3, <4>1, <5>1, <5>2
        <4> QED BY <2>1, <3>2, <3>5, <4>2
      <3>8. CASE n < j
        <4>1. its(n) < its(j)
          BY <1>4, <3>8
        <4> QED BY <2>1, <2>2, <3>5, <4>1
      <3> QED BY <3>6, <3>7, <3>8
    <2> QED BY <2>3, <2>4
  <1> QED BY <1>1, <1>3, <1>4, <1>6, <1>7, <1>8, <1>9 DEF Divides, N, its

-----------------------------------------------------------------------------
(* The invariant                                                           *)

Results ==
  [kind : {"tool_result"}, iteration : Nat, index : 1..MaxCalls,
   call_id : {{}} \cup {Given(i, n) : i \in Nat, n \in 1..MaxCalls}, size : Sizes]
Markers == [kind : {"compaction_marker"}, iteration : Nat, dropped : Nat, size : {1}]

\* Results come in order, one index after the other within an iteration.
MadeInOrder ==
  /\ made \in Seq(Results)
  /\ \A k \in 1..Len(made) :
       /\ made[k].iteration < iteration
       /\ made[k].call_id \in {{}, Given(made[k].iteration, made[k].index)}
  /\ \A j, k \in 1..Len(made) :
       j < k => \/ made[j].iteration < made[k].iteration
                \/ /\ made[j].iteration = made[k].iteration
                   /\ made[k].index - made[j].index = k - j

\* obs is m markers and then the results from a + 1 to b, which are all of the first
\* b or at least as many as compaction keeps.
Remains(obs, m, a, b) ==
  /\ obs \in Seq(Results \cup Markers)
  /\ m \in Nat /\ a \in Nat /\ b \in Nat /\ a <= b /\ b <= Len(made)
  /\ Len(obs) = m + (b - a)
  /\ \A k \in 1..m : obs[k] \in Markers
  /\ \A k \in 1..(b - a) : obs[m + k] = made[a + k]
  /\ a = 0 \/ b - a >= keep

\* The results after the b-th are of later iterations than those before.
Closed(b) == \A j \in 1..b : \A k \in (b + 1)..Len(made) : made[j].iteration < made[k].iteration

\* The last request was built from observations that were what remained of the
\* results so far.
Requested ==
  \/ phase # "asked" /\ messages = << >>
  \/ \E obs, m, a, b, fb :
       /\ Remains(obs, m, a, b) /\ Closed(b)
       /\ fb \in Nat /\ messages = BuildMessages(obs, fb)
       /\ phase = "asked" => b = Len(made)

Inv ==
  /\ keep \in Nat /\ iteration \in Nat /\ feedback \in Nat
  /\ MadeInOrder
  /\ \E m, a : Remains(observations, m, a, Len(made))
  /\ Requested

LEMMA InvInit == Init => Inv
  <1> SUFFICES ASSUME Init PROVE Inv
    OBVIOUS
  <1>1. keep \in Nat /\ iteration \in Nat /\ feedback \in Nat
    BY TranscriptAssumption DEF Init
  <1>2. MadeInOrder
    BY DEF Init, MadeInOrder
  <1>3. Remains(observations, 0, 0, Len(made))
    BY DEF Init, Remains
  <1>4. Requested
    BY DEF Init, Requested
  <1> QED BY <1>1, <1>2, <1>3, <1>4 DEF Inv

\* Compaction puts a marker before what it keeps: more markers, or fewer results.
LEMMA CompactionLeaves ==
  ASSUME keep \in Nat, MadeInOrder, NEW m, NEW a, Remains(observations, m, a, Len(made))
  PROVE  \E n, c : Remains(CompactedObservations, n, c, Len(made))
  <1> DEFINE E == Results \cup Markers
             b == Len(made)
             L == Len(observations)
             q == IF keep = 0 THEN 0 ELSE L - keep
             mk == Marker(Head(Latest).iteration, L - keep)
             new == <<mk>> \o Latest
  <1>1. /\ observations \in Seq(E) /\ L = m + (b - a) /\ L \in Nat
        /\ m \in Nat /\ a \in Nat /\ b \in Nat /\ a <= b
        /\ \A k \in 1..m : observations[k] \in Markers
        /\ \A k \in 1..(b - a) : observations[m + k] = made[a + k]
        /\ a = 0 \/ b - a >= keep
    BY DEF Remains
  <1>2. CASE ~ (L > keep)
    BY <1>2 DEF CompactedObservations
  <1>3. CASE L > keep
    <2>1. q \in Nat /\ L - q \in Nat /\ q < L
      BY <1>1, <1>3
    <2>2. Latest = [k \in 1..(L - q) |-> observations[q + k]]
      <3>1. CASE keep = 0
        <4>1. observations = [k \in 1..L |-> observations[k]]
          BY <1>1, SequenceIsFunction
        <4> QED BY <1>1, <3>1, <4>1 DEF Latest
      <3>2. CASE keep # 0
        <4>1. Latest = SubSeq(observations, q + 1, L) /\ q \in Nat /\ q <= L
          BY <1>1, <1>3, <3>2 DEF Latest
        <4> HIDE DEF q
        <4> QED BY <1>1, <4>1, EndOfSequence
      <3> QED BY <3>1, <3>2
    <2>3. \A k \in 1..L : observations[k] \in E
      BY <1>1, SequenceIsFunction
    <2> HIDE DEF q, E
    <2>4. Latest \in Seq(E) /\ Len(Latest) = L - q
      <3>1. Latest \in [1..(L - q) -> E]
        BY <2>1, <2>2, <2>3
      <3> QED BY <2>1, <3>1, FunctionIsSequence
    <2>5. mk \in Markers
      <3>1. Head(Latest) = observations[q + 1]
        BY <2>1, <2>2, <2>4
      <3>2. observations[q + 1] \in E
        BY <1>1, <2>1, <2>3
      <3>3. Head(Latest).iteration \in Nat
        BY <3>1, <3>2 DEF E, Results, Markers
      <3>4. L - keep \in Nat
        BY <1>1, <1>3
      <3> QED BY <3>3, <3>4 DEF Marker, Markers
    <2> HIDE DEF mk
    <2>6. <<mk>> \in Seq(E) /\ Len(<<mk>>) = 1 /\ <<mk>>[1] = mk
      BY <2>5 DEF E
    <2>7. /\ new \in Seq(E) /\ Len(new) = 1 + (L - q)
          /\ new[1] = mk
          /\ \A k \in 1..(L - q) : new[1 + k] = observations[q + k]
      <3>1. /\ new \in Seq(E) /\ Len(new) = 1 + (L - q)
            /\ \A k \in 1..Len(<<mk>>) : new[k] = <<mk>>[k]
            /\ \A k \in 1..Len(Latest) : new[Len(<<mk>>) + k] = Latest[k]
        BY <2>4, <2>6, Concatenation
      <3> QED BY <2>1, <2>2, <2>4, <2>6, <3>1
    <2>8. CompactedObservations = new
      BY <1>3 DEF CompactedObservations, mk
    <2> HIDE DEF new
    <2> DEFINE n == IF q < m THEN 1 + (m - q) ELSE 1
               c == IF q < m THEN a ELSE a + (q - m)
    <2>9. n \in Nat /\ c \in Nat /\ c <= b /\ Len(new) = n + (b - c)
      <3>1. CASE q < m
        BY <1>1, <2>1, <2>7, <3>1
      <3>2. CASE ~ (q < m)
        <4>1. q - m \in Nat /\ n = 1 /\ c = a + (q - m)
          BY <1>1, <2>1, <3>2
        <4> HIDE DEF n, c
        <4> QED BY <1>1, <2>1, <2>7, <4>1
      <3> QED BY <3>1, <3>2
    <2>10. ASSUME NEW k \in 1..n PROVE new[k] \in Markers
      <3>1. CASE k = 1
        BY <2>5, <2>7, <3>1
      <3>2. CASE k # 1
        <4> DEFINE l == k - 1
        <4>1. k = 1 + l /\ l \in 1..(L - q) /\ q + l \in 1..m
          BY <1>1, <2>1, <3>2
        <4> HIDE DEF l
        <4> QED BY <1>1, <2>7, <4>1
      <3> QED BY <3>1, <3>2
    <2>11. ASSUME NEW k \in 1..(b - c) PROVE new[n + k] = made[c + k]
      <3> DEFINE l == n - 1 + k
                 j == q + l - m
      <3>1. /\ n + k = 1 + l /\ l \in 1..(L - q) /\ q + l = m + j /\ j \in 1..(b - a)
            /\ a + j = c + k
        BY <1>1, <2>1
      <3> HIDE DEF l, j, n, c
      <3> QED BY <1>1, <2>7, <3>1
    <2>12. c = 0 \/ b - c >= keep
      BY <1>1, <1>3, <2>1 DEF q
    <2>13. b <= Len(made)
      BY <1>1
    <2> HIDE DEF n, c
    <2>14. Remains(new, n, c, b)
      BY <1>1, <2>7, <2>9, <2>10, <2>11, <2>12, <2>13 DEF Remains, E
    <2> QED BY <2>8, <2>14
  <1> QED BY <1>2, <1>3

LEMMA SameMessages ==
  ASSUME provider' = provider, NEW obs, NEW fb
  PROVE  BuildMessages(obs, fb)' = BuildMessages(obs, fb)
  BY DEF BuildMessages, TurnOf, Opening

LEMMA StillRemains ==
  ASSUME keep' = keep, Len(made) \in Nat, Len(made') \in Nat, Len(made) <= Len(made'),
         \A k \in 1..Len(made) : made'[k] = made[k],
         NEW obs, NEW m, NEW a, NEW b, Remains(obs, m, a, b)
  PROVE  Remains(obs, m, a, b)'
  <1>1. \A k \in 1..(b - a) : a + k \in 1..Len(made)
    BY DEF Remains
  <1>2. /\ obs \in Seq(Results \cup Markers)
        /\ m \in Nat /\ a \in Nat /\ b \in Nat /\ a <= b /\ b <= Len(made)
        /\ Len(obs) = m + (b - a)
        /\ \A k \in 1..m : obs[k] \in Markers
        /\ \A k \in 1..(b - a) : obs[m + k] = made[a + k]
        /\ a = 0 \/ b - a >= keep
    BY DEF Remains
  <1>3. b <= Len(made')
    BY <1>2
  <1>4. \A k \in 1..(b - a) : obs[m + k] = made'[a + k]
    BY <1>1, <1>2
  <1> QED BY <1>2, <1>3, <1>4 DEF Remains

\* What a batch of calls adds to the observations.
LEMMA ObservedBatch ==
  ASSUME iteration \in Nat, NEW bt \in Batches
  PROVE  /\ Observed(bt) \in Seq(Results) /\ Len(Observed(bt)) \in Nat \ {0}
         /\ \A i \in 1..Len(Observed(bt)) :
              /\ Observed(bt)[i].iteration = iteration
              /\ Observed(bt)[i].index = i
              /\ Observed(bt)[i].call_id \in {{}, Given(iteration, i)}
  <1>1. PICK n \in 1..MaxCalls : bt \in [1..n -> [id : {TRUE, FALSE}, size : Sizes]]
    BY DEF Batches
  <1>2. Len(bt) = n /\ n \in Nat
    BY <1>1
  <1> DEFINE o == Observed(bt)
  <1>3. o = [i \in 1..n |-> Result(iteration, i, IF bt[i].id THEN Given(iteration, i) ELSE {}, bt[i].size)]
    BY <1>2 DEF Observed
  <1> HIDE DEF o
  <1>4. ASSUME NEW i \in 1..n
        PROVE  /\ o[i] \in Results
               /\ o[i].iteration = iteration /\ o[i].index = i
               /\ o[i].call_id \in {{}, Given(iteration, i)}
    <2>1. bt[i].size \in Sizes /\ i \in 1..MaxCalls
      <3>1. bt[i] \in [id : {TRUE, FALSE}, size : Sizes]
        BY <1>1
      <3>2. MaxCalls \in Nat /\ n \in 1..MaxCalls
        BY TranscriptAssumption
      <3>3. i \in 1..MaxCalls
        BY <3>2
      <3> QED BY <3>1, <3>3
    <2>2. PICK g : g = (IF bt[i].id THEN Given(iteration, i) ELSE {})
      OBVIOUS
    <2>3. g \in {{}, Given(iteration, i)}
      BY <2>2
    <2>4. o[i] = Result(iteration, i, g, bt[i].size)
      BY <1>3, <2>2
    <2>5. g \in {{}} \cup {Given(j, l) : j \in Nat, l \in 1..MaxCalls}
      BY <2>1, <2>3
    <2> QED BY <2>1, <2>3, <2>4, <2>5 DEF Results, Result
  <1>5. o \in [1..n -> Results]
    BY <1>3, <1>4
  <1>6. o \in Seq(Results) /\ Len(o) = n
    BY <1>2, <1>5, FunctionIsSequence
  <1> QED BY <1>2, <1>4, <1>6 DEF o

LEMMA InvStep == Inv /\ [Next]_vars => Inv'
  <1> SUFFICES ASSUME Inv, [Next]_vars PROVE Inv'
    OBVIOUS
  <1>0. /\ keep \in Nat /\ iteration \in Nat /\ feedback \in Nat
        /\ MadeInOrder /\ Len(made) \in Nat /\ Requested
    BY DEF Inv, MadeInOrder
  <1>k. PICK m, a : Remains(observations, m, a, Len(made))
    BY DEF Inv
  <1>1. CASE UNCHANGED <<keep, iteration, feedback, made, observations, messages, provider>>
             /\ (phase' = "asked" => phase = "asked")
    <2>1. MadeInOrder'
      BY <1>0, <1>1 DEF MadeInOrder
    <2>2. Remains(observations, m, a, Len(made))'
      BY <1>k, <1>1 DEF Remains
    <2>3. Requested'
      <3>1. CASE phase # "asked" /\ messages = << >>
        BY <1>1, <3>1 DEF Requested
      <3>2. CASE ~ (phase # "asked" /\ messages = << >>)
        <4>1. PICK obs, n, c, b, fb :
                 /\ Remains(obs, n, c, b) /\ Closed(b)
                 /\ fb \in Nat /\ messages = BuildMessages(obs, fb)
                 /\ phase = "asked" => b = Len(made)
          BY <1>0, <3>2 DEF Requested
        <4>2. Remains(obs, n, c, b)'
          BY <4>1, <1>1 DEF Remains
        <4>3. Closed(b)'
          BY <4>1, <1>1 DEF Closed
        <4>4. messages' = BuildMessages(obs, fb)'
          BY <4>1, <1>1, SameMessages
        <4> QED BY <4>1, <4>2, <4>3, <4>4, <1>1 DEF Requested
      <3> QED BY <3>1, <3>2
    <2> QED BY <1>0, <1>1, <2>1, <2>2, <2>3 DEF Inv
  <1>2. CASE Ask
    <2>1. MadeInOrder'
      BY <1>0, <1>2 DEF MadeInOrder, Ask
    <2>2. \E n, c : Remains(CompactedObservations, n, c, Len(made))
      BY <1>0, <1>k, CompactionLeaves
    <2>3. PICK o : o = observations'
      OBVIOUS
    <2>4. PICK n, c : Remains(o, n, c, Len(made))
      <3>1. CASE ShouldCompact
        BY <1>2, <2>2, <2>3, <3>1 DEF Ask
      <3>2. CASE ~ ShouldCompact
        BY <1>2, <1>k, <2>3, <3>2 DEF Ask
      <3> QED BY <3>1, <3>2
    <2>5. PICK b : b = Len(made)
      OBVIOUS
    <2>6. Remains(o, n, c, b)'
      BY <1>0, <1>2, <2>4, <2>5, StillRemains DEF Ask
    <2>7. Closed(b)'
      <3>1. made' = made
        BY <1>2 DEF Ask
      <3> QED BY <1>0, <2>5, <3>1 DEF Closed
    <2>8. PICK fb : fb = feedback
      OBVIOUS
    <2>9. messages' = BuildMessages(o, fb)'
      <3>1. provider' = provider /\ messages' = BuildMessages(o, fb)
        BY <1>2, <2>3, <2>8 DEF Ask
      <3> QED BY <3>1, SameMessages
    <2>10. Requested'
      BY <1>0, <1>2, <2>5, <2>6, <2>7, <2>8, <2>9 DEF Requested, Ask
    <2>11. Remains(observations, n, c, Len(made))'
      BY <1>2, <2>3, <2>5, <2>6 DEF Ask, Remains
    <2> QED BY <1>0, <1>2, <2>1, <2>10, <2>11 DEF Inv, Ask
  <1>3. CASE CallTools
    <2>1. PICK bt \in Batches : /\ observations' = observations \o Observed(bt)
                                /\ made' = made \o Observed(bt)
      BY <1>3 DEF CallTools
    <2>2. PICK o : o = Observed(bt)
      OBVIOUS
    <2>3. /\ o \in Seq(Results) /\ Len(o) \in Nat \ {0}
          /\ \A i \in 1..Len(o) : /\ o[i].iteration = iteration
                                  /\ o[i].index = i
                                  /\ o[i].call_id \in {{}, Given(iteration, i)}
      BY <1>0, <2>2, ObservedBatch
    <2>4. /\ keep' = keep /\ iteration' = iteration + 1 /\ feedback' \in Nat
          /\ phase' = "loop" /\ messages' = messages /\ provider' = provider
      BY <1>0, <1>3 DEF CallTools, NextIteration
    <2>5. PICK L : L = Len(made)
      OBVIOUS
    <2>6. /\ made' \in Seq(Results) /\ Len(made') = L + Len(o)
          /\ \A k \in 1..L : made'[k] = made[k]
          /\ \A k \in 1..Len(o) : made'[L + k] = o[k]
      BY <1>0, <2>1, <2>2, <2>3, <2>5, Concatenation DEF MadeInOrder
    <2>7. ASSUME NEW k \in 1..Len(made')
          PROVE  k \in 1..L \/ \E i \in 1..Len(o) : k = L + i
      <3>1. k > L => k - L \in 1..Len(o) /\ k = L + (k - L)
        BY <1>0, <2>3, <2>5, <2>6
      <3>2. k > L \/ k \in 1..L
        BY <1>0, <2>5
      <3> QED BY <3>1, <3>2
    <2>8. MadeInOrder'
      <3>1. ASSUME NEW k \in 1..Len(made')
            PROVE  /\ made'[k].iteration < iteration'
                   /\ made'[k].call_id \in {{}, Given(made'[k].iteration, made'[k].index)}
        <4>1. CASE k \in 1..L
          <5>1. made[k].iteration < iteration /\ made[k] \in Results
            BY <1>0, <2>5, <4>1 DEF MadeInOrder
          <5>2. made[k].iteration \in Nat
            BY <5>1 DEF Results
          <5>3. made[k].call_id \in {{}, Given(made[k].iteration, made[k].index)}
            BY <1>0, <2>5, <4>1 DEF MadeInOrder
          <5> QED BY <1>0, <2>4, <2>6, <4>1, <5>1, <5>2, <5>3
        <4>2. ASSUME NEW i \in 1..Len(o), k = L + i
              PROVE  /\ made'[k].iteration < iteration'
                     /\ made'[k].call_id \in {{}, Given(made'[k].iteration, made'[k].index)}
          <5>1. made'[k] = o[i]
            BY <2>6, <4>2
          <5>2. o[i].iteration = iteration /\ o[i].index = i /\ o[i].call_id \in {{}, Given(iteration, i)}
            BY <2>3
          <5> QED BY <1>0, <2>4, <5>1, <5>2
        <4> QED BY <2>7, <4>1, <4>2
      <3>2. ASSUME NEW j \in 1..Len(made'), NEW k \in 1..Len(made'), j < k
            PROVE  \/ made'[j].iteration < made'[k].iteration
                   \/ /\ made'[j].iteration = made'[k].iteration
                      /\ made'[k].index - made'[j].index = k - j
        <4>1. CASE k \in 1..L
          <5>1. j \in 1..L
            BY <1>0, <2>5, <3>2, <4>1
          <5> QED BY <1>0, <2>5, <2>6, <3>2, <4>1, <5>1 DEF MadeInOrder
        <4>2. ASSUME NEW i \in 1..Len(o), k = L + i, j \in 1..L
              PROVE  made'[j].iteration < made'[k].iteration
          <5>1. made'[k].iteration = iteration
            BY <2>3, <2>6, <4>2
          <5>2. made'[j].iteration < iteration
            BY <1>0, <2>5, <2>6, <4>2 DEF MadeInOrder
          <5> QED BY <5>1, <5>2
        <4>3. ASSUME NEW i \in 1..Len(o), k = L + i, NEW l \in 1..Len(o), j = L + l
              PROVE  /\ made'[j].iteration = made'[k].iteration
                     /\ made'[k].index - made'[j].index = k - j
          <5>1. made'[k] = o[i] /\ made'[j] = o[l]
            BY <2>6, <4>3
          <5>2. /\ o[i].iteration = iteration /\ o[i].index = i
                /\ o[l].iteration = iteration /\ o[l].index = l
            BY <2>3
          <5>3. i - l = k - j
            BY <1>0, <2>5, <4>3
          <5> QED BY <5>1, <5>2, <5>3
        <4> QED BY <2>7, <4>1, <4>2, <4>3
      <3> QED BY <2>6, <3>1, <3>2 DEF MadeInOrder
    <2>9. Remains(observations, m, a, Len(made))'
      <3>1. /\ observations \in Seq(Results \cup Markers) /\ o \in Seq(Results \cup Markers)
            /\ Len(observations) \in Nat
        BY <1>k, <2>3 DEF Remains
      <3>2. /\ observations' \in Seq(Results \cup Markers)
            /\ Len(observations') = Len(observations) + Len(o)
            /\ \A k \in 1..Len(observations) : observations'[k] = observations[k]
            /\ \A k \in 1..Len(o) : observations'[Len(observations) + k] = o[k]
        BY <2>1, <2>2, <3>1, Concatenation
      <3>3. /\ m \in Nat /\ a \in Nat /\ L \in Nat /\ a <= L /\ Len(observations) = m + (L - a)
            /\ \A k \in 1..m : observations[k] \in Markers
            /\ \A k \in 1..(L - a) : observations[m + k] = made[a + k]
            /\ a = 0 \/ L - a >= keep
        BY <1>k, <2>5 DEF Remains
      <3>4. PICK N : N = Len(made')
        OBVIOUS
      <3>5. N = L + Len(o) /\ N \in Nat /\ a <= N /\ Len(observations') = m + (N - a)
        <4>1. N = L + Len(o) /\ Len(observations') = m + (L - a) + Len(o)
          BY <2>6, <3>2, <3>3, <3>4
        <4>2. Len(o) \in Nat /\ m \in Nat /\ a \in Nat /\ L \in Nat /\ a <= L
          BY <2>3, <3>3
        <4> QED BY <4>1, <4>2
      <3>6. \A k \in 1..m : observations'[k] \in Markers
        BY <3>2, <3>3
      <3>7. ASSUME NEW k \in 1..(N - a) PROVE observations'[m + k] = made'[a + k]
        <4>1. CASE k <= L - a
          <5>1. k \in 1..(L - a) /\ m + k \in 1..Len(observations) /\ a + k \in 1..L
            BY <3>3, <3>5, <4>1
          <5> QED BY <2>6, <3>2, <3>3, <5>1
        <4>2. CASE ~ (k <= L - a)
          <5> DEFINE i == k - (L - a)
          <5>1. i \in 1..Len(o) /\ m + k = Len(observations) + i /\ a + k = L + i
            <6>1. /\ Len(o) \in Nat /\ m \in Nat /\ a \in Nat /\ L \in Nat /\ a <= L
                  /\ N = L + Len(o) /\ Len(observations) = m + (L - a)
              BY <2>3, <3>3, <3>5
            <6> QED BY <4>2, <6>1
          <5> HIDE DEF i
          <5> QED BY <2>6, <3>2, <5>1
        <4> QED BY <4>1, <4>2
      <3>8. a = 0 \/ N - a >= keep'
        BY <1>0, <2>3, <2>4, <3>3, <3>5
      <3> QED BY <3>2, <3>3, <3>4, <3>5, <3>6, <3>7, <3>8 DEF Remains
    <2>10. Requested'
      <3>1. CASE messages = << >>
        BY <2>4, <3>1 DEF Requested
      <3>2. CASE messages # << >>
        <4>1. PICK obs, n, c, b, fb :
                 /\ Remains(obs, n, c, b) /\ Closed(b)
                 /\ fb \in Nat /\ messages = BuildMessages(obs, fb)
          BY <1>0, <3>2 DEF Requested
        <4>2. Len(made) <= Len(made') /\ Len(made') \in Nat
          BY <1>0, <2>3, <2>5, <2>6
        <4>3. Remains(obs, n, c, b)'
          BY <1>0, <2>4, <2>5, <2>6, <4>1, <4>2, StillRemains
        <4>4. Closed(b)'
          <5> SUFFICES ASSUME NEW j \in 1..b, NEW k \in (b + 1)..Len(made')
                       PROVE  made'[j].iteration < made'[k].iteration
            BY DEF Closed
          <5>1. b \in Nat /\ b <= L
            BY <2>5, <4>1 DEF Remains
          <5>2. j \in 1..L /\ k \in 1..Len(made')
            BY <1>0, <2>5, <5>1
          <5>3. CASE k \in 1..L
            <6>1. k \in (b + 1)..Len(made)
              BY <2>5, <5>1, <5>3
            <6> QED BY <2>6, <4>1, <5>2, <5>3, <6>1 DEF Closed
          <5>4. ASSUME NEW i \in 1..Len(o), k = L + i
                PROVE  made'[j].iteration < made'[k].iteration
            <6>1. made'[k].iteration = iteration
              BY <2>3, <2>6, <5>4
            <6>2. made'[j].iteration < iteration
              BY <1>0, <2>5, <2>6, <5>2 DEF MadeInOrder
            <6> QED BY <6>1, <6>2
          <5> QED BY <2>7, <5>2, <5>3, <5>4
        <4>5. messages' = BuildMessages(obs, fb)'
          BY <2>4, <4>1, SameMessages
        <4> QED BY <2>4, <4>1, <4>3, <4>4, <4>5 DEF Requested
      <3> QED BY <3>1, <3>2
    <2> QED BY <1>0, <2>4, <2>8, <2>9, <2>10 DEF Inv
  <1>4. CASE TurnedDown
    <2>1. /\ UNCHANGED <<keep, made, observations, messages, provider>>
          /\ phase' = "loop" /\ iteration' = iteration + 1 /\ feedback' \in Nat
      BY <1>0, <1>4 DEF TurnedDown, NextIteration
    <2>2. MadeInOrder'
      <3>1. \A k \in 1..Len(made) : made[k].iteration \in Nat
        <4>1. \A k \in 1..Len(made) : made[k] \in Results
          BY <1>0, SequenceIsFunction DEF MadeInOrder
        <4> QED BY <4>1 DEF Results
      <3>2. \A k \in 1..Len(made) : made[k].iteration < iteration + 1
        BY <1>0, <3>1 DEF MadeInOrder
      <3> QED BY <1>0, <2>1, <3>2 DEF MadeInOrder
    <2>3. Remains(observations, m, a, Len(made))'
      BY <1>k, <2>1 DEF Remains
    <2>4. Requested'
      <3>1. CASE messages = << >>
        BY <2>1, <3>1 DEF Requested
      <3>2. CASE messages # << >>
        <4>1. PICK obs, n, c, b, fb :
                 /\ Remains(obs, n, c, b) /\ Closed(b)
                 /\ fb \in Nat /\ messages = BuildMessages(obs, fb)
          BY <1>0, <3>2 DEF Requested
        <4>2. Remains(obs, n, c, b)' /\ Closed(b)'
          BY <4>1, <2>1 DEF Remains, Closed
        <4>3. messages' = BuildMessages(obs, fb)'
          BY <4>1, <2>1, SameMessages
        <4> QED BY <2>1, <4>1, <4>2, <4>3 DEF Requested
      <3> QED BY <3>1, <3>2
    <2> QED BY <1>0, <2>1, <2>2, <2>3, <2>4 DEF Inv
  <1>5. CASE Ends
    BY <1>1, <1>5 DEF Ends
  <1>6. CASE Ended \/ UNCHANGED vars
    BY <1>1, <1>6 DEF Ended, vars
  <1> QED BY <1>2, <1>3, <1>4, <1>5, <1>6 DEF Next

LEMMA Invariant == Spec => []Inv
  BY InvInit, InvStep, PTL DEF Spec

-----------------------------------------------------------------------------
(* What the results of a request are grouped into                          *)

LEMMA MadeFacts ==
  ASSUME MadeInOrder
  PROVE  /\ Len(made) \in Nat
         /\ \A k \in 1..Len(made) : /\ made[k] \in Results
                                    /\ made[k].kind = "tool_result"
                                    /\ made[k].iteration \in Nat
                                    /\ made[k].index \in 1..MaxCalls
                                    /\ made[k].index \in Nat
         /\ \A j, k \in 1..Len(made) : j < k => made[j].iteration <= made[k].iteration
  <1>1. Len(made) \in Nat /\ \A k \in 1..Len(made) : made[k] \in Results
    BY SequenceIsFunction DEF MadeInOrder
  <1>2. \A k \in 1..Len(made) : /\ made[k].kind = "tool_result"
                                /\ made[k].iteration \in Nat
                                /\ made[k].index \in 1..MaxCalls
    BY <1>1 DEF Results
  <1>3. \A k \in 1..Len(made) : made[k].index \in Nat
    BY <1>2, TranscriptAssumption
  <1>4. \A j, k \in 1..Len(made) : j < k => made[j].iteration <= made[k].iteration
    BY <1>2 DEF MadeInOrder
  <1> QED BY <1>1, <1>2, <1>3, <1>4

\* The results from cut[n - 1] + 1 to cut[n].
Piece(cut, n) == [k \in 1..(cut[n] - cut[n - 1]) |-> made[cut[n - 1] + k]]

\* its are the iterations of the results from a + 1 to b, in order, and cut where
\* the results of each end.
Cut(a, b, N, its, cut) ==
  /\ N \in Nat /\ its \in [1..N -> Nat] /\ cut \in [0..N -> a..b]
  /\ cut[0] = a /\ cut[N] = b
  /\ \A i, j \in 0..N : i < j => cut[i] < cut[j]
  /\ \A i, j \in 1..N : i < j => its[i] < its[j]
  /\ \A n \in 1..N : \A k \in (a + 1)..b :
       made[k].iteration = its[n] <=> cut[n - 1] < k /\ k <= cut[n]

LEMMA PieceFacts ==
  ASSUME MadeInOrder, NEW a \in Nat, NEW b \in Nat, b <= Len(made),
         NEW N, NEW its, NEW cut, Cut(a, b, N, its, cut), NEW n \in 1..N
  PROVE  /\ cut[n - 1] \in Nat /\ cut[n] \in Nat /\ a <= cut[n - 1] /\ cut[n] <= b
         /\ cut[n] - cut[n - 1] \in Nat \ {0}
         /\ Piece(cut, n) \in Seq(Results) /\ Len(Piece(cut, n)) = cut[n] - cut[n - 1]
         /\ \A k \in 1..(cut[n] - cut[n - 1]) :
              /\ cut[n - 1] + k \in (a + 1)..b
              /\ cut[n - 1] + k \in 1..Len(made)
              /\ Piece(cut, n)[k] = made[cut[n - 1] + k]
              /\ made[cut[n - 1] + k].iteration = its[n]
  <1>1. N \in Nat /\ n - 1 \in 0..N /\ n \in 0..N /\ n - 1 < n
    BY DEF Cut
  <1>2. cut[n - 1] \in a..b /\ cut[n] \in a..b /\ cut[n - 1] < cut[n]
    BY <1>1 DEF Cut
  <1>3. /\ cut[n - 1] \in Nat /\ cut[n] \in Nat /\ a <= cut[n - 1] /\ cut[n] <= b
        /\ cut[n] - cut[n - 1] \in Nat \ {0}
    BY <1>2
  <1>4. Len(made) \in Nat /\ \A k \in 1..Len(made) : made[k] \in Results
    BY MadeFacts
  <1>5. \A k \in 1..(cut[n] - cut[n - 1]) :
              /\ cut[n - 1] + k \in (a + 1)..b
              /\ cut[n - 1] + k \in 1..Len(made)
    BY <1>3, <1>4
  <1>6. \A k \in 1..(cut[n] - cut[n - 1]) : Piece(cut, n)[k] = made[cut[n - 1] + k]
    BY DEF Piece
  <1>7. \A k \in 1..(cut[n] - cut[n - 1]) : made[cut[n - 1] + k].iteration = its[n]
    <2> SUFFICES ASSUME NEW k \in 1..(cut[n] - cut[n - 1])
                 PROVE  made[cut[n - 1] + k].iteration = its[n]
      OBVIOUS
    <2>1. PICK l : l = cut[n - 1] + k
      OBVIOUS
    <2>2. l \in (a + 1)..b /\ cut[n - 1] < l /\ l <= cut[n]
      BY <1>3, <1>5, <2>1
    <2>3. made[l].iteration = its[n]
      BY <2>2 DEF Cut
    <2> QED BY <2>1, <2>3
  <1>8. Piece(cut, n) \in Seq(Results) /\ Len(Piece(cut, n)) = cut[n] - cut[n - 1]
    <2>1. PICK p : p = Piece(cut, n)
      OBVIOUS
    <2>2. PICK l : l = cut[n] - cut[n - 1]
      OBVIOUS
    <2>3. p = [k \in 1..l |-> made[cut[n - 1] + k]]
      BY <2>1, <2>2 DEF Piece
    <2>4. \A k \in 1..l : made[cut[n - 1] + k] \in Results
      BY <1>4, <1>5, <2>2
    <2>5. p \in [1..l -> Results] /\ l \in Nat
      BY <1>3, <2>2, <2>3, <2>4
    <2>6. p \in Seq(Results) /\ Len(p) = l
      BY <2>5, FunctionIsSequence
    <2> QED BY <2>1, <2>2, <2>6
  <1> QED BY <1>3, <1>5, <1>6, <1>7, <1>8

LEMMA PieceShape ==
  ASSUME MadeInOrder, NEW a \in Nat, NEW b \in Nat, b <= Len(made),
         NEW N, NEW its, NEW cut, Cut(a, b, N, its, cut), NEW n \in 1..N
  PROVE  /\ cut[n] - cut[n - 1] \in Nat \ {0}
         /\ Piece(cut, n) \in Seq(Results) /\ Len(Piece(cut, n)) = cut[n] - cut[n - 1]
         /\ \A k \in 1..(cut[n] - cut[n - 1]) : Piece(cut, n)[k] = made[cut[n - 1] + k]
  <1>1. /\ cut[n] - cut[n - 1] \in Nat \ {0}
        /\ Piece(cut, n) \in Seq(Results) /\ Len(Piece(cut, n)) = cut[n] - cut[n - 1]
    BY PieceFacts
  <1> QED BY <1>1 DEF Piece

\* An adapter's groups are the pieces.
LEMMA Grouped ==
  ASSUME MadeInOrder, NEW obs, NEW m, NEW a, NEW b, Remains(obs, m, a, b)
  PROVE  \E N, its, cut :
           /\ Cut(a, b, N, its, cut)
           /\ Iterations(obs) = its /\ Len(Iterations(obs)) = N
           /\ \A n \in 1..N : OfIteration(obs, its[n]) = Piece(cut, n)
  <1>1. /\ obs \in Seq(Results \cup Markers)
        /\ m \in Nat /\ a \in Nat /\ b \in Nat /\ a <= b /\ b <= Len(made)
        /\ Len(obs) = m + (b - a)
        /\ \A k \in 1..m : obs[k] \in Markers
        /\ \A k \in 1..(b - a) : obs[m + k] = made[a + k]
    BY DEF Remains
  <1>2. PICK it : it = [k \in 1..b |-> made[k].iteration]
    OBVIOUS
  <1>3. /\ it \in [1..b -> Nat]
        /\ \A i, j \in 1..b : i < j => it[i] <= it[j]
    <2>1. \A k \in 1..b : k \in 1..Len(made)
      BY <1>1, MadeFacts
    <2> QED BY <1>2, <2>1, MadeFacts
  <1>4. \A k \in ResultsAt(obs) : \E j \in (a + 1)..b : k = m + (j - a)
    <2> SUFFICES ASSUME NEW k \in ResultsAt(obs) PROVE \E j \in (a + 1)..b : k = m + (j - a)
      OBVIOUS
    <2>1. k \in 1..Len(obs) /\ obs[k].kind = "tool_result"
      BY DEF ResultsAt
    <2>2. ~ (k <= m)
      <3> SUFFICES ASSUME k <= m PROVE FALSE
        OBVIOUS
      <3>1. obs[k] \in Markers
        BY <1>1, <2>1
      <3> QED BY <2>1, <3>1 DEF Markers
    <2>3. k - m + a \in (a + 1)..b /\ k = m + ((k - m + a) - a)
      BY <1>1, <2>1, <2>2
    <2> QED BY <2>3
  <1>5. ASSUME NEW j \in (a + 1)..b
        PROVE  /\ m + (j - a) \in ResultsAt(obs)
               /\ obs[m + (j - a)] = made[j]
               /\ obs[m + (j - a)].iteration = it[j]
    <2>1. PICK l : l = j - a
      OBVIOUS
    <2>2. l \in 1..(b - a) /\ a + l = j /\ m + l \in 1..Len(obs) /\ j \in 1..b /\ j \in 1..Len(made)
      BY <1>1, <2>1, MadeFacts
    <2>3. obs[m + l] = made[j]
      BY <1>1, <2>2
    <2>4. made[j].kind = "tool_result" /\ made[j].iteration = it[j]
      BY <1>2, <2>2, MadeFacts
    <2>5. m + l \in ResultsAt(obs)
      BY <2>2, <2>3, <2>4 DEF ResultsAt
    <2> QED BY <2>1, <2>3, <2>4, <2>5
  <1>6. PICK I : I = {obs[k].iteration : k \in ResultsAt(obs)}
    OBVIOUS
  <1>7. ASSUME NEW v PROVE v \in I <=> \E k \in (a + 1)..b : v = it[k]
    <2>1. ASSUME v \in I PROVE \E k \in (a + 1)..b : v = it[k]
      <3>1. PICK k \in ResultsAt(obs) : v = obs[k].iteration
        BY <1>6, <2>1
      <3>2. PICK j \in (a + 1)..b : k = m + (j - a)
        BY <1>4
      <3> QED BY <1>5, <3>1, <3>2
    <2>2. ASSUME NEW k \in (a + 1)..b, v = it[k] PROVE v \in I
      BY <1>5, <1>6, <2>2
    <2> QED BY <2>1, <2>2
  <1>8. a \in 0..b
    BY <1>1
  <1>9. /\ I \in SUBSET Nat /\ IsFiniteSet(I) /\ Cardinality(I) \in Nat
        /\ \E cut : Divides(cut, it, I, a, b)
    BY <1>1, <1>3, <1>7, <1>8, IterationsCut
  <1>10. PICK N : N = Cardinality(I)
    OBVIOUS
  <1>11. PICK cut \in [0..N -> a..b] :
              /\ cut[0] = a /\ cut[N] = b
              /\ \A i, j \in 0..N : i < j => cut[i] < cut[j]
              /\ \A n \in 1..N : \A k \in (a + 1)..b :
                   it[k] = Nth(I, n) <=> cut[n - 1] < k /\ k <= cut[n]
    BY <1>9, <1>10 DEF Divides
  <1>12. PICK its : its = [n \in 1..N |-> Nth(I, n)]
    OBVIOUS
  <1>13. Iterations(obs) = its
    BY <1>6, <1>10, <1>12 DEF Iterations, InOrder
  <1>14. /\ N \in Nat
         /\ \A n \in 1..N : its[n] \in Nat
         /\ \A i, j \in 1..N : i < j => its[i] < its[j]
    BY <1>9, <1>10, <1>12, NthEnumerates
  <1>15. its \in [1..N -> Nat]
    BY <1>12, <1>14
  <1>16. Len(its) = N
    BY <1>14, <1>15, FunctionIsSequence
  <1>17. ASSUME NEW n \in 1..N, NEW k \in (a + 1)..b
         PROVE  made[k].iteration = its[n] <=> cut[n - 1] < k /\ k <= cut[n]
    <2>1. k \in 1..b
      BY <1>1
    <2>2. made[k].iteration = it[k] /\ its[n] = Nth(I, n)
      BY <1>2, <1>12, <2>1
    <2> QED BY <1>11, <2>2
  <1>18. Cut(a, b, N, its, cut)
    BY <1>11, <1>14, <1>15, <1>17 DEF Cut
  <1>19. ASSUME NEW n \in 1..N PROVE OfIteration(obs, its[n]) = Piece(cut, n)
    <2>0. PICK u, w : u = cut[n - 1] /\ w = cut[n]
      OBVIOUS
    <2>1. /\ u \in Nat /\ w \in Nat /\ a <= u /\ w <= b
          /\ w - u \in Nat \ {0}
      BY <1>1, <1>18, <2>0, PieceFacts
    <2>2. PICK S : S = {k \in ResultsAt(obs) : obs[k].iteration = its[n]}
      OBVIOUS
    <2>3. PICK lo, hi : lo = m + (u - a) /\ hi = m + (w - a)
      OBVIOUS
    <2>4. lo \in Nat /\ hi \in Nat /\ lo <= hi /\ hi - lo = w - u
      BY <1>1, <2>1, <2>3
    <2>5. ASSUME NEW k PROVE k \in S <=> k \in (lo + 1)..hi
      <3>1. ASSUME k \in S PROVE k \in (lo + 1)..hi
        <4>1. k \in ResultsAt(obs) /\ obs[k].iteration = its[n]
          BY <2>2, <3>1
        <4>2. PICK j \in (a + 1)..b : k = m + (j - a)
          BY <1>4, <4>1
        <4>3. made[j].iteration = its[n]
          BY <1>5, <4>1, <4>2
        <4>4. u < j /\ j <= w
          BY <1>17, <2>0, <4>3
        <4> QED BY <1>1, <2>1, <2>3, <4>2, <4>4
      <3>2. ASSUME k \in (lo + 1)..hi PROVE k \in S
        <4>1. PICK j : j = k - m + a
          OBVIOUS
        <4>2. j \in (a + 1)..b /\ k = m + (j - a) /\ u < j /\ j <= w
          BY <1>1, <2>1, <2>3, <3>2, <4>1
        <4>3. made[j].iteration = its[n]
          BY <1>17, <2>0, <4>2
        <4> QED BY <1>5, <2>2, <4>2, <4>3
      <3> QED BY <3>1, <3>2
    <2>6. Those(obs, S) = [k \in 1..(hi - lo) |-> obs[lo + k]]
      <3>1. S = (lo + 1)..hi
        BY <2>5
      <3>2. Those(obs, S) = Stretch(obs, lo, hi)
        BY <2>4, <3>1, ThoseOfInterval
      <3> QED BY <3>2 DEF Stretch
    <2>7. ASSUME NEW k \in 1..(w - u) PROVE obs[lo + k] = made[u + k]
      <3>1. PICK j : j = u + k
        OBVIOUS
      <3>2. j \in (a + 1)..b /\ lo + k = m + (j - a)
        BY <1>1, <2>1, <2>3, <3>1
      <3> QED BY <1>5, <3>1, <3>2
    <2>8. Those(obs, S) = [k \in 1..(w - u) |-> made[u + k]]
      BY <2>4, <2>6, <2>7
    <2> QED BY <2>0, <2>2, <2>8 DEF OfIteration, Piece
  <1> QED BY <1>13, <1>16, <1>18, <1>19

\* The calls of the n-th iteration are the results from lo + 1 to cut[n].
Starts(its, cut, n, lo) ==
  /\ lo \in Nat /\ lo <= cut[n - 1] /\ (n > 1 => lo = cut[n - 1])
  /\ CallsMade(its[n]) = [k \in 1..(cut[n] - lo) |-> <<its[n], made[lo + k].index>>]
  /\ \A k \in 1..(cut[n] - lo) : made[lo + k].index \in Nat

\* The calls of an iteration are those of its piece, but for the first piece, which
\* may lack some calls before.
LEMMA CallsOfPiece ==
  ASSUME MadeInOrder, NEW a \in Nat, NEW b \in Nat, b <= Len(made), Closed(b),
         NEW N, NEW its, NEW cut, Cut(a, b, N, its, cut), NEW n \in 1..N
  PROVE  \E lo : Starts(its, cut, n, lo)
  <1>1. PICK u, w : u = cut[n - 1] /\ w = cut[n]
    OBVIOUS
  <1>2. /\ u \in Nat /\ w \in Nat /\ a <= u /\ w <= b /\ u < w
        /\ \A k \in (a + 1)..b : made[k].iteration = its[n] <=> u < k /\ k <= w
    <2>1. /\ u \in Nat /\ w \in Nat /\ a <= u /\ w <= b /\ w - u \in Nat \ {0}
      BY <1>1, PieceFacts
    <2>2. \A k \in (a + 1)..b : made[k].iteration = its[n] <=> u < k /\ k <= w
      BY <1>1 DEF Cut
    <2> QED BY <2>1, <2>2
  <1>3. PICK K : K = {k \in 1..Len(made) : made[k].iteration = its[n]}
    OBVIOUS
  <1>4. K \in SUBSET Nat /\ Len(made) \in Nat /\ \A k \in K : k <= Len(made)
    BY <1>3, MadeFacts
  <1>5. w \in K /\ u + 1 \in K
    BY <1>2, <1>3, <1>4
  <1>6. \A i, k \in K : \A j \in Nat : i < j /\ j < k => j \in K
    <2> SUFFICES ASSUME NEW i \in K, NEW k \in K, NEW j \in Nat, i < j, j < k PROVE j \in K
      OBVIOUS
    <2>1. i \in 1..Len(made) /\ k \in 1..Len(made) /\ j \in 1..Len(made)
      BY <1>3, <1>4
    <2>2. made[i].iteration <= made[j].iteration /\ made[j].iteration <= made[k].iteration
      BY <2>1, MadeFacts
    <2>3. made[i].iteration = its[n] /\ made[k].iteration = its[n]
      BY <1>3
    <2>4. made[i].iteration \in Nat /\ made[j].iteration \in Nat /\ made[k].iteration \in Nat
      BY <2>1, MadeFacts
    <2>5. made[j].iteration = its[n]
      BY <2>2, <2>3, <2>4
    <2> QED BY <1>3, <2>1, <2>5
  <1>7. PICK first, last \in K : first <= last /\ K = first..last
    BY <1>4, <1>5, <1>6, ConvexIsInterval
  <1>8. first \in 1..Len(made) /\ last \in 1..Len(made) /\ first <= u + 1 /\ w <= last
    BY <1>2, <1>3, <1>4, <1>5, <1>7
  <1>9. last = w
    <2> SUFFICES ASSUME last > w PROVE FALSE
      BY <1>2, <1>4, <1>8
    <2>1. made[last].iteration = its[n] /\ made[w].iteration = its[n]
      BY <1>3, <1>5
    <2>2. CASE last <= b
      <3>1. last \in (a + 1)..b
        BY <1>2, <1>8, <2>2
      <3> QED BY <1>2, <2>1, <3>1
    <2>3. CASE ~ (last <= b)
      <3>1. w \in 1..b /\ last \in (b + 1)..Len(made)
        BY <1>2, <1>4, <1>8, <2>3
      <3>2. made[w].iteration < made[last].iteration
        BY <3>1 DEF Closed
      <3>3. its[n] \in Nat
        BY DEF Cut
      <3> QED BY <2>1, <3>2, <3>3
    <2> QED BY <2>2, <2>3
  <1>10. n > 1 => first = u + 1
    <2> SUFFICES ASSUME n > 1, first < u + 1 PROVE FALSE
      BY <1>2, <1>4, <1>8
    <2>1. made[first].iteration = its[n]
      BY <1>3, <1>7
    <2>2. CASE first > a
      <3>1. first \in (a + 1)..b
        BY <1>2, <1>4, <1>8, <2>2
      <3> QED BY <1>2, <1>4, <1>8, <2>1, <3>1
    <2>3. CASE ~ (first > a)
      <3>1. /\ 1 \in 1..N /\ n \in 1..N /\ its[1] < its[n] /\ its[1] \in Nat /\ its[n] \in Nat
            /\ cut[0] = a
        BY DEF Cut
      <3>2. cut[1] - cut[0] \in Nat \ {0} /\ cut[1] <= b /\ cut[1] \in Nat
        <4>1. cut[1] - cut[1 - 1] \in Nat \ {0} /\ cut[1] <= b /\ cut[1] \in Nat
          BY <3>1, PieceFacts
        <4> QED BY <4>1
      <3>3. a + 1 \in (a + 1)..b /\ cut[0] < a + 1 /\ a + 1 <= cut[1]
        BY <3>1, <3>2
      <3>4. made[a + 1].iteration = its[1]
        <4>1. made[a + 1].iteration = its[1] <=> cut[1 - 1] < a + 1 /\ a + 1 <= cut[1]
          BY <3>1, <3>3 DEF Cut
        <4> QED BY <3>3, <4>1
      <3>5. first \in 1..Len(made) /\ a + 1 \in 1..Len(made) /\ first < a + 1
        BY <1>4, <1>8, <2>3, <3>3
      <3>6. made[first].iteration <= made[a + 1].iteration
        BY <3>5, MadeFacts
      <3> QED BY <2>1, <3>1, <3>4, <3>6
    <2> QED BY <2>2, <2>3
  <1>11. PICK lo : lo = first - 1
    OBVIOUS
  <1>12. lo \in Nat /\ lo <= u /\ lo <= w /\ (n > 1 => lo = u)
    BY <1>2, <1>4, <1>8, <1>10, <1>11
  <1>13. K = (lo + 1)..w
    <2>1. \A k : k \in K <=> k \in (lo + 1)..w
      BY <1>4, <1>7, <1>8, <1>9, <1>11
    <2> QED BY <2>1
  <1>14. PICK md, of : md = made /\ of = Those(md, K)
    OBVIOUS
  <1>15. of = [k \in 1..(w - lo) |-> made[lo + k]]
    <2>1. of = [k \in 1..(w - lo) |-> md[lo + k]]
      <3>1. lo \in Nat /\ w \in Nat /\ lo <= w
        BY <1>2, <1>12
      <3>2. Those(md, K) = Stretch(md, lo, w)
        BY <3>1, <1>13, ThoseOfInterval
      <3> QED BY <1>14, <3>2 DEF Stretch
    <2> QED BY <1>14, <2>1
  <1>16. \A k \in 1..(w - lo) : lo + k \in 1..Len(made)
    BY <1>2, <1>4, <1>12
  <1>17. Len(of) = w - lo
    <2>1. \A k \in 1..(w - lo) : made[lo + k] \in Results
      BY <1>16, MadeFacts
    <2>2. PICK l : l = w - lo
      OBVIOUS
    <2>3. l \in Nat
      BY <1>2, <1>12, <2>2
    <2>4. of \in [1..l -> Results]
      BY <1>15, <2>1, <2>2
    <2> QED BY <2>2, <2>3, <2>4, FunctionIsSequence
  <1>18. CallsMade(its[n]) = [k \in 1..Len(of) |-> <<its[n], of[k].index>>]
    BY <1>3, <1>14 DEF CallsMade
  <1>19. CallsMade(its[n]) = [k \in 1..(w - lo) |-> <<its[n], made[lo + k].index>>]
    BY <1>15, <1>17, <1>18
  <1>20. \A k \in 1..(w - lo) : made[lo + k].index \in Nat
    BY <1>16, MadeFacts
  <1> QED BY <1>1, <1>12, <1>19, <1>20 DEF Starts

-----------------------------------------------------------------------------
(* The messages of a request                                               *)

Ids ==
  {{}} \cup {Given(i, n) : i \in Nat, n \in 1..MaxCalls}
       \cup {MadeUp(i, n) : i \in Nat, n \in Nat}
Messages ==
  [role : {"assistant"}, ids : Seq(Ids), calls : Seq(Nat \X Nat)]
    \cup [role : {"system", "user", "tool"}, ids : Seq(Ids)]

LEMMA ResultFacts ==
  ASSUME NEW r \in Seq(Results)
  PROVE  /\ Len(r) \in Nat
         /\ \A k \in 1..Len(r) : /\ r[k].iteration \in Nat /\ r[k].index \in Nat
                                 /\ r[k].call_id \in Ids
  <1>1. Len(r) \in Nat /\ \A k \in 1..Len(r) : r[k] \in Results
    BY SequenceIsFunction
  <1>2. ASSUME NEW x \in Results
        PROVE  x.iteration \in Nat /\ x.index \in Nat /\ x.call_id \in Ids
    <2>1. /\ x.iteration \in Nat /\ x.index \in 1..MaxCalls
          /\ x.call_id \in {{}} \cup {Given(i, n) : i \in Nat, n \in 1..MaxCalls}
      BY DEF Results
    <2>2. x.index \in Nat
      BY <2>1, TranscriptAssumption
    <2> QED BY <2>1, <2>2 DEF Ids
  <1> QED BY <1>1, <1>2

LEMMA TurnParts ==
  ASSUME NEW r \in Seq(Results)
  PROVE  /\ TurnOf(r) \in Seq(Messages)
         /\ Len(TurnOf(r)) = IF provider = "openai" THEN Len(r) + 1 ELSE 2
         /\ TurnOf(r)[1] = AssistantTurn(r)
         /\ provider = "openai" =>
              \A j \in 1..Len(r) : TurnOf(r)[1 + j] = [role |-> "tool", ids |-> <<r[j].call_id>>]
         /\ provider # "openai" => TurnOf(r)[2] = [role |-> "user", ids |-> ResultIds(r)]
  <1>1. /\ Len(r) \in Nat
        /\ \A k \in 1..Len(r) : /\ r[k].iteration \in Nat /\ r[k].index \in Nat
                                /\ r[k].call_id \in Ids
    BY ResultFacts
  <1>2. AssistantIds(r) \in Seq(Ids)
    <2>1. \A k \in 1..Len(r) : MadeUp(r[k].iteration, k) \in Ids
      BY <1>1 DEF Ids
    <2>2. AssistantIds(r) \in [1..Len(r) -> Ids]
      <3> SUFFICES ASSUME NEW k \in 1..Len(r)
                   PROVE  (IF r[k].call_id # {} THEN r[k].call_id ELSE MadeUp(r[k].iteration, k)) \in Ids
        BY DEF AssistantIds
      <3> QED BY <1>1, <2>1
    <2> QED BY <1>1, <2>2, FunctionIsSequence
  <1>3. ResultIds(r) \in Seq(Ids) /\ Len(ResultIds(r)) = Len(r)
    <2>1. ResultIds(r) \in [1..Len(r) -> Ids]
      BY <1>1 DEF ResultIds
    <2> QED BY <1>1, <2>1, FunctionIsSequence
  <1>4. AssistantTurn(r) \in Messages
    <2> DEFINE c == [k \in 1..Len(r) |-> <<r[k].iteration, r[k].index>>]
    <2>1. c \in [1..Len(r) -> Nat \X Nat]
      BY <1>1
    <2> HIDE DEF c
    <2>2. c \in Seq(Nat \X Nat)
      BY <1>1, <2>1, FunctionIsSequence
    <2>3. AssistantTurn(r) = [role |-> "assistant", ids |-> AssistantIds(r), calls |-> c]
      BY DEF AssistantTurn, c
    <2> QED BY <1>2, <2>2, <2>3 DEF Messages
  <1> DEFINE h == <<AssistantTurn(r)>>
  <1>5. h \in Seq(Messages) /\ Len(h) = 1 /\ h[1] = AssistantTurn(r)
    BY <1>4
  <1> HIDE DEF h
  <1>j. ASSUME NEW t \in Seq(Messages)
        PROVE  /\ h \o t \in Seq(Messages) /\ Len(h \o t) = 1 + Len(t)
               /\ (h \o t)[1] = AssistantTurn(r)
               /\ \A k \in 1..Len(t) : (h \o t)[1 + k] = t[k]
    <2>1. h \o t \in Seq(Messages) /\ Len(h \o t) = Len(h) + Len(t)
      BY <1>5, Concatenation
    <2>2. \A k \in 1..Len(h) : (h \o t)[k] = h[k]
      BY <1>5, Concatenation
    <2>3. \A k \in 1..Len(t) : (h \o t)[Len(h) + k] = t[k]
      <3> PICK e, u, v : e = Messages /\ u = h /\ v = t
        OBVIOUS
      <3>1. u \in Seq(e) /\ v \in Seq(e)
        BY <1>5
      <3>2. \A k \in 1..Len(v) : (u \o v)[Len(u) + k] = v[k]
        BY <3>1, Concatenation
      <3> QED BY <3>2
    <2> QED BY <1>5, <2>1, <2>2, <2>3
  <1>6. CASE provider = "openai"
    <2> DEFINE t == OpenAIResults(r)
    <2>1. TurnOf(r) = h \o t
      BY <1>6 DEF TurnOf, h
    <2>2. t = [k \in 1..Len(r) |-> [role |-> "tool", ids |-> <<r[k].call_id>>]]
      BY DEF OpenAIResults, ResultIds
    <2> HIDE DEF t
    <2>3. t \in [1..Len(r) -> Messages]
      <3> SUFFICES ASSUME NEW k \in 1..Len(r)
                   PROVE  [role |-> "tool", ids |-> <<r[k].call_id>>] \in Messages
        BY <2>2
      <3>1. <<r[k].call_id>> \in Seq(Ids)
        BY <1>1
      <3> QED BY <3>1 DEF Messages
    <2>4. t \in Seq(Messages) /\ Len(t) = Len(r)
      BY <1>1, <2>3, FunctionIsSequence
    <2>5. \A j \in 1..Len(r) : (h \o t)[1 + j] = [role |-> "tool", ids |-> <<r[j].call_id>>]
      BY <1>j, <2>2, <2>4
    <2>6. Len(h \o t) = Len(r) + 1
      BY <1>1, <1>j, <2>4
    <2> QED BY <1>6, <1>j, <2>1, <2>4, <2>5, <2>6
  <1>7. CASE provider # "openai"
    <2> DEFINE t == AnthropicResults(r)
    <2>1. TurnOf(r) = h \o t
      BY <1>7 DEF TurnOf, h
    <2>2. /\ t = <<[role |-> "user", ids |-> ResultIds(r)]>>
          /\ [role |-> "user", ids |-> ResultIds(r)] \in Messages
      BY <1>3 DEF AnthropicResults, Messages
    <2> HIDE DEF t
    <2>3. t \in Seq(Messages) /\ Len(t) = 1 /\ t[1] = [role |-> "user", ids |-> ResultIds(r)]
      BY <2>2
    <2>4. Len(h \o t) = 2 /\ (h \o t)[2] = [role |-> "user", ids |-> ResultIds(r)]
      <3>1. (h \o t)[1 + 1] = t[1]
        BY <1>j, <2>3
      <3> QED BY <1>j, <2>3, <3>1
    <2> QED BY <1>7, <1>j, <2>1, <2>3, <2>4
  <1> QED BY <1>6, <1>7

\* A sequence put together of a beginning, N parts and an end.
Puts(E, s, N, ss, off, u, w) ==
  /\ w \in Seq(E) /\ Len(w) = Len(s) + off[N] + Len(u)
  /\ \A k \in 1..Len(s) : w[k] = s[k]
  /\ \A n \in 1..N : \A j \in 1..Len(ss[n]) :
       /\ Len(s) + off[n - 1] + j \in 1..Len(w)
       /\ w[Len(s) + off[n - 1] + j] = ss[n][j]
  /\ \A k \in 1..Len(u) : w[Len(s) + off[N] + k] = u[k]
  /\ \A k \in 1..Len(w) :
       \/ k \in 1..Len(s)
       \/ \E n \in 1..N : \E j \in 1..Len(ss[n]) : k = Len(s) + off[n - 1] + j
       \/ \E j \in 1..Len(u) : k = Len(s) + off[N] + j

LEMMA Assembled ==
  ASSUME NEW E, NEW s \in Seq(E), NEW u \in Seq(E),
         NEW N, NEW ss, NEW off, Parts(E, N, ss, off),
         NEW w, w = s \o FlattenSeq(ss) \o u
  PROVE  Puts(E, s, N, ss, off, u, w)
  <1>p. /\ N \in Nat /\ ss \in [1..N -> Seq(E)]
        /\ off \in [0..N -> Nat] /\ off[0] = 0 /\ Counts(off, ss, N)
    BY DEF Parts
  <1>1. PICK flat : flat = FlattenSeq(ss)
    OBVIOUS
  <1>2. /\ flat \in Seq(E) /\ Len(flat) = off[N]
        /\ \A n \in 1..N : \A j \in 1..Len(ss[n]) :
             off[n - 1] + j \in 1..off[N] /\ flat[off[n - 1] + j] = ss[n][j]
    <2>1. FlattenSeq(ss) \in Seq(E) /\ Len(FlattenSeq(ss)) = off[N]
      BY FlattenParts
    <2>2. \A n \in 1..N : \A j \in 1..Len(ss[n]) :
             off[n - 1] + j \in 1..off[N] /\ FlattenSeq(ss)[off[n - 1] + j] = ss[n][j]
      BY FlattenParts
    <2> QED BY <1>1, <2>1, <2>2
  <1> USE <1>p
  <1>3. PICK v : v = s \o flat
    OBVIOUS
  <1>4. /\ v \in Seq(E) /\ Len(v) = Len(s) + off[N]
        /\ \A k \in 1..Len(s) : v[k] = s[k]
        /\ \A k \in 1..off[N] : v[Len(s) + k] = flat[k]
    BY <1>2, <1>3, Concatenation
  <1>5. w = v \o u
    BY <1>1, <1>3
  <1>6. /\ w \in Seq(E) /\ Len(w) = Len(v) + Len(u)
        /\ \A k \in 1..Len(v) : w[k] = v[k]
        /\ \A k \in 1..Len(u) : w[Len(v) + k] = u[k]
    <2>1. /\ w \in Seq(E) /\ Len(w) = Len(v) + Len(u)
          /\ \A k \in 1..Len(v) : w[k] = v[k]
      BY <1>4, <1>5, Concatenation
    <2>2. \A k \in 1..Len(u) : w[Len(v) + k] = u[k]
      BY <1>4, <1>5, Concatenation
    <2> QED BY <2>1, <2>2
  <1>7. Len(s) \in Nat /\ Len(u) \in Nat /\ off[N] \in Nat
    BY SequenceIsFunction
  <1>8. Len(w) = Len(s) + off[N] + Len(u)
    BY <1>4, <1>6
  <1>9. \A k \in 1..Len(s) : w[k] = s[k]
    <2>1. \A k \in 1..Len(s) : k \in 1..Len(v)
      BY <1>4, <1>7
    <2> QED BY <1>4, <1>6, <2>1
  <1>10. ASSUME NEW n \in 1..N, NEW j \in 1..Len(ss[n])
         PROVE  /\ Len(s) + off[n - 1] + j \in 1..Len(w)
                /\ w[Len(s) + off[n - 1] + j] = ss[n][j]
    <2>1. PICK p : p = off[n - 1] + j
      OBVIOUS
    <2>2. p \in 1..off[N] /\ flat[p] = ss[n][j]
      BY <1>2, <2>1
    <2>3. Len(s) + off[n - 1] + j = Len(s) + p
      <3>1. off[n - 1] \in Nat /\ j \in Nat
        OBVIOUS
      <3> QED BY <1>7, <2>1, <3>1
    <2>4. Len(s) + p \in 1..Len(v) /\ Len(s) + p \in 1..Len(w)
      <3>1. Len(v) = Len(s) + off[N] /\ p \in 1..off[N]
        BY <1>4, <2>2
      <3> HIDE <2>1
      <3> QED BY <1>7, <1>8, <3>1
    <2>5. w[Len(s) + p] = v[Len(s) + p] /\ v[Len(s) + p] = flat[p]
      BY <1>4, <1>6, <2>2, <2>4
    <2> QED BY <2>2, <2>3, <2>4, <2>5
  <1>11. \A k \in 1..Len(u) : w[Len(s) + off[N] + k] = u[k]
    BY <1>4, <1>6
  <1>12. ASSUME NEW k \in 1..Len(w), ~ (k \in 1..Len(s)),
                ~ \E j \in 1..Len(u) : k = Len(s) + off[N] + j
         PROVE  \E n \in 1..N : \E j \in 1..Len(ss[n]) : k = Len(s) + off[n - 1] + j
    <2>1. PICK p : p = k - Len(s)
      OBVIOUS
    <2>2. p \in 1..off[N] /\ k = Len(s) + p
      <3>1. ~ (k > Len(s) + off[N])
        <4> SUFFICES ASSUME k > Len(s) + off[N] PROVE FALSE
          OBVIOUS
        <4>1. /\ k - (Len(s) + off[N]) \in 1..Len(u)
              /\ k = Len(s) + off[N] + (k - (Len(s) + off[N]))
          BY <1>7, <1>8
        <4> QED BY <1>12, <4>1
      <3> QED BY <1>7, <1>8, <1>12, <2>1, <3>1
    <2>3. PICK n \in 1..N : off[n - 1] < p /\ p <= off[n]
      BY <2>2, PlaceInPart
    <2>4. off[n] = off[n - 1] + Len(ss[n]) /\ off[n - 1] \in Nat /\ Len(ss[n]) \in Nat
      BY SequenceIsFunction DEF Counts
    <2>5. PICK j : j = p - off[n - 1]
      OBVIOUS
    <2>6. j \in 1..Len(ss[n]) /\ k = Len(s) + off[n - 1] + j
      <3>1. PICK o, l, c : o = off[n - 1] /\ l = Len(ss[n]) /\ c = Len(s)
        OBVIOUS
      <3>2. /\ o \in Nat /\ l \in Nat /\ c \in Nat /\ p \in Nat
            /\ o < p /\ p <= o + l /\ k = c + p /\ j = p - o
        BY <1>7, <2>2, <2>3, <2>4, <2>5, <3>1
      <3>3. j \in 1..l /\ k = c + o + j
        BY <3>2
      <3> QED BY <3>1, <3>3
    <2> QED BY <2>6
  <1> QED BY <1>6, <1>8, <1>9, <1>10, <1>11, <1>12 DEF Puts


\* Where the answer to the j-th call of the n-th turn is: in which message, and at
\* which place of it.
AnswerAt(at, n, j) == IF provider = "openai" THEN at[n] + j ELSE at[n] + 1
AnswerPlace(j) == IF provider = "openai" THEN 1 ELSE j

Answers(cut, at, n, j) ==
  LET k == AnswerAt(at, n, j)
  IN  /\ k \in 1..Len(messages) /\ messages[k].role # "assistant"
      /\ AnswerPlace(j) \in 1..Len(messages[k].ids)
      /\ messages[k].ids[AnswerPlace(j)] = made[cut[n - 1] + j].call_id

\* The n-th turn is message at[n]; its answers, and no others, come before the next.
Layout(N, cut, at) ==
  /\ messages \in Seq(Messages)
  /\ at \in [1..N -> Nat]
  /\ \A i, j \in 1..N : i < j => at[i] < at[j]
  /\ \A n \in 1..N : at[n] \in 1..Len(messages) /\ messages[at[n]] = AssistantTurn(Piece(cut, n))
  /\ \A k \in 1..Len(messages) : messages[k].role = "assistant" => \E n \in 1..N : k = at[n]
  /\ \A n \in 1..N : \A j \in 1..(cut[n] - cut[n - 1]) :
       /\ Answers(cut, at, n, j)
       /\ at[n] < AnswerAt(at, n, j)
       /\ \A x \in 1..N : at[x] < AnswerAt(at, n, j) => x <= n
  /\ \A k \in 1..Len(messages) : messages[k].role # "assistant" =>
       \A i \in 1..Len(messages[k].ids) :
         \E n \in 1..N : \E j \in 1..(cut[n] - cut[n - 1]) :
           k = AnswerAt(at, n, j) /\ i = AnswerPlace(j)

\* How many messages the first n turns and their answers are.
TurnsEnd(N, cut) ==
  [n \in 0..N |-> IF provider = "openai" THEN n + (cut[n] - cut[0]) ELSE 2 * n]

LEMMA TurnsEndCounts ==
  ASSUME MadeInOrder, NEW a \in Nat, NEW b \in Nat, b <= Len(made),
         NEW N, NEW its, NEW cut, Cut(a, b, N, its, cut)
  PROVE  /\ TurnsEnd(N, cut) \in [0..N -> Nat] /\ TurnsEnd(N, cut)[0] = 0
         /\ \A n \in 1..N :
              TurnsEnd(N, cut)[n] = TurnsEnd(N, cut)[n - 1] +
                (IF provider = "openai" THEN (cut[n] - cut[n - 1]) + 1 ELSE 2)
         /\ \A i, j \in 0..N : i < j => TurnsEnd(N, cut)[i] < TurnsEnd(N, cut)[j]
  <1>1. /\ N \in Nat /\ cut[0] = a
        /\ \A n \in 0..N : cut[n] \in a..b
        /\ \A i, j \in 0..N : i < j => cut[i] < cut[j]
    BY DEF Cut
  <1>2. \A n \in 0..N : cut[n] \in Nat /\ cut[n] - a \in Nat
    BY <1>1
  <1>3. \A n \in 1..N : n \in 0..N /\ n - 1 \in 0..N
    BY <1>1
  <1>4. PICK e : e = TurnsEnd(N, cut)
    OBVIOUS
  <1>5. CASE provider = "openai"
    <2>1. e = [n \in 0..N |-> n + (cut[n] - a)]
      BY <1>1, <1>4, <1>5 DEF TurnsEnd
    <2>5. ASSUME NEW n \in 0..N PROVE e[n] = n + (cut[n] - a) /\ e[n] \in Nat
      <3>1. n \in Nat /\ cut[n] - a \in Nat
        BY <1>1, <1>2
      <3>2. n + (cut[n] - a) \in Nat
        BY <3>1
      <3> QED BY <2>1, <3>2
    <2>2. e \in [0..N -> Nat] /\ e[0] = 0
      <3>1. 0 \in 0..N /\ cut[0] - a = 0
        BY <1>1
      <3>2. e \in [0..N -> Nat]
        BY <2>1, <2>5
      <3> QED BY <2>5, <3>1, <3>2
    <2>3. ASSUME NEW n \in 1..N PROVE e[n] = e[n - 1] + ((cut[n] - cut[n - 1]) + 1)
      <3>1. n \in 0..N /\ n - 1 \in 0..N /\ n \in Nat
        BY <1>1
      <3>2. cut[n] \in Nat /\ cut[n - 1] \in Nat
        BY <1>2, <3>1
      <3>3. e[n] = n + (cut[n] - a) /\ e[n - 1] = n - 1 + (cut[n - 1] - a)
        BY <2>5, <3>1
      <3> QED BY <3>1, <3>2, <3>3
    <2>4. ASSUME NEW i \in 0..N, NEW j \in 0..N, i < j PROVE e[i] < e[j]
      <3>1. i \in Nat /\ j \in Nat /\ cut[i] \in Nat /\ cut[j] \in Nat /\ cut[i] < cut[j]
        BY <1>1, <1>2, <2>4
      <3>2. e[i] = i + (cut[i] - a) /\ e[j] = j + (cut[j] - a)
        BY <2>5
      <3> QED BY <2>4, <3>1, <3>2
    <2> QED BY <1>4, <1>5, <2>2, <2>3, <2>4
  <1>6. CASE provider # "openai"
    <2>1. e = [n \in 0..N |-> 2 * n]
      BY <1>4, <1>6 DEF TurnsEnd
    <2>2. e \in [0..N -> Nat] /\ e[0] = 0
      BY <1>1, <2>1
    <2>3. \A n \in 1..N : e[n] = e[n - 1] + 2
      BY <1>1, <1>3, <2>1
    <2>4. \A i, j \in 0..N : i < j => e[i] < e[j]
      BY <1>1, <2>1
    <2> QED BY <1>4, <1>6, <2>2, <2>3, <2>4
  <1> QED BY <1>5, <1>6

LEMMA OpeningFacts ==
  /\ Opening \in Seq(Messages) /\ Len(Opening) \in Nat
  /\ \A k \in 1..Len(Opening) : Opening[k].role # "assistant" /\ Opening[k].ids = << >>
  <1>1. Text("system") \in Messages /\ Text("user") \in Messages
    <2>1. << >> \in Seq(Ids)
      OBVIOUS
    <2> QED BY <2>1 DEF Text, Messages
  <1>2. \A r \in {"system", "user"} : Text(r).role # "assistant" /\ Text(r).ids = << >>
    BY DEF Text
  <1>3. CASE provider = "openai"
    <2>1. Opening = <<Text("system"), Text("user")>>
      BY <1>3 DEF Opening
    <2> QED BY <1>1, <1>2, <2>1
  <1>4. CASE provider # "openai"
    <2>1. Opening = <<Text("user")>>
      BY <1>4 DEF Opening
    <2> QED BY <1>1, <1>2, <2>1
  <1> QED BY <1>3, <1>4

LEMMA TextsFacts ==
  ASSUME NEW fb \in Nat
  PROVE  LET t == [k \in 1..fb |-> Text("user")]
         IN  /\ t \in Seq(Messages) /\ Len(t) = fb
             /\ \A k \in 1..fb : t[k].role # "assistant" /\ t[k].ids = << >>
  <1> DEFINE t == [k \in 1..fb |-> Text("user")]
  <1>1. Text("user") \in Messages
    <2>1. << >> \in Seq(Ids)
      OBVIOUS
    <2> QED BY <2>1 DEF Text, Messages
  <1>2. t \in [1..fb -> Messages]
    BY <1>1
  <1>3. \A k \in 1..fb : t[k].role # "assistant" /\ t[k].ids = << >>
    BY DEF Text
  <1> HIDE DEF t
  <1>4. t \in Seq(Messages) /\ Len(t) = fb
    BY <1>2, FunctionIsSequence
  <1> QED BY <1>3, <1>4 DEF t

LEMMA LayoutOf ==
  ASSUME MadeInOrder, NEW a \in Nat, NEW b \in Nat, b <= Len(made),
         NEW N, NEW its, NEW cut, Cut(a, b, N, its, cut),
         NEW obs, NEW fb \in Nat,
         Iterations(obs) = its, Len(Iterations(obs)) = N,
         \A n \in 1..N : OfIteration(obs, its[n]) = Piece(cut, n),
         messages = BuildMessages(obs, fb)
  PROVE  \E at : Layout(N, cut, at)
  <1>1. PICK h, ss, e, t, H, w :
          /\ h = Opening /\ ss = [n \in 1..N |-> TurnOf(Piece(cut, n))]
          /\ e = TurnsEnd(N, cut) /\ t = [k \in 1..fb |-> Text("user")]
          /\ H = Len(h) /\ w = messages
    OBVIOUS
  <1>2. PICK at : at = [n \in 1..N |-> H + e[n - 1] + 1]
    OBVIOUS
  <1>3. /\ h \in Seq(Messages) /\ H \in Nat
        /\ \A k \in 1..H : h[k].role # "assistant" /\ h[k].ids = << >>
    BY <1>1, OpeningFacts
  <1>4. /\ t \in Seq(Messages) /\ Len(t) = fb
        /\ \A k \in 1..fb : t[k].role # "assistant" /\ t[k].ids = << >>
    BY <1>1, TextsFacts
  <1>5. N \in Nat
    BY DEF Cut
  <1>6. /\ e \in [0..N -> Nat] /\ e[0] = 0
        /\ \A n \in 1..N : e[n] = e[n - 1] + (IF provider = "openai" THEN (cut[n] - cut[n - 1]) + 1 ELSE 2)
        /\ \A i, j \in 0..N : i < j => e[i] < e[j]
    BY <1>1, TurnsEndCounts
  <1>7. ASSUME NEW n \in 1..N
        PROVE  /\ cut[n] - cut[n - 1] \in Nat \ {0}
               /\ ss[n] \in Seq(Messages)
               /\ Len(ss[n]) = IF provider = "openai" THEN (cut[n] - cut[n - 1]) + 1 ELSE 2
               /\ ss[n][1] = AssistantTurn(Piece(cut, n))
               /\ provider = "openai" =>
                    \A j \in 1..(cut[n] - cut[n - 1]) :
                      ss[n][1 + j] = [role |-> "tool", ids |-> <<made[cut[n - 1] + j].call_id>>]
               /\ provider # "openai" =>
                    ss[n][2] = [role |-> "user", ids |-> ResultIds(Piece(cut, n))]
    <2>1. PICK r : r = Piece(cut, n)
      OBVIOUS
    <2>2. /\ cut[n] - cut[n - 1] \in Nat \ {0}
          /\ r \in Seq(Results) /\ Len(r) = cut[n] - cut[n - 1]
          /\ \A j \in 1..(cut[n] - cut[n - 1]) : r[j] = made[cut[n - 1] + j]
      BY <2>1, PieceShape
    <2>3. ss[n] = TurnOf(r)
      BY <1>1, <2>1
    <2>4. /\ TurnOf(r) \in Seq(Messages)
          /\ Len(TurnOf(r)) = IF provider = "openai" THEN Len(r) + 1 ELSE 2
          /\ TurnOf(r)[1] = AssistantTurn(r)
          /\ provider = "openai" =>
               \A j \in 1..Len(r) : TurnOf(r)[1 + j] = [role |-> "tool", ids |-> <<r[j].call_id>>]
          /\ provider # "openai" => TurnOf(r)[2] = [role |-> "user", ids |-> ResultIds(r)]
      BY <2>2, TurnParts
    <2>5. provider = "openai" =>
            \A j \in 1..(cut[n] - cut[n - 1]) :
              TurnOf(r)[1 + j] = [role |-> "tool", ids |-> <<made[cut[n - 1] + j].call_id>>]
      BY <2>2, <2>4
    <2> QED BY <2>1, <2>2, <2>3, <2>4, <2>5
  <1>s. ASSUME NEW n \in 1..N
        PROVE  /\ cut[n] - cut[n - 1] \in Nat \ {0} /\ 1 \in 1..Len(ss[n])
               /\ provider = "openai" =>
                    /\ \A j \in 1..(cut[n] - cut[n - 1]) : 1 + j \in 1..Len(ss[n])
                    /\ \A j \in 1..Len(ss[n]) :
                         j # 1 => j - 1 \in 1..(cut[n] - cut[n - 1]) /\ 1 + (j - 1) = j
               /\ provider # "openai" => 1..Len(ss[n]) = {1, 2}
    <2>1. PICK l, m : l = Len(ss[n]) /\ m = cut[n] - cut[n - 1]
      OBVIOUS
    <2>2. m \in Nat \ {0} /\ l = (IF provider = "openai" THEN m + 1 ELSE 2)
      BY <1>7, <2>1
    <2>3. 1 \in 1..l
      BY <2>2
    <2>4. provider # "openai" => 1..l = {1, 2}
      BY <2>2
    <2>5. provider = "openai" =>
            /\ \A j \in 1..m : 1 + j \in 1..l
            /\ \A j \in 1..l : j # 1 => j - 1 \in 1..m /\ 1 + (j - 1) = j
      BY <2>2
    <2> QED BY <2>1, <2>2, <2>3, <2>4, <2>5
  <1>8. Parts(Messages, N, ss, e)
    <2>1. ss \in [1..N -> Seq(Messages)]
      <3>1. ss = [n \in 1..N |-> ss[n]]
        BY <1>1
      <3> QED BY <1>7, <3>1
    <2>2. Counts(e, ss, N)
      BY <1>6, <1>7 DEF Counts
    <2> QED BY <1>5, <1>6, <2>1, <2>2 DEF Parts
  <1>9. w = h \o FlattenSeq(ss) \o t
    <2>1. [k \in 1..Len(Iterations(obs)) |-> TurnOf(OfIteration(obs, Iterations(obs)[k]))] = ss
      BY <1>1
    <2> QED BY <1>1, <2>1 DEF BuildMessages
  <1>10. /\ w \in Seq(Messages) /\ Len(w) = Len(h) + e[N] + Len(t)
         /\ \A k \in 1..Len(h) : w[k] = h[k]
         /\ \A n \in 1..N : \A j \in 1..Len(ss[n]) :
              /\ Len(h) + e[n - 1] + j \in 1..Len(w)
              /\ w[Len(h) + e[n - 1] + j] = ss[n][j]
         /\ \A k \in 1..Len(t) : w[Len(h) + e[N] + k] = t[k]
         /\ \A k \in 1..Len(w) :
              \/ k \in 1..Len(h)
              \/ \E n \in 1..N : \E j \in 1..Len(ss[n]) : k = Len(h) + e[n - 1] + j
              \/ \E j \in 1..Len(t) : k = Len(h) + e[N] + j
    <2>1. Puts(Messages, h, N, ss, e, t, w)
      BY <1>3, <1>4, <1>8, <1>9, Assembled
    <2> QED BY <2>1 DEF Puts
  <1>11. /\ \A n \in 1..N : \A j \in 1..Len(ss[n]) :
              H + e[n - 1] + j \in 1..Len(w) /\ w[H + e[n - 1] + j] = ss[n][j]
         /\ \A k \in 1..Len(w) :
              \/ w[k].role # "assistant" /\ w[k].ids = << >>
              \/ \E n \in 1..N : \E j \in 1..Len(ss[n]) : k = H + e[n - 1] + j
    <2>1. H = Len(h)
      BY <1>1
    <2>2. \A n \in 1..N : \A j \in 1..Len(ss[n]) :
              H + e[n - 1] + j \in 1..Len(w) /\ w[H + e[n - 1] + j] = ss[n][j]
      BY <1>10, <2>1
    <2>3. ASSUME NEW k \in 1..Len(w)
          PROVE  \/ w[k].role # "assistant" /\ w[k].ids = << >>
                 \/ \E n \in 1..N : \E j \in 1..Len(ss[n]) : k = H + e[n - 1] + j
      <3>1. CASE k \in 1..Len(h)
        BY <1>3, <1>10, <2>1, <3>1
      <3>2. CASE \E j \in 1..Len(t) : k = Len(h) + e[N] + j
        <4>1. PICK j \in 1..Len(t) : k = Len(h) + e[N] + j
          BY <3>2
        <4>2. w[k] = t[j] /\ j \in 1..fb
          BY <1>4, <1>10, <4>1
        <4> QED BY <1>4, <4>2
      <3> QED BY <1>10, <2>1, <3>1, <3>2
    <2> QED BY <2>2, <2>3
  <1>12. ASSUME NEW n \in 1..N
         PROVE  /\ at[n] = H + e[n - 1] + 1 /\ at[n] \in Nat /\ e[n - 1] \in Nat /\ e[n] \in Nat
                /\ at[n] \in 1..Len(w) /\ w[at[n]] = AssistantTurn(Piece(cut, n))
    <2>1. n - 1 \in 0..N /\ n \in 0..N
      BY <1>5
    <2>2. e[n - 1] \in Nat /\ e[n] \in Nat
      BY <1>6, <2>1
    <2>3. at[n] = H + e[n - 1] + 1 /\ at[n] \in Nat
      BY <1>2, <1>3, <2>2
    <2>4. 1 \in 1..Len(ss[n])
      BY <1>s
    <2>5. H + e[n - 1] + 1 \in 1..Len(w) /\ w[H + e[n - 1] + 1] = ss[n][1]
      BY <1>11, <2>4
    <2> QED BY <1>7, <2>2, <2>3, <2>5
  <1>13. ASSUME NEW i \in 1..N, NEW j \in 1..N, i < j
         PROVE  at[i] < at[j] /\ H + e[i] + 1 <= at[j]
    <2>1. i - 1 \in 0..N /\ j - 1 \in 0..N /\ i \in 0..N /\ i - 1 < j - 1 /\ (i = j - 1 \/ i < j - 1)
      BY <1>5, <1>13
    <2>2. e[i - 1] < e[j - 1] /\ (e[i] = e[j - 1] \/ e[i] < e[j - 1])
      BY <1>6, <2>1
    <2>3. /\ at[i] = H + e[i - 1] + 1 /\ e[i - 1] \in Nat /\ e[i] \in Nat
          /\ at[j] = H + e[j - 1] + 1 /\ e[j - 1] \in Nat
      BY <1>12
    <2>4. PICK p, q, r, x, y : p = e[i - 1] /\ q = e[i] /\ r = e[j - 1] /\ x = at[i] /\ y = at[j]
      OBVIOUS
    <2>5. /\ p \in Nat /\ q \in Nat /\ r \in Nat /\ x = H + p + 1 /\ y = H + r + 1
          /\ p < r /\ (q = r \/ q < r)
      BY <2>2, <2>3, <2>4
    <2>6. x < y /\ H + q + 1 <= y
      BY <1>3, <2>5
    <2> QED BY <2>4, <2>6
  <1>14. ASSUME NEW n \in 1..N, NEW j \in 1..(cut[n] - cut[n - 1])
         PROVE  /\ Answers(cut, at, n, j)
                /\ at[n] < AnswerAt(at, n, j)
                /\ \A x \in 1..N : at[x] < AnswerAt(at, n, j) => x <= n
    <2>1. PICK k : k = AnswerAt(at, n, j)
      OBVIOUS
    <2>2. j \in Nat
      <3>1. cut[n] - cut[n - 1] \in Nat
        BY <1>s
      <3> QED BY <3>1
    <2>3. k \in Nat /\ at[n] < k /\ k < H + e[n] + 1
      <3>0. PICK p, q, x, m : p = e[n - 1] /\ q = e[n] /\ x = at[n] /\ m = cut[n] - cut[n - 1]
        OBVIOUS
      <3>a. p \in Nat /\ q \in Nat /\ x \in Nat /\ x = H + p + 1
        BY <1>12, <3>0
      <3>b. m \in Nat /\ j \in 1..m
        BY <1>s, <3>0
      <3>1. CASE provider = "openai"
        <4>1. k = x + j /\ q = p + (m + 1)
          BY <1>6, <2>1, <3>0, <3>1 DEF AnswerAt
        <4>2. k \in Nat /\ x < k /\ k < H + q + 1
          BY <1>3, <3>a, <3>b, <4>1
        <4> QED BY <3>0, <4>2
      <3>2. CASE provider # "openai"
        <4>1. k = x + 1 /\ q = p + 2
          BY <1>6, <2>1, <3>0, <3>2 DEF AnswerAt
        <4>2. k \in Nat /\ x < k /\ k < H + q + 1
          BY <1>3, <3>a, <4>1
        <4> QED BY <3>0, <4>2
      <3> QED BY <3>1, <3>2
    <2>4. \A x \in 1..N : at[x] < k => x <= n
      <3> SUFFICES ASSUME NEW x \in 1..N, at[x] < k, n < x PROVE FALSE
        BY <1>5
      <3>1. H + e[n] + 1 <= at[x] /\ at[x] \in Nat /\ e[n] \in Nat
        BY <1>12, <1>13
      <3> QED BY <1>3, <2>3, <3>1
    <2>5. Answers(cut, at, n, j)
      <3>1. CASE provider = "openai"
        <4>1. 1 + j \in 1..Len(ss[n])
          BY <1>s, <3>1
        <4>2. H + e[n - 1] + (1 + j) \in 1..Len(w) /\ w[H + e[n - 1] + (1 + j)] = ss[n][1 + j]
          BY <1>11, <4>1
        <4>3. k = H + e[n - 1] + (1 + j)
          <5>1. k = at[n] + j
            BY <2>1, <3>1 DEF AnswerAt
          <5>2. at[n] = H + e[n - 1] + 1 /\ e[n - 1] \in Nat
            BY <1>12
          <5>3. PICK x, q : x = at[n] /\ q = e[n - 1]
            OBVIOUS
          <5>4. x = H + q + 1 /\ q \in Nat /\ k = x + j
            BY <5>1, <5>2, <5>3
          <5>5. k = H + q + (1 + j)
            BY <1>3, <2>2, <5>4
          <5> QED BY <5>3, <5>5
        <4>4. w[k] = [role |-> "tool", ids |-> <<made[cut[n - 1] + j].call_id>>] /\ k \in 1..Len(w)
          BY <1>7, <3>1, <4>2, <4>3
        <4>5. AnswerPlace(j) = 1
          BY <3>1 DEF AnswerPlace
        <4>6. /\ w[k].role # "assistant" /\ 1 \in 1..Len(w[k].ids)
              /\ w[k].ids[1] = made[cut[n - 1] + j].call_id
          BY <4>4
        <4> QED BY <1>1, <2>1, <4>4, <4>5, <4>6 DEF Answers
      <3>2. CASE provider # "openai"
        <4>1. 2 \in 1..Len(ss[n])
          BY <1>s, <3>2
        <4>2. H + e[n - 1] + 2 \in 1..Len(w) /\ w[H + e[n - 1] + 2] = ss[n][2]
          BY <1>11, <4>1
        <4>3. k = H + e[n - 1] + 2
          <5>1. k = at[n] + 1
            BY <2>1, <3>2 DEF AnswerAt
          <5>2. PICK x, q : x = at[n] /\ q = e[n - 1]
            OBVIOUS
          <5>3. x = H + q + 1 /\ q \in Nat /\ k = x + 1
            BY <1>12, <5>1, <5>2
          <5>4. k = H + q + 2
            BY <1>3, <5>3
          <5> QED BY <5>2, <5>4
        <4>4. w[k] = [role |-> "user", ids |-> ResultIds(Piece(cut, n))] /\ k \in 1..Len(w)
          BY <1>7, <3>2, <4>2, <4>3
        <4>5. AnswerPlace(j) = j
          BY <3>2 DEF AnswerPlace
        <4>6. /\ j \in 1..Len(ResultIds(Piece(cut, n)))
              /\ ResultIds(Piece(cut, n))[j] = made[cut[n - 1] + j].call_id
          <5>1. PICK r : r = Piece(cut, n)
            OBVIOUS
          <5>2. /\ r \in Seq(Results) /\ Len(r) = cut[n] - cut[n - 1]
                /\ r[j] = made[cut[n - 1] + j]
            BY <5>1, PieceShape
          <5>3. ResultIds(r) = [i \in 1..Len(r) |-> r[i].call_id]
            BY DEF ResultIds
          <5>4. Len(ResultIds(r)) = Len(r)
            BY <2>2, <5>2, <5>3
          <5> QED BY <5>1, <5>2, <5>3, <5>4
        <4>7. /\ w[k].role # "assistant" /\ w[k].ids = ResultIds(Piece(cut, n))
          BY <4>4
        <4> QED BY <1>1, <2>1, <4>4, <4>5, <4>6, <4>7 DEF Answers
      <3> QED BY <3>1, <3>2
    <2> QED BY <2>1, <2>3, <2>4, <2>5
  <1>15. ASSUME NEW k \in 1..Len(w), w[k].role = "assistant" PROVE \E n \in 1..N : k = at[n]
    <2>1. PICK n \in 1..N : \E j \in 1..Len(ss[n]) : k = H + e[n - 1] + j
      BY <1>11, <1>15
    <2>2. PICK j \in 1..Len(ss[n]) : k = H + e[n - 1] + j
      BY <2>1
    <2>3. w[k] = ss[n][j]
      BY <1>11, <2>2
    <2>4. j = 1
      <3> SUFFICES ASSUME j # 1 PROVE FALSE
        OBVIOUS
      <3>1. CASE provider = "openai"
        <4>1. j - 1 \in 1..(cut[n] - cut[n - 1]) /\ 1 + (j - 1) = j
          BY <1>s, <3>1
        <4>2. ss[n][j] = [role |-> "tool", ids |-> <<made[cut[n - 1] + (j - 1)].call_id>>]
          <5>1. ss[n][1 + (j - 1)] = [role |-> "tool", ids |-> <<made[cut[n - 1] + (j - 1)].call_id>>]
            BY <1>7, <3>1, <4>1
          <5> QED BY <4>1, <5>1
        <4> QED BY <1>15, <2>3, <4>2
      <3>2. CASE provider # "openai"
        <4>1. j = 2
          BY <1>s, <3>2
        <4>2. ss[n][2] = [role |-> "user", ids |-> ResultIds(Piece(cut, n))]
          BY <1>7, <3>2
        <4>3. w[k].role = "user"
          BY <2>3, <4>1, <4>2
        <4> QED BY <1>15, <4>3
      <3> QED BY <3>1, <3>2
    <2>5. k = at[n]
      BY <1>12, <2>2, <2>4
    <2> QED BY <2>5
  <1>16. ASSUME NEW k \in 1..Len(w), w[k].role # "assistant", NEW i \in 1..Len(w[k].ids)
         PROVE  \E n \in 1..N : \E j \in 1..(cut[n] - cut[n - 1]) :
                  k = AnswerAt(at, n, j) /\ i = AnswerPlace(j)
    <2>0. w[k].ids # << >>
      OBVIOUS
    <2>1. PICK n \in 1..N : \E j \in 1..Len(ss[n]) : k = H + e[n - 1] + j
      BY <1>11, <2>0
    <2>2. PICK j \in 1..Len(ss[n]) : k = H + e[n - 1] + j
      BY <2>1
    <2>3. w[k] = ss[n][j]
      BY <1>11, <2>2
    <2>4. j # 1
      <3> SUFFICES ASSUME j = 1 PROVE FALSE
        OBVIOUS
      <3>1. w[k] = AssistantTurn(Piece(cut, n))
        BY <1>7, <2>3
      <3>2. AssistantTurn(Piece(cut, n)).role = "assistant"
        BY DEF AssistantTurn
      <3> QED BY <1>16, <3>1, <3>2
    <2>5. CASE provider = "openai"
      <3>1. j - 1 \in 1..(cut[n] - cut[n - 1]) /\ 1 + (j - 1) = j
        BY <1>s, <2>4, <2>5
      <3>2. ss[n][j] = [role |-> "tool", ids |-> <<made[cut[n - 1] + (j - 1)].call_id>>]
        <4>1. ss[n][1 + (j - 1)] = [role |-> "tool", ids |-> <<made[cut[n - 1] + (j - 1)].call_id>>]
          BY <1>7, <2>5, <3>1
        <4> QED BY <3>1, <4>1
      <3>3. Len(w[k].ids) = 1
        BY <2>3, <3>2
      <3>4. i = AnswerPlace(j - 1)
        BY <2>5, <3>3 DEF AnswerPlace
      <3>5. k = AnswerAt(at, n, j - 1)
        <4>1. PICK l : l = j - 1
          OBVIOUS
        <4>2. l \in Nat /\ j = 1 + l
          <5>1. cut[n] - cut[n - 1] \in Nat
            BY <1>s
          <5> QED BY <3>1, <4>1, <5>1
        <4>3. at[n] = H + e[n - 1] + 1 /\ e[n - 1] \in Nat
          BY <1>12
        <4>4. k = H + e[n - 1] + j
          BY <2>2
        <4>5. k = at[n] + l
          <5>1. PICK x, q : x = at[n] /\ q = e[n - 1]
            OBVIOUS
          <5>2. x = H + q + 1 /\ q \in Nat /\ k = H + q + (1 + l)
            BY <4>2, <4>3, <4>4, <5>1
          <5>3. k = x + l
            BY <1>3, <4>2, <5>2
          <5> QED BY <5>1, <5>3
        <4> QED BY <2>5, <4>1, <4>5 DEF AnswerAt
      <3> QED BY <3>1, <3>4, <3>5
    <2>6. CASE provider # "openai"
      <3>1. j = 2
        BY <1>s, <2>4, <2>6
      <3>2. w[k].ids = ResultIds(Piece(cut, n))
        <4>1. ss[n][2] = [role |-> "user", ids |-> ResultIds(Piece(cut, n))]
          BY <1>7, <2>6
        <4> QED BY <2>3, <3>1, <4>1
      <3>3. Len(ResultIds(Piece(cut, n))) = cut[n] - cut[n - 1]
        <4>1. PICK r : r = Piece(cut, n)
          OBVIOUS
        <4>2. r \in Seq(Results) /\ Len(r) = cut[n] - cut[n - 1] /\ Len(r) \in Nat
          <5>1. r \in Seq(Results) /\ Len(r) = cut[n] - cut[n - 1]
            BY <4>1, PieceShape
          <5> QED BY <5>1
        <4>3. ResultIds(r) = [x \in 1..Len(r) |-> r[x].call_id]
          BY DEF ResultIds
        <4> QED BY <4>1, <4>2, <4>3
      <3>4. i \in 1..(cut[n] - cut[n - 1]) /\ i = AnswerPlace(i)
        BY <2>6, <3>2, <3>3 DEF AnswerPlace
      <3>5. k = AnswerAt(at, n, i)
        <4>1. PICK x, q : x = at[n] /\ q = e[n - 1]
          OBVIOUS
        <4>2. x = H + q + 1 /\ q \in Nat /\ k = H + q + 2
          BY <1>12, <2>2, <3>1, <4>1
        <4>3. k = x + 1
          BY <1>3, <4>2
        <4> QED BY <2>6, <4>1, <4>3 DEF AnswerAt
      <3> QED BY <3>4, <3>5
    <2> QED BY <2>5, <2>6
  <1>17. at \in [1..N -> Nat]
    BY <1>2, <1>12
  <1>18. Layout(N, cut, at)
    BY <1>1, <1>10, <1>12, <1>13, <1>14, <1>15, <1>16, <1>17 DEF Layout
  <1> QED BY <1>18

\* A request shows the results from a + 1 to b, cut into N turns.
Shows(a, b, N, its, cut, at) ==
  /\ a \in Nat /\ b \in Nat /\ b <= Len(made) /\ Closed(b)
  /\ Cut(a, b, N, its, cut) /\ Layout(N, cut, at)
  /\ a = 0 \/ b - a >= keep
  /\ phase = "asked" => b = Len(made)

LEMMA RequestShows ==
  ASSUME Inv
  PROVE  \/ phase # "asked" /\ messages = << >>
         \/ \E a, b, N, its, cut, at : Shows(a, b, N, its, cut, at)
  <1> SUFFICES ASSUME ~ (phase # "asked" /\ messages = << >>)
               PROVE  \E a, b, N, its, cut, at : Shows(a, b, N, its, cut, at)
    OBVIOUS
  <1>1. MadeInOrder
    BY DEF Inv
  <1>2. PICK obs, m, a, b, fb :
          /\ Remains(obs, m, a, b) /\ Closed(b)
          /\ fb \in Nat /\ messages = BuildMessages(obs, fb)
          /\ phase = "asked" => b = Len(made)
    BY DEF Inv, Requested
  <1>3. a \in Nat /\ b \in Nat /\ b <= Len(made) /\ (a = 0 \/ b - a >= keep)
    BY <1>2 DEF Remains
  <1>4. PICK N, its, cut :
          /\ Cut(a, b, N, its, cut)
          /\ Iterations(obs) = its /\ Len(Iterations(obs)) = N
          /\ \A n \in 1..N : OfIteration(obs, its[n]) = Piece(cut, n)
    BY <1>1, <1>2, Grouped
  <1>5. PICK at : Layout(N, cut, at)
    BY <1>1, <1>2, <1>3, <1>4, LayoutOf
  <1> QED BY <1>2, <1>3, <1>4, <1>5 DEF Shows

\* The calls of a piece, as the assistant's turn names them.
Calls(its, cut, n) ==
  [k \in 1..(cut[n] - cut[n - 1]) |-> <<its[n], made[cut[n - 1] + k].index>>]

LEMMA TurnsOfPieces ==
  ASSUME MadeInOrder, NEW a, NEW b, NEW N, NEW its, NEW cut, NEW at, Shows(a, b, N, its, cut, at)
  PROVE  /\ N \in Nat /\ Len(Turns) = N
         /\ \A n \in 1..N : Turns[n].calls = Calls(its, cut, n)
  <1>1. /\ a \in Nat /\ b \in Nat /\ b <= Len(made)
        /\ Cut(a, b, N, its, cut) /\ N \in Nat
    BY DEF Shows, Cut
  <1>2. /\ at \in [1..N -> Nat]
        /\ \A i, j \in 1..N : i < j => at[i] < at[j]
        /\ \A n \in 1..N : at[n] \in 1..Len(messages) /\ messages[at[n]] = AssistantTurn(Piece(cut, n))
        /\ \A k \in 1..Len(messages) : messages[k].role = "assistant" => \E n \in 1..N : k = at[n]
    BY DEF Shows, Layout
  <1>3. PICK S : S = Places("assistant")
    OBVIOUS
  <1>4. ASSUME NEW k PROVE k \in S <=> \E i \in 1..N : k = at[i]
    <2>1. \A n \in 1..N : AssistantTurn(Piece(cut, n)).role = "assistant"
      BY DEF AssistantTurn
    <2> QED BY <1>2, <1>3, <2>1 DEF Places
  <1>5. Cardinality(S) = N /\ \A n \in 1..N : Nth(S, n) = at[n]
    <2>1. N \in Nat /\ at \in [1..N -> Nat]
      BY <1>1, <1>2
    <2>2. \A i, j \in 1..N : i < j => at[i] < at[j]
      BY <1>2
    <2>3. Lists(at, N, S)
      BY <1>4, <2>1, <2>2 DEF Lists
    <2> QED BY <2>3, NthOfListed
  <1>6. Turns = [n \in 1..N |-> AssistantTurn(Piece(cut, n))]
    BY <1>2, <1>3, <1>5 DEF Turns, Those
  <1>7. Len(Turns) = N
    BY <1>1, <1>6
  <1>8. ASSUME NEW n \in 1..N PROVE Turns[n].calls = Calls(its, cut, n)
    <2>1. PICK r, l : r = Piece(cut, n) /\ l = cut[n] - cut[n - 1]
      OBVIOUS
    <2>2. Len(r) = l
      BY <1>1, <2>1, PieceShape
    <2>3. \A k \in 1..l : r[k] = made[cut[n - 1] + k]
      BY <1>1, <2>1, PieceShape
    <2>4. \A k \in 1..l : made[cut[n - 1] + k].iteration = its[n]
      <3>1. \A k \in 1..(cut[n] - cut[n - 1]) : made[cut[n - 1] + k].iteration = its[n]
        BY <1>1, PieceFacts
      <3> QED BY <2>1, <3>1
    <2>5. AssistantTurn(r).calls = [k \in 1..Len(r) |-> <<r[k].iteration, r[k].index>>]
      BY DEF AssistantTurn
    <2>6. AssistantTurn(r).calls = [k \in 1..l |-> <<its[n], made[cut[n - 1] + k].index>>]
      BY <2>2, <2>3, <2>4, <2>5
    <2> QED BY <1>6, <2>1, <2>6 DEF Calls
  <1> QED BY <1>1, <1>7, <1>8

LEMMA NoTurns ==
  ASSUME messages = << >>
  PROVE  Len(Turns) = 0
  <1>1. Places("assistant") = {}
    BY DEF Places
  <1>2. Cardinality(Places("assistant")) = 0
    BY <1>1, FS_EmptySet
  <1>3. Turns = << >>
    BY <1>2 DEF Turns, Those
  <1> QED BY <1>3

LEMMA InvTurnsAreDecisions == Inv => TurnsAreDecisions
  <1> SUFFICES ASSUME Inv, NEW n \in 1..Len(Turns)
               PROVE  LET calls == Turns[n].calls
                      IN  /\ IsSuffix(calls, CallsMade(calls[1][1]))
                          /\ n > 1 => /\ calls = CallsMade(calls[1][1])
                                      /\ Turns[n - 1].calls[1][1] < calls[1][1]
    BY DEF TurnsAreDecisions
  <1>1. MadeInOrder
    BY DEF Inv
  <1>2. messages # << >>
    BY NoTurns
  <1>3. PICK a, b, N, its, cut, at : Shows(a, b, N, its, cut, at)
    BY <1>2, RequestShows
  <1>4. N \in Nat /\ n \in 1..N /\ \A x \in 1..N : Turns[x].calls = Calls(its, cut, x)
    BY <1>1, <1>3, TurnsOfPieces
  <1>5. /\ a \in Nat /\ b \in Nat /\ b <= Len(made) /\ Closed(b)
        /\ Cut(a, b, N, its, cut)
    BY <1>3 DEF Shows
  <1>6. ASSUME NEW x \in 1..N PROVE Calls(its, cut, x)[1][1] = its[x]
    <2>1. 1 \in 1..(cut[x] - cut[x - 1])
      <3>1. cut[x] - cut[x - 1] \in Nat \ {0}
        BY <1>1, <1>5, PieceShape
      <3> QED BY <3>1
    <2> QED BY <2>1 DEF Calls
  <1>7. PICK c, u, w : c = Calls(its, cut, n) /\ u = cut[n - 1] /\ w = cut[n]
    OBVIOUS
  <1>8. u \in Nat /\ w \in Nat /\ w - u \in Nat
    BY <1>1, <1>5, <1>7, <1>4, PieceFacts
  <1>9. PICK lo :
          /\ lo \in Nat /\ lo <= u /\ (n > 1 => lo = u)
          /\ CallsMade(its[n]) = [k \in 1..(w - lo) |-> <<its[n], made[lo + k].index>>]
          /\ \A k \in 1..(w - lo) : made[lo + k].index \in Nat
    <2>1. PICK lo : Starts(its, cut, n, lo)
      BY <1>1, <1>4, <1>5, CallsOfPiece
    <2> QED BY <1>7, <2>1 DEF Starts
  <1>10. c = [k \in 1..(w - u) |-> <<its[n], made[u + k].index>>]
    BY <1>7 DEF Calls
  <1>11. its[n] \in Nat
    BY <1>4, <1>5 DEF Cut
  <1>12. IsSuffix(c, CallsMade(its[n]))
    <2>1. PICK l, m, d, t : l = w - lo /\ m = w - u /\ d = u - lo /\ t = CallsMade(its[n])
      OBVIOUS
    <2>2. l \in Nat /\ m \in Nat /\ d \in Nat /\ l = d + m /\ l - m = d /\ lo + d = u /\ m <= l
          /\ lo \in Nat
      BY <1>8, <1>9, <2>1
    <2>3. t \in [1..l -> Nat \X Nat]
      BY <1>9, <1>11, <2>1
    <2>4. ASSUME NEW k \in 1..m PROVE d + k \in 1..l /\ lo + (d + k) = u + k
      BY <2>2
    <2>5. ASSUME NEW k \in 1..m PROVE c[k] = t[d + k] /\ c[k] \in Nat \X Nat
      <3>1. c[k] = <<its[n], made[u + k].index>>
        BY <1>10, <2>1
      <3>2. t[d + k] = <<its[n], made[lo + (d + k)].index>>
        BY <1>9, <2>1, <2>4
      <3>3. made[lo + (d + k)].index \in Nat
        BY <1>9, <2>1, <2>4
      <3> QED BY <1>11, <2>4, <3>1, <3>2, <3>3
    <2>6. c \in [1..m -> Nat \X Nat]
      BY <1>10, <2>1, <2>5
    <2>7. c \in Seq(Nat \X Nat) /\ Len(c) = m
      BY <2>2, <2>6, FunctionIsSequence
    <2>8. t \in Seq(Nat \X Nat) /\ Len(t) = l
      BY <2>2, <2>3, FunctionIsSequence
    <2>9. Len(c) <= Len(t) /\ \A k \in 1..Len(c) : c[k] = t[Len(t) - Len(c) + k]
      BY <2>2, <2>5, <2>7, <2>8
    <2>10. IsSuffix(c, t)
      BY <2>7, <2>8, <2>9, SuffixByPlace
    <2> QED BY <2>1, <2>10
  <1>13. n > 1 => c = CallsMade(its[n])
    BY <1>9, <1>10
  <1>14. ASSUME n > 1 PROVE Turns[n - 1].calls[1][1] < its[n]
    <2>1. n - 1 \in 1..N /\ n - 1 < n
      BY <1>4, <1>14
    <2>2. its[n - 1] < its[n]
      BY <1>4, <1>5, <2>1 DEF Cut
    <2> QED BY <1>4, <1>6, <2>1, <2>2
  <1>15. Turns[n].calls = c /\ c[1][1] = its[n]
    BY <1>4, <1>6, <1>7
  <1> QED BY <1>12, <1>13, <1>14, <1>15

LEMMA InvLatestAreSeen == Inv => LatestAreSeen
  <1> SUFFICES ASSUME Inv, phase = "asked"
               PROVE  LET seen == FlattenSeq([n \in 1..Len(Turns) |-> Turns[n].calls])
                      IN  /\ IsSuffix(seen, [k \in 1..Len(made) |-> <<made[k].iteration, made[k].index>>])
                          /\ Len(seen) >= Min({keep, Len(made)})
    BY DEF LatestAreSeen
  <1>1. MadeInOrder /\ keep \in Nat
    BY DEF Inv
  <1>2. PICK a, b, N, its, cut, at : Shows(a, b, N, its, cut, at)
    BY RequestShows
  <1>3. /\ a \in Nat /\ b \in Nat /\ b = Len(made) /\ b <= Len(made)
        /\ Cut(a, b, N, its, cut) /\ (a = 0 \/ b - a >= keep)
    BY <1>2 DEF Shows
  <1>4. N \in Nat /\ Len(Turns) = N /\ \A n \in 1..N : Turns[n].calls = Calls(its, cut, n)
    BY <1>1, <1>2, TurnsOfPieces
  <1>5. PICK ss, seen, off, m :
          /\ ss = [n \in 1..Len(Turns) |-> Turns[n].calls] /\ seen = FlattenSeq(ss)
          /\ off = [n \in 0..N |-> cut[n] - a]
          /\ m = [k \in 1..Len(made) |-> <<made[k].iteration, made[k].index>>]
    OBVIOUS
  <1>6. ss = [n \in 1..N |-> Calls(its, cut, n)]
    BY <1>4, <1>5
  <1>7. /\ cut[0] = a /\ cut[N] = b /\ its \in [1..N -> Nat]
        /\ \A n \in 0..N : cut[n] \in Nat /\ cut[n] - a \in Nat
    BY <1>3 DEF Cut
  <1>8. m \in [1..b -> Nat \X Nat]
    BY <1>1, <1>3, <1>5, MadeFacts
  <1>9. ASSUME NEW n \in 1..N
        PROVE  /\ ss[n] \in Seq(Nat \X Nat) /\ Len(ss[n]) = cut[n] - cut[n - 1]
               /\ \A k \in 1..(cut[n] - cut[n - 1]) :
                    cut[n - 1] + k \in 1..b /\ ss[n][k] = m[cut[n - 1] + k]
    <2>1. PICK c, u, l : c = Calls(its, cut, n) /\ u = cut[n - 1] /\ l = cut[n] - cut[n - 1]
      OBVIOUS
    <2>2. u \in Nat /\ l \in Nat \ {0} /\ a <= u /\ u + l <= b
      <3>1. /\ cut[n - 1] \in Nat /\ cut[n] \in Nat /\ a <= cut[n - 1] /\ cut[n] <= b
            /\ cut[n] - cut[n - 1] \in Nat \ {0}
        BY <1>1, <1>3, PieceFacts
      <3> QED BY <2>1, <3>1
    <2>3. \A k \in 1..l : made[u + k].iteration = its[n]
      <3>1. \A k \in 1..(cut[n] - cut[n - 1]) : made[cut[n - 1] + k].iteration = its[n]
        BY <1>1, <1>3, PieceFacts
      <3> QED BY <2>1, <3>1
    <2>4. c = [k \in 1..l |-> <<its[n], made[u + k].index>>]
      BY <2>1 DEF Calls
    <2>5. \A k \in 1..l : u + k \in 1..b
      BY <1>3, <2>2
    <2>6. \A k \in 1..l : c[k] = m[u + k]
      BY <1>3, <1>5, <2>3, <2>4, <2>5
    <2>7. c \in [1..l -> Nat \X Nat]
      BY <1>8, <2>4, <2>5, <2>6
    <2>8. c \in Seq(Nat \X Nat) /\ Len(c) = l
      BY <2>2, <2>7, FunctionIsSequence
    <2> QED BY <1>6, <2>1, <2>5, <2>6, <2>8
  <1>10. Parts(Nat \X Nat, N, ss, off)
    <2>1. off \in [0..N -> Nat] /\ off[0] = 0
      BY <1>3, <1>4, <1>5, <1>7
    <2>2. ss \in [1..N -> Seq(Nat \X Nat)]
      BY <1>6, <1>9
    <2>3. ASSUME NEW n \in 1..N PROVE off[n] = off[n - 1] + Len(ss[n])
      <3>1. n \in 0..N /\ n - 1 \in 0..N
        BY <1>4
      <3>2. off[n] = cut[n] - a /\ off[n - 1] = cut[n - 1] - a /\ Len(ss[n]) = cut[n] - cut[n - 1]
        BY <1>5, <1>9, <3>1
      <3>3. cut[n] \in Nat /\ cut[n - 1] \in Nat
        BY <1>7, <3>1
      <3> QED BY <1>3, <3>2, <3>3
    <2> QED BY <1>4, <2>1, <2>2, <2>3 DEF Parts, Counts
  <1>11. /\ seen \in Seq(Nat \X Nat) /\ Len(seen) = off[N]
         /\ \A n \in 1..N : \A j \in 1..Len(ss[n]) :
              off[n - 1] + j \in 1..off[N] /\ seen[off[n - 1] + j] = ss[n][j]
    <2>1. /\ FlattenSeq(ss) \in Seq(Nat \X Nat)
          /\ Len(FlattenSeq(ss)) = off[N]
          /\ \A n \in 1..N : \A j \in 1..Len(ss[n]) :
               off[n - 1] + j \in 1..off[N] /\ FlattenSeq(ss)[off[n - 1] + j] = ss[n][j]
      BY <1>10, FlattenParts
    <2> QED BY <1>5, <2>1
  <1>12. off[N] = b - a /\ b - a \in Nat /\ off \in [0..N -> Nat] /\ off[0] = 0
    BY <1>4, <1>5, <1>7, <1>10 DEF Parts
  <1>13. ASSUME NEW p \in 1..(b - a) PROVE seen[p] = m[a + p]
    <2>1. PICK n \in 1..N : off[n - 1] < p /\ p <= off[n]
      BY <1>4, <1>12, PlaceInPart
    <2>2. PICK q, u, l : q = off[n - 1] /\ u = cut[n - 1] /\ l = cut[n] - cut[n - 1]
      OBVIOUS
    <2>3. q = u - a /\ off[n] = q + l /\ u \in Nat /\ Len(ss[n]) = l /\ q \in Nat /\ l \in Nat
      <3>1. n - 1 \in 0..N
        BY <1>4
      <3>2. off[n] = off[n - 1] + Len(ss[n])
        BY <1>10 DEF Parts, Counts
      <3>3. Len(ss[n]) = l /\ ss[n] \in Seq(Nat \X Nat)
        BY <1>9, <2>2
      <3>4. l \in Nat
        BY <3>3
      <3> QED BY <1>5, <1>7, <2>2, <3>1, <3>2, <3>3, <3>4
    <2>4. PICK j : j = p - q
      OBVIOUS
    <2>5. j \in 1..l /\ p = q + j /\ u + j = a + p
      <3>1. /\ q < p /\ p <= q + l /\ p \in Nat /\ a \in Nat
            /\ q = u - a /\ u \in Nat /\ q \in Nat /\ l \in Nat /\ j = p - q
        BY <1>3, <2>1, <2>2, <2>3, <2>4
      <3>2. j \in 1..l
        BY <3>1
      <3>3. p = q + j /\ u + j = a + p
        BY <3>1
      <3> QED BY <3>2, <3>3
    <2>6. seen[q + j] = ss[n][j]
      BY <1>11, <2>2, <2>3, <2>5
    <2>7. ss[n][j] = m[u + j]
      BY <1>9, <2>2, <2>5
    <2> QED BY <2>5, <2>6, <2>7
  <1>14. IsSuffix(seen, m)
    <2>1. m \in Seq(Nat \X Nat) /\ Len(m) = b
      BY <1>3, <1>8, FunctionIsSequence
    <2>2. Len(seen) = b - a /\ Len(seen) <= Len(m) /\ Len(m) - Len(seen) = a
      BY <1>3, <1>11, <1>12, <2>1
    <2>3. \A i \in 1..Len(seen) : seen[i] = m[Len(m) - Len(seen) + i]
      BY <1>13, <2>2
    <2> QED BY <1>11, <2>1, <2>2, <2>3, SuffixByPlace
  <1>15. Len(seen) >= Min({keep, Len(made)})
    <2>1. PICK l, x : l = Len(made) /\ x = Min({keep, l})
      OBVIOUS
    <2>2. l = b /\ Len(seen) = b - a
      BY <1>3, <1>11, <1>12, <2>1
    <2>3. x \in {keep, l} /\ x <= keep /\ x <= l
      <3>1. \E y \in {keep, l} : \A z \in {keep, l} : y <= z
        BY <1>1, <1>3, <2>2
      <3>2. x = CHOOSE y \in {keep, l} : \A z \in {keep, l} : y <= z
        BY <2>1 DEF Min
      <3> QED BY <3>1, <3>2
    <2>4. x \in Nat
      BY <1>1, <1>3, <2>2, <2>3
    <2>5. Len(seen) >= x
      BY <1>1, <1>3, <2>2, <2>3, <2>4
    <2> QED BY <2>1, <2>5
  <1> QED BY <1>5, <1>14, <1>15

LEMMA GivenFacts ==
  ASSUME NEW i \in Nat, NEW c \in Nat, NEW x \in Nat, NEW y \in Nat
  PROVE  /\ Given(i, c) # {} /\ Given(i, c) # MadeUp(x, y)
         /\ Given(i, c) = Given(x, y) => i = x /\ c = y
  <1>1. Given(i, c) # {} /\ <<i, c>> \in Given(i, c)
    BY DEF Given
  <1>2. Given(i, c) = Given(x, y) => i = x /\ c = y
    <2> SUFFICES ASSUME Given(i, c) = Given(x, y) PROVE i = x /\ c = y
      OBVIOUS
    <2>1. <<i, c>> = <<x, y>>
      BY <1>1 DEF Given
    <2> QED BY <2>1
  <1>3. Given(i, c) # MadeUp(x, y)
    <2> SUFFICES ASSUME Given(i, c) = MadeUp(x, y) PROVE FALSE
      OBVIOUS
    <2>1. <<i, c>> = <<x, y, "made up">>
      BY <1>1 DEF MadeUp
    <2>2. DOMAIN <<i, c>> = {1, 2} /\ 3 \in DOMAIN <<x, y, "made up">>
      OBVIOUS
    <2> QED BY <2>1, <2>2
  <1> QED BY <1>1, <1>2, <1>3

\* The pieces of what was made from a + 1 to b.
Pieces(a, b, N, its, cut) ==
  MadeInOrder /\ a \in Nat /\ b \in Nat /\ b <= Len(made) /\ Cut(a, b, N, its, cut)

\* The n-th piece has a j-th observation, of the call id.
InPiece(N, cut, n, j) == n \in 1..N /\ j \in 1..(cut[n] - cut[n - 1])
IsOf(N, cut, n, j, id) == InPiece(N, cut, n, j) /\ made[cut[n - 1] + j].call_id = id

\* Within a piece indices count up by one, and an id tells a result from all others.
LEMMA IdsOfPiece ==
  ASSUME NEW a, NEW b, NEW N, NEW its, NEW cut, NEW n, NEW j, NEW c \in 1..MaxCalls,
         Pieces(a, b, N, its, cut), InPiece(N, cut, n, j)
  PROVE  /\ its[n] \in Nat /\ c \in Nat
         /\ AssistantIds(Piece(cut, n))[j] = Given(its[n], c) =>
              made[cut[n - 1] + j].call_id = Given(its[n], c)
         /\ made[cut[n - 1] + j].call_id = Given(its[n], c) => j \in 1..MaxCalls
         /\ \A n2, j2, id :
              id = Given(its[n], c) /\ IsOf(N, cut, n, j, id) /\ IsOf(N, cut, n2, j2, id)
              => n2 = n /\ j2 = j
  <1>0. /\ MadeInOrder /\ a \in Nat /\ b \in Nat /\ b <= Len(made) /\ Cut(a, b, N, its, cut)
        /\ n \in 1..N /\ j \in 1..(cut[n] - cut[n - 1])
    BY DEF Pieces, InPiece
  <1> USE <1>0
  <1>1. /\ N \in Nat
        /\ \A x \in 1..N : its[x] \in Nat
        /\ \A x, y \in 1..N : x < y => its[x] < its[y]
    BY DEF Cut
  <1>2. its[n] \in Nat /\ c \in Nat
    BY <1>1, TranscriptAssumption
  <1>3. ASSUME NEW x \in 1..N
        PROVE  /\ cut[x - 1] \in Nat /\ cut[x] - cut[x - 1] \in Nat
               /\ \A y \in 1..(cut[x] - cut[x - 1]) :
                    /\ cut[x - 1] + y \in 1..Len(made)
                    /\ made[cut[x - 1] + y].iteration = its[x]
    <2>1. cut[x - 1] \in Nat /\ cut[x] - cut[x - 1] \in Nat
      BY PieceFacts
    <2>2. \A y \in 1..(cut[x] - cut[x - 1]) :
            /\ cut[x - 1] + y \in 1..Len(made)
            /\ made[cut[x - 1] + y].iteration = its[x]
      BY PieceFacts
    <2> QED BY <2>1, <2>2
  <1>4. ASSUME NEW x \in 1..N, NEW y \in 1..(cut[x] - cut[x - 1]),
               made[cut[x - 1] + y].call_id = Given(its[n], c)
        PROVE  x = n /\ made[cut[x - 1] + y].index = c
    <2>1. PICK k : k = cut[x - 1] + y
      OBVIOUS
    <2>2. k \in 1..Len(made) /\ made[k].iteration = its[x] /\ made[k].index \in Nat
      BY <1>3, <2>1, MadeFacts
    <2>3. made[k].call_id \in {{}, Given(its[x], made[k].index)}
      BY <2>2 DEF MadeInOrder
    <2>4. made[k].call_id = Given(its[n], c)
      BY <1>4, <2>1
    <2>5. its[x] \in Nat
      BY <1>1
    <2>6. its[x] = its[n] /\ made[k].index = c
      <3>1. PICK p, q, i : p = its[x] /\ q = made[k].index /\ i = its[n]
        OBVIOUS
      <3>2. p \in Nat /\ q \in Nat /\ i \in Nat /\ c \in Nat
        BY <1>2, <2>2, <2>5, <3>1
      <3>3. Given(i, c) # {}
        BY <3>2, GivenFacts
      <3>4. Given(i, c) = Given(p, q)
        BY <2>3, <2>4, <3>1, <3>3
      <3>5. i = p /\ c = q
        BY <3>2, <3>4, GivenFacts
      <3> QED BY <3>1, <3>5
    <2>7. x = n
      <3>1. ~ (x < n) /\ ~ (n < x)
        BY <1>1, <2>6
      <3> QED BY <1>1, <3>1
    <2> QED BY <2>1, <2>6, <2>7
  <1>5. ASSUME NEW y \in 1..(cut[n] - cut[n - 1]), NEW z \in 1..(cut[n] - cut[n - 1]), y < z
        PROVE  /\ made[cut[n - 1] + z].index - made[cut[n - 1] + y].index = z - y
               /\ made[cut[n - 1] + z].index \in Nat /\ made[cut[n - 1] + y].index \in Nat
               /\ made[cut[n - 1] + y].index >= 1
    <2>1. PICK u, k, l : u = cut[n - 1] /\ k = cut[n - 1] + y /\ l = cut[n - 1] + z
      OBVIOUS
    <2>2. /\ k \in 1..Len(made) /\ made[k].iteration = its[n]
          /\ l \in 1..Len(made) /\ made[l].iteration = its[n]
      BY <1>3, <2>1
    <2>3. u \in Nat /\ y \in Nat /\ z \in Nat
      BY <1>3, <2>1
    <2>4. k < l /\ l - k = z - y
      BY <1>5, <2>1, <2>3
    <2>5. made[l].index - made[k].index = l - k
      BY <1>2, <2>2, <2>4 DEF MadeInOrder
    <2>6. made[k].index \in Nat /\ made[l].index \in Nat /\ made[k].index >= 1
      BY <2>2, MadeFacts, TranscriptAssumption
    <2> QED BY <2>1, <2>4, <2>5, <2>6
  <1>6. ASSUME AssistantIds(Piece(cut, n))[j] = Given(its[n], c)
        PROVE  made[cut[n - 1] + j].call_id = Given(its[n], c)
    <2>1. PICK r : r = Piece(cut, n)
      OBVIOUS
    <2>2. Len(r) = cut[n] - cut[n - 1] /\ r[j] = made[cut[n - 1] + j]
      BY <2>1, PieceShape
    <2>3. r[j].iteration \in Nat /\ j \in Nat
      <3>1. cut[n] - cut[n - 1] \in Nat
        BY <1>3
      <3> QED BY <1>2, <1>3, <2>2, <3>1
    <2>4. AssistantIds(r)[j] = IF r[j].call_id # {} THEN r[j].call_id ELSE MadeUp(r[j].iteration, j)
      BY <2>2 DEF AssistantIds
    <2>5. Given(its[n], c) # MadeUp(r[j].iteration, j)
      BY <1>2, <2>3, GivenFacts
    <2> QED BY <1>6, <2>1, <2>2, <2>4, <2>5
  <1>7. ASSUME made[cut[n - 1] + j].call_id = Given(its[n], c)
        PROVE  j \in 1..MaxCalls
    <2>1. made[cut[n - 1] + j].index = c
      BY <1>4, <1>7
    <2>2. MaxCalls \in Nat /\ c <= MaxCalls /\ 1 <= c
      BY TranscriptAssumption
    <2>3. cut[n] - cut[n - 1] \in Nat
      BY <1>3
    <2>4. CASE j = 1
      BY <2>2, <2>4
    <2>5. CASE j # 1
      <3>1. 1 \in 1..(cut[n] - cut[n - 1]) /\ 1 < j /\ j \in Nat
        BY <2>3, <2>5
      <3>2. PICK f, g : f = made[cut[n - 1] + 1].index /\ g = made[cut[n - 1] + j].index
        OBVIOUS
      <3>3. g - f = j - 1 /\ g \in Nat /\ f \in Nat /\ f >= 1
        BY <1>5, <3>1, <3>2
      <3>4. g = c
        BY <2>1, <3>2
      <3> QED BY <2>2, <3>1, <3>3, <3>4
    <2> QED BY <2>4, <2>5
  <1>8. ASSUME NEW n2, NEW j2, NEW id, id = Given(its[n], c),
               IsOf(N, cut, n, j, id), IsOf(N, cut, n2, j2, id)
        PROVE  n2 = n /\ j2 = j
    <2>0. /\ n2 \in 1..N /\ j2 \in 1..(cut[n2] - cut[n2 - 1])
          /\ made[cut[n - 1] + j].call_id = Given(its[n], c)
          /\ made[cut[n2 - 1] + j2].call_id = Given(its[n], c)
      BY <1>8 DEF IsOf, InPiece
    <2>1. n2 = n /\ made[cut[n - 1] + j].index = c /\ made[cut[n - 1] + j2].index = c
      <3>1. made[cut[n - 1] + j].index = c
        BY <1>4, <2>0
      <3>2. n2 = n /\ made[cut[n2 - 1] + j2].index = c
        BY <1>4, <2>0
      <3> QED BY <3>1, <3>2
    <2>2. j2 \in 1..(cut[n] - cut[n - 1]) /\ j \in Nat /\ j2 \in Nat
      <3>1. cut[n] - cut[n - 1] \in Nat
        BY <1>3
      <3> QED BY <2>0, <2>1, <3>1
    <2>3. ~ (j < j2)
      <3> SUFFICES ASSUME j < j2 PROVE FALSE
        OBVIOUS
      <3>1. c - c = j2 - j
        BY <1>5, <2>1, <2>2
      <3> QED BY <1>2, <2>2, <3>1
    <2>4. ~ (j2 < j)
      <3> SUFFICES ASSUME j2 < j PROVE FALSE
        OBVIOUS
      <3>1. c - c = j - j2
        BY <1>5, <2>1, <2>2
      <3> QED BY <1>2, <2>2, <3>1
    <2> QED BY <2>1, <2>2, <2>3, <2>4
  <1> QED BY <1>2, <1>6, <1>7, <1>8

\* The turn before an answer is the one it answers.
LEMMA TurnAnswered ==
  ASSUME MadeInOrder, NEW a, NEW b, NEW N, NEW its, NEW cut, NEW at, Shows(a, b, N, its, cut, at),
         NEW n \in 1..N, NEW j \in 1..(cut[n] - cut[n - 1])
  PROVE  TurnBefore(AnswerAt(at, n, j)) = AssistantTurn(Piece(cut, n))
  <1>1. PICK k : k = AnswerAt(at, n, j)
    OBVIOUS
  <1>2. /\ N \in Nat /\ at \in [1..N -> Nat]
        /\ \A x, y \in 1..N : x < y => at[x] < at[y]
        /\ \A x \in 1..N : at[x] \in 1..Len(messages) /\ messages[at[x]] = AssistantTurn(Piece(cut, x))
        /\ \A i \in 1..Len(messages) : messages[i].role = "assistant" => \E x \in 1..N : i = at[x]
        /\ at[n] < k
        /\ \A x \in 1..N : at[x] < k => x <= n
    BY <1>1 DEF Shows, Cut, Layout
  <1>3. PICK S : S = {i \in Places("assistant") : i < k}
    OBVIOUS
  <1>4. at[n] \in S
    <2>1. AssistantTurn(Piece(cut, n)).role = "assistant"
      BY DEF AssistantTurn
    <2> QED BY <1>2, <1>3, <2>1 DEF Places
  <1>5. ASSUME NEW i \in S PROVE i \in Nat /\ i <= at[n]
    <2>1. PICK x \in 1..N : i = at[x]
      BY <1>2, <1>3 DEF Places
    <2>2. x <= n
      BY <1>2, <1>3, <2>1
    <2>3. x = n \/ x < n
      BY <1>2, <2>2
    <2>4. at[x] \in Nat /\ at[n] \in Nat
      BY <1>2
    <2>5. at[x] = at[n] \/ at[x] < at[n]
      BY <1>2, <2>3
    <2> QED BY <2>1, <2>4, <2>5
  <1>6. Max(S) = at[n]
    <2>1. PICK m : m = Max(S)
      OBVIOUS
    <2>2. at[n] \in Nat
      BY <1>2
    <2>3. m \in S /\ \A i \in S : m >= i
      <3>1. \E x \in S : \A i \in S : x >= i
        BY <1>4, <1>5, <2>2
      <3> QED BY <2>1, <3>1 DEF Max
    <2>4. m >= at[n] /\ m <= at[n] /\ m \in Nat
      BY <1>4, <1>5, <2>3
    <2> QED BY <2>1, <2>2, <2>4
  <1> QED BY <1>1, <1>2, <1>3, <1>6 DEF TurnBefore

\* The provider gave the id to a call of the n-th piece's iteration.
GivenIn(its, n, id) == \E c \in 1..MaxCalls : id = Given(its[n], c)

\* Only one observation of the pieces is of that call.
LEMMA OneIsOf ==
  ASSUME NEW a, NEW b, NEW N, NEW its, NEW cut, NEW n, NEW j, NEW n2, NEW j2, NEW id,
         Pieces(a, b, N, its, cut), GivenIn(its, n, id),
         IsOf(N, cut, n, j, id), IsOf(N, cut, n2, j2, id)
  PROVE  n2 = n /\ j2 = j
  <1>1. PICK c \in 1..MaxCalls : id = Given(its[n], c)
    BY DEF GivenIn
  <1>2. InPiece(N, cut, n, j)
    BY DEF IsOf
  <1>3. \A n3, j3, id3 :
          id3 = Given(its[n], c) /\ IsOf(N, cut, n, j, id3) /\ IsOf(N, cut, n3, j3, id3)
          => n3 = n /\ j3 = j
    BY <1>2, IdsOfPiece
  <1> QED BY <1>1, <1>3

LEMMA InvAnswersMatchCalls == Inv => AnswersMatchCalls
  <1> DEFINE answers == {k \in 1..Len(messages) :
                           messages[k].role # "assistant" /\ messages[k].ids # << >>}
             given(k, c) == Given(messages[k].calls[1][1], c)
             holders(id) == {h \in answers \X (1..MaxCalls) :
                               /\ h[2] <= Len(messages[h[1]].ids)
                               /\ messages[h[1]].ids[h[2]] = id}
  <1> SUFFICES ASSUME Inv
               PROVE  /\ \A k \in answers : \A id \in ToSet(messages[k].ids) \ {{}} :
                           id \in ToSet(TurnBefore(k).ids)
                      /\ \A k \in Places("assistant") : \A c \in 1..MaxCalls :
                           given(k, c) \in ToSet(messages[k].ids) => Cardinality(holders(given(k, c))) = 1
    BY DEF AnswersMatchCalls
  <1>1. MadeInOrder
    BY DEF Inv
  <1>2. CASE messages = << >>
    BY <1>2 DEF Places
  <1>3. CASE messages # << >>
    <2>1. PICK a, b, N, its, cut, at : Shows(a, b, N, its, cut, at)
      BY <1>3, RequestShows
    <2>2. /\ a \in Nat /\ b \in Nat /\ b <= Len(made) /\ Cut(a, b, N, its, cut)
      BY <2>1 DEF Shows
    <2>3. /\ messages \in Seq(Messages)
          /\ \A n \in 1..N : at[n] \in 1..Len(messages) /\ messages[at[n]] = AssistantTurn(Piece(cut, n))
          /\ \A k \in 1..Len(messages) : messages[k].role = "assistant" => \E n \in 1..N : k = at[n]
          /\ \A n \in 1..N : \A j \in 1..(cut[n] - cut[n - 1]) : Answers(cut, at, n, j)
          /\ \A k \in 1..Len(messages) : messages[k].role # "assistant" =>
               \A i \in 1..Len(messages[k].ids) :
                 \E n \in 1..N : \E j \in 1..(cut[n] - cut[n - 1]) :
                   k = AnswerAt(at, n, j) /\ i = AnswerPlace(j)
      BY <2>1 DEF Shows, Layout
    <2>4. ASSUME NEW n \in 1..N
          PROVE  /\ messages[at[n]].ids = AssistantIds(Piece(cut, n))
                 /\ messages[at[n]].calls[1][1] = its[n]
                 /\ DOMAIN AssistantIds(Piece(cut, n)) = 1..(cut[n] - cut[n - 1])
                 /\ Len(Piece(cut, n)) = cut[n] - cut[n - 1]
      <3>1. PICK r, l : r = Piece(cut, n) /\ l = cut[n] - cut[n - 1]
        OBVIOUS
      <3>2. l \in Nat \ {0} /\ Len(r) = l
        BY <1>1, <2>2, <3>1, PieceShape
      <3>3. \A k \in 1..l : r[k].iteration = its[n]
        <4>1. \A k \in 1..(cut[n] - cut[n - 1]) : made[cut[n - 1] + k].iteration = its[n]
          BY <1>1, <2>2, PieceFacts
        <4> QED BY <3>1, <4>1 DEF Piece
      <3>4. messages[at[n]] = AssistantTurn(r)
        BY <2>3, <3>1
      <3>5. AssistantTurn(r).ids = AssistantIds(r)
        BY DEF AssistantTurn
      <3>6. AssistantTurn(r).calls[1][1] = its[n]
        <4>1. 1 \in 1..l
          BY <3>2
        <4> QED BY <3>2, <3>3, <4>1 DEF AssistantTurn
      <3>7. DOMAIN AssistantIds(r) = 1..l
        BY <3>2 DEF AssistantIds
      <3> QED BY <3>1, <3>2, <3>4, <3>5, <3>6, <3>7
    <2>5. ASSUME NEW k \in answers, NEW id \in ToSet(messages[k].ids) \ {{}}
          PROVE  id \in ToSet(TurnBefore(k).ids)
      <3>1. k \in 1..Len(messages) /\ messages[k].role # "assistant"
        OBVIOUS
      <3>2. messages[k].ids \in Seq(Ids)
        <4>1. messages[k] \in Messages
          BY <2>3, <3>1, SequenceIsFunction
        <4> QED BY <4>1 DEF Messages
      <3>3. PICK i \in 1..Len(messages[k].ids) : id = messages[k].ids[i]
        BY <3>2 DEF ToSet
      <3>4. PICK n \in 1..N : \E j \in 1..(cut[n] - cut[n - 1]) :
                                k = AnswerAt(at, n, j) /\ i = AnswerPlace(j)
        BY <2>3, <3>1
      <3>5. PICK j \in 1..(cut[n] - cut[n - 1]) : k = AnswerAt(at, n, j) /\ i = AnswerPlace(j)
        BY <3>4
      <3>6. id = made[cut[n - 1] + j].call_id
        <4>1. Answers(cut, at, n, j)
          BY <2>3
        <4> QED BY <3>3, <3>5, <4>1 DEF Answers
      <3>7. TurnBefore(k) = AssistantTurn(Piece(cut, n))
        BY <1>1, <2>1, <3>5, TurnAnswered
      <3>8. TurnBefore(k).ids = AssistantIds(Piece(cut, n))
        BY <3>7 DEF AssistantTurn
      <3>9. AssistantIds(Piece(cut, n))[j] = id
        <4>1. PICK r : r = Piece(cut, n)
          OBVIOUS
        <4>2. r[j] = made[cut[n - 1] + j] /\ j \in 1..Len(r)
          BY <2>4, <4>1 DEF Piece
        <4>3. AssistantIds(r)[j] = IF r[j].call_id # {} THEN r[j].call_id ELSE MadeUp(r[j].iteration, j)
          BY <4>2 DEF AssistantIds
        <4> QED BY <3>6, <4>1, <4>2, <4>3
      <3>10. j \in DOMAIN AssistantIds(Piece(cut, n))
        BY <2>4
      <3> QED BY <3>8, <3>9, <3>10 DEF ToSet
    <2>6. ASSUME NEW q \in Places("assistant"), NEW c \in 1..MaxCalls,
                 given(q, c) \in ToSet(messages[q].ids)
          PROVE  Cardinality(holders(given(q, c))) = 1
      <3>1. PICK n \in 1..N : q = at[n]
        BY <2>3 DEF Places
      <3>2. PICK id : id = Given(its[n], c)
        OBVIOUS
      <3>3. given(q, c) = id
        BY <2>4, <3>1, <3>2
      <3>4. PICK j \in 1..(cut[n] - cut[n - 1]) : AssistantIds(Piece(cut, n))[j] = id
        BY <2>4, <2>6, <3>1, <3>3 DEF ToSet
      <3>5. made[cut[n - 1] + j].call_id = id /\ j \in 1..MaxCalls
        <4>1. Pieces(a, b, N, its, cut) /\ InPiece(N, cut, n, j)
          BY <1>1, <2>2 DEF Pieces, InPiece
        <4>2. made[cut[n - 1] + j].call_id = id
          BY <3>2, <3>4, <4>1, IdsOfPiece
        <4> QED BY <3>2, <4>1, <4>2, IdsOfPiece
      <3>6. PICK x : x = <<AnswerAt(at, n, j), AnswerPlace(j)>>
        OBVIOUS
      <3>7. x \in holders(id)
        <4>1. PICK l, p : l = AnswerAt(at, n, j) /\ p = AnswerPlace(j)
          OBVIOUS
        <4>2. /\ l \in 1..Len(messages) /\ messages[l].role # "assistant"
              /\ p \in 1..Len(messages[l].ids)
              /\ messages[l].ids[p] = id
          <5>1. Answers(cut, at, n, j)
            BY <2>3
          <5> QED BY <3>5, <4>1, <5>1 DEF Answers
        <4>3. messages[l].ids \in Seq(Ids)
          <5>1. messages[l] \in Messages
            BY <2>3, <4>2, SequenceIsFunction
          <5> QED BY <5>1 DEF Messages
        <4>4. messages[l].ids # << >> /\ p <= Len(messages[l].ids)
          BY <4>2, <4>3
        <4>5. p \in 1..MaxCalls
          <5>1. MaxCalls \in Nat
            BY TranscriptAssumption
          <5>2. p = 1 \/ p = j
            BY <4>1 DEF AnswerPlace
          <5> QED BY <3>5, <5>1, <5>2
        <4>6. x = <<l, p>>
          BY <3>6, <4>1
        <4> QED BY <4>2, <4>4, <4>5, <4>6
      <3>8. ASSUME NEW h \in holders(id) PROVE h = x
        <4>1. PICK l, p : h = <<l, p>> /\ l \in answers /\ p \in 1..MaxCalls
          OBVIOUS
        <4>2. p <= Len(messages[l].ids) /\ messages[l].ids[p] = id
          BY <4>1
        <4>3. l \in 1..Len(messages) /\ messages[l].role # "assistant"
          BY <4>1
        <4>4. p \in 1..Len(messages[l].ids)
          <5>1. messages[l] \in Messages
            BY <2>3, <4>3, SequenceIsFunction
          <5>2. messages[l].ids \in Seq(Ids)
            BY <5>1 DEF Messages
          <5>3. Len(messages[l].ids) \in Nat /\ p \in Nat /\ p >= 1
            BY <4>1, <5>2, TranscriptAssumption
          <5> QED BY <4>2, <5>3
        <4>5. PICK n2 \in 1..N : \E j2 \in 1..(cut[n2] - cut[n2 - 1]) :
                                   l = AnswerAt(at, n2, j2) /\ p = AnswerPlace(j2)
          BY <2>3, <4>3, <4>4
        <4>6. PICK j2 \in 1..(cut[n2] - cut[n2 - 1]) :
                l = AnswerAt(at, n2, j2) /\ p = AnswerPlace(j2)
          BY <4>5
        <4>7. made[cut[n2 - 1] + j2].call_id = id
          <5>1. Answers(cut, at, n2, j2)
            BY <2>3
          <5> QED BY <4>2, <4>6, <5>1 DEF Answers
        <4>8. n2 = n /\ j2 = j
          <5>1. IsOf(N, cut, n, j, id) /\ IsOf(N, cut, n2, j2, id)
            BY <3>5, <4>7 DEF IsOf, InPiece
          <5>2. Pieces(a, b, N, its, cut)
            BY <1>1, <2>2 DEF Pieces
          <5>3. GivenIn(its, n, id)
            BY <3>2 DEF GivenIn
          <5> HIDE DEF answers, given, holders
          <5> QED BY <5>1, <5>2, <5>3, OneIsOf
        <4>9. h = <<AnswerAt(at, n, j), AnswerPlace(j)>>
          BY <4>1, <4>6, <4>8
        <4> QED BY <3>6, <4>9
      <3>9. holders(id) = {x}
        <4> HIDE DEF holders
        <4> QED BY <3>7, <3>8
      <3>10. Cardinality({x}) = 1
        BY FS_Singleton
      <3> HIDE DEF holders, given
      <3> QED BY <3>3, <3>9, <3>10
    <2> HIDE DEF answers, holders, given
    <2> QED BY <2>5, <2>6
  <1> QED BY <1>2, <1>3

-----------------------------------------------------------------------------
(* The theorems                                                            *)

\* However compaction cut the batches, an answer with an id answers a call of the
\* turn right before it, and a call with a provider's id has exactly one answer
\* (_build_messages of both adapters).
THEOREM AnswersAlwaysMatchCalls == Spec => []AnswersMatchCalls
  BY Invariant, InvAnswersMatchCalls, PTL

\* Each turn of a request is a decision the model made, in order and whole; only
\* the first may lack calls, and then its first ones (_openai_base.py, 113 to 139).
THEOREM TurnsAreAlwaysDecisions == Spec => []TurnsAreDecisions
  BY Invariant, InvTurnsAreDecisions, PTL

\* A request shows an end of what the run did, and as much of it as compaction is
\* to keep (TokenAwareCompactor.compact).
THEOREM LatestAreAlwaysSeen == Spec => []LatestAreSeen
  BY Invariant, InvLatestAreSeen, PTL
=============================================================================
