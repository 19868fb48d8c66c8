------------------------------ MODULE Induction ------------------------------
(***************************************************************************)
(* Induction and recursion over natural numbers and over finite sets,      *)
(* stated with sets instead of predicates, and what they show of           *)
(* FlattenSeq and SumFunctionOnSet: facts about sequences and sums that    *)
(* the proofs of the components cite.                                      *)
(***************************************************************************)
EXTENDS Integers, Sequences, SequencesExt,
        FiniteSetTheorems, WellFoundedInduction, SequenceTheorems, TLAPS

(* A set that holds 0 and with each natural number the next holds all of   *)
(* them.                                                                   *)
LEMMA NatSetInduction ==
  ASSUME NEW B, 0 \in B, \A n \in Nat : n \in B => n + 1 \in B
  PROVE  Nat \subseteq B
<1> SUFFICES ASSUME Nat \ B # {} PROVE FALSE
  OBVIOUS
<1> DEFINE T == {0..m : m \in Nat \ B}
<1>1. T \subseteq FiniteSubsetsOf(Nat) /\ T # {}
  <2>1. \A m \in Nat : 0..m \in SUBSET Nat /\ IsFiniteSet(0..m)
    BY FS_Interval
  <2> QED BY <2>1 DEF FiniteSubsetsOf
<1>2. PICK I \in T : \A J \in T : <<J, I>> \notin StrictSubsetOrdering(Nat)
  <2> HIDE DEF T
  <2> QED BY <1>1, WFMin, FS_StrictSubsetOrderingWellFounded
<1>3. PICK m \in Nat \ B : I = 0..m
  OBVIOUS
<1>4. m - 1 \in Nat \ B
  OBVIOUS
<1>5. 0..(m - 1) \in T /\ 0..(m - 1) \in SUBSET Nat /\ I \in SUBSET Nat
  BY <1>3, <1>4
<1>6. 0..(m - 1) \subseteq I /\ 0..(m - 1) # I
  BY <1>3
<1>7. <<0..(m - 1), I>> \in StrictSubsetOrdering(Nat)
  BY <1>5, <1>6 DEF StrictSubsetOrdering
<1> QED BY <1>2, <1>5, <1>7

(* Definition by recursion: from a value and a step there is a sequence of *)
(* values, indexed by the natural numbers, that starts at the one and      *)
(* advances by the other.                                                  *)
Starts(S, base, step, m, g) ==
  g \in [0..m -> S] /\ g[0] = base /\ \A n \in 1..m : g[n] = step[n][g[n - 1]]

(* The sequence of values exists. *)
LEMMA RecursionExists ==
  ASSUME NEW S, NEW base \in S, NEW N \in Nat, NEW step \in [1..N -> [S -> S]]
  PROVE  \E g : Starts(S, base, step, N, g)
<1> DEFINE B == {m \in Nat : m <= N => \E g : Starts(S, base, step, m, g)}
<1>1. 0 \in B
  <2> DEFINE g == [n \in 0..0 |-> base]
  <2>1. Starts(S, base, step, 0, g)
    BY DEF Starts
  <2> QED BY <2>1
<1>2. ASSUME NEW m \in Nat, m \in B PROVE m + 1 \in B
  <2> SUFFICES ASSUME m + 1 <= N PROVE \E g : Starts(S, base, step, m + 1, g)
    OBVIOUS
  <2>1. PICK g : Starts(S, base, step, m, g)
    BY <1>2
  <2> DEFINE h == [n \in 0..(m + 1) |-> IF n = m + 1 THEN step[m + 1][g[m]] ELSE g[n]]
  <2>2. g[m] \in S /\ step[m + 1][g[m]] \in S
    <3>1. m \in 0..m /\ m + 1 \in 1..N
      OBVIOUS
    <3>2. g[m] \in S
      BY <2>1, <3>1 DEF Starts
    <3> QED BY <3>1, <3>2
  <2>3. h \in [0..(m + 1) -> S]
    <3>1. \A n \in 0..(m + 1) : n = m + 1 \/ n \in 0..m
      OBVIOUS
    <3> QED BY <2>1, <2>2, <3>1 DEF Starts
  <2>4. h[0] = base
    BY <2>1 DEF Starts
  <2>5. \A n \in 1..(m + 1) : h[n] = step[n][h[n - 1]]
    <3> SUFFICES ASSUME NEW n \in 1..(m + 1) PROVE h[n] = step[n][h[n - 1]]
      OBVIOUS
    <3>1. CASE n = m + 1
      BY <3>1, <2>1 DEF Starts
    <3>2. CASE n # m + 1
      <4>1. n \in 1..m /\ n - 1 \in 0..m
        BY <3>2
      <4> QED BY <4>1, <2>1 DEF Starts
    <3> QED BY <3>1, <3>2
  <2>6. Starts(S, base, step, m + 1, h)
    BY <2>3, <2>4, <2>5 DEF Starts
  <2> QED BY <2>6
<1>3. Nat \subseteq B
  <2> HIDE DEF B
  <2> QED BY <1>1, <1>2, NatSetInduction
<1> QED BY <1>3

(* Joining sequences is associative and has the empty sequence as unit. *)
LEMMA Joining ==
  \A R : \A s \in Seq(R) : <<>> \o s = s /\ s \o <<>> = s
OBVIOUS

(* Joining is associative, for sequences given by name. *)
LEMMA Associates ==
  ASSUME NEW R, NEW s \in Seq(R), NEW t \in Seq(R), NEW u \in Seq(R),
         NEW st, st = s \o t, NEW tu, tu = t \o u
  PROVE  st \o u = s \o tu
BY ConcatAssociative

(* A sequence is defined on the numbers up to its length and takes values  *)
(* of its set.                                                             *)
LEMMA Elements ==
  \A S : \A t \in Seq(S) : Len(t) \in Nat /\ DOMAIN t = 1..Len(t) /\ \A n \in DOMAIN t : t[n] \in S
<1> SUFFICES ASSUME NEW S, NEW t \in Seq(S)
             PROVE  Len(t) \in Nat /\ DOMAIN t = 1..Len(t) /\ \A n \in DOMAIN t : t[n] \in S
  OBVIOUS
<1> QED BY LenProperties

(* What Append returns, position by position. *)
LEMMA AppendAsFunction ==
  ASSUME NEW S, NEW p \in Seq(S), NEW x \in S
  PROVE  Append(p, x) = [n \in 1..(Len(p) + 1) |-> IF n = Len(p) + 1 THEN x ELSE p[n]]
<1> DEFINE r == Append(p, x)
<1>1. r \in Seq(S) /\ Len(r) = Len(p) + 1 /\ r[Len(p) + 1] = x /\ \A n \in 1..Len(p) : r[n] = p[n]
  BY AppendProperties
<1>2. Len(p) \in Nat
  BY LenProperties
<1> HIDE DEF r
<1>3. r \in [1..(Len(p) + 1) -> S]
  BY <1>1, LenProperties
<1>4. \A n \in 1..(Len(p) + 1) : r[n] = IF n = Len(p) + 1 THEN x ELSE p[n]
  BY <1>1, <1>2
<1>5. r = [n \in 1..(Len(p) + 1) |-> IF n = Len(p) + 1 THEN x ELSE p[n]]
  BY <1>3, <1>4
<1> QED BY <1>5 DEF r

(* What Tail and Head return, position by position. *)
LEMMA TailAsFunction ==
  ASSUME NEW S, NEW p \in Seq(S), p # <<>>
  PROVE  Tail(p) = [n \in 1..(Len(p) - 1) |-> p[n + 1]] /\ Head(p) = p[1]
<1> DEFINE r == Tail(p)
<1>1. r \in Seq(S) /\ Len(r) = Len(p) - 1 /\ \A n \in 1..Len(r) : r[n] = p[n + 1]
  BY HeadTailProperties
<1>2. Head(p) = p[1] /\ Len(p) \in Nat
  OBVIOUS
<1> HIDE DEF r
<1>3. r \in [1..(Len(p) - 1) -> S]
  BY <1>1, LenProperties
<1>4. r = [n \in 1..(Len(p) - 1) |-> p[n + 1]]
  BY <1>1, <1>3
<1> QED BY <1>2, <1>4 DEF r

(* A sequence of sequences. *)
Parts(R, parts) == parts \in Seq(Seq(R))

(* The partial results of FlattenSeq: the first n sequences, joined. *)
Joins(R, parts, g) ==
  /\ g \in [0..Len(parts) -> Seq(R)]
  /\ g[0] = <<>>
  /\ \A n \in 1..Len(parts) : g[n] = g[n - 1] \o parts[n]

(* The partial results exist. *)
LEMMA JoinsExist ==
  ASSUME NEW R, NEW parts, Parts(R, parts)
  PROVE  \E g : Joins(R, parts, g)
<1> DEFINE N    == Len(parts)
           step == [n \in 1..N |-> [x \in Seq(R) |-> x \o parts[n]]]
<1>1. N \in Nat /\ \A n \in 1..N : parts[n] \in Seq(R)
  BY DEF Parts
<1>2. step \in [1..N -> [Seq(R) -> Seq(R)]]
  BY <1>1
<1>3. <<>> \in Seq(R)
  OBVIOUS
<1>4. PICK g : Starts(Seq(R), <<>>, step, N, g)
  <2> DEFINE empty == <<>>
             T     == Seq(R)
  <2>1. empty \in T /\ step \in [1..N -> [T -> T]] /\ N \in Nat
    BY <1>1, <1>2, <1>3
  <2>2. \E h : Starts(T, empty, step, N, h)
    <3> HIDE DEF N, step, empty, T
    <3> QED BY <2>1, RecursionExists
  <2> QED BY <2>2
<1>5. \A n \in 1..N : g[n - 1] \in Seq(R)
  BY <1>1, <1>4 DEF Starts
<1>6. \A n \in 1..N : g[n] = g[n - 1] \o parts[n]
  BY <1>4, <1>5 DEF Starts
<1>7. Joins(R, parts, g)
  BY <1>4, <1>6 DEF Starts, Joins
<1> QED BY <1>7

(* Whatever sequence of partial results FlattenSeq takes, it ends where any other does. *)
LEMMA FlattenIs ==
  ASSUME NEW R, NEW parts, Parts(R, parts), NEW g, Joins(R, parts, g)
  PROVE  FlattenSeq(parts) = g[Len(parts)]
<1> DEFINE N == Len(parts)
<1>1. N \in Nat /\ \A n \in 1..N : parts[n] \in Seq(R)
  BY DEF Parts
<1>2. CASE N = 0
  <2>1. parts = <<>> /\ g[0] = <<>>
    BY <1>2 DEF Joins, Parts
  <2> QED BY <1>2, <2>1 DEF FlattenSeq
<1>3. CASE N # 0
  <2> DEFINE Flat(h) == h = [i \in 1..N |-> IF i = 1 THEN parts[i] ELSE h[i - 1] \o parts[i]]
             f == CHOOSE h : Flat(h)
             w == [i \in 1..N |-> g[i]]
             B == {n \in Nat : n + 1 <= N => f[n + 1] = g[n + 1]}
  <2>1. Flat(w)
    <3>1. ASSUME NEW i \in 1..N PROVE g[i] = IF i = 1 THEN parts[i] ELSE w[i - 1] \o parts[i]
      <4>1. g[i] = g[i - 1] \o parts[i]
        BY DEF Joins
      <4>2. CASE i = 1
        <5>1. <<>> \o parts[i] = parts[i]
          BY <1>1
        <5>2. g[i - 1] = <<>>
          BY <4>2 DEF Joins
        <5> QED BY <4>1, <4>2, <5>1, <5>2
      <4>3. CASE i # 1
        <5>1. i - 1 \in 1..N /\ w[i - 1] = g[i - 1]
          BY <4>3, <1>1
        <5> QED BY <4>1, <4>3, <5>1
      <4> QED BY <4>2, <4>3
    <3> QED BY <3>1
  <2>2. Flat(f)
    <3> HIDE DEF Flat
    <3> QED BY <2>1
  <2>3. FlattenSeq(parts) = f[N]
    BY <1>3 DEF FlattenSeq
  <2> HIDE DEF f
  <2>4. 0 \in B
    <3>1. f[1] = parts[1]
      <4>1. 1 \in 1..N
        BY <1>1, <1>3
      <4> QED BY <2>2, <4>1
    <3>2. g[1] = g[0] \o parts[1]
      <4>1. 1 \in 1..N /\ 1 - 1 = 0
        BY <1>1, <1>3
      <4>2. g[1] = g[1 - 1] \o parts[1]
        BY <4>1, Zenon DEF Joins
      <4> QED BY <4>1, <4>2, Zenon
    <3>3. <<>> \o parts[1] = parts[1]
      BY <1>1, <1>3
    <3> QED BY <3>1, <3>2, <3>3 DEF Joins
  <2>5. ASSUME NEW n \in Nat, n \in B PROVE n + 1 \in B
    <3> SUFFICES ASSUME n + 2 <= N PROVE f[n + 2] = g[n + 2]
      OBVIOUS
    <3>1. f[n + 1] = g[n + 1]
      BY <2>5
    <3>2. n + 2 \in 1..N /\ n + 2 # 1 /\ (n + 2) - 1 = n + 1
      BY <1>1
    <3>3. f[n + 2] = f[n + 1] \o parts[n + 2]
      BY <2>2, <3>2
    <3>4. g[n + 2] = g[n + 1] \o parts[n + 2]
      BY <3>2 DEF Joins
    <3> QED BY <3>1, <3>3, <3>4
  <2>6. Nat \subseteq B
    <3> HIDE DEF B
    <3>1. \A n \in Nat : n \in B => n + 1 \in B
      BY <2>5, Zenon
    <3> QED BY <2>4, <3>1, NatSetInduction
  <2>7. N - 1 \in B
    <3>1. N - 1 \in Nat
      BY <1>1, <1>3
    <3> QED BY <2>6, <3>1, Zenon
  <2> QED BY <2>3, <2>7, <1>1, <1>3
<1> QED BY <1>2, <1>3

(* Nothing to join gives nothing. *)
LEMMA FlattenEmpty == FlattenSeq(<<>>) = <<>>
BY DEF FlattenSeq

(* Sequences joined are a sequence of the same elements. *)
LEMMA FlattenType ==
  ASSUME NEW R, NEW parts, Parts(R, parts)
  PROVE  FlattenSeq(parts) \in Seq(R)
<1>1. PICK g : Joins(R, parts, g)
  BY JoinsExist
<1>2. FlattenSeq(parts) = g[Len(parts)]
  BY <1>1, FlattenIs
<1>3. Len(parts) \in Nat
  BY DEF Parts
<1> QED BY <1>1, <1>2, <1>3 DEF Joins

(* One more sequence is joined at the end. *)
LEMMA FlattenAppend ==
  ASSUME NEW R, NEW parts, Parts(R, parts), NEW p \in Seq(R)
  PROVE  FlattenSeq(Append(parts, p)) = FlattenSeq(parts) \o p
<1> DEFINE N == Len(parts)
           longer == Append(parts, p)
<1>1. PICK g : Joins(R, parts, g)
  BY JoinsExist
<1>2. N \in Nat /\ Parts(R, longer) /\ Len(longer) = N + 1
      /\ longer[N + 1] = p /\ \A n \in 1..N : longer[n] = parts[n]
  BY DEF Parts
<1> DEFINE h == [n \in 0..(N + 1) |-> IF n = N + 1 THEN g[N] \o p ELSE g[n]]
<1>3. g[N] \in Seq(R) /\ g[N] \o p \in Seq(R)
  BY <1>1, <1>2 DEF Joins
<1>4. Joins(R, longer, h)
  <2> HIDE DEF longer
  <2>1. \A n \in 0..(N + 1) : n = N + 1 \/ n \in 0..N
    BY <1>2
  <2>2. h \in [0..Len(longer) -> Seq(R)]
    BY <2>1, <1>1, <1>2, <1>3 DEF Joins
  <2>3. h[0] = <<>>
    BY <1>1, <1>2 DEF Joins
  <2>4. ASSUME NEW n \in 1..(N + 1) PROVE h[n] = h[n - 1] \o longer[n]
    <3>1. CASE n = N + 1
      <4>1. n - 1 = N /\ N \in 0..(N + 1) /\ N # N + 1 /\ n \in 0..(N + 1)
        BY <3>1, <1>2
      <4> QED BY <3>1, <4>1, <1>2
    <3>2. CASE n # N + 1
      <4>1. n \in 1..N /\ n - 1 \in 0..N /\ n - 1 # N + 1 /\ n \in 0..(N + 1) /\ n - 1 \in 0..(N + 1)
        BY <3>2, <1>2
      <4>2. g[n] = g[n - 1] \o parts[n]
        BY <4>1, <1>1 DEF Joins
      <4> QED BY <4>1, <4>2, <1>2, <3>2
    <3> QED BY <3>1, <3>2
  <2> QED BY <2>2, <2>3, <2>4, <1>2 DEF Joins
<1>5. FlattenSeq(longer) = h[N + 1]
  <2> HIDE DEF longer, h
  <2> QED BY <1>2, <1>4, FlattenIs
<1>6. FlattenSeq(parts) = g[N]
  BY <1>1, FlattenIs
<1> QED BY <1>2, <1>5, <1>6

(* The first sequence is joined at the front. *)
LEMMA FlattenTail ==
  ASSUME NEW R, NEW parts, Parts(R, parts), parts # <<>>
  PROVE  FlattenSeq(parts) = Head(parts) \o FlattenSeq(Tail(parts))
<1> DEFINE N == Len(parts)
           rest == Tail(parts)
<1>1. PICK g : Joins(R, parts, g)
  BY JoinsExist
<1>2. N \in Nat /\ N >= 1 /\ Parts(R, rest) /\ Len(rest) = N - 1
      /\ Head(parts) = parts[1] /\ parts[1] \in Seq(R)
      /\ (\A n \in 1..(N - 1) : rest[n] = parts[n + 1])
      /\ (\A n \in 1..N : parts[n] \in Seq(R))
  BY DEF Parts
<1>3. PICK h : Joins(R, rest, h)
  <2> HIDE DEF rest
  <2> QED BY JoinsExist, <1>2
<1> DEFINE B == {n \in Nat : n <= N - 1 => g[n + 1] = parts[1] \o h[n]}
<1>4. 0 \in B
  <2>0. 1 \in 1..N /\ 1 - 1 = 0
    BY <1>2
  <2>1. g[1] = <<>> \o parts[1] /\ h[0] = <<>>
    BY <2>0, <1>1, <1>3 DEF Joins
  <2>2. <<>> \o parts[1] = parts[1] /\ parts[1] \o <<>> = parts[1]
    BY <1>2, Joining, Zenon
  <2>3. g[0 + 1] = parts[1] \o h[0]
    <3>1. 0 + 1 = 1
      OBVIOUS
    <3> QED BY <2>1, <2>2, <3>1, Zenon
  <2> QED BY <2>3
<1>5. ASSUME NEW n \in Nat, n \in B PROVE n + 1 \in B
  <2>0. n + 1 \in Nat
    OBVIOUS
  <2> SUFFICES ASSUME n + 1 <= N - 1 PROVE g[(n + 1) + 1] = parts[1] \o h[n + 1]
    BY <2>0, Zenon
  <2> HIDE DEF rest
  <2>1. g[n + 1] = parts[1] \o h[n]
    <3>1. n <= N - 1
      BY <1>2
    <3> QED BY <1>5, <3>1
  <2>2. n + 1 \in 1..(N - 1) /\ n + 2 \in 1..N /\ n \in 0..(N - 1) /\ (n + 2) - 1 = n + 1
      /\ (n + 1) - 1 = n /\ (n + 1) + 1 = n + 2
    BY <1>2
  <2>3. g[n + 2] = g[n + 1] \o parts[n + 2]
    BY <2>2, <1>1 DEF Joins
  <2>4. h[n + 1] = h[n] \o rest[n + 1] /\ h[n] \in Seq(R)
    BY <2>2, <1>2, <1>3 DEF Joins
  <2>5. rest[n + 1] = parts[n + 2] /\ parts[n + 2] \in Seq(R)
    <3>1. rest[n + 1] = parts[(n + 1) + 1]
      BY <2>2, <1>2, Zenon
    <3> QED BY <2>2, <3>1, <1>2, Zenon
  <2>6. g[n + 2] = g[n + 1] \o parts[n + 2] /\ h[n + 1] = h[n] \o parts[n + 2]
    BY <2>2, <2>3, <2>4, <2>5, Zenon
  <2>7. parts[1] \in Seq(R) /\ h[n] \in Seq(R) /\ parts[n + 2] \in Seq(R)
    BY <2>4, <2>5, <1>2, Zenon
  <2>8. g[n + 1] \o parts[n + 2] = parts[1] \o h[n + 1]
    <3> DEFINE s == parts[1]
               t == h[n]
               u == parts[n + 2]
               st == g[n + 1]
               tu == h[n + 1]
    <3>1. s \in Seq(R) /\ t \in Seq(R) /\ u \in Seq(R) /\ st = s \o t /\ tu = t \o u
      BY <2>1, <2>6, <2>7, Zenon
    <3>2. st \o u = s \o tu
      <4> HIDE DEF s, t, u, st, tu
      <4> QED BY <3>1, Associates, SMTT(20)
    <3> QED BY <3>2, Zenon
  <2> QED BY <2>2, <2>6, <2>8, Zenon
<1>6. Nat \subseteq B
  <2> HIDE DEF B
  <2> QED BY <1>4, <1>5, NatSetInduction
<1>7. g[N] = parts[1] \o h[N - 1]
  <2>1. N - 1 \in B
    BY <1>2, <1>6
  <2> QED BY <2>1, <1>2
<1>8. FlattenSeq(parts) = g[N]
  BY <1>1, FlattenIs
<1>9. FlattenSeq(rest) = h[N - 1]
  <2> HIDE DEF rest
  <2> QED BY <1>2, <1>3, FlattenIs
<1> QED BY <1>2, <1>7, <1>8, <1>9

-----------------------------------------------------------------------------
(* Induction over the subsets of a finite set: a collection that holds     *)
(* every set whose smaller sets it holds has all of them.                  *)
LEMMA FiniteSetInduction ==
  ASSUME NEW S, IsFiniteSet(S), NEW B,
         \A T \in SUBSET S : (\A R \in SUBSET T : R # T => R \in B) => T \in B
  PROVE  SUBSET S \subseteq B
<1> SUFFICES ASSUME (SUBSET S) \ B # {} PROVE FALSE
  OBVIOUS
<1> DEFINE U == (SUBSET S) \ B
<1>1. U \subseteq FiniteSubsetsOf(S) /\ U # {}
  BY FS_FiniteSubsetsOfFinite
<1>2. PICK T \in U : \A R \in U : <<R, T>> \notin StrictSubsetOrdering(S)
  <2> HIDE DEF U
  <2> QED BY <1>1, WFMin, FS_StrictSubsetOrderingWellFounded
<1>3. \A R \in SUBSET T : R # T => R \in B
  BY <1>2 DEF StrictSubsetOrdering
<1> QED BY <1>2, <1>3

(* The element a sum takes first. *)
Some(T) == CHOOSE x \in T : TRUE

(* The partial sums of f: a number for each subset of S. *)
Sums(f, S, g) ==
  g = [T \in SUBSET S |-> IF T = {} THEN 0 ELSE f[Some(T)] + g[T \ {Some(T)}]]

(* SumFunctionOnSet is the last of the partial sums. *)
LEMMA SumIsPartialSum ==
  \A f, S : SumFunctionOnSet(f, S) = (CHOOSE g : Sums(f, S, g))[S]
BY DEF SumFunctionOnSet, FoldFunctionOnSet, MapThenFoldSet, Sums, Some

(* The values of f to be added up: integers, and finitely many. *)
Summable(f, S) == IsFiniteSet(S) /\ \A x \in S : f[x] \in Int

(* What SumFunctionOnSet computes: nothing is 0, and the sum over a set is *)
(* one of its values added to the sum over the others.                     *)
LEMMA SumRecursion ==
  ASSUME NEW f, NEW S, Summable(f, S)
  PROVE  \A T \in SUBSET S :
           /\ SumFunctionOnSet(f, T) \in Int
           /\ SumFunctionOnSet(f, T) =
                IF T = {} THEN 0 ELSE f[Some(T)] + SumFunctionOnSet(f, T \ {Some(T)})
<1> DEFINE Sum(T) == SumFunctionOnSet(f, T)
           B == {T \in SUBSET S : /\ Sum(T) \in Int
                                  /\ Sum(T) = IF T = {} THEN 0 ELSE f[Some(T)] + Sum(T \ {Some(T)})}
<1>1. \A T : T # {} => Some(T) \in T
  BY DEF Some
<1>2. ASSUME NEW T \in SUBSET S, \A R \in SUBSET T : R # T => R \in B
      PROVE  T \in B
  <2> DEFINE v == IF T = {} THEN 0 ELSE f[Some(T)] + Sum(T \ {Some(T)})
             h == [R \in SUBSET T |-> IF R = T THEN v ELSE Sum(R)]
  <2>1. Sums(f, T, h)
    <3>1. \A R \in SUBSET T : h[R] = IF R = {} THEN 0 ELSE f[Some(R)] + h[R \ {Some(R)}]
      <4> SUFFICES ASSUME NEW R \in SUBSET T
                   PROVE  h[R] = IF R = {} THEN 0 ELSE f[Some(R)] + h[R \ {Some(R)}]
        OBVIOUS
      <4>1. R # {} => R \ {Some(R)} \in SUBSET T /\ R \ {Some(R)} # T
        BY <1>1
      <4>2. R # {} => h[R \ {Some(R)}] = Sum(R \ {Some(R)})
        BY <4>1
      <4>3. CASE R = T
        BY <4>3, <4>2
      <4>4. CASE R # T
        <5>1. h[R] = Sum(R) /\ R \in B
          BY <4>4, <1>2
        <5>2. Sum(R) = IF R = {} THEN 0 ELSE f[Some(R)] + Sum(R \ {Some(R)})
          BY <5>1
        <5> QED BY <5>1, <5>2, <4>2
      <4> QED BY <4>3, <4>4
    <3>2. h = [R \in SUBSET T |-> h[R]]
      OBVIOUS
    <3>3. [R \in SUBSET T |-> h[R]]
            = [R \in SUBSET T |-> IF R = {} THEN 0 ELSE f[Some(R)] + h[R \ {Some(R)}]]
      <4> HIDE DEF h
      <4> QED BY <3>1
    <3> QED BY <3>2, <3>3 DEF Sums
  <2> DEFINE g == CHOOSE g : Sums(f, T, g)
  <2>2. Sums(f, T, g) /\ Sum(T) = g[T]
    BY <2>1, SumIsPartialSum
  <2> HIDE DEF g, h
  <2>3. \A R \in SUBSET T : g[R] = IF R = {} THEN 0 ELSE f[Some(R)] + g[R \ {Some(R)}]
    BY <2>2 DEF Sums
  <2> DEFINE C == {R \in SUBSET T : R # T => g[R] = Sum(R)}
  <2>4. ASSUME NEW R \in SUBSET T, \A Q \in SUBSET R : Q # R => Q \in C
        PROVE  R \in C
    <3> SUFFICES ASSUME R # T PROVE g[R] = Sum(R)
      OBVIOUS
    <3>1. Sum(R) = IF R = {} THEN 0 ELSE f[Some(R)] + Sum(R \ {Some(R)})
      BY <1>2
    <3>2. R # {} => g[R \ {Some(R)}] = Sum(R \ {Some(R)})
      <4> SUFFICES ASSUME R # {} PROVE g[R \ {Some(R)}] = Sum(R \ {Some(R)})
        OBVIOUS
      <4>1. R \ {Some(R)} \in SUBSET R /\ R \ {Some(R)} # R /\ R \ {Some(R)} # T
        BY <1>1
      <4> QED BY <2>4, <4>1
    <3> QED BY <3>1, <3>2, <2>3
  <2>5. IsFiniteSet(T)
    BY FS_Subset DEF Summable
  <2>6. SUBSET T \subseteq C
    <3> HIDE DEF C
    <3> QED BY <2>4, <2>5, FiniteSetInduction
  <2>7. T # {} => g[T \ {Some(T)}] = Sum(T \ {Some(T)}) /\ Sum(T \ {Some(T)}) \in Int
    <3> SUFFICES ASSUME T # {}
                 PROVE  g[T \ {Some(T)}] = Sum(T \ {Some(T)}) /\ Sum(T \ {Some(T)}) \in Int
      OBVIOUS
    <3>1. T \ {Some(T)} \in SUBSET T /\ T \ {Some(T)} # T
      BY <1>1
    <3>2. T \ {Some(T)} \in C /\ T \ {Some(T)} \in B
      BY <3>1, <2>6, <1>2
    <3> QED BY <3>1, <3>2
  <2>8. T # {} => f[Some(T)] \in Int
    BY <1>1 DEF Summable
  <2>9. Sum(T) = IF T = {} THEN 0 ELSE f[Some(T)] + Sum(T \ {Some(T)})
    BY <2>2, <2>3, <2>7
  <2>10. Sum(T) \in Int
    <3> HIDE DEF Sum
    <3> QED BY <2>7, <2>8, <2>9
  <2> QED BY <2>9, <2>10
<1>3. SUBSET S \subseteq B
  <2> HIDE DEF B
  <2> QED BY <1>2, FiniteSetInduction DEF Summable
<1> QED BY <1>3

(* The sum of nothing is 0. *)
LEMMA SumEmpty == \A f : SumFunctionOnSet(f, {}) = 0
<1> SUFFICES ASSUME NEW f PROVE SumFunctionOnSet(f, {}) = 0
  OBVIOUS
<1>1. Summable(f, {}) /\ {} \in SUBSET {}
  BY FS_EmptySet DEF Summable
<1> HIDE DEF Summable
<1> QED BY <1>1, SumRecursion

(* A sum is an integer. *)
LEMMA SumType ==
  ASSUME NEW f, NEW S, Summable(f, S)
  PROVE  SumFunctionOnSet(f, S) \in Int
BY SumRecursion

(* A part of what can be added up can be added up. *)
LEMMA SummablePart ==
  ASSUME NEW f, NEW S, Summable(f, S), NEW T \in SUBSET S
  PROVE  Summable(f, T)
BY FS_Subset DEF Summable

(* The order of addition does not matter: any element may come first. *)
LEMMA SumSplit ==
  ASSUME NEW f, NEW S, Summable(f, S), NEW x \in S
  PROVE  SumFunctionOnSet(f, S) = f[x] + SumFunctionOnSet(f, S \ {x})
<1> DEFINE Sum(T) == SumFunctionOnSet(f, T)
           B == {T \in SUBSET S : \A y \in T : Sum(T) = f[y] + Sum(T \ {y})}
<1>1. ASSUME NEW T \in SUBSET S, \A R \in SUBSET T : R # T => R \in B
      PROVE  T \in B
  <2> SUFFICES ASSUME NEW y \in T PROVE Sum(T) = f[y] + Sum(T \ {y})
    OBVIOUS
  <2> DEFINE c == Some(T)
  <2>1. c \in T
    BY DEF Some
  <2>2. Sum(T) = f[c] + Sum(T \ {c})
    BY SumRecursion
  <2> HIDE DEF c
  <2>3. CASE y = c
    BY <2>2, <2>3
  <2>4. CASE y # c
    <3>1. T \ {c} \in B /\ T \ {y} \in B /\ y \in T \ {c} /\ c \in T \ {y}
      BY <1>1, <2>1, <2>4
    <3>2. Sum(T \ {c}) = f[y] + Sum((T \ {c}) \ {y}) /\ Sum(T \ {y}) = f[c] + Sum((T \ {y}) \ {c})
      BY <3>1
    <3>3. (T \ {c}) \ {y} = (T \ {y}) \ {c}
      OBVIOUS
    <3>4. f[y] \in Int /\ f[c] \in Int /\ Sum((T \ {y}) \ {c}) \in Int
      <4>1. (T \ {y}) \ {c} \in SUBSET S
        OBVIOUS
      <4>2. Sum((T \ {y}) \ {c}) \in Int
        BY <4>1, SumRecursion
      <4> QED BY <4>2, <2>1 DEF Summable
    <3> DEFINE rest == Sum((T \ {y}) \ {c})
    <3>5. Sum(T) = f[c] + (f[y] + rest) /\ Sum(T \ {y}) = f[c] + rest /\ rest \in Int
      BY <2>2, <3>2, <3>3, <3>4
    <3> HIDE DEF rest, Sum
    <3> QED BY <3>4, <3>5
  <2> QED BY <2>3, <2>4
<1>2. SUBSET S \subseteq B
  <2> HIDE DEF B
  <2> QED BY <1>1, FiniteSetInduction DEF Summable
<1> QED BY <1>2

(* One more element. *)
LEMMA SumAdd ==
  ASSUME NEW f, NEW S, NEW x, Summable(f, S), x \notin S, f[x] \in Int
  PROVE  /\ Summable(f, S \cup {x})
         /\ SumFunctionOnSet(f, S \cup {x}) = f[x] + SumFunctionOnSet(f, S)
<1>1. Summable(f, S \cup {x})
  BY FS_AddElement DEF Summable
<1>2. (S \cup {x}) \ {x} = S
  OBVIOUS
<1> QED BY <1>1, <1>2, SumSplit

(* Functions that agree on a set have the same sum over it. *)
LEMMA SumSame ==
  ASSUME NEW f, NEW g, NEW S, Summable(f, S), \A x \in S : f[x] = g[x]
  PROVE  Summable(g, S) /\ SumFunctionOnSet(f, S) = SumFunctionOnSet(g, S)
<1> DEFINE F(T) == SumFunctionOnSet(f, T)
           G(T) == SumFunctionOnSet(g, T)
           B == {T \in SUBSET S : F(T) = G(T)}
<1>1. Summable(g, S)
  BY DEF Summable
<1>2. ASSUME NEW T \in SUBSET S, \A R \in SUBSET T : R # T => R \in B
      PROVE  T \in B
  <2>1. CASE T = {}
    BY <2>1, SumEmpty
  <2>2. CASE T # {}
    <3> DEFINE c == Some(T)
    <3>1. c \in T
      BY <2>2 DEF Some
    <3> HIDE DEF c
    <3>2. T \ {c} \in B /\ f[c] = g[c]
      BY <1>2, <3>1
    <3>3. Summable(f, T) /\ Summable(g, T)
      BY <1>1, SummablePart
    <3>4. F(T) = f[c] + F(T \ {c})
      BY <3>1, <3>3, SumSplit
    <3>5. G(T) = g[c] + G(T \ {c})
      BY <3>1, <3>3, SumSplit
    <3> QED BY <3>2, <3>4, <3>5
  <2> QED BY <2>1, <2>2
<1>3. SUBSET S \subseteq B
  <2> HIDE DEF B
  <2> QED BY <1>2, FiniteSetInduction DEF Summable
<1> QED BY <1>1, <1>3

(* Functions that differ in one element only. *)
LEMMA SumExcept ==
  ASSUME NEW f, NEW g, NEW S, Summable(f, S), NEW x \in S, g[x] \in Int,
         \A y \in S \ {x} : f[y] = g[y]
  PROVE  /\ Summable(g, S)
         /\ SumFunctionOnSet(g, S) = (SumFunctionOnSet(f, S) - f[x]) + g[x]
<1>1. Summable(g, S)
  BY DEF Summable
<1>2. Summable(f, S \ {x})
  BY SummablePart
<1>3. SumFunctionOnSet(f, S) = f[x] + SumFunctionOnSet(f, S \ {x})
  BY SumSplit
<1>4. SumFunctionOnSet(g, S) = g[x] + SumFunctionOnSet(g, S \ {x})
  BY <1>1, SumSplit
<1>5. SumFunctionOnSet(f, S \ {x}) = SumFunctionOnSet(g, S \ {x})
  BY <1>2, SumSame
<1>6. SumFunctionOnSet(f, S \ {x}) \in Int /\ f[x] \in Int
  BY <1>2, SumType DEF Summable
<1> DEFINE rest == SumFunctionOnSet(f, S \ {x})
           all == SumFunctionOnSet(f, S)
<1>7. all = f[x] + rest /\ SumFunctionOnSet(g, S) = g[x] + rest /\ rest \in Int /\ f[x] \in Int
  BY <1>3, <1>4, <1>5, <1>6
<1>8. SumFunctionOnSet(g, S) = (all - f[x]) + g[x]
  <2> HIDE DEF rest, all
  <2> QED BY <1>7
<1> QED BY <1>1, <1>8

(* A sum of a larger function is larger. *)
LEMMA SumMonotone ==
  ASSUME NEW f, NEW g, NEW S, Summable(f, S), Summable(g, S), \A x \in S : f[x] <= g[x]
  PROVE  SumFunctionOnSet(f, S) <= SumFunctionOnSet(g, S)
<1> DEFINE F(T) == SumFunctionOnSet(f, T)
           G(T) == SumFunctionOnSet(g, T)
           B == {T \in SUBSET S : F(T) <= G(T)}
<1>2. ASSUME NEW T \in SUBSET S, \A R \in SUBSET T : R # T => R \in B
      PROVE  T \in B
  <2>1. CASE T = {}
    BY <2>1, SumEmpty
  <2>2. CASE T # {}
    <3> DEFINE c == Some(T)
               fr == F(T \ {c})
               gr == G(T \ {c})
    <3>1. c \in T
      BY <2>2 DEF Some
    <3>2. T \ {c} \in B /\ f[c] <= g[c] /\ f[c] \in Int /\ g[c] \in Int
      BY <1>2, <3>1 DEF Summable
    <3> HIDE DEF c
    <3>3. Summable(f, T) /\ Summable(g, T) /\ Summable(f, T \ {c}) /\ Summable(g, T \ {c})
      BY SummablePart
    <3>4. F(T) = f[c] + fr
      BY <3>1, <3>3, SumSplit
    <3>5. G(T) = g[c] + gr
      BY <3>1, <3>3, SumSplit
    <3>6. fr \in Int
      BY <3>3, SumType
    <3>7. gr \in Int
      BY <3>3, SumType
    <3>8. fr <= gr
      BY <3>2
    <3>9. F(T) <= G(T)
      <4> HIDE DEF fr, gr, F, G
      <4> QED BY <3>2, <3>4, <3>5, <3>6, <3>7, <3>8
    <3> QED BY <3>9
  <2> QED BY <2>1, <2>2
<1>3. SUBSET S \subseteq B
  <2> HIDE DEF B
  <2> QED BY <1>2, FiniteSetInduction DEF Summable
<1> QED BY <1>3

(* Zeros add up to zero. *)
LEMMA SumZero ==
  ASSUME NEW f, NEW S, IsFiniteSet(S), \A x \in S : f[x] = 0
  PROVE  SumFunctionOnSet(f, S) = 0
<1> DEFINE F(T) == SumFunctionOnSet(f, T)
           B == {T \in SUBSET S : F(T) = 0}
<1>1. Summable(f, S)
  BY DEF Summable
<1>2. ASSUME NEW T \in SUBSET S, \A R \in SUBSET T : R # T => R \in B
      PROVE  T \in B
  <2>1. CASE T = {}
    BY <2>1, SumEmpty
  <2>2. CASE T # {}
    <3> DEFINE c == Some(T)
    <3>1. c \in T
      BY <2>2 DEF Some
    <3> HIDE DEF c
    <3>2. F(T \ {c}) = 0 /\ f[c] = 0
      BY <1>2, <3>1
    <3>3. Summable(f, T)
      BY <1>1, SummablePart
    <3>4. F(T) = f[c] + F(T \ {c})
      BY <3>1, <3>3, SumSplit
    <3> QED BY <3>2, <3>4
  <2> QED BY <2>1, <2>2
<1>3. SUBSET S \subseteq B
  <2> HIDE DEF B
  <2> QED BY <1>2, FiniteSetInduction DEF Summable
<1> QED BY <1>3

(* A sum of natural numbers is one, and none of them exceeds it. *)
LEMMA SumNat ==
  ASSUME NEW f, NEW S, IsFiniteSet(S), \A x \in S : f[x] \in Nat
  PROVE  SumFunctionOnSet(f, S) \in Nat /\ \A x \in S : f[x] <= SumFunctionOnSet(f, S)
<1> DEFINE z == [x \in S |-> 0]
<1>1. Summable(f, S) /\ Summable(z, S) /\ \A T \in SUBSET S : Summable(f, T) /\ Summable(z, T) /\ IsFiniteSet(T)
  BY FS_Subset DEF Summable
<1>2. ASSUME NEW T \in SUBSET S PROVE SumFunctionOnSet(f, T) \in Nat
  <2>1. SumFunctionOnSet(z, T) = 0
    BY <1>1, SumZero
  <2>2. \A x \in T : z[x] <= f[x]
    OBVIOUS
  <2> HIDE DEF z
  <2>3. SumFunctionOnSet(z, T) <= SumFunctionOnSet(f, T)
    BY <1>1, <2>2, SumMonotone
  <2>4. SumFunctionOnSet(f, T) \in Int
    BY <1>1, SumType
  <2> QED BY <2>1, <2>3, <2>4
<1>3. ASSUME NEW x \in S PROVE f[x] <= SumFunctionOnSet(f, S)
  <2>1. SumFunctionOnSet(f, S) = f[x] + SumFunctionOnSet(f, S \ {x})
    BY <1>1, SumSplit
  <2>2. SumFunctionOnSet(f, S \ {x}) \in Nat
    BY <1>2
  <2> QED BY <2>1, <2>2
<1> QED BY <1>2, <1>3

(* The sum over 1..n grows by the next value. *)
LEMMA SumNext ==
  ASSUME NEW f, NEW n \in Nat, \A m \in 1..(n + 1) : f[m] \in Int
  PROVE  /\ Summable(f, 1..n) /\ SumFunctionOnSet(f, 1..n) \in Int
         /\ SumFunctionOnSet(f, 1..(n + 1)) = f[n + 1] + SumFunctionOnSet(f, 1..n)
<1>1. 1..(n + 1) = (1..n) \cup {n + 1} /\ n + 1 \notin 1..n /\ n + 1 \in 1..(n + 1)
  OBVIOUS
<1>2. Summable(f, 1..n)
  BY FS_Interval DEF Summable
<1>3. f[n + 1] \in Int
  BY <1>1
<1>4. SumFunctionOnSet(f, (1..n) \cup {n + 1}) = f[n + 1] + SumFunctionOnSet(f, 1..n)
  BY <1>1, <1>2, <1>3, SumAdd
<1> QED BY <1>1, <1>2, <1>4, SumType

(* The sum of a sequence is its first value added to the sum of its tail. *)
LEMMA SumShift ==
  ASSUME NEW N \in Nat, NEW f, \A n \in 1..(N + 1) : f[n] \in Int,
         NEW g, \A n \in 1..N : g[n] = f[n + 1]
  PROVE  /\ Summable(f, 1..(N + 1)) /\ Summable(g, 1..N)
         /\ SumFunctionOnSet(f, 1..(N + 1)) = f[1] + SumFunctionOnSet(g, 1..N)
<1> DEFINE F(n) == SumFunctionOnSet(f, 1..n)
           G(n) == SumFunctionOnSet(g, 1..n)
           B == {n \in Nat : n <= N => F(n + 1) = f[1] + G(n)}
<1>1. 0 \in B
  <2>1. 1..0 = {}
    OBVIOUS
  <2>2. F(0) = 0 /\ G(0) = 0
    BY <2>1, SumEmpty
  <2>3. f[1] \in Int /\ \A m \in 1..(0 + 1) : f[m] \in Int
    OBVIOUS
  <2>4. F(0 + 1) = f[0 + 1] + F(0)
    BY <2>3, SumNext
  <2> QED BY <2>2, <2>3, <2>4
<1>2. ASSUME NEW n \in Nat, n \in B PROVE n + 1 \in B
  <2> SUFFICES ASSUME n + 1 <= N PROVE F((n + 1) + 1) = f[1] + G(n + 1)
    OBVIOUS
  <2>1. F(n + 1) = f[1] + G(n)
    BY <1>2
  <2>2. \A m \in 1..((n + 1) + 1) : f[m] \in Int
    OBVIOUS
  <2>3. F((n + 1) + 1) = f[(n + 1) + 1] + F(n + 1)
    BY <2>2, SumNext
  <2>4. \A m \in 1..(n + 1) : g[m] \in Int
    <3>1. \A m \in 1..(n + 1) : m \in 1..N /\ m + 1 \in 1..(N + 1)
      OBVIOUS
    <3> QED BY <3>1
  <2>5. G(n + 1) = g[n + 1] + G(n) /\ G(n) \in Int
    BY <2>4, SumNext
  <2>6. g[n + 1] = f[(n + 1) + 1] /\ g[n + 1] \in Int
    BY <2>4
  <2>7. f[1] \in Int
    OBVIOUS
  <2> DEFINE a == f[(n + 1) + 1]
             b == G(n)
             c == F((n + 1) + 1)
             d == G(n + 1)
             e == F(n + 1)
  <2>8. e = f[1] + b /\ c = a + e /\ d = a + b /\ a \in Int /\ b \in Int
    BY <2>1, <2>3, <2>5, <2>6
  <2>9. c = f[1] + d
    <3> HIDE DEF a, b, c, d, e
    <3> QED BY <2>7, <2>8
  <2> QED BY <2>9
<1>3. Nat \subseteq B
  <2> HIDE DEF B
  <2> QED BY <1>1, <1>2, NatSetInduction
<1>4. \A n \in 1..N : g[n] \in Int
  <2>1. \A m \in 1..N : m + 1 \in 1..(N + 1)
    OBVIOUS
  <2> QED BY <2>1
<1>5. Summable(f, 1..(N + 1)) /\ Summable(g, 1..N)
  BY <1>4, FS_Interval DEF Summable
<1>6. F(N + 1) = f[1] + G(N)
  <2>1. N \in B
    BY <1>3
  <2> QED BY <2>1
<1> QED BY <1>5, <1>6

(* A nonempty set of natural numbers has a least element. *)
LEMMA LeastExists ==
  ASSUME NEW S \in SUBSET Nat, S # {}
  PROVE  \E n \in S : \A m \in S : n <= m
<1> SUFFICES ASSUME \A n \in S : \E m \in S : m < n PROVE FALSE
  OBVIOUS
<1> DEFINE B == {n \in Nat : \A m \in 0..n : m \notin S}
<1>1. 0 \in B
  OBVIOUS
<1>2. ASSUME NEW n \in Nat, n \in B PROVE n + 1 \in B
  <2>1. \A m \in 0..(n + 1) : m = n + 1 \/ m \in 0..n
    OBVIOUS
  <2>2. n + 1 \notin S
    <3> SUFFICES ASSUME n + 1 \in S PROVE FALSE
      OBVIOUS
    <3>1. PICK m \in S : m < n + 1
      OBVIOUS
    <3>2. m \in 0..n
      BY <3>1
    <3> QED BY <3>2, <1>2
  <2> QED BY <2>1, <2>2, <1>2
<1>3. Nat \subseteq B
  <2> HIDE DEF B
  <2> QED BY <1>1, <1>2, NatSetInduction
<1>4. \A n \in Nat : n \in 0..n
  OBVIOUS
<1> QED BY <1>3, <1>4

(* What a change of one value does to a sum. *)
LEMMA SumChanged ==
  ASSUME NEW f, NEW g, NEW S, Summable(f, S), NEW x \in S, g[x] \in Int,
         \A y \in S \ {x} : f[y] = g[y]
  PROVE  /\ Summable(g, S) /\ f[x] \in Int
         /\ SumFunctionOnSet(f, S) \in Int /\ SumFunctionOnSet(g, S) \in Int
         /\ SumFunctionOnSet(g, S) = SumFunctionOnSet(f, S) + (g[x] - f[x])
<1>1. Summable(g, S) /\ f[x] \in Int
  BY DEF Summable
<1>2. Summable(f, S \ {x})
  BY SummablePart
<1> DEFINE rest == SumFunctionOnSet(f, S \ {x})
           F == SumFunctionOnSet(f, S)
           G == SumFunctionOnSet(g, S)
<1>3. F = f[x] + rest
  BY SumSplit
<1>4. SumFunctionOnSet(g, S) = g[x] + SumFunctionOnSet(g, S \ {x})
  BY <1>1, SumSplit
<1>5. SumFunctionOnSet(g, S \ {x}) = rest
  BY <1>2, SumSame
<1>6. rest \in Int
  BY <1>2, SumType
<1>7. G = g[x] + rest
  BY <1>4, <1>5
<1>8. F \in Int /\ G \in Int /\ G = F + (g[x] - f[x])
  <2> HIDE DEF rest, F, G
  <2> QED BY <1>1, <1>3, <1>6, <1>7
<1> QED BY <1>1, <1>8

(* Sums add up. *)
LEMMA SumPlus ==
  ASSUME NEW f, NEW g, NEW h, NEW S, Summable(f, S), Summable(g, S), \A x \in S : h[x] = f[x] + g[x]
  PROVE  /\ Summable(h, S)
         /\ SumFunctionOnSet(h, S) = SumFunctionOnSet(f, S) + SumFunctionOnSet(g, S)
<1> DEFINE F(T) == SumFunctionOnSet(f, T)
           G(T) == SumFunctionOnSet(g, T)
           H(T) == SumFunctionOnSet(h, T)
           B == {T \in SUBSET S : H(T) = F(T) + G(T)}
<1>1. Summable(h, S)
  BY DEF Summable
<1>2. ASSUME NEW T \in SUBSET S, \A R \in SUBSET T : R # T => R \in B
      PROVE  T \in B
  <2>1. CASE T = {}
    BY <2>1, SumEmpty
  <2>2. CASE T # {}
    <3> DEFINE c == Some(T)
               fr == F(T \ {c})
               gr == G(T \ {c})
               hr == H(T \ {c})
    <3>1. c \in T
      BY <2>2 DEF Some
    <3>2. T \ {c} \in B /\ h[c] = f[c] + g[c] /\ f[c] \in Int /\ g[c] \in Int
      BY <1>2, <3>1 DEF Summable
    <3> HIDE DEF c
    <3>3. Summable(f, T) /\ Summable(g, T) /\ Summable(h, T)
          /\ Summable(f, T \ {c}) /\ Summable(g, T \ {c})
      BY <1>1, SummablePart
    <3>4. F(T) = f[c] + fr
      BY <3>1, <3>3, SumSplit
    <3>5. G(T) = g[c] + gr
      BY <3>1, <3>3, SumSplit
    <3>6. H(T) = h[c] + hr
      BY <1>1, <3>1, <3>3, SumSplit
    <3>7. fr \in Int
      BY <3>3, SumType
    <3>8. gr \in Int
      BY <3>3, SumType
    <3>9. hr = fr + gr
      BY <3>2
    <3>10. H(T) = F(T) + G(T)
      <4> HIDE DEF fr, gr, hr, F, G, H
      <4> QED BY <3>2, <3>4, <3>5, <3>6, <3>7, <3>8, <3>9
    <3> QED BY <3>10
  <2> QED BY <2>1, <2>2
<1>3. SUBSET S \subseteq B
  <2> HIDE DEF B
  <2> QED BY <1>2, FiniteSetInduction DEF Summable
<1> QED BY <1>1, <1>3

(* Of natural numbers a part adds up to no more than the whole. *)
LEMMA SumPart ==
  ASSUME NEW f, NEW S, IsFiniteSet(S), \A x \in S : f[x] \in Nat, NEW T \in SUBSET S
  PROVE  /\ Summable(f, S) /\ Summable(f, T)
         /\ SumFunctionOnSet(f, T) \in Nat /\ SumFunctionOnSet(f, S) \in Nat
         /\ SumFunctionOnSet(f, T) <= SumFunctionOnSet(f, S)
<1> DEFINE g == [x \in S |-> IF x \in T THEN f[x] ELSE 0]
           r == [x \in S |-> IF x \in T THEN 0 ELSE f[x]]
           B == {R \in SUBSET S : SumFunctionOnSet(g, R) = SumFunctionOnSet(f, R \cap T)}
<1>1. Summable(f, S) /\ Summable(g, S) /\ Summable(r, S) /\ Summable(f, T) /\ IsFiniteSet(T)
  BY FS_Subset DEF Summable
<1>2. \A x \in S : f[x] = g[x] + r[x]
  OBVIOUS
<1>3. SumFunctionOnSet(f, S) = SumFunctionOnSet(g, S) + SumFunctionOnSet(r, S)
  <2> HIDE DEF g, r
  <2> QED BY <1>1, <1>2, SumPlus
<1>4. SumFunctionOnSet(r, S) \in Nat
  <2>1. \A x \in S : r[x] \in Nat
    OBVIOUS
  <2> HIDE DEF r
  <2> QED BY <2>1, SumNat
<1>5. ASSUME NEW R \in SUBSET S, \A Q \in SUBSET R : Q # R => Q \in B
      PROVE  R \in B
  <2>1. CASE R = {}
    BY <2>1, SumEmpty
  <2>2. CASE R # {}
    <3> DEFINE c == Some(R)
    <3>1. c \in R
      BY <2>2 DEF Some
    <3> HIDE DEF c
    <3>2. R \ {c} \in B /\ Summable(g, R)
      BY <1>1, <1>5, <3>1, SummablePart
    <3>3. SumFunctionOnSet(g, R) = g[c] + SumFunctionOnSet(g, R \ {c})
      <4> HIDE DEF g, B
      <4> QED BY <3>1, <3>2, SumSplit
    <3>4. SumFunctionOnSet(g, R \ {c}) = SumFunctionOnSet(f, (R \ {c}) \cap T)
      BY <3>2
    <3>5. CASE c \in T
      <4>1. (R \ {c}) \cap T = (R \cap T) \ {c} /\ c \in R \cap T /\ g[c] = f[c] /\ R \cap T \in SUBSET S
        BY <3>1, <3>5
      <4>2. Summable(f, R \cap T)
        BY <1>1, SummablePart
      <4>3. SumFunctionOnSet(f, R \cap T) = f[c] + SumFunctionOnSet(f, (R \cap T) \ {c})
        BY <4>1, <4>2, SumSplit
      <4> QED BY <3>3, <3>4, <4>1, <4>3
    <3>6. CASE c \notin T
      <4>1. (R \ {c}) \cap T = R \cap T /\ g[c] = 0 /\ R \cap T \in SUBSET S
        BY <3>1, <3>6
      <4>2. Summable(f, R \cap T)
        BY <1>1, SummablePart
      <4>3. SumFunctionOnSet(f, R \cap T) \in Int
        BY <4>2, SumType
      <4>4. SumFunctionOnSet(g, R) = 0 + SumFunctionOnSet(f, R \cap T)
        BY <3>3, <3>4, <4>1
      <4>5. SumFunctionOnSet(g, R) = SumFunctionOnSet(f, R \cap T)
        <5> HIDE DEF g
        <5> QED BY <4>3, <4>4
      <4> QED BY <4>5
    <3> QED BY <3>5, <3>6
  <2> QED BY <2>1, <2>2
<1>6. SUBSET S \subseteq B
  <2> HIDE DEF B
  <2> QED BY <1>5, FiniteSetInduction
<1>7. S \in B /\ S \cap T = T
  BY <1>6
<1>8. SumFunctionOnSet(g, S) = SumFunctionOnSet(f, T)
  BY <1>7
<1>9. SumFunctionOnSet(f, T) \in Nat
  BY <1>1, SumNat
<1> DEFINE a == SumFunctionOnSet(f, T)
           b == SumFunctionOnSet(f, S)
           d == SumFunctionOnSet(r, S)
<1>10. b = a + d /\ a \in Nat /\ d \in Nat
  BY <1>3, <1>4, <1>8, <1>9
<1>11. b \in Nat /\ a <= b
  <2> HIDE DEF a, b, d
  <2> QED BY <1>10
<1> QED BY <1>1, <1>9, <1>11

(* A sum may be taken group by group. *)
LEMMA SumByGroup ==
  ASSUME NEW f, NEW S, Summable(f, S), NEW G, IsFiniteSet(G), NEW g, \A x \in S : g[x] \in G
  PROVE  SumFunctionOnSet(f, S)
           = SumFunctionOnSet([s \in G |-> SumFunctionOnSet(f, {x \in S : g[x] = s})], G)
<1> DEFINE Part(T, s) == {x \in T : g[x] = s}
           By(T) == [s \in G |-> SumFunctionOnSet(f, Part(T, s))]
           B == {T \in SUBSET S : SumFunctionOnSet(f, T) = SumFunctionOnSet(By(T), G)}
<1>1. ASSUME NEW T \in SUBSET S PROVE Summable(By(T), G)
  <2>1. ASSUME NEW s \in G PROVE By(T)[s] \in Int
    <3>1. Part(T, s) \in SUBSET S
      OBVIOUS
    <3>2. Summable(f, Part(T, s))
      <4> HIDE DEF Part
      <4> QED BY <3>1, SummablePart
    <3> QED BY <3>2, SumType
  <2> HIDE DEF By
  <2> QED BY <2>1 DEF Summable
<1>2. ASSUME NEW T \in SUBSET S, \A R \in SUBSET T : R # T => R \in B
      PROVE  T \in B
  <2>1. CASE T = {}
    <3>1. \A s \in G : Part(T, s) = {}
      BY <2>1
    <3>2. \A s \in G : By(T)[s] = 0
      BY <3>1, SumEmpty
    <3>3. SumFunctionOnSet(By(T), G) = 0
      <4> HIDE DEF By
      <4> QED BY <3>2, SumZero
    <3> QED BY <2>1, <3>3, SumEmpty
  <2>2. CASE T # {}
    <3> DEFINE c == Some(T)
               R == T \ {c}
               p == By(T)
               q == By(R)
    <3>1. c \in T
      BY <2>2 DEF Some
    <3> HIDE DEF c
    <3>2. R \in B /\ Summable(f, T) /\ R \in SUBSET S /\ g[c] \in G /\ f[c] \in Int
      BY <1>2, <3>1, SummablePart DEF Summable
    <3>3. SumFunctionOnSet(f, T) = f[c] + SumFunctionOnSet(f, R)
      BY <3>1, <3>2, SumSplit
    <3>4. \A s \in G \ {g[c]} : q[s] = p[s]
      <4>1. \A s \in G \ {g[c]} : Part(T, s) = Part(R, s)
        OBVIOUS
      <4> QED BY <4>1
    <3>5. p[g[c]] = f[c] + q[g[c]] /\ p[g[c]] \in Int /\ q[g[c]] \in Int
      <4>1. c \in Part(T, g[c]) /\ Part(T, g[c]) \ {c} = Part(R, g[c]) /\ Part(T, g[c]) \in SUBSET S
        BY <3>1
      <4>2. Summable(f, Part(T, g[c])) /\ Summable(f, Part(R, g[c]))
        <5> HIDE DEF Part
        <5> QED BY <4>1, SummablePart
      <4>3. SumFunctionOnSet(f, Part(T, g[c])) = f[c] + SumFunctionOnSet(f, Part(R, g[c]))
        <5> HIDE DEF Part
        <5> QED BY <4>1, <4>2, SumSplit
      <4>4. SumFunctionOnSet(f, Part(T, g[c])) \in Int /\ SumFunctionOnSet(f, Part(R, g[c])) \in Int
        <5> HIDE DEF Part
        <5> QED BY <4>2, SumType
      <4> QED BY <3>2, <4>3, <4>4
    <3>6. Summable(q, G)
      BY <1>1, <3>2
    <3>7. SumFunctionOnSet(q, G) \in Int
          /\ SumFunctionOnSet(p, G) = SumFunctionOnSet(q, G) + (p[g[c]] - q[g[c]])
      <4>1. PICK s \in G : s = g[c]
        BY <3>2
      <4>2. p[s] \in Int /\ \A y \in G \ {s} : q[y] = p[y]
        BY <3>4, <3>5, <4>1
      <4>3. /\ SumFunctionOnSet(q, G) \in Int
            /\ SumFunctionOnSet(p, G) = SumFunctionOnSet(q, G) + (p[s] - q[s])
        <5> HIDE DEF p, q
        <5> QED BY <3>6, <4>2, SumChanged
      <4> QED BY <4>1, <4>3
    <3>8. SumFunctionOnSet(f, R) = SumFunctionOnSet(q, G)
      BY <3>2
    <3>9. SumFunctionOnSet(f, T) = SumFunctionOnSet(p, G)
      <4> HIDE DEF p, q, R
      <4> QED BY <3>2, <3>3, <3>5, <3>7, <3>8
    <3> QED BY <3>9
  <2> QED BY <2>1, <2>2
<1>3. SUBSET S \subseteq B
  <2> HIDE DEF B
  <2> QED BY <1>2, FiniteSetInduction DEF Summable
<1> QED BY <1>3

-----------------------------------------------------------------------------
(* Recursion over the subsets of a finite set D: a value for the empty set *)
(* and a step that adds the last element of a set.                         *)
Recurs(base, last, step, D, g) ==
  g = [T \in SUBSET D |->
         IF T = {} THEN base ELSE step[<<g[T \ {last[T]}], last[T]>>]]

Recursed(base, last, step, D) == (CHOOSE g : Recurs(base, last, step, D, g))[D]

(* The values exist, and they are of the kind the step keeps.              *)
LEMMA SetRecursion ==
  ASSUME NEW D, IsFiniteSet(D), NEW V, NEW base \in V,
         NEW last, \A T \in SUBSET D : T # {} => last[T] \in T,
         NEW step, \A v \in V, x \in D : step[<<v, x>>] \in V
  PROVE  \E g \in [SUBSET D -> V] : Recurs(base, last, step, D, g)
<1> DEFINE Val(T) == Recursed(base, last, step, T)
           Rest(T) == T \ {last[T]}
           New(T) == IF T = {} THEN base ELSE step[<<Val(Rest(T)), last[T]>>]
           B == {T \in SUBSET D : Val(T) \in V /\ Val(T) = New(T)}
<1>1. ASSUME NEW T \in SUBSET D, \A R \in SUBSET T : R # T => R \in B
      PROVE  T \in B
  <2> DEFINE h == [R \in SUBSET T |-> IF R = T THEN New(T) ELSE Val(R)]
  <2>0. \A R \in SUBSET T : R # {} => last[R] \in R /\ Rest(R) \in SUBSET T /\ Rest(R) \in SUBSET R /\ Rest(R) # R /\ Rest(R) # T
    OBVIOUS
  <2>1. Recurs(base, last, step, T, h)
    <3>1. \A R \in SUBSET T : h[R] = IF R = {} THEN base ELSE step[<<h[Rest(R)], last[R]>>]
      <4> SUFFICES ASSUME NEW R \in SUBSET T
                   PROVE  h[R] = IF R = {} THEN base ELSE step[<<h[Rest(R)], last[R]>>]
        OBVIOUS
      <4>1. R # {} => h[Rest(R)] = Val(Rest(R))
        <5> HIDE DEF Val, Rest, New
        <5> QED BY <2>0
      <4>2. CASE R = T
        <5>1. h[R] = New(R)
          BY <4>2
        <5> QED BY <5>1, <4>1
      <4>3. CASE R # T
        <5>1. h[R] = Val(R) /\ R \in B
          BY <4>3, <1>1
        <5>2. Val(R) = New(R)
          BY <5>1
        <5> QED BY <5>1, <5>2, <4>1
      <4> QED BY <4>2, <4>3
    <3>2. h = [R \in SUBSET T |-> h[R]]
      OBVIOUS
    <3>3. [R \in SUBSET T |-> h[R]]
            = [R \in SUBSET T |-> IF R = {} THEN base ELSE step[<<h[Rest(R)], last[R]>>]]
      <4> HIDE DEF h, Rest
      <4> QED BY <3>1
    <3> QED BY <3>2, <3>3 DEF Recurs
  <2> DEFINE g == CHOOSE g : Recurs(base, last, step, T, g)
  <2>2. Recurs(base, last, step, T, g) /\ Val(T) = g[T]
    BY <2>1 DEF Recursed
  <2> HIDE DEF g, h
  <2>3. \A R \in SUBSET T : g[R] = IF R = {} THEN base ELSE step[<<g[Rest(R)], last[R]>>]
    BY <2>2 DEF Recurs
  <2> DEFINE C == {R \in SUBSET T : R # T => g[R] = Val(R)}
  <2>4. ASSUME NEW R \in SUBSET T, \A Q \in SUBSET R : Q # R => Q \in C
        PROVE  R \in C
    <3> SUFFICES ASSUME R # T PROVE g[R] = Val(R)
      OBVIOUS
    <3>1. Val(R) = New(R)
      BY <1>1
    <3>2. R # {} => g[Rest(R)] = Val(Rest(R))
      <4> SUFFICES ASSUME R # {} PROVE g[Rest(R)] = Val(Rest(R))
        OBVIOUS
      <4> HIDE DEF Val, Rest
      <4> QED BY <2>4, <2>0
    <3> QED BY <3>1, <3>2, <2>3
  <2>5. IsFiniteSet(T)
    BY FS_Subset
  <2>6. SUBSET T \subseteq C
    <3> HIDE DEF C
    <3> QED BY <2>4, <2>5, FiniteSetInduction
  <2>7. T # {} => g[Rest(T)] = Val(Rest(T)) /\ Val(Rest(T)) \in V /\ last[T] \in D
    <3> SUFFICES ASSUME T # {}
                 PROVE  g[Rest(T)] = Val(Rest(T)) /\ Val(Rest(T)) \in V /\ last[T] \in D
      OBVIOUS
    <3>1. Rest(T) \in SUBSET T /\ Rest(T) # T /\ last[T] \in T
      BY <2>0
    <3>2. Rest(T) \in C /\ Rest(T) \in B
      BY <3>1, <2>6, <1>1
    <3> QED BY <3>1, <3>2
  <2>9. Val(T) = New(T)
    <3>1. T \in SUBSET T
      OBVIOUS
    <3>2. g[T] = IF T = {} THEN base ELSE step[<<g[Rest(T)], last[T]>>]
      BY <2>3, <3>1
    <3> HIDE DEF Val, Rest
    <3> QED BY <2>2, <3>2, <2>7
  <2>10. New(T) \in V
    <3> HIDE DEF Val, Rest
    <3> QED BY <2>7
  <2> QED BY <2>9, <2>10
<1>2. SUBSET D \subseteq B
  <2> HIDE DEF B
  <2> QED BY <1>1, FiniteSetInduction
<1> DEFINE g == [T \in SUBSET D |-> Val(T)]
<1>3. g \in [SUBSET D -> V]
  <2>1. \A T \in SUBSET D : Val(T) \in V
    BY <1>2
  <2> HIDE DEF Val
  <2> QED BY <2>1
<1>4. \A T \in SUBSET D : g[T] = IF T = {} THEN base ELSE step[<<g[Rest(T)], last[T]>>]
  <2> SUFFICES ASSUME NEW T \in SUBSET D
               PROVE  g[T] = IF T = {} THEN base ELSE step[<<g[Rest(T)], last[T]>>]
    OBVIOUS
  <2>1. Val(T) = New(T)
    BY <1>2
  <2>2. Rest(T) \in SUBSET D
    OBVIOUS
  <2> HIDE DEF Val, Rest
  <2> QED BY <2>1, <2>2
<1>5. Recurs(base, last, step, D, g)
  <2>1. g = [T \in SUBSET D |-> g[T]]
    OBVIOUS
  <2>2. [T \in SUBSET D |-> g[T]]
          = [T \in SUBSET D |-> IF T = {} THEN base ELSE step[<<g[Rest(T)], last[T]>>]]
    <3> HIDE DEF g, Rest
    <3> QED BY <1>4
  <2> QED BY <2>1, <2>2 DEF Recurs
<1> QED BY <1>3, <1>5

(* Taking a need from places of different rank, the first ranks first and  *)
(* of each as much as is still needed, takes the need exactly, or all      *)
(* there is when that is less.                                             *)
Lesser(a, b) == IF a < b THEN a ELSE b

TakenFirst(open, rank, S, need, p) ==
  LET before == SumFunctionOnSet(open, {r \in S : rank[r] < rank[p]})
  IN  IF need > before THEN Lesser(open[p], need - before) ELSE 0

(* What is taken adds up to the lesser of the need and all there is.       *)
LEMMA TakingInOrder ==
  ASSUME NEW S, IsFiniteSet(S), NEW open, \A p \in S : open[p] \in Nat,
         NEW rank, \A p \in S : rank[p] \in Nat, \A p, r \in S : rank[p] = rank[r] => p = r,
         NEW need \in Nat, NEW share, \A p \in S : share[p] = TakenFirst(open, rank, S, need, p)
  PROVE  /\ \A p \in S : share[p] \in Nat /\ share[p] <= open[p]
         /\ SumFunctionOnSet(share, S) = Lesser(need, SumFunctionOnSet(open, S))
<1> DEFINE T(n) == {r \in S : rank[r] < n}
           Open(n) == SumFunctionOnSet(open, T(n))
           Share(n) == SumFunctionOnSet(share, T(n))
           B == {n \in Nat : Share(n) = Lesser(need, Open(n))}
<1>1. \A n : T(n) \in SUBSET S /\ IsFiniteSet(T(n)) /\ Summable(open, T(n)) /\ Open(n) \in Nat
  <2> SUFFICES ASSUME NEW n PROVE T(n) \in SUBSET S /\ IsFiniteSet(T(n)) /\ Summable(open, T(n)) /\ Open(n) \in Nat
    OBVIOUS
  <2>1. T(n) \in SUBSET S /\ IsFiniteSet(T(n))
    BY FS_Subset
  <2>2. \A x \in T(n) : open[x] \in Nat
    OBVIOUS
  <2> HIDE DEF T
  <2> QED BY <2>1, <2>2, SumNat DEF Summable
<1>2. \A p \in S : share[p] \in Nat /\ share[p] <= open[p]
  <2> SUFFICES ASSUME NEW p \in S PROVE share[p] \in Nat /\ share[p] <= open[p]
    OBVIOUS
  <2> DEFINE before == Open(rank[p])
  <2>1. before \in Nat
    BY <1>1
  <2>2. share[p] = IF need > before THEN Lesser(open[p], need - before) ELSE 0
    BY DEF TakenFirst
  <2> HIDE DEF before
  <2> QED BY <2>1, <2>2 DEF Lesser
<1>3. \A n : Summable(share, T(n))
  BY <1>1, <1>2 DEF Summable
<1>4. 0 \in B
  <2>1. T(0) = {}
    OBVIOUS
  <2>2. Share(0) = 0 /\ Open(0) = 0
    <3> HIDE DEF T
    <3> QED BY <2>1, SumEmpty
  <2> HIDE DEF Share, Open
  <2> QED BY <2>2 DEF Lesser
<1>5. ASSUME NEW n \in Nat, n \in B PROVE n + 1 \in B
  <2>0. Open(n) \in Nat /\ Share(n) = Lesser(need, Open(n))
    BY <1>1, <1>5
  <2>1. CASE \E p \in S : rank[p] = n
    <3>1. PICK p \in S : rank[p] = n
      BY <2>1
    <3>2. p \notin T(n)
      BY <3>1
    <3>3. T(n + 1) = T(n) \cup {p}
      <4>1. \A r \in S : rank[r] < n + 1 <=> rank[r] < n \/ r = p
        BY <3>1
      <4> QED BY <4>1
    <3>4. open[p] \in Nat /\ share[p] \in Nat
      BY <1>2
    <3>5. Open(n + 1) = open[p] + Open(n)
      <4>1. SumFunctionOnSet(open, T(n) \cup {p}) = open[p] + SumFunctionOnSet(open, T(n))
        <5> HIDE DEF T
        <5> QED BY <1>1, <3>2, <3>4, SumAdd
      <4> QED BY <4>1, <3>3
    <3>6. Share(n + 1) = share[p] + Share(n)
      <4>1. SumFunctionOnSet(share, T(n) \cup {p}) = share[p] + SumFunctionOnSet(share, T(n))
        <5> HIDE DEF T
        <5>1. Summable(share, T(n)) /\ share[p] \in Int
          BY <1>3, <3>4
        <5> QED BY <5>1, <3>2, SumAdd, Zenon
      <4> QED BY <4>1, <3>3
    <3>7. share[p] = IF need > Open(n) THEN Lesser(open[p], need - Open(n)) ELSE 0
      BY <3>1 DEF TakenFirst
    <3> HIDE DEF Open, Share
    <3> QED BY <2>0, <3>4, <3>5, <3>6, <3>7 DEF Lesser
  <2>2. CASE ~\E p \in S : rank[p] = n
    <3>1. T(n + 1) = T(n)
      <4>1. \A r \in S : rank[r] < n + 1 <=> rank[r] < n
        BY <2>2
      <4> QED BY <4>1
    <3> HIDE DEF T
    <3> QED BY <3>1, <2>0
  <2> QED BY <2>1, <2>2
<1>6. Nat \subseteq B
  <2> HIDE DEF B
  <2> QED BY <1>4, <1>5, NatSetInduction
<1> DEFINE top == SumFunctionOnSet(rank, S) + 1
<1>7. top \in Nat /\ T(top) = S
  <2>1. SumFunctionOnSet(rank, S) \in Nat /\ \A x \in S : rank[x] <= SumFunctionOnSet(rank, S)
    BY SumNat
  <2> QED BY <2>1
<1>8. Share(top) = Lesser(need, Open(top))
  BY <1>6, <1>7
<1>9. SumFunctionOnSet(share, S) = Lesser(need, SumFunctionOnSet(open, S))
  <2> HIDE DEF T, top
  <2> QED BY <1>7, <1>8
<1> QED BY <1>2, <1>9

(* Zeros may be left out of a sum.                                         *)
LEMMA SumSupport ==
  ASSUME NEW f, NEW S, Summable(f, S), NEW T \in SUBSET S, \A x \in S \ T : f[x] = 0
  PROVE  SumFunctionOnSet(f, S) = SumFunctionOnSet(f, T)
<1> DEFINE F(R) == SumFunctionOnSet(f, R)
           B == {R \in SUBSET S : F(R) = F(R \cap T)}
<1>1. ASSUME NEW R \in SUBSET S, \A Q \in SUBSET R : Q # R => Q \in B
      PROVE  R \in B
  <2>1. CASE R = {}
    <3>1. R \cap T = R
      BY <2>1
    <3> QED BY <3>1
  <2>2. CASE R # {}
    <3>1. PICK x \in R : TRUE
      BY <2>2
    <3>2. R \ {x} \in B
      <4>1. R \ {x} \in SUBSET R /\ R \ {x} # R
        BY <3>1
      <4> QED BY <4>1, <1>1
    <3>3. Summable(f, R) /\ Summable(f, R \cap T)
      BY SummablePart
    <3>4. F(R) = f[x] + F(R \ {x}) /\ F(R \ {x}) = F((R \ {x}) \cap T)
      BY <3>1, <3>2, <3>3, SumSplit
    <3>5. CASE x \in T
      <4>1. x \in R \cap T /\ (R \cap T) \ {x} = (R \ {x}) \cap T
        BY <3>1, <3>5
      <4>2. F(R \cap T) = f[x] + F((R \cap T) \ {x})
        <5> HIDE DEF B
        <5> QED BY <3>3, <4>1, SumSplit
      <4> QED BY <3>4, <4>1, <4>2
    <3>6. CASE x \notin T
      <4>1. R \cap T = (R \ {x}) \cap T /\ f[x] = 0
        BY <3>1, <3>6
      <4>2. F((R \ {x}) \cap T) \in Int
        <5> HIDE DEF B
        <5> QED BY <3>3, <4>1, SumType
      <4> HIDE DEF F
      <4>3. F(R) = F((R \ {x}) \cap T)
        BY <3>4, <4>1, <4>2
      <4> QED BY <4>1, <4>3
    <3> QED BY <3>5, <3>6
  <2> QED BY <2>1, <2>2
<1>2. SUBSET S \subseteq B
  <2> HIDE DEF B
  <2> QED BY <1>1, FiniteSetInduction DEF Summable
<1>3. S \cap T = T /\ S \in B
  BY <1>2
<1> QED BY <1>3
=============================================================================
