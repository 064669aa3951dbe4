--------------------------- MODULE SequenceLemmas ---------------------------
(***************************************************************************)
(* Lemmas about data that the proofs of several components rest on:        *)
(* induction on the natural numbers, the smallest and largest number of a  *)
(* set, and the concatenation of a sequence of sequences.                  *)
(*                                                                         *)
(* Induction is stated for a set of numbers: the set of those for which    *)
(* something holds.  It follows from the well-foundedness of <.            *)
(***************************************************************************)
EXTENDS SequencesExt, SequenceTheorems, WellFoundedInduction, TLAPS

Less == {pair \in Nat \X Nat : pair[1] < pair[2]}

LEMMA LessWellFounded == IsWellFoundedOn(Less, Nat)
BY NatLessThanWellFounded DEF OpToRel, Less

\* A nonempty set of numbers has a smallest one.
LEMMA SmallestOf ==
  ASSUME NEW T \in SUBSET Nat, T # {}
  PROVE  \E x \in T : \A y \in T : x <= y
<1>1. PICK x \in T : \A y \in T : ~ (<<y, x>> \in Less)
  BY LessWellFounded, WFMin
<1>2. ASSUME NEW y \in T PROVE x <= y
  <2>1. ~ (<<y, x>> \in Less) /\ x \in Nat /\ y \in Nat
    BY <1>1
  <2> QED
    BY <2>1 DEF Less
<1> QED
  BY <1>2

\* A set of numbers that holds 0 and, with a number, the next one, holds all.
LEMMA Induction ==
  ASSUME NEW S \in SUBSET Nat, 0 \in S, \A n \in S : n + 1 \in S
  PROVE  S = Nat
<1> SUFFICES ASSUME S # Nat PROVE FALSE
  OBVIOUS
<1> DEFINE T == Nat \ S
<1>1. T \in SUBSET Nat /\ T # {}
  OBVIOUS
<1>2. PICK x \in T : \A y \in T : x <= y
  <2> HIDE DEF T
  <2> QED
    BY <1>1, SmallestOf
<1>3. x # 0 /\ x \in Nat /\ x - 1 \in Nat
  OBVIOUS
<1>4. x - 1 \notin T
  BY <1>2, <1>3
<1>5. x - 1 \in S
  BY <1>3, <1>4
<1>6. x - 1 + 1 = x
  BY <1>3
<1> QED
  BY <1>5, <1>6

\* The same up to a bound.
LEMMA InductionUpTo ==
  ASSUME NEW m \in Nat, NEW S, 0 \in S, \A n \in 0 .. m - 1 : n \in S => n + 1 \in S
  PROVE  \A n \in 0 .. m : n \in S
<1> DEFINE T == {n \in Nat : n <= m => n \in S}
<1>1. T \in SUBSET Nat /\ 0 \in T
  OBVIOUS
<1>2. ASSUME NEW n \in T PROVE n + 1 \in T
  <2>1. n \in Nat /\ (n <= m => n \in S)
    OBVIOUS
  <2>2. CASE n + 1 <= m
    <3>1. n \in 0 .. m - 1 /\ n \in S
      BY <2>1, <2>2
    <3> QED
      BY <3>1, <2>1
  <2>3. CASE ~ (n + 1 <= m)
    BY <2>1, <2>3
  <2> QED
    BY <2>2, <2>3
<1>3. T = Nat
  <2> HIDE DEF T
  <2> QED
    BY <1>1, <1>2, Induction
<1> QED
  BY <1>3

-----------------------------------------------------------------------------
\* The smallest and the largest number of a set.
LEMMA MinOf ==
  ASSUME NEW T \in SUBSET Nat, T # {}
  PROVE  Min(T) \in T /\ \A y \in T : Min(T) <= y
BY SmallestOf DEF Min

LEMMA MaxOf ==
  ASSUME NEW n \in Nat, NEW T \in SUBSET (0 .. n), T # {}
  PROVE  Max(T) \in T /\ \A y \in T : Max(T) >= y
<1> DEFINE U == {n - y : y \in T}
<1>1. U \in SUBSET Nat /\ U # {}
  <2>1. \A y \in T : y \in Nat /\ y <= n /\ n - y \in Nat
    OBVIOUS
  <2> QED
    BY <2>1
<1>2. PICK u \in U : \A v \in U : u <= v
  <2> HIDE DEF U
  <2> QED
    BY <1>1, SmallestOf
<1>3. PICK x \in T : u = n - x
  OBVIOUS
<1>4. ASSUME NEW y \in T PROVE x >= y
  <2>1. n - x <= n - y
    BY <1>2, <1>3
  <2> QED
    BY <2>1
<1> QED
  BY <1>4 DEF Max

\* A sequence is the two parts into which it is cut.
LEMMA CutAndJoin ==
  ASSUME NEW S, NEW s \in Seq(S), NEW k \in 0 .. Len(s)
  PROVE  /\ SubSeq(s, 1, k) \in Seq(S)
         /\ SubSeq(s, k + 1, Len(s)) \in Seq(S)
         /\ SubSeq(s, 1, k) \o SubSeq(s, k + 1, Len(s)) = s
<1> DEFINE a == SubSeq(s, 1, k)
           b == SubSeq(s, k + 1, Len(s))
<1>1. /\ a \in Seq(S) /\ Len(a) = k
      /\ b \in Seq(S) /\ Len(b) = Len(s) - k
      /\ \A i \in 1 .. k : a[i] = s[i]
      /\ \A i \in 1 .. Len(s) - k : b[i] = s[k + i]
  OBVIOUS
<1> HIDE DEF a, b
<1>2. /\ a \o b \in Seq(S) /\ Len(a \o b) = Len(a) + Len(b)
      /\ \A i \in 1 .. Len(a) + Len(b) :
           (a \o b)[i] = IF i <= Len(a) THEN a[i] ELSE b[i - Len(a)]
  BY <1>1, ConcatProperties
<1>3. Len(a \o b) = Len(s) /\ Len(s) \in Nat /\ k \in Nat
  BY <1>1, <1>2
<1>4. ASSUME NEW i \in 1 .. Len(s) PROVE (a \o b)[i] = s[i]
  <2>1. CASE i <= k
    BY <1>1, <1>2, <1>3, <2>1
  <2>2. CASE ~ (i <= k)
    <3>1. i - k \in 1 .. Len(s) - k /\ k + (i - k) = i
      BY <1>3, <2>2
    <3>2. (a \o b)[i] = b[i - k] /\ b[i - k] = s[k + (i - k)]
      BY <1>1, <1>2, <1>3, <2>2, <3>1
    <3> QED
      BY <3>1, <3>2
  <2> QED
    BY <2>1, <2>2
<1>5. a \o b = s
  BY <1>2, <1>3, <1>4, SeqEqual
<1> QED
  BY <1>1, <1>5 DEF a, b

LEMMA JoinAndCut ==
  ASSUME NEW S, NEW a \in Seq(S), NEW b \in Seq(S)
  PROVE  /\ Len(a \o b) \in Nat /\ Len(a) <= Len(a \o b)
         /\ SubSeq(a \o b, 1, Len(a)) = a
         /\ SubSeq(a \o b, Len(a) + 1, Len(a \o b)) = b
<1> DEFINE s == a \o b
           n == Len(a)
           m == Len(b)
<1>1. /\ s \in Seq(S) /\ Len(s) = n + m
      /\ \A i \in 1 .. n + m : s[i] = IF i <= n THEN a[i] ELSE b[i - n]
  BY ConcatProperties
<1>2. n \in Nat /\ m \in Nat
  OBVIOUS
<1> HIDE DEF s
<1>3. SubSeq(s, 1, n) = a
  <2>1. /\ SubSeq(s, 1, n) \in Seq(S) /\ Len(SubSeq(s, 1, n)) = n
        /\ \A i \in 1 .. n : SubSeq(s, 1, n)[i] = s[i]
    BY <1>1, <1>2
  <2>2. \A i \in 1 .. n : s[i] = a[i]
    BY <1>1, <1>2
  <2> QED
    BY <2>1, <2>2, SeqEqual
<1>4. SubSeq(s, n + 1, Len(s)) = b
  <2>1. /\ SubSeq(s, n + 1, n + m) \in Seq(S)
        /\ Len(SubSeq(s, n + 1, n + m)) = m
        /\ \A i \in 1 .. m : SubSeq(s, n + 1, n + m)[i] = s[n + i]
    BY <1>1, <1>2
  <2>2. \A i \in 1 .. m : s[n + i] = b[i]
    <3> SUFFICES ASSUME NEW i \in 1 .. m PROVE s[n + i] = b[i]
      OBVIOUS
    <3>1. n + i \in 1 .. n + m /\ ~ (n + i <= n) /\ n + i - n = i
      BY <1>2
    <3> QED
      BY <1>1, <3>1
  <2> QED
    BY <1>1, <2>1, <2>2, SeqEqual
<1> QED
  BY <1>1, <1>2, <1>3, <1>4 DEF s

-----------------------------------------------------------------------------
(* FlattenSeq: what the function by which it is defined computes.          *)

Joined(s, t) == s \o t

IsFlatten(f, seqs, n) ==
  f = [i \in 1 .. n |-> IF i = 1 THEN seqs[i] ELSE Joined(f[i - 1], seqs[i])]

LEMMA FlattenStep ==
  ASSUME NEW f, NEW seqs, NEW n \in Nat, IsFlatten(f, seqs, n),
         NEW i \in 1 .. n
  PROVE  f[i] = IF i = 1 THEN seqs[i] ELSE Joined(f[i - 1], seqs[i])
<1> DEFINE F(h) == [j \in 1 .. n |-> IF j = 1 THEN seqs[j] ELSE Joined(h[j - 1], seqs[j])]
<1>1. f = F(f)
  BY DEF IsFlatten
<1>2. \A h : F(h)[i] = IF i = 1 THEN seqs[i] ELSE Joined(h[i - 1], seqs[i])
  OBVIOUS
<1> HIDE DEF F
<1> QED
  BY <1>1, <1>2

LEMMA FlattenNext ==
  ASSUME NEW f, NEW seqs, NEW n \in Nat, IsFlatten(f, seqs, n),
         NEW i \in 1 .. n, i # 1
  PROVE  f[i] = Joined(f[i - 1], seqs[i])
<1>1. f[i] = IF i = 1 THEN seqs[i] ELSE Joined(f[i - 1], seqs[i])
  BY FlattenStep
<1> QED
  BY <1>1

LEMMA FlattenExists ==
  ASSUME NEW seqs, NEW m \in Nat
  PROVE  \E f : IsFlatten(f, seqs, m)
<1> DEFINE S == {n \in Nat : \E f : IsFlatten(f, seqs, n)}
<1>1. 0 \in S
  <2>1. IsFlatten([i \in 1 .. 0 |-> {}], seqs, 0)
    BY DEF IsFlatten
  <2> QED
    BY <2>1
<1>2. ASSUME NEW n \in S PROVE n + 1 \in S
  <2>1. n \in Nat
    OBVIOUS
  <2>2. PICK f : IsFlatten(f, seqs, n)
    OBVIOUS
  <2> DEFINE g == [i \in 1 .. n + 1 |->
                     IF i <= n THEN f[i]
                     ELSE IF i = 1 THEN seqs[i] ELSE Joined(f[i - 1], seqs[i])]
  <2>3. IsFlatten(g, seqs, n + 1)
    <3>1. ASSUME NEW i \in 1 .. n + 1
          PROVE  g[i] = IF i = 1 THEN seqs[i] ELSE Joined(g[i - 1], seqs[i])
      <4>1. CASE i = 1
        BY <2>1, <2>2, <4>1, FlattenStep
      <4>2. CASE i # 1
        <5>1. i - 1 \in 1 .. n /\ g[i - 1] = f[i - 1]
          BY <2>1, <4>2
        <5>2. ASSUME i <= n PROVE f[i] = Joined(f[i - 1], seqs[i])
          <6>1. i \in 1 .. n
            BY <2>1, <5>2
          <6> QED
            BY <2>1, <2>2, <4>2, <6>1, FlattenNext
        <5> QED
          BY <5>1, <5>2, <4>2
      <4> QED
        BY <4>1, <4>2
    <3> QED
      BY <3>1 DEF IsFlatten
  <2> QED
    BY <2>1, <2>3
<1>3. S = Nat
  <2>1. S \in SUBSET Nat
    OBVIOUS
  <2> HIDE DEF S
  <2> QED
    BY <1>1, <1>2, <2>1, Induction
<1> QED
  BY <1>3

\* What it gives for k sequences depends on these only.
LEMMA FlattenAgrees ==
  ASSUME NEW f, NEW g, NEW s, NEW t, NEW k \in Nat, NEW n \in Nat, k <= n,
         IsFlatten(f, s, k), IsFlatten(g, t, n),
         \A i \in 1 .. k : s[i] = t[i]
  PROVE  \A i \in 1 .. k : f[i] = g[i]
<1> DEFINE S == {i \in 0 .. k : i > 0 => f[i] = g[i]}
<1>1. 0 \in S
  OBVIOUS
<1>2. ASSUME NEW i \in 0 .. k - 1, i \in S PROVE i + 1 \in S
  <2>1. /\ f[i + 1] = IF i + 1 = 1 THEN s[i + 1] ELSE Joined(f[i + 1 - 1], s[i + 1])
        /\ g[i + 1] = IF i + 1 = 1 THEN t[i + 1] ELSE Joined(g[i + 1 - 1], t[i + 1])
    BY FlattenStep, i + 1 \in 1 .. k, i + 1 \in 1 .. n
  <2>2. s[i + 1] = t[i + 1] /\ i + 1 - 1 = i /\ (i + 1 = 1 <=> i = 0)
    OBVIOUS
  <2>3. f[i + 1] = g[i + 1]
    BY <1>2, <2>1, <2>2
  <2> QED
    BY <2>3
<1>3. \A i \in 0 .. k : i \in S
  <2> HIDE DEF S
  <2> QED
    BY <1>1, <1>2, InductionUpTo
<1> QED
  BY <1>3

LEMMA FlattenValue ==
  ASSUME NEW seqs, Len(seqs) \in Nat, Len(seqs) # 0, NEW f,
         IsFlatten(f, seqs, Len(seqs))
  PROVE  FlattenSeq(seqs) = f[Len(seqs)]
<1> DEFINE g == CHOOSE h : IsFlatten(h, seqs, Len(seqs))
<1>1. IsFlatten(g, seqs, Len(seqs))
  OBVIOUS
<1>2. FlattenSeq(seqs) = g[Len(seqs)]
  BY DEF FlattenSeq, IsFlatten, Joined
<1>3. \A i \in 1 .. Len(seqs) : f[i] = g[i]
  <2> HIDE DEF g
  <2>1. Len(seqs) <= Len(seqs) /\ \A i \in 1 .. Len(seqs) : seqs[i] = seqs[i]
    OBVIOUS
  <2> QED
    BY <1>1, <2>1, FlattenAgrees
<1> QED
  BY <1>2, <1>3

LEMMA FlattenEmpty == FlattenSeq(<<>>) = <<>>
BY DEF FlattenSeq

LEMMA FlattenAppend ==
  ASSUME NEW S, NEW seqs \in Seq(Seq(S)), NEW x \in Seq(S)
  PROVE  FlattenSeq(Append(seqs, x)) = FlattenSeq(seqs) \o x
<1> DEFINE n == Len(seqs)
           t == Append(seqs, x)
<1>1. /\ n \in Nat /\ n + 1 \in Nat
      /\ t \in Seq(Seq(S)) /\ Len(t) = n + 1 /\ t[n + 1] = x
      /\ \A i \in 1 .. n : t[i] = seqs[i]
  OBVIOUS
<1> HIDE DEF n, t
<1>2. PICK g : IsFlatten(g, t, n + 1)
  BY <1>1, FlattenExists
<1>3. FlattenSeq(t) = g[n + 1]
  BY <1>1, <1>2, FlattenValue
<1>4. g[n + 1] = IF n = 0 THEN x ELSE Joined(g[n], x)
  <2>1. n + 1 \in 1 .. n + 1 /\ (n + 1 = 1 <=> n = 0) /\ n + 1 - 1 = n
    BY <1>1
  <2>2. g[n + 1] = IF n + 1 = 1 THEN t[n + 1] ELSE Joined(g[n + 1 - 1], t[n + 1])
    BY <1>1, <1>2, <2>1, FlattenStep
  <2> QED
    BY <1>1, <2>1, <2>2
<1>5. CASE n = 0
  <2>1. seqs = <<>>
    BY <1>5 DEF n
  <2> QED
    BY <1>3, <1>4, <1>5, <2>1, FlattenEmpty DEF t
<1>6. CASE n # 0
  <2>1. PICK f : IsFlatten(f, seqs, n)
    BY <1>1, FlattenExists
  <2>2. \A i \in 1 .. n : f[i] = g[i]
    <3>1. n \in Nat /\ n + 1 \in Nat /\ n <= n + 1
      BY <1>1
    <3>2. \A i \in 1 .. n : seqs[i] = t[i]
      BY <1>1
    <3> DEFINE m == n + 1
    <3>3. n \in Nat /\ m \in Nat /\ n <= m /\ IsFlatten(g, t, m)
      BY <1>2, <3>1
    <3> HIDE DEF m
    <3> QED
      BY <2>1, <3>2, <3>3, FlattenAgrees
  <2>3. FlattenSeq(seqs) = f[n]
    BY <1>1, <1>6, <2>1, FlattenValue DEF n
  <2>4. n \in 1 .. n
    BY <1>1, <1>6
  <2> QED
    BY <1>3, <1>4, <1>6, <2>2, <2>3, <2>4 DEF t, Joined
<1> QED
  BY <1>5, <1>6

LEMMA FlattenType ==
  ASSUME NEW S, NEW seqs \in Seq(Seq(S))
  PROVE  FlattenSeq(seqs) \in Seq(S)
<1> DEFINE n == Len(seqs)
<1>1. n \in Nat /\ \A i \in 1 .. n : seqs[i] \in Seq(S)
  OBVIOUS
<1>2. CASE n = 0
  <2>1. seqs = <<>>
    BY <1>2
  <2> QED
    BY <2>1, FlattenEmpty, EmptySeq
<1>3. CASE n # 0
  <2>1. PICK f : IsFlatten(f, seqs, n)
    BY <1>1, FlattenExists
  <2>2. FlattenSeq(seqs) = f[n]
    BY <1>1, <1>3, <2>1, FlattenValue
  <2> HIDE DEF n
  <2> DEFINE T == {i \in 0 .. n : i > 0 => f[i] \in Seq(S)}
  <2>3. 0 \in T
    BY <1>1
  <2>4. ASSUME NEW i \in 0 .. n - 1, i \in T PROVE i + 1 \in T
    <3>1. i + 1 \in 1 .. n /\ (i + 1 = 1 <=> i = 0) /\ i + 1 - 1 = i
      BY <1>1
    <3>2. f[i + 1] = IF i = 0 THEN seqs[i + 1] ELSE Joined(f[i], seqs[i + 1])
      BY <1>1, <2>1, <3>1, FlattenStep
    <3>3. f[i + 1] \in Seq(S)
      BY <1>1, <2>4, <3>1, <3>2, ConcatProperties DEF Joined
    <3> QED
      BY <3>1, <3>3
  <2>5. \A i \in 0 .. n : i \in T
    <3> HIDE DEF T
    <3> QED
      BY <1>1, <2>3, <2>4, InductionUpTo
  <2> QED
    BY <1>1, <1>3, <2>2, <2>5
<1> QED
  BY <1>2, <1>3

LEMMA JoinedAssociative ==
  ASSUME NEW S, NEW a \in Seq(S), NEW b \in Seq(S), NEW c \in Seq(S)
  PROVE  Joined(Joined(a, b), c) = Joined(a, Joined(b, c))
BY ConcatAssociative DEF Joined

\* f computes the concatenation of s, and g that of its tail t.
Shifted(V, f, g, s, t, n) ==
  /\ n \in Nat
  /\ IsFlatten(f, s, n + 1)
  /\ IsFlatten(g, t, n)
  /\ \A i \in 1 .. n : t[i] = s[i + 1]
  /\ \A i \in 1 .. n + 1 : s[i] \in V

\* With one more sequence in front, each step has it in front.
LEMMA FlattenShift ==
  ASSUME NEW S, NEW V, V = Seq(S), NEW f, NEW g, NEW s, NEW t, NEW n,
         Shifted(V, f, g, s, t, n)
  PROVE  \A i \in 1 .. n : g[i] \in V /\ f[i + 1] = Joined(s[1], g[i])
<1> DEFINE T == {i \in 0 .. n : i > 0 => g[i] \in V /\ f[i + 1] = Joined(s[1], g[i])}
<1> DEFINE m == n + 1
<1>a. /\ n \in Nat /\ m \in Nat /\ m = n + 1
      /\ IsFlatten(f, s, m) /\ IsFlatten(g, t, n)
      /\ \A i \in 1 .. n : t[i] = s[i + 1]
      /\ \A i \in 1 .. m : s[i] \in V
  BY DEF Shifted
<1> HIDE DEF m
<1>1. 0 \in T
  BY <1>a
<1>2. ASSUME NEW i \in 0 .. n - 1, i \in T PROVE i + 1 \in T
  <2>1. i + 1 \in 1 .. n /\ i + 2 \in 1 .. m /\ i \in Nat
    BY <1>a
  <2>2. t[i + 1] = s[i + 2] /\ t[i + 1] \in V /\ s[1] \in V
    BY <1>a, <2>1
  <2>3. g[i + 1] = IF i + 1 = 1 THEN t[i + 1] ELSE Joined(g[i + 1 - 1], t[i + 1])
    BY <1>a, <2>1, FlattenStep
  <2>4. f[i + 2] = IF i + 2 = 1 THEN s[i + 2] ELSE Joined(f[i + 2 - 1], s[i + 2])
    BY <1>a, <2>1, FlattenStep
  <2>5. f[1] = s[1]
    <3>1. 1 \in 1 .. m
      BY <1>a
    <3>2. f[1] = IF 1 = 1 THEN s[1] ELSE Joined(f[1 - 1], s[1])
      BY <1>a, <3>1, FlattenStep
    <3> QED
      BY <3>2
  <2>6. f[i + 2] = Joined(f[i + 1], t[i + 1])
    BY <2>1, <2>2, <2>4
  <2>7. CASE i = 0
    <3>1. g[i + 1] = t[i + 1]
      BY <2>3, <2>7
    <3>2. f[i + 1 + 1] = Joined(s[1], g[i + 1])
      BY <2>5, <2>6, <2>7, <3>1
    <3> QED
      BY <2>1, <2>2, <3>1, <3>2
  <2>8. CASE i # 0
    <3>1. g[i + 1] = Joined(g[i], t[i + 1])
      BY <2>1, <2>3, <2>8
    <3>2. g[i] \in V /\ f[i + 1] = Joined(s[1], g[i])
      BY <1>2, <2>1, <2>8
    <3>3. g[i + 1] \in V
      BY <2>2, <3>1, <3>2, ConcatProperties DEF Joined
    <3>4. Joined(Joined(s[1], g[i]), t[i + 1]) = Joined(s[1], Joined(g[i], t[i + 1]))
      BY <2>2, <3>2, JoinedAssociative
    <3>5. f[i + 1 + 1] = Joined(s[1], g[i + 1])
      BY <2>1, <2>2, <2>6, <3>1, <3>2, <3>4
    <3> QED
      BY <2>1, <3>3, <3>5
  <2> QED
    BY <2>7, <2>8
<1>3. \A i \in 0 .. n : i \in T
  <2> HIDE DEF T
  <2> QED
    BY <1>a, <1>1, <1>2, InductionUpTo
<1> QED
  BY <1>3

\* The first sequence, and then the others.
LEMMA FlattenHead ==
  ASSUME NEW S, NEW seqs \in Seq(Seq(S)), seqs # <<>>
  PROVE  FlattenSeq(seqs) = Head(seqs) \o FlattenSeq(Tail(seqs))
<1> DEFINE n == Len(seqs) - 1
           t == Tail(seqs)
<1>1. /\ n \in Nat /\ n + 1 = Len(seqs) /\ t \in Seq(Seq(S)) /\ Len(t) = n
      /\ Head(seqs) = seqs[1]
      /\ \A i \in 1 .. n : t[i] = seqs[i + 1]
      /\ \A i \in 1 .. n + 1 : seqs[i] \in Seq(S)
  OBVIOUS
<1> HIDE DEF n, t
<1>2. PICK f : IsFlatten(f, seqs, n + 1)
  <2>1. n + 1 \in Nat
    BY <1>1
  <2> QED
    BY <2>1, FlattenExists
<1>3. PICK g : IsFlatten(g, t, n)
  BY <1>1, FlattenExists
<1>4. FlattenSeq(seqs) = f[n + 1]
  <2>1. Len(seqs) \in Nat /\ Len(seqs) # 0 /\ IsFlatten(f, seqs, Len(seqs))
    BY <1>1, <1>2
  <2> QED
    BY <1>1, <2>1, FlattenValue
<1>5. \A i \in 1 .. n : f[i + 1] = Joined(seqs[1], g[i])
  <2> DEFINE V == Seq(S)
  <2>1. Shifted(V, f, g, seqs, t, n)
    BY <1>1, <1>2, <1>3 DEF Shifted
  <2>2. V = Seq(S)
    OBVIOUS
  <2> HIDE DEF V
  <2> QED
    BY <2>1, <2>2, FlattenShift
<1>6. CASE n = 0
  <2>1. t = <<>>
    BY <1>1, <1>6, EmptySeq
  <2>2. f[1] = IF 1 = 1 THEN seqs[1] ELSE Joined(f[1 - 1], seqs[1])
    <3>1. 1 \in 1 .. n + 1 /\ n + 1 \in Nat
      BY <1>1
    <3> QED
      BY <1>2, <3>1, FlattenStep
  <2>3. Joined(seqs[1], <<>>) = seqs[1]
    BY <1>1, <1>6, ConcatEmptySeq DEF Joined
  <2>4. FlattenSeq(seqs) = Joined(seqs[1], FlattenSeq(t))
    BY <1>4, <1>6, <2>1, <2>2, <2>3, FlattenEmpty
  <2> QED
    BY <1>1, <2>4 DEF t, Joined
<1>7. CASE n # 0
  <2>1. Len(t) \in Nat /\ Len(t) # 0 /\ IsFlatten(g, t, Len(t))
    BY <1>1, <1>3, <1>7
  <2>2. FlattenSeq(t) = g[n]
    BY <1>1, <2>1, FlattenValue
  <2>3. n \in 1 .. n
    BY <1>1, <1>7
  <2> QED
    BY <1>1, <1>4, <1>5, <2>2, <2>3 DEF t, Joined
<1> QED
  BY <1>6, <1>7
=============================================================================
