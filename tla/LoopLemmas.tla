----------------------------- MODULE LoopLemmas -----------------------------
(* What the loops compute, for every slice.                                 *)
(*                                                                          *)
(* The induction theorems of the library speak of predicates, which the     *)
(* installed provers cannot instantiate.  Their well-foundedness theorem    *)
(* speaks of sets: so does the induction here, and a predicate is used as   *)
(* the set of the numbers, or sequences, that have it.                      *)
EXTENDS Loops, SequenceTheorems, WellFoundedInduction, TLAPS

\* A set of natural numbers that is not empty has a least member.
LEMMA LeastMember ==
    ASSUME NEW T, T \subseteq Nat, T # {}
    PROVE  \E x \in T : \A y \in T : x <= y
  <1> DEFINE R == {ss \in Nat \X Nat : ss[1] < ss[2]}
  <1>1. IsWellFoundedOn(R, Nat)
    BY NatLessThanWellFounded DEF OpToRel
  <1>2. PICK x \in T : \A y \in T : <<y, x>> \notin R
    <2> HIDE DEF R
    <2> QED
      BY <1>1, WFMin
  <1>3. \A y \in T : ~(y < x)
    BY <1>2
  <1> QED
    BY <1>3

\* Induction over the natural numbers.
LEMMA Induction ==
    ASSUME NEW S, 0 \in S, \A n \in Nat : n \in S => n + 1 \in S
    PROVE  Nat \subseteq S
  <1> DEFINE T == Nat \ S
  <1> SUFFICES ASSUME T # {} PROVE FALSE
    OBVIOUS
  <1>1. PICK x \in T : \A y \in T : x <= y
    <2> T \subseteq Nat
      OBVIOUS
    <2> HIDE DEF T
    <2> QED
      BY LeastMember
  <1>2. x # 0 /\ x - 1 \in Nat /\ x - 1 \in S
    BY <1>1
  <1> QED
    BY <1>1, <1>2

\* Induction over sequences.
LEMMA SequenceInduction ==
    ASSUME NEW T, NEW S, <<>> \in S,
           \A s \in Seq(T), x \in T : s \in S => Append(s, x) \in S
    PROVE  Seq(T) \subseteq S
  <1> DEFINE P == {n \in Nat : \A s \in Seq(T) : Len(s) = n => s \in S}
  <1>1. 0 \in P
    <2>1. ASSUME NEW s \in Seq(T), Len(s) = 0 PROVE s = <<>>
      BY <2>1
    <2> QED
      BY <2>1
  <1>2. ASSUME NEW n \in Nat, n \in P PROVE n + 1 \in P
    <2>1. ASSUME NEW s \in Seq(T), Len(s) = n + 1 PROVE s \in S
      <3> DEFINE front == SubSeq(s, 1, n)
      <3>1. front \in Seq(T) /\ Len(front) = n /\ s[n + 1] \in T
        BY <2>1
      <3>2. front \in S
        BY <1>2, <3>1
      <3>3. s = Append(front, s[n + 1])
        BY <2>1, <3>1
      <3> HIDE DEF front
      <3> QED
        BY <3>1, <3>2, <3>3
    <2> QED
      BY <2>1
  <1>3. Nat \subseteq P
    <2> HIDE DEF P
    <2> QED
      BY <1>1, <1>2, Induction
  <1> QED
    BY <1>3

\* f[k] is the value after k passes of a loop that begins with base.
Follows(f, n, base, pass) ==
    f[0] = base /\ \A k \in 1 .. n : f[k] = pass[k][f[k - 1]]

\* A loop of n passes has a value after each of them.
LEMMA LoopRuns ==
    ASSUME NEW n \in Nat, NEW V, NEW base \in V, NEW pass \in [1 .. n -> [V -> V]]
    PROVE  \E f \in [0 .. n -> V] : Follows(f, n, base, pass)
  <1> USE DEF Follows
  <1> DEFINE Run(f, m) == Follows(f, m, base, pass)
             P == {m \in Nat : m <= n => \E f \in [0 .. m -> V] : Run(f, m)}
  <1>1. 0 \in P
    <2> DEFINE f == [k \in 0 .. 0 |-> base]
    <2>1. f \in [0 .. 0 -> V] /\ Run(f, 0)
      OBVIOUS
    <2> QED
      BY <2>1
  <1>2. ASSUME NEW m \in Nat, m \in P PROVE m + 1 \in P
    <2> SUFFICES ASSUME m + 1 <= n PROVE \E f \in [0 .. m + 1 -> V] : Run(f, m + 1)
      OBVIOUS
    <2>1. PICK g \in [0 .. m -> V] : Run(g, m)
      BY <1>2
    <2> DEFINE f == [k \in 0 .. m + 1 |-> IF k <= m THEN g[k] ELSE pass[m + 1][g[m]]]
    <2>2. pass[m + 1][g[m]] \in V
      OBVIOUS
    <2>3. f \in [0 .. m + 1 -> V]
      BY <2>2
    <2>4. ASSUME NEW k \in 1 .. m + 1 PROVE f[k] = pass[k][f[k - 1]]
      <3>1. CASE k <= m
        <4>1. k \in 1 .. m /\ k - 1 \in 0 .. m + 1 /\ k \in 0 .. m + 1 /\ k - 1 <= m
          BY <3>1
        <4>2. f[k] = g[k] /\ f[k - 1] = g[k - 1]
          BY <3>1, <4>1
        <4> QED
          BY <2>1, <4>1, <4>2
      <3>2. CASE k = m + 1
        <4>1. f[m + 1] = pass[m + 1][g[m]] /\ f[m] = g[m]
          OBVIOUS
        <4>2. k - 1 = m
          BY <3>2
        <4> QED
          BY <3>2, <4>1, <4>2
      <3> QED
        BY <3>1, <3>2
    <2>5. f[0] = base
      BY <2>1
    <2> QED
      BY <2>3, <2>4, <2>5
  <1>3. Nat \subseteq P
    <2> HIDE DEF P
    <2> QED
      BY <1>1, <1>2, Induction
  <1> QED
    BY <1>3

\* Two loops that begin alike and go on alike end alike.
LEMMA SameRuns ==
    ASSUME NEW n \in Nat, NEW f, NEW g, f[0] = g[0],
           \A k \in 0 .. n - 1 : f[k] = g[k] => f[k + 1] = g[k + 1]
    PROVE  f[n] = g[n]
  <1> DEFINE P == {k \in Nat : k <= n => f[k] = g[k]}
  <1>1. 0 \in P
    OBVIOUS
  <1>2. ASSUME NEW k \in Nat, k \in P PROVE k + 1 \in P
    <2> SUFFICES ASSUME k + 1 <= n PROVE f[k + 1] = g[k + 1]
      OBVIOUS
    <2>1. k \in 0 .. n - 1
      OBVIOUS
    <2> QED
      BY <1>2, <2>1
  <1>3. Nat \subseteq P
    <2> HIDE DEF P
    <2> QED
      BY <1>1, <1>2, Induction
  <1> QED
    BY <1>3
-----------------------------------------------------------------------------
(* Kept.                                                                    *)

\* One pass of the loop of Kept.
Pass(s, S, f, k) == IF s[k] \in S THEN Append(f[k - 1], s[k]) ELSE f[k - 1]

\* f[k] is what the loop has kept after k passes, and Kept what it has in the end.
Runs(s, S, f) ==
    /\ f[0] = <<>> /\ \A k \in 1 .. Len(s) : f[k] = Pass(s, S, f, k)
    /\ Kept(s, S) = f[Len(s)]

LEMMA KeptRuns ==
    ASSUME NEW T, NEW s \in Seq(T), NEW S
    PROVE  \E f \in [0 .. Len(s) -> Seq(T)] : Runs(s, S, f)
  <1> DEFINE n == Len(s)
             pass == [k \in 1 .. n |-> [kept \in Seq(T) |->
                         IF s[k] \in S THEN Append(kept, s[k]) ELSE kept]]
             Loop(f) == [k \in 0 .. n |->
                IF k = 0 THEN <<>>
                ELSE IF s[k] \in S THEN Append(f[k - 1], s[k]) ELSE f[k - 1]]
  <1>1. n \in Nat /\ <<>> \in Seq(T)
    OBVIOUS
  <1>2. pass \in [1 .. n -> [Seq(T) -> Seq(T)]]
    OBVIOUS
  <1>3. PICK f \in [0 .. n -> Seq(T)] : f[0] = <<>> /\ \A k \in 1 .. n : f[k] = pass[k][f[k - 1]]
    <2> DEFINE nil == <<>>
    <2>1. \E f \in [0 .. n -> Seq(T)] : Follows(f, n, nil, pass)
      <3>1. nil \in Seq(T)
        OBVIOUS
      <3> HIDE DEF n, pass, nil
      <3> QED
        BY <1>1, <1>2, <3>1, LoopRuns
    <2> QED
      BY <2>1 DEF Follows
  <1>4. ASSUME NEW k \in 1 .. n PROVE f[k] = Pass(s, S, f, k)
    <2>1. f[k - 1] \in Seq(T)
      OBVIOUS
    <2>2. f[k] = pass[k][f[k - 1]]
      BY <1>3
    <2> QED
      BY <2>1, <2>2 DEF Pass
  <1>5. f = Loop(f)
    <2>1. \A k \in 0 .. n : f[k] = IF k = 0 THEN <<>>
                                ELSE IF s[k] \in S THEN Append(f[k - 1], s[k]) ELSE f[k - 1]
      <3> SUFFICES ASSUME NEW k \in 0 .. n
                   PROVE  f[k] = IF k = 0 THEN <<>>
                             ELSE IF s[k] \in S THEN Append(f[k - 1], s[k]) ELSE f[k - 1]
        OBVIOUS
      <3>1. CASE k = 0
        BY <1>3, <3>1
      <3>2. CASE k # 0
        <4>1. k \in 1 .. n
          BY <3>2
        <4> QED
          BY <1>4, <3>2, <4>1 DEF Pass
      <3> QED
        BY <3>1, <3>2
    <2> QED
      BY <2>1
  <1>6. \A g : g = Loop(g) => g[n] = f[n]
    <2> SUFFICES ASSUME NEW g, g = Loop(g) PROVE g[n] = f[n]
      OBVIOUS
    <2>1. g[0] = f[0]
      BY <1>3
    <2>2. ASSUME NEW k \in 0 .. n - 1, g[k] = f[k] PROVE g[k + 1] = f[k + 1]
      <3>1. k + 1 \in 0 .. n /\ k + 1 # 0 /\ (k + 1) - 1 = k /\ k + 1 \in 1 .. n
        OBVIOUS
      <3>2. g[k + 1] = IF k + 1 = 0 THEN <<>>
                       ELSE IF s[k + 1] \in S THEN Append(g[(k + 1) - 1], s[k + 1])
                                               ELSE g[(k + 1) - 1]
        BY <3>1
      <3>3. f[k + 1] = Pass(s, S, f, k + 1)
        BY <1>4, <3>1
      <3> QED
        BY <2>2, <3>1, <3>2, <3>3 DEF Pass
    <2> HIDE DEF n, Loop
    <2> QED
      BY <1>1, <2>1, <2>2, SameRuns
  <1>7. Kept(s, S) = (CHOOSE g : g = Loop(g))[n]
    BY DEF Kept
  <1>8. Kept(s, S) = f[n]
    <2> HIDE DEF Loop
    <2> QED
      BY <1>5, <1>6, <1>7
  <1> QED
    BY <1>3, <1>4, <1>8 DEF Runs

LEMMA KeptOfNone ==
    ASSUME NEW S
    PROVE  Kept(<<>>, S) = <<>>
  <1> DEFINE nil == <<>>
  <1>1. nil \in Seq({}) /\ Len(nil) = 0
    OBVIOUS
  <1>2. PICK f \in [0 .. Len(nil) -> Seq({})] : Runs(nil, S, f)
    <2> HIDE DEF nil
    <2> QED
      BY <1>1, KeptRuns
  <1> QED
    BY <1>1, <1>2 DEF Runs

\* One more member of the slice is one more pass.
LEMMA KeptOfAppend ==
    ASSUME NEW T, NEW s \in Seq(T), NEW x \in T, NEW S
    PROVE  Kept(Append(s, x), S) = IF x \in S THEN Append(Kept(s, S), x) ELSE Kept(s, S)
  <1> DEFINE n == Len(s)
             t == Append(s, x)
  <1>1. /\ t \in Seq(T) /\ Len(t) = n + 1 /\ t[n + 1] = x /\ n \in Nat
        /\ \A k \in 1 .. n : t[k] = s[k]
    OBVIOUS
  <1>2. PICK f \in [0 .. Len(s) -> Seq(T)] : Runs(s, S, f)
    BY KeptRuns
  <1>3. PICK g \in [0 .. Len(t) -> Seq(T)] : Runs(t, S, g)
    <2> HIDE DEF t
    <2> QED
      BY <1>1, KeptRuns
  <1>0. n \in Nat
    OBVIOUS
  <1> HIDE DEF n, t
  <1>4. f[n] = g[n]
    <2>1. f[0] = g[0]
      BY <1>2, <1>3 DEF Runs
    <2>2. ASSUME NEW k \in 0 .. n - 1, f[k] = g[k] PROVE f[k + 1] = g[k + 1]
      <3>1. k + 1 \in 1 .. n /\ (k + 1) - 1 = k /\ k + 1 \in 1 .. n + 1
        BY <1>0
      <3>2. f[k + 1] = Pass(s, S, f, k + 1)
        BY <1>2, <3>1 DEF Runs, n
      <3>3. g[k + 1] = Pass(t, S, g, k + 1)
        BY <1>1, <1>3, <3>1 DEF Runs
      <3> QED
        BY <1>1, <2>2, <3>1, <3>2, <3>3 DEF Pass
    <2> QED
      BY <1>1, <2>1, <2>2, SameRuns
  <1>5. g[n + 1] = IF x \in S THEN Append(g[n], x) ELSE g[n]
    <2>1. n + 1 \in 1 .. Len(t) /\ (n + 1) - 1 = n
      BY <1>1
    <2>2. g[n + 1] = Pass(t, S, g, n + 1)
      BY <1>3, <2>1 DEF Runs
    <2> QED
      BY <1>1, <2>1, <2>2 DEF Pass
  <1>6. Kept(t, S) = g[n + 1] /\ Kept(s, S) = f[n]
    BY <1>1, <1>2, <1>3 DEF Runs, n
  <1> QED
    BY <1>4, <1>5, <1>6 DEF t

\* What is kept is in S, and no more than there was.
LEMMA KeptTyped ==
    ASSUME NEW T, NEW s \in Seq(T), NEW S
    PROVE  Kept(s, S) \in Seq(T \cap S) /\ Len(Kept(s, S)) <= Len(s)
  <1> DEFINE P == {q \in Seq(T) : Kept(q, S) \in Seq(T \cap S) /\ Len(Kept(q, S)) <= Len(q)}
  <1>1. <<>> \in P
    <2>1. <<>> \in Seq(T) /\ <<>> \in Seq(T \cap S) /\ Len(<<>>) <= Len(<<>>)
      OBVIOUS
    <2>2. Kept(<<>>, S) = <<>>
      BY KeptOfNone
    <2> QED
      BY <2>1, <2>2
  <1>2. ASSUME NEW q \in Seq(T), NEW x \in T, q \in P PROVE Append(q, x) \in P
    <2>1. Kept(Append(q, x), S) = IF x \in S THEN Append(Kept(q, S), x) ELSE Kept(q, S)
      BY KeptOfAppend
    <2>2. Append(q, x) \in Seq(T) /\ Len(Append(q, x)) = Len(q) + 1 /\ Len(q) \in Nat
      OBVIOUS
    <2>3. Kept(q, S) \in Seq(T \cap S) /\ Len(Kept(q, S)) <= Len(q)
      BY <1>2
    <2> DEFINE kept == Kept(q, S)
    <2> HIDE DEF kept
    <2>4. ASSUME x \in S
          PROVE  Append(kept, x) \in Seq(T \cap S) /\ Len(Append(kept, x)) = Len(kept) + 1
      BY <2>3, <2>4 DEF kept
    <2>5. CASE x \in S
      <3>1. Kept(Append(q, x), S) = Append(kept, x) /\ Len(kept) <= Len(q) /\ Len(kept) \in Nat
        BY <2>1, <2>3, <2>5 DEF kept
      <3>2. Len(Append(kept, x)) <= Len(q) + 1
        BY <2>2, <2>4, <2>5, <3>1
      <3> QED
        BY <2>2, <2>4, <2>5, <3>1, <3>2
    <2>6. CASE x \notin S
      <3>1. Kept(Append(q, x), S) = kept /\ Len(kept) <= Len(q) /\ Len(kept) \in Nat
        BY <2>1, <2>3, <2>6 DEF kept
      <3> QED
        BY <2>2, <2>3, <3>1 DEF kept
    <2> QED
      BY <2>5, <2>6
  <1>3. Seq(T) \subseteq P
    <2> HIDE DEF P
    <2> QED
      BY <1>1, <1>2, SequenceInduction
  <1> QED
    BY <1>3

\* Nothing is lost of a slice whose members are all in S.
LEMMA KeptWhole ==
    ASSUME NEW S, NEW s \in Seq(S)
    PROVE  Kept(s, S) = s
  <1> DEFINE P == {q \in Seq(S) : Kept(q, S) = q}
  <1>1. <<>> \in P
    BY KeptOfNone
  <1>2. ASSUME NEW q \in Seq(S), NEW x \in S, q \in P PROVE Append(q, x) \in P
    <2>1. Kept(Append(q, x), S) = Append(Kept(q, S), x)
      BY KeptOfAppend
    <2> QED
      BY <1>2, <2>1
  <1>3. Seq(S) \subseteq P
    <2> HIDE DEF P
    <2> QED
      BY <1>1, <1>2, SequenceInduction
  <1> QED
    BY <1>3

\* c is a and then b.
Joins(c, a, b) == c = a \o b

\* The parts of two slices put one after the other.
LEMMA Joined ==
    ASSUME NEW T, NEW a \in Seq(T), NEW b \in Seq(T), NEW c, Joins(c, a, b)
    PROVE  /\ c \in Seq(T) /\ Len(a) \in Nat /\ Len(b) \in Nat /\ Len(c) = Len(a) + Len(b)
           /\ \A i \in 1 .. Len(a) : c[i] = a[i]
           /\ \A i \in 1 .. Len(b) : c[Len(a) + i] = b[i]
           /\ SubSeq(c, 1, Len(a)) = a
           /\ SubSeq(c, Len(a) + 1, Len(c)) = b
  <1>1. a \o b \in Seq(T) /\ Len(a \o b) = Len(a) + Len(b)
    BY ConcatProperties, Zenon
  <1>2. /\ \A i \in 1 .. Len(a) : (a \o b)[i] = a[i]
        /\ \A i \in 1 .. Len(b) : (a \o b)[Len(a) + i] = b[i]
        /\ Len(a) \in Nat /\ Len(b) \in Nat
    OBVIOUS
  <1>3. /\ c \in Seq(T) /\ Len(c) = Len(a) + Len(b) /\ Len(a) \in Nat /\ Len(b) \in Nat
        /\ \A i \in 1 .. Len(a) : c[i] = a[i]
        /\ \A i \in 1 .. Len(b) : c[Len(a) + i] = b[i]
    BY <1>1, <1>2 DEF Joins
  <1>4. SubSeq(c, 1, Len(a)) = a
    <2> DEFINE d == SubSeq(c, 1, Len(a))
    <2>1. d \in Seq(T) /\ Len(d) = Len(a) /\ \A i \in 1 .. Len(a) : d[i] = a[i]
      BY <1>3
    <2> QED
      BY <2>1
  <1>5. SubSeq(c, Len(a) + 1, Len(c)) = b
    <2> DEFINE d == SubSeq(c, Len(a) + 1, Len(c))
    <2>1. d \in Seq(T) /\ Len(d) = Len(b) /\ \A i \in 1 .. Len(b) : d[i] = b[i]
      BY <1>3
    <2>2. d = b
      <3> HIDE DEF d
      <3> QED
        BY <2>1
    <2> QED
      BY <2>2
  <1> QED
    BY <1>3, <1>4, <1>5

\* A slice after another keeps what each of them keeps.
LEMMA KeptOfConcat ==
    ASSUME NEW T, NEW s \in Seq(T), NEW t \in Seq(T), NEW c, Joins(c, s, t), NEW S
    PROVE  Joins(Kept(c, S), Kept(s, S), Kept(t, S))
  <1> DEFINE P == {q \in Seq(T) : Kept(s \o q, S) = Kept(s, S) \o Kept(q, S)}
  <1>0. \A q \in Seq(T) : Kept(q, S) \in Seq(T)
    <2> SUFFICES ASSUME NEW q \in Seq(T) PROVE Kept(q, S) \in Seq(T)
      OBVIOUS
    <2>1. PICK f \in [0 .. Len(q) -> Seq(T)] : Runs(q, S, f)
      BY KeptRuns
    <2> QED
      BY <2>1 DEF Runs
  <1>1. <<>> \in P
    <2>1. s \o <<>> = s /\ Kept(s, S) \o <<>> = Kept(s, S) /\ <<>> \in Seq(T)
      BY <1>0
    <2>2. Kept(<<>>, S) = <<>>
      BY KeptOfNone
    <2> QED
      BY <2>1, <2>2
  <1>2. ASSUME NEW q \in Seq(T), NEW x \in T, q \in P PROVE Append(q, x) \in P
    <2>1. s \o Append(q, x) = Append(s \o q, x) /\ s \o q \in Seq(T)
      OBVIOUS
    <2>2. Kept(Append(s \o q, x), S) = IF x \in S THEN Append(Kept(s \o q, S), x)
                                       ELSE Kept(s \o q, S)
      BY <2>1, KeptOfAppend
    <2>3. Kept(Append(q, x), S) = IF x \in S THEN Append(Kept(q, S), x) ELSE Kept(q, S)
      BY KeptOfAppend
    <2>4. Kept(s, S) \o Append(Kept(q, S), x) = Append(Kept(s, S) \o Kept(q, S), x)
      <3> DEFINE a == Kept(s, S)
                 b == Kept(q, S)
      <3>1. a \in Seq(T) /\ b \in Seq(T)
        BY <1>0
      <3> HIDE DEF a, b
      <3>2. a \o Append(b, x) = Append(a \o b, x)
        BY <3>1
      <3> QED
        BY <3>2 DEF a, b
    <2>5. Kept(s \o q, S) = Kept(s, S) \o Kept(q, S)
      BY <1>2
    <2>6. Kept(s \o Append(q, x), S) = Kept(s, S) \o Kept(Append(q, x), S)
      BY <2>1, <2>2, <2>3, <2>4, <2>5
    <2> QED
      BY <2>6
  <1>3. Seq(T) \subseteq P
    <2> HIDE DEF P
    <2> QED
      BY <1>1, <1>2, SequenceInduction
  <1>4. Kept(s \o t, S) = Kept(s, S) \o Kept(t, S)
    BY <1>3
  <1> QED
    BY <1>4 DEF Joins
=============================================================================
