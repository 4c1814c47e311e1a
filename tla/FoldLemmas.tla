----------------------------- MODULE FoldLemmas -----------------------------
(***************************************************************************)
(* Induction over the natural numbers and over sequences, folds over       *)
(* sequences and what is joined of them, stated so that they can be cited  *)
(* without an operator as a parameter.                                     *)
(*                                                                         *)
(* FoldLeft is a CHOOSE of a function over the sets of positions.  Given   *)
(* what each position does to a value, FoldExists says that there is such  *)
(* a function, and what is proved of the equation holds of the fold.       *)
(***************************************************************************)
EXTENDS Naturals, SequencesExt, SequenceTheorems, WellFoundedInduction, FiniteSetTheorems, TLAPS

\* A set of natural numbers that is not empty has a least element: among the
\* intervals that end in one of its elements there is one that has no other
\* below it.
LEMMA LeastElement ==
  ASSUME NEW S, S \subseteq Nat, S # {}
  PROVE  \E x \in S : \A y \in S : x <= y
  <1> DEFINE R == StrictSubsetOrdering(Nat)
             T == {1..x : x \in S}
  <1>1. \A n \in Nat : 1..n \in FiniteSubsetsOf(Nat)
    BY FS_Interval DEF FiniteSubsetsOf
  <1>2. T \subseteq FiniteSubsetsOf(Nat) /\ T # {}
    BY <1>1
  <1>3. IsWellFoundedOn(R, FiniteSubsetsOf(Nat))
    BY FS_StrictSubsetOrderingWellFounded
  <1>4. \E t \in T : \A u \in T : ~ (<<u, t>> \in R)
    <2> HIDE DEF R, T
    <2> QED
      BY <1>2, <1>3, WFMin
  <1>5. PICK x \in S : \A u \in T : ~ (<<u, 1..x>> \in R)
    BY <1>4
  <1>6. ASSUME NEW y \in S, y < x PROVE FALSE
    <2>1. 1..y \in T /\ 1..y \subseteq 1..x /\ x \in 1..x /\ x \notin 1..y
      BY <1>6
    <2>2. <<1..y, 1..x>> \in R
      BY <2>1 DEF StrictSubsetOrdering
    <2> QED
      BY <1>5, <2>1, <2>2
  <1> QED
    BY <1>6

\* Induction over the naturals, as a fact about a set: among the intervals that
\* end outside the set one would have no other below it.
LEMMA NatSetInduction ==
  ASSUME NEW S, 0 \in S, \A n \in Nat : n \in S => n + 1 \in S
  PROVE  Nat \subseteq S
  <1> DEFINE R == StrictSubsetOrdering(Nat)
             T == {1..x : x \in Nat \ S}
  <1> SUFFICES ASSUME NEW z \in Nat, z \notin S PROVE FALSE
    OBVIOUS
  <1>1. \A n \in Nat : 1..n \in FiniteSubsetsOf(Nat)
    BY FS_Interval DEF FiniteSubsetsOf
  <1>2. T \subseteq FiniteSubsetsOf(Nat) /\ T # {}
    BY <1>1
  <1>3. IsWellFoundedOn(R, FiniteSubsetsOf(Nat))
    BY FS_StrictSubsetOrderingWellFounded
  <1>4. \E t \in T : \A u \in T : ~ (<<u, t>> \in R)
    <2> HIDE DEF R, T
    <2> QED
      BY <1>2, <1>3, WFMin
  <1>5. PICK x \in Nat \ S : \A u \in T : ~ (<<u, 1..x>> \in R)
    BY <1>4
  <1>6. x # 0 /\ x - 1 \in Nat \ S
    BY <1>5
  <1>7. 1..x - 1 \in T /\ 1..x - 1 \subseteq 1..x /\ x \in 1..x /\ x \notin 1..x - 1
    BY <1>6
  <1>8. <<1..x - 1, 1..x>> \in R
    BY <1>7 DEF StrictSubsetOrdering
  <1> QED
    BY <1>5, <1>7, <1>8

\* The greatest element of some of the first numbers.
LEMMA MaxOfInterval ==
  ASSUME NEW n \in Nat, NEW s, s \subseteq 1..n, s # {}
  PROVE  Max(s) \in s /\ \A y \in s : y <= Max(s)
  <1> DEFINE S == {k \in Nat : \A t : t \subseteq 1..k /\ t # {} => \E x \in t : \A y \in t : y <= x}
  <1>1. 0 \in S
    OBVIOUS
  <1>2. ASSUME NEW k \in Nat, k \in S PROVE k + 1 \in S
    <2> SUFFICES ASSUME NEW t, t \subseteq 1..k + 1, t # {} PROVE \E x \in t : \A y \in t : y <= x
      OBVIOUS
    <2>1. CASE k + 1 \in t
      BY <2>1
    <2>2. CASE k + 1 \notin t
      <3>1. t \subseteq 1..k
        BY <2>2
      <3> QED
        BY <1>2, <3>1
    <2> QED
      BY <2>1, <2>2
  <1> HIDE DEF S
  <1>3. n \in S
    BY <1>1, <1>2, NatSetInduction
  <1>4. \E x \in s : \A y \in s : y <= x
    BY <1>3 DEF S
  <1> QED
    BY <1>4 DEF Max

\* The recursion of a fold over the first n numbers, which takes the greatest
\* one last.
FoldSolves(h, n, base, g) ==
  \A s \in SUBSET (1..n) : h[s] = IF s = {} THEN base ELSE g[Max(s)][h[s \ {Max(s)}]]

\* That recursion has a solution.
LEMMA FoldExists ==
  ASSUME NEW n \in Nat, NEW V, NEW base \in V, NEW g \in [1..n -> [V -> V]]
  PROVE  \E h \in [SUBSET (1..n) -> V] : FoldSolves(h, n, base, g)
  <1> DEFINE Solves(h, k) == \A s \in SUBSET (1..k) :
                               h[s] = IF s = {} THEN base ELSE g[Max(s)][h[s \ {Max(s)}]]
             Solved(k) == \E h \in [SUBSET (1..k) -> V] : Solves(h, k)
             S == {k \in Nat : k <= n => Solved(k)}
  <1>1. 0 \in S
    <2> DEFINE h == [s \in SUBSET (1..0) |-> base]
    <2>1. h \in [SUBSET (1..0) -> V] /\ Solves(h, 0)
      OBVIOUS
    <2> QED
      BY <2>1
  <1>2. ASSUME NEW k \in Nat, k \in S PROVE k + 1 \in S
    <2> HIDE DEF Solved
    <2> SUFFICES ASSUME k + 1 <= n PROVE Solved(k + 1)
      OBVIOUS
    <2>1. Solved(k)
      BY <1>2
    <2> USE DEF Solved
    <2>2. PICK f \in [SUBSET (1..k) -> V] : Solves(f, k)
      BY <2>1
    <2> DEFINE h == [s \in SUBSET (1..k + 1) |->
                       IF k + 1 \in s THEN g[k + 1][f[s \ {k + 1}]] ELSE f[s]]
    <2>3. \A s \in SUBSET (1..k + 1) : /\ s \ {k + 1} \in SUBSET (1..k)
                                       /\ k + 1 \notin s => s \in SUBSET (1..k)
      OBVIOUS
    <2>4. g[k + 1] \in [V -> V]
      OBVIOUS
    <2>5. h \in [SUBSET (1..k + 1) -> V]
      BY <2>3, <2>4
    <2>6. ASSUME NEW s \in SUBSET (1..k + 1)
          PROVE  h[s] = IF s = {} THEN base ELSE g[Max(s)][h[s \ {Max(s)}]]
      <3>1. CASE k + 1 \in s
        <4>1. Max(s) = k + 1
          <5>1. k + 1 \in Nat /\ s \subseteq 1..k + 1 /\ s # {}
            BY <3>1
          <5>2. Max(s) \in s /\ \A y \in s : y <= Max(s)
            BY <5>1, MaxOfInterval
          <5>3. Max(s) \in 1..k + 1 /\ k + 1 <= Max(s)
            BY <3>1, <5>2
          <5> QED
            BY <5>3
        <4>2. h[s \ {k + 1}] = f[s \ {k + 1}]
          BY <2>3
        <4> QED
          BY <3>1, <4>1, <4>2
      <3>2. CASE k + 1 \notin s
        <4>1. s \in SUBSET (1..k) /\ h[s] = f[s]
          BY <2>3, <3>2
        <4>2. \A x : h[s \ {x}] = f[s \ {x}]
          BY <3>2, <4>1
        <4>3. f[s] = IF s = {} THEN base ELSE g[Max(s)][f[s \ {Max(s)}]]
          BY <2>2, <4>1
        <4> HIDE DEF h
        <4> QED
          BY <4>1, <4>2, <4>3
      <3> QED
        BY <3>1, <3>2
    <2> HIDE DEF h
    <2> QED
      BY <2>5, <2>6
  <1> HIDE DEF S, Solved
  <1>3. n \in S
    BY <1>1, <1>2, NatSetInduction
  <1>4. Solved(n)
    BY <1>3 DEF S
  <1> QED
    BY <1>4 DEF Solved, FoldSolves

\* A fold takes the first numbers one after the other.
LEMMA FirstNumbers ==
  ASSUME NEW n \in Nat, NEW k \in 1..n
  PROVE  1..k \in SUBSET (1..n) /\ 1..k # {} /\ Max(1..k) = k /\ (1..k) \ {k} = 1..k - 1
  <1>1. k \in Nat /\ k \in 1..k /\ 1..k \subseteq 1..k
    OBVIOUS
  <1>2. Max(1..k) \in 1..k /\ \A y \in 1..k : y <= Max(1..k)
    BY <1>1, MaxOfInterval
  <1>3. Max(1..k) = k
    BY <1>1, <1>2
  <1> QED
    BY <1>1, <1>3

\* What holds of h as long as its values are in V, and what a fold goes through.
FoldMeets(h, n, V, base, g) ==
  /\ h[{}] = base
  /\ \A s \in SUBSET (1..n) :
       s # {} /\ h[s \ {Max(s)}] \in V => h[s] = g[Max(s)][h[s \ {Max(s)}]]

FoldRuns(f, n, base, g, h) ==
  /\ f[0] = base /\ f[n] = h[1..n]
  /\ \A k \in 1..n : f[k] = g[k][f[k - 1]]

\* A fold of n items has a value in V after each of them.
LEMMA FoldSteps ==
  ASSUME NEW n \in Nat, NEW V, NEW base \in V, NEW g \in [1..n -> [V -> V]],
         NEW h, FoldMeets(h, n, V, base, g)
  PROVE  \E f \in [0..n -> V] : FoldRuns(f, n, base, g, h)
  <1> DEFINE f == [k \in 0..n |-> h[1..k]]
             S == {k \in Nat : k <= n => f[k] \in V}
  <1>1. f[0] = base
    <2>1. 1..0 = {} /\ 0 \in 0..n
      OBVIOUS
    <2> QED
      BY <2>1 DEF FoldMeets
  <1>2. ASSUME NEW k \in 1..n, f[k - 1] \in V PROVE f[k] = g[k][f[k - 1]]
    <2>1. /\ 1..k \in SUBSET (1..n) /\ 1..k # {} /\ Max(1..k) = k /\ (1..k) \ {k} = 1..k - 1
          /\ k \in 0..n /\ k - 1 \in 0..n
      BY FirstNumbers
    <2>2. f[k] = h[1..k] /\ f[k - 1] = h[1..k - 1]
      BY <2>1
    <2>3. h[(1..k) \ {Max(1..k)}] \in V
      BY <1>2, <2>1, <2>2
    <2>4. h[1..k] = g[Max(1..k)][h[(1..k) \ {Max(1..k)}]]
      BY <2>1, <2>3 DEF FoldMeets
    <2> HIDE DEF f
    <2> QED
      BY <2>1, <2>2, <2>4
  <1>3. 0 \in S
    BY <1>1
  <1>4. ASSUME NEW k \in Nat, k \in S PROVE k + 1 \in S
    <2> HIDE DEF f
    <2> SUFFICES ASSUME k + 1 <= n PROVE f[k + 1] \in V
      OBVIOUS
    <2>1. k + 1 \in 1..n /\ (k + 1) - 1 = k /\ f[k] \in V
      BY <1>4
    <2> QED
      BY <1>2, <2>1
  <1>5. \A k \in 0..n : f[k] \in V
    <2> HIDE DEF f, S
    <2>1. Nat \subseteq S
      BY <1>3, <1>4, NatSetInduction
    <2> TAKE k \in 0..n
    <2>2. k \in S /\ k <= n
      BY <2>1
    <2> QED
      BY <2>2 DEF S
  <1>6. f \in [0..n -> V] /\ f[n] = h[1..n]
    BY <1>5
  <1>7. \A k \in 1..n : f[k] = g[k][f[k - 1]]
    <2> HIDE DEF f, S
    <2> TAKE k \in 1..n
    <2>1. k - 1 \in 0..n
      OBVIOUS
    <2> QED
      BY <1>2, <1>5, <2>1
  <1> HIDE DEF f
  <1> QED
    BY <1>1, <1>6, <1>7 DEF FoldRuns

\* The steps u are those of g and one more, which the fold l takes from h.
StepsMore(u, m, g, n, V) ==
  /\ m = n + 1
  /\ g \in [1..n -> [V -> V]]
  /\ u \in [1..m -> [V -> V]]
  /\ \A k \in 1..n : u[k] = g[k]

TakesLast(l, m, h, n, V, u) == h[1..n] \in V /\ l[1..m] = u[m][h[1..n]]

\* A fold of one item more takes that item last.
LEMMA FoldSnoc ==
  ASSUME NEW n \in Nat, NEW m, NEW V, NEW base \in V, NEW g, NEW u, StepsMore(u, m, g, n, V),
         NEW h, FoldMeets(h, n, V, base, g), NEW l, FoldMeets(l, m, V, base, u)
  PROVE  TakesLast(l, m, h, n, V, u)
  <1> USE DEF StepsMore
  <1>1. PICK f \in [0..n -> V] : FoldRuns(f, n, base, g, h)
    BY FoldSteps
  <1>2. PICK e \in [0..m -> V] : FoldRuns(e, m, base, u, l)
    <2>1. m \in Nat
      OBVIOUS
    <2> QED
      BY <2>1, FoldSteps
  <1> DEFINE S == {k \in Nat : k <= n => e[k] = f[k]}
  <1>3. 0 \in S
    BY <1>1, <1>2 DEF FoldRuns
  <1>4. ASSUME NEW k \in Nat, k \in S PROVE k + 1 \in S
    <2> SUFFICES ASSUME k + 1 <= n PROVE e[k + 1] = f[k + 1]
      OBVIOUS
    <2>1. k + 1 \in 1..n /\ k + 1 \in 1..m /\ (k + 1) - 1 = k /\ e[k] = f[k]
      BY <1>4
    <2> QED
      BY <1>1, <1>2, <2>1 DEF FoldRuns
  <1>5. e[n] = f[n]
    <2> HIDE DEF S
    <2>1. n \in S
      BY <1>3, <1>4, NatSetInduction
    <2> QED
      BY <2>1 DEF S
  <1>6. m \in 1..m /\ m - 1 = n
    OBVIOUS
  <1>7. e[m] = u[m][e[m - 1]] /\ e[m] = l[1..m] /\ f[n] = h[1..n] /\ f[n] \in V
    BY <1>1, <1>2, <1>6 DEF FoldRuns
  <1> QED
    BY <1>5, <1>6, <1>7 DEF TakesLast

\* Induction over sequences, item by item, as a fact about a set.
LEMMA SeqSetInduction ==
  ASSUME NEW T, NEW S, <<>> \in S, \A s \in Seq(T), c \in T : s \in S => Append(s, c) \in S
  PROVE  Seq(T) \subseteq S
  <1> DEFINE N == {n \in Nat : \A s \in Seq(T) : Len(s) = n => s \in S}
  <1>1. 0 \in N
    BY EmptySeq
  <1>2. ASSUME NEW n \in Nat, n \in N PROVE n + 1 \in N
    <2> SUFFICES ASSUME NEW s \in Seq(T), Len(s) = n + 1 PROVE s \in S
      OBVIOUS
    <2>1. s # <<>>
      BY EmptySeq
    <2>2. PICK t \in Seq(T), c \in T : s = Append(t, c)
      BY <2>1, SequenceEmptyOrAppend
    <2>3. Len(t) = n
      BY <2>2, AppendProperties, LenProperties
    <2> QED
      BY <1>2, <2>2, <2>3
  <1> HIDE DEF N
  <1>3. Nat \subseteq N
    BY <1>1, <1>2, NatSetInduction
  <1> QED
    BY <1>3, LenProperties DEF N

\* The last of two texts that are joined may be taken character by character.
LEMMA ConcatAppend ==
  ASSUME NEW T, NEW s \in Seq(T), NEW t \in Seq(T), NEW c \in T
  PROVE  s \o Append(t, c) = Append(s \o t, c) /\ s \o t \in Seq(T)
  <1>1. s \o t \in Seq(T) /\ <<c>> \in Seq(T)
    BY ConcatProperties
  <1>2. Append(t, c) = t \o <<c>> /\ Append(s \o t, c) = (s \o t) \o <<c>>
    BY <1>1, AppendIsConcat
  <1>3. (s \o t) \o <<c>> = s \o (t \o <<c>>)
    BY <1>1, ConcatAssociative
  <1> QED
    BY <1>1, <1>2, <1>3

\* A function over the first numbers is a sequence.
LEMMA FunctionIsSeq ==
  ASSUME NEW S, NEW n \in Nat, NEW d, d \in [1..n -> S]
  PROVE  d \in Seq(S) /\ Len(d) = n
  BY SeqDef, LenProperties

\* A function over one number more is that sequence with one item more.
LEMMA AppendedIs ==
  ASSUME NEW S, NEW n \in Nat, NEW m, m = n + 1,
         NEW f \in [1..m -> S], NEW e \in [1..n -> S], \A i \in 1..n : f[i] = e[i]
  PROVE  f = Append(e, f[m])
  <1>1. e \in Seq(S) /\ Len(e) = n /\ f \in Seq(S) /\ Len(f) = m /\ f[m] \in S
    BY FunctionIsSeq
  <1> DEFINE x == f[m]
             a == Append(e, x)
  <1>2. a \in Seq(S) /\ Len(a) = m /\ (\A i \in 1..n : a[i] = e[i]) /\ a[m] = x
    <2> HIDE DEF x
    <2> QED
      BY <1>1, AppendProperties DEF x
  <1>3. \A i \in 1..m : f[i] = a[i]
    BY <1>2
  <1> HIDE DEF a
  <1>4. f = a
    BY <1>1, <1>2, <1>3, SeqEqual
  <1> QED
    BY <1>4 DEF a

-----------------------------------------------------------------------------
(* Sequences, their ends and what is joined of them *)

\* The front and the last of a sequence with one element more.
LEMMA FrontLast ==
  ASSUME NEW S, NEW s \in Seq(S), NEW x \in S
  PROVE  Append(s, x) # <<>> /\ Front(Append(s, x)) = s /\ Last(Append(s, x)) = x
  <1> DEFINE r == Append(s, x)
  <1>1. /\ r \in Seq(S) /\ r # <<>> /\ Len(r) = Len(s) + 1 /\ Len(s) \in Nat
        /\ \A i \in 1..Len(s) : r[i] = s[i]
        /\ r[Len(s) + 1] = x
    BY AppendProperties, LenProperties
  <1>2. Last(r) = x
    BY <1>1 DEF Last
  <1> DEFINE q == SubSeq(r, 1, Len(s))
  <1>3. q \in Seq(S) /\ Len(q) = Len(s) /\ \A i \in 1..Len(s) : q[i] = r[1 + i - 1]
    <2> DEFINE n == Len(s)
    <2>1. 1 \in Int /\ n \in Int /\ \A i \in 1..n : r[i] \in S
      BY <1>1, ElementOfSeq
    <2> HIDE DEF r
    <2>2. SubSeq(r, 1, n) \in Seq(S) /\ Len(SubSeq(r, 1, n)) = (IF 1 <= n THEN n - 1 + 1 ELSE 0)
          /\ \A i \in 1..n - 1 + 1 : SubSeq(r, 1, n)[i] = r[1 + i - 1]
      BY <2>1, SubSeqProperties
    <2> QED
      BY <1>1, <2>2
  <1>4. q = s
    <2>1. \A i \in 1..Len(q) : q[i] = s[i]
      BY <1>1, <1>3
    <2> QED
      BY <1>3, <2>1, SeqEqual
  <1> QED
    BY <1>1, <1>2, <1>4 DEF Front

\* A sequence is its front and its last element.
LEMMA FrontOfTexts ==
  ASSUME NEW S, NEW s \in Seq(S), s # <<>>
  PROVE  Front(s) \in Seq(S) /\ Last(s) \in S /\ s = Append(Front(s), Last(s))
  <1>1. PICK f \in Seq(S), x \in S : s = Append(f, x)
    BY SequenceEmptyOrAppend
  <1>2. Front(s) = f /\ Last(s) = x
    BY <1>1, FrontLast
  <1> QED
    BY <1>1, <1>2

\* The elements of the front are among the elements.
LEMMA FrontInside ==
  ASSUME NEW S, NEW l \in Seq(S), l # <<>>
  PROVE  ToSet(Front(l)) \subseteq ToSet(l)
  <1> DEFINE f == Front(l)
             x == Last(l)
  <1>1. f \in Seq(S) /\ x \in S /\ l = Append(f, x)
    BY FrontOfTexts
  <1> HIDE DEF f, x
  <1>2. DOMAIN f = 1..Len(f) /\ DOMAIN l = 1..Len(l) /\ Len(l) = Len(f) + 1 /\ Len(f) \in Nat
        /\ \A i \in 1..Len(f) : l[i] = f[i]
    BY <1>1, AppendProperties, LenProperties
  <1>3. \A i \in DOMAIN f : i \in DOMAIN l /\ l[i] = f[i]
    BY <1>2
  <1>4. ToSet(f) \subseteq ToSet(l)
    BY <1>3 DEF ToSet
  <1> QED
    BY <1>4 DEF f

\* A sequence of one element.
LEMMA OneChar ==
  ASSUME NEW S, NEW c \in S
  PROVE  <<c>> \in Seq(S) /\ Len(<<c>>) = 1 /\ <<c>>[1] = c /\ Append(<<>>, c) = <<c>>
         /\ Front(<<c>>) = <<>> /\ Last(<<c>>) = c
  <1>1. <<c>> \in Seq(S) /\ Len(<<c>>) = 1 /\ <<c>>[1] = c /\ Append(<<>>, c) = <<c>>
    OBVIOUS
  <1> QED
    BY <1>1, EmptySeq, FrontLast

\* A sequence of two elements.
LEMMA PairIs ==
  ASSUME NEW S, NEW c \in S, NEW x \in S
  PROVE  Append(<<c>>, x) = <<c, x>>
  <1> DEFINE one == <<c>>
             p == Append(one, x)
             q == <<c, x>>
  <1>1. q \in Seq(S) /\ Len(q) = 2 /\ q[1] = c /\ q[2] = x
    OBVIOUS
  <1>2. p \in Seq(S) /\ Len(p) = 2 /\ p[1] = c /\ p[2] = x
    <2>1. one \in Seq(S)
      BY OneChar
    <2>2. Len(one) = 1 /\ one[1] = c
      BY OneChar
    <2> HIDE DEF one, p, q
    <2>3. /\ Append(one, x) \in Seq(S) /\ Len(Append(one, x)) = Len(one) + 1
          /\ \A i \in 1..Len(one) : Append(one, x)[i] = one[i]
          /\ Append(one, x)[Len(one) + 1] = x
      BY <2>1, AppendProperties
    <2> QED
      BY <2>2, <2>3 DEF p
  <1>3. \A i \in 1..2 : i = 1 \/ i = 2
    OBVIOUS
  <1> HIDE DEF p, q
  <1>4. \A i \in 1..Len(p) : p[i] = q[i]
    BY <1>1, <1>2, <1>3
  <1>5. p = q
    BY <1>1, <1>2, <1>4, SeqEqual
  <1> QED
    BY <1>5 DEF p, q

\* Three sequences joined from the left or from the right.
Regrouped(x, y, z) == (x \o y) \o z = x \o (y \o z)

\* This holds of all sequences.
LEMMA RegroupedIs ==
  ASSUME NEW T, NEW x \in Seq(T), NEW y \in Seq(T), NEW z \in Seq(T)
  PROVE  Regrouped(x, y, z)
  BY ConcatAssociative DEF Regrouped

\* An element behind sequences that are joined is one behind the last of them.
EndsLast(f, q, b, c) == Append(f \o (q \o b), c) = (f \o q) \o Append(b, c)

\* This holds of all sequences.
LEMMA JoinedEnd ==
  ASSUME NEW T, NEW f \in Seq(T), NEW q \in Seq(T), NEW b \in Seq(T), NEW c \in T
  PROVE  EndsLast(f, q, b, c)
  <1>1. Append(b, c) \in Seq(T) /\ q \o b \in Seq(T)
    BY AppendProperties, ConcatProperties
  <1>2. f \o Append(q \o b, c) = Append(f \o (q \o b), c)
    BY <1>1, ConcatAppend
  <1>3. q \o Append(b, c) = Append(q \o b, c)
    BY ConcatAppend
  <1>4. (f \o q) \o Append(b, c) = f \o (q \o Append(b, c))
    <2> DEFINE d == Append(b, c)
    <2>1. d \in Seq(T)
      BY <1>1
    <2> HIDE DEF d
    <2>2. (f \o q) \o d = f \o (q \o d)
      BY <2>1, ConcatAssociative
    <2> QED
      BY <2>2 DEF d
  <1> QED
    BY <1>2, <1>3, <1>4 DEF EndsLast

\* Twice the same element behind what is joined.
TwoMore(s, d, c) ==
  /\ s \o Append(Append(d, c), c) = Append(Append(s \o d, c), c)
  /\ d \o <<c, c>> = Append(Append(d, c), c)

\* This holds of all sequences.
LEMMA TwoBehind ==
  ASSUME NEW T, NEW s \in Seq(T), NEW d \in Seq(T), NEW c \in T
  PROVE  TwoMore(s, d, c)
  <1> DEFINE one == <<c>>
             dc == Append(d, c)
  <1>1. one \in Seq(T) /\ one \o one = <<c, c>>
    <2>1. one \in Seq(T)
      BY OneChar
    <2>2. Append(one, c) = <<c, c>>
      BY PairIs
    <2>3. Append(one, c) = one \o one
      <3> DEFINE more == one
      <3>1. more \in Seq(T)
        BY <2>1
      <3> HIDE DEF more
      <3>2. Append(more, c) = more \o <<c>>
        BY <3>1, AppendIsConcat
      <3> QED
        BY <3>2 DEF more
    <2> QED
      BY <2>1, <2>2, <2>3
  <1>2. dc \in Seq(T) /\ dc = d \o one
    BY AppendIsConcat, AppendProperties
  <1>3. s \o dc = Append(s \o d, c)
    BY ConcatAppend
  <1>4. Append(dc, c) = dc \o one
    <2> HIDE DEF dc
    <2> QED
      BY <1>2, AppendIsConcat
  <1>5. s \o Append(dc, c) = Append(s \o dc, c)
    <2> HIDE DEF dc
    <2> QED
      BY <1>2, ConcatAppend
  <1>6. (d \o one) \o one = d \o (one \o one)
    <2>1. one \in Seq(T)
      BY <1>1
    <2> HIDE DEF one
    <2> QED
      BY <2>1, ConcatAssociative
  <1> QED
    BY <1>1, <1>2, <1>3, <1>4, <1>5, <1>6 DEF TwoMore

\* A sequence between two times the same element.
Wrapped(s, d, c) ==
  /\ s \o ((<<c>> \o d) \o <<c>>) = Append(Append(s, c) \o d, c)
  /\ (<<c>> \o d) \o <<c>> = Append(<<c>> \o d, c)

\* This holds of all sequences.
LEMMA WrappedIs ==
  ASSUME NEW T, NEW s \in Seq(T), NEW d \in Seq(T), NEW c \in T
  PROVE  Wrapped(s, d, c)
  <1> DEFINE one == <<c>>
             od == one \o d
             sod == s \o od
  <1>1. one \in Seq(T)
    BY OneChar
  <1>2. od \in Seq(T) /\ sod \in Seq(T)
    <2> HIDE DEF one
    <2>1. one \o d \in Seq(T)
      BY <1>1, ConcatProperties
    <2> QED
      BY <2>1, ConcatProperties
  <1>3. od \o one = Append(od, c)
    <2> HIDE DEF od
    <2> QED
      BY <1>2, AppendIsConcat
  <1>4. s \o Append(od, c) = Append(s \o od, c)
    <2> HIDE DEF od
    <2> QED
      BY <1>2, ConcatAppend
  <1>5. s \o od = (s \o one) \o d
    <2> HIDE DEF one
    <2> QED
      BY <1>1, ConcatAssociative
  <1>6. s \o one = Append(s, c)
    BY AppendIsConcat
  <1> QED
    BY <1>3, <1>4, <1>5, <1>6 DEF Wrapped

\* What is joined up to an element in its middle, and the rest.
UpTo(x, a, b, d, c, z, rest) ==
  (x \o (<<a>> \o (Append(<<b>> \o d, c) \o z))) \o rest
    = Append(Append(Append(x, a), b) \o d, c) \o (z \o rest)

\* This holds of all sequences.
LEMMA UpToIs ==
  ASSUME NEW T, NEW x \in Seq(T), NEW a \in T, NEW b \in T, NEW d \in Seq(T), NEW c \in T,
         NEW z \in Seq(T), NEW rest \in Seq(T)
  PROVE  UpTo(x, a, b, d, c, z, rest)
  <1> DEFINE ca == <<a>>
             cb == <<b>>
             bd == cb \o d
             bdc == Append(bd, c)
             tail == bdc \o z
             xa == Append(x, a)
             xab == Append(xa, b)
             all == xab \o d
             allc == Append(all, c)
  <1>1. ca \in Seq(T) /\ cb \in Seq(T) /\ xa \in Seq(T) /\ xa = x \o ca
    BY OneChar, AppendIsConcat, AppendProperties
  <1>2. xab \in Seq(T) /\ xab = xa \o cb
    <2> HIDE DEF xa
    <2> QED
      BY <1>1, AppendIsConcat, AppendProperties
  <1>3. bd \in Seq(T)
    <2> HIDE DEF cb
    <2> QED
      BY <1>1, ConcatProperties
  <1>4. bdc \in Seq(T)
    <2> HIDE DEF bd
    <2> QED
      BY <1>3, AppendProperties
  <1>5. tail \in Seq(T)
    <2> HIDE DEF bdc
    <2> QED
      BY <1>4, ConcatProperties
  <1>6. x \o (ca \o tail) = xa \o tail
    <2> HIDE DEF ca, tail, xa
    <2>1. Regrouped(x, ca, tail)
      BY <1>1, <1>5, RegroupedIs
    <2> QED
      BY <1>1, <2>1 DEF Regrouped
  <1>7. xa \o tail = (xa \o bdc) \o z
    <2> HIDE DEF xa, bdc
    <2>1. Regrouped(xa, bdc, z)
      BY <1>1, <1>4, RegroupedIs
    <2> QED
      BY <2>1 DEF Regrouped
  <1>8. xa \o bdc = Append(xa \o bd, c)
    <2> HIDE DEF xa, bd
    <2> QED
      BY <1>1, <1>3, ConcatAppend
  <1>9. xa \o bd = all
    <2> HIDE DEF xa, cb, xab
    <2>1. Regrouped(xa, cb, d)
      BY <1>1, RegroupedIs
    <2> QED
      BY <1>2, <2>1 DEF Regrouped
  <1>10. all \in Seq(T)
    <2> HIDE DEF xab
    <2> QED
      BY <1>2, ConcatProperties
  <1>11. allc \in Seq(T)
    <2> HIDE DEF all
    <2> QED
      BY <1>10, AppendProperties
  <1>12. (allc \o z) \o rest = allc \o (z \o rest)
    <2> HIDE DEF allc
    <2>1. Regrouped(allc, z, rest)
      BY <1>11, RegroupedIs
    <2> QED
      BY <2>1 DEF Regrouped
  <1> QED
    BY <1>6, <1>7, <1>8, <1>9, <1>12 DEF UpTo

\* FlattenSeq, one sequence after the other.
Flattens(f, texts) ==
  /\ f[0] = <<>>
  /\ \A k \in 1..Len(texts) : f[k] = f[k - 1] \o texts[k]
  /\ FlattenSeq(texts) = f[Len(texts)]

\* The steps that make it exist.
LEMMA FlattenSteps ==
  ASSUME NEW T, NEW texts \in Seq(Seq(T))
  PROVE  \E f \in [0..Len(texts) -> Seq(T)] : Flattens(f, texts)
  <1> DEFINE n == Len(texts)
             V == Seq(T)
             base == <<>>
             g == [i \in 1..n |-> [v \in V |-> v \o texts[i]]]
  <1>1. n \in Nat /\ \A i \in 1..n : texts[i] \in V
    BY LenProperties, ElementOfSeq
  <1>2. base \in V
    BY EmptySeq
  <1>3. \A v \in V, i \in 1..n : v \o texts[i] \in V
    BY <1>1, ConcatProperties
  <1>4. g \in [1..n -> [V -> V]] /\ \A i \in 1..n, v \in V : g[i][v] = v \o texts[i]
    BY <1>3
  <1> HIDE DEF g, base
  <1>5. PICK h \in [SUBSET (1..n) -> V] : FoldSolves(h, n, base, g)
    <2> HIDE DEF n, V
    <2> QED
      BY <1>1, <1>2, <1>4, FoldExists
  <1>6. FoldMeets(h, n, V, base, g)
    <2>1. {} \in SUBSET (1..n)
      OBVIOUS
    <2> QED
      BY <1>5, <2>1 DEF FoldMeets, FoldSolves
  <1>7. PICK f \in [0..n -> V] : FoldRuns(f, n, base, g, h)
    <2> HIDE DEF n, V
    <2> QED
      BY <1>1, <1>2, <1>4, <1>6, FoldSteps
  <1>8. ASSUME NEW k \in 1..n PROVE f[k] = f[k - 1] \o texts[k]
    <2>1. k - 1 \in 0..n
      BY <1>1
    <2>2. f[k - 1] \in V /\ f[k] = g[k][f[k - 1]]
      BY <1>7, <2>1 DEF FoldRuns
    <2> QED
      BY <1>4, <2>2
  <1>9. f[0] = <<>>
    BY <1>7 DEF FoldRuns, base
  <1>12. ASSUME NEW k \in 1..n, k = 1 PROVE f[k] = texts[k]
    <2>1. k - 1 = 0
      BY <1>12
    <2>2. f[k] = <<>> \o texts[k]
      BY <1>8, <1>9, <2>1
    <2> QED
      BY <1>1, <2>2, ConcatEmptySeq
  <1>10. CASE n = 0
    <2>1. texts = <<>>
      BY <1>10, EmptySeq
    <2> QED
      BY <1>8, <1>9, <1>10, <2>1 DEF FlattenSeq, Flattens
  <1>11. CASE n # 0
    <2> DEFINE E(l) == [i \in 1..n |-> IF i = 1 THEN texts[i] ELSE l[i - 1] \o texts[i]]
               l == CHOOSE l : l = E(l)
    <2>1. [i \in 1..n |-> f[i]] = E([i \in 1..n |-> f[i]])
      <3>1. ASSUME NEW i \in 1..n
            PROVE  f[i] = IF i = 1 THEN texts[i] ELSE [j \in 1..n |-> f[j]][i - 1] \o texts[i]
        <4>1. CASE i = 1
          BY <1>12, <4>1
        <4>2. CASE i # 1
          <5>1. i - 1 \in 1..n
            BY <1>1, <4>2
          <5> QED
            BY <1>8, <4>2, <5>1
        <4> QED
          BY <4>1, <4>2
      <3> QED
        BY <3>1
    <2>2. l = E(l)
      <3> HIDE DEF E
      <3> QED
        BY <2>1
    <2> HIDE DEF l
    <2> DEFINE S == {k \in Nat : k + 1 <= n => l[k + 1] = f[k + 1]}
    <2>3. 0 \in S
      <3>1. 1 \in 1..n
        BY <1>1, <1>11
      <3> QED
        BY <1>12, <2>2, <3>1
    <2>4. ASSUME NEW k \in Nat, k \in S PROVE k + 1 \in S
      <3> SUFFICES ASSUME k + 1 + 1 <= n PROVE l[k + 1 + 1] = f[k + 1 + 1]
        OBVIOUS
      <3>1. k + 1 \in 1..n /\ k + 1 + 1 \in 1..n /\ (k + 1 + 1) - 1 = k + 1 /\ k + 1 + 1 # 1
        BY <1>1
      <3>2. l[k + 1] = f[k + 1]
        BY <2>4, <3>1
      <3>3. l[k + 1 + 1] = l[k + 1] \o texts[k + 1 + 1]
        BY <2>2, <3>1
      <3> QED
        BY <1>8, <3>1, <3>2, <3>3
    <2>5. l[n] = f[n]
      <3> HIDE DEF S
      <3>1. n - 1 \in Nat /\ (n - 1) + 1 = n
        BY <1>1, <1>11
      <3>2. n - 1 \in S
        BY <2>3, <2>4, <3>1, NatSetInduction
      <3> QED
        BY <3>1, <3>2 DEF S
    <2>6. FlattenSeq(texts) = l[n]
      BY <1>11 DEF FlattenSeq, l
    <2> QED
      BY <1>8, <1>9, <2>5, <2>6 DEF Flattens
  <1> QED
    BY <1>10, <1>11

\* One sequence more is joined at the end.
LEMMA FlattenAppend ==
  ASSUME NEW T, NEW texts \in Seq(Seq(T)), NEW t \in Seq(T)
  PROVE  /\ FlattenSeq(texts) \in Seq(T)
         /\ FlattenSeq(Append(texts, t)) = FlattenSeq(texts) \o t
         /\ FlattenSeq(<<>>) = <<>>
  <1> DEFINE n == Len(texts)
             more == Append(texts, t)
             m == n + 1
  <1>1. /\ n \in Nat /\ more \in Seq(Seq(T)) /\ Len(more) = m
        /\ \A k \in 1..n : more[k] = texts[k]
        /\ more[m] = t
    BY LenProperties, AppendProperties
  <1> HIDE DEF more
  <1>2. PICK f \in [0..n -> Seq(T)] : Flattens(f, texts)
    BY FlattenSteps
  <1>3. PICK e \in [0..m -> Seq(T)] : Flattens(e, more)
    BY <1>1, FlattenSteps
  <1> DEFINE S == {k \in Nat : k <= n => e[k] = f[k]}
  <1>4. 0 \in S
    BY <1>2, <1>3 DEF Flattens
  <1>5. ASSUME NEW k \in Nat, k \in S PROVE k + 1 \in S
    <2> SUFFICES ASSUME k + 1 <= n PROVE e[k + 1] = f[k + 1]
      OBVIOUS
    <2>1. k + 1 \in 1..n /\ k + 1 \in 1..m /\ (k + 1) - 1 = k /\ e[k] = f[k]
      BY <1>1, <1>5
    <2> QED
      BY <1>1, <1>2, <1>3, <2>1 DEF Flattens
  <1>6. e[n] = f[n]
    <2> HIDE DEF S
    <2>1. n \in S
      BY <1>1, <1>4, <1>5, NatSetInduction
    <2> QED
      BY <2>1 DEF S
  <1>7. m \in 1..m /\ m - 1 = n
    BY <1>1
  <1>8. FlattenSeq(<<>>) = <<>>
    BY EmptySeq DEF FlattenSeq
  <1>9. e[m] = e[m - 1] \o more[m]
    BY <1>1, <1>3, <1>7 DEF Flattens
  <1>10. FlattenSeq(texts) = f[n] /\ FlattenSeq(more) = e[m]
    BY <1>1, <1>2, <1>3 DEF Flattens
  <1>11. FlattenSeq(texts) \in Seq(T)
    <2>1. n \in 0..n
      BY <1>1
    <2> QED
      BY <1>10, <2>1
  <1>12. FlattenSeq(more) = FlattenSeq(texts) \o t
    BY <1>1, <1>6, <1>7, <1>9, <1>10
  <1> QED
    BY <1>8, <1>11, <1>12 DEF more

-----------------------------------------------------------------------------
(* What is kept of a sequence *)

\* The recursion of KeptOf, of the items with these numbers.
KeptEquation(items, K, iter) ==
  [s \in SUBSET (1..Len(items)) |->
     IF s = {} THEN <<>>
     ELSE IF Max(s) \in K THEN Append(iter[s \ {Max(s)}], items[Max(s)])
     ELSE iter[s \ {Max(s)}]]

KeptFold(items, K) == CHOOSE iter : iter = KeptEquation(items, K, iter)

\* Kept after each item.
Keeps(f, items, K) ==
  /\ f[0] = <<>>
  /\ \A k \in 1..Len(items) :
       f[k] = IF k \in K THEN Append(f[k - 1], items[k]) ELSE f[k - 1]

\* What each item adds to those that are kept.
LEMMA KeptSteps ==
  ASSUME NEW T, NEW items \in Seq(T), NEW K
  PROVE  \E f \in [0..Len(items) -> Seq(T)] :
           Keeps(f, items, K) /\ KeptFold(items, K)[1..Len(items)] = f[Len(items)]
  <1> DEFINE n == Len(items)
             g == [i \in 1..n |-> [v \in Seq(T) |->
                     IF i \in K THEN Append(v, items[i]) ELSE v]]
             I == KeptFold(items, K)
  <1>1. n \in Nat /\ \A i \in 1..n : items[i] \in T
    BY LenProperties
  <1>2. <<>> \in Seq(T)
    BY EmptySeq
  <1>3. \A v \in Seq(T), x \in T : Append(v, x) \in Seq(T)
    BY AppendProperties
  <1>4. g \in [1..n -> [Seq(T) -> Seq(T)]]
    BY <1>1, <1>3
  <1>5. \A i \in 1..n, v \in Seq(T) : g[i][v] = IF i \in K THEN Append(v, items[i]) ELSE v
    OBVIOUS
  <1> HIDE DEF n, g
  <1>6. PICK h \in [SUBSET (1..n) -> Seq(T)] : FoldSolves(h, n, <<>>, g)
    BY <1>1, <1>2, <1>4, FoldExists
  <1>7. h = KeptEquation(items, K, h)
    <2>1. ASSUME NEW s \in SUBSET (1..n), s # {}
          PROVE  h[s] = IF Max(s) \in K THEN Append(h[s \ {Max(s)}], items[Max(s)])
                        ELSE h[s \ {Max(s)}]
      <3>1. Max(s) \in 1..n
        BY <1>1, <2>1, MaxOfInterval
      <3>2. s \ {Max(s)} \in SUBSET (1..n)
        OBVIOUS
      <3> QED
        BY <1>5, <1>6, <2>1, <3>1, <3>2 DEF FoldSolves
    <2>2. h = [s \in SUBSET (1..n) |-> h[s]]
      OBVIOUS
    <2>3. \A s \in SUBSET (1..n) :
             h[s] = IF s = {} THEN <<>>
                    ELSE IF Max(s) \in K THEN Append(h[s \ {Max(s)}], items[Max(s)])
                    ELSE h[s \ {Max(s)}]
      BY <1>6, <2>1 DEF FoldSolves
    <2> QED
      BY <2>2, <2>3 DEF KeptEquation, n
  <1>8. I = KeptEquation(items, K, I)
    BY <1>7 DEF KeptFold
  <1> HIDE DEF I
  <1>9. \A s \in SUBSET (1..n) :
          I[s] = IF s = {} THEN <<>>
                 ELSE IF Max(s) \in K THEN Append(I[s \ {Max(s)}], items[Max(s)])
                 ELSE I[s \ {Max(s)}]
    BY <1>8 DEF KeptEquation, n
  <1>10. FoldMeets(I, n, Seq(T), <<>>, g)
    <2>1. ASSUME NEW s \in SUBSET (1..n), s # {}, I[s \ {Max(s)}] \in Seq(T)
          PROVE  I[s] = g[Max(s)][I[s \ {Max(s)}]]
      <3>1. Max(s) \in 1..n
        BY <1>1, <2>1, MaxOfInterval
      <3> QED
        BY <1>5, <1>9, <2>1, <3>1
    <2>2. I[{}] = <<>>
      BY <1>9
    <2> QED
      BY <2>1, <2>2 DEF FoldMeets
  <1>11. PICK f \in [0..n -> Seq(T)] : FoldRuns(f, n, <<>>, g, I)
    BY <1>1, <1>2, <1>4, <1>10, FoldSteps
  <1>12. ASSUME NEW k \in 1..n
         PROVE  f[k] = IF k \in K THEN Append(f[k - 1], items[k]) ELSE f[k - 1]
    <2>1. k - 1 \in 0..n
      BY <1>1
    <2>2. f[k - 1] \in Seq(T) /\ f[k] = g[k][f[k - 1]]
      BY <1>11, <2>1 DEF FoldRuns
    <2> QED
      BY <1>5, <2>2
  <1> QED
    BY <1>11, <1>12 DEF Keeps, FoldRuns, I, n

-----------------------------------------------------------------------------
(* What is kept of the elements of a set *)

\* The elements of a sequence that are in this set.
KeptIn(items, A) == KeptFold(items, {i \in DOMAIN items : items[i] \in A})[1..Len(items)]

\* Of no elements none is kept.
LEMMA KeptNone ==
  ASSUME NEW A
  PROVE  KeptIn(<<>>, A) = <<>>
  <1> DEFINE N(items) == {i \in DOMAIN items : items[i] \in A}
  <1>1. <<>> \in Seq({0}) /\ Len(<<>>) = 0
    BY EmptySeq
  <1>2. ASSUME NEW items \in Seq({0}), Len(items) = 0 PROVE KeptIn(items, A) = <<>>
    <2>1. PICK h \in [0..Len(items) -> Seq({0})] :
            Keeps(h, items, N(items)) /\ KeptFold(items, N(items))[1..Len(items)] = h[Len(items)]
      <3> HIDE DEF N
      <3> QED
        BY KeptSteps
    <2>2. h[0] = <<>>
      BY <2>1 DEF Keeps
    <2> QED
      BY <1>2, <2>1, <2>2 DEF KeptIn
  <1> QED
    BY <1>1, <1>2

\* What is kept is a sequence of the same elements.
LEMMA KeptTyped ==
  ASSUME NEW T, NEW s \in Seq(T), NEW A
  PROVE  KeptIn(s, A) \in Seq(T)
  <1> DEFINE K == {i \in DOMAIN s : s[i] \in A}
             n == Len(s)
  <1>1. n \in Nat
    BY LenProperties
  <1>2. PICK f \in [0..n -> Seq(T)] : Keeps(f, s, K) /\ KeptFold(s, K)[1..n] = f[n]
    <2> HIDE DEF K
    <2> QED
      BY KeptSteps
  <1> QED
    BY <1>1, <1>2 DEF KeptIn

\* One element more is kept if it is in the set.
LEMMA KeptAppend ==
  ASSUME NEW T, NEW s \in Seq(T), NEW x \in T, NEW A
  PROVE  KeptIn(Append(s, x), A) = IF x \in A THEN Append(KeptIn(s, A), x) ELSE KeptIn(s, A)
  <1> DEFINE n == Len(s)
             m == n + 1
             more == Append(s, x)
             K == {i \in DOMAIN s : s[i] \in A}
             L == {i \in DOMAIN more : more[i] \in A}
  <1>1. /\ n \in Nat /\ more \in Seq(T) /\ Len(more) = m /\ more[m] = x
        /\ \A i \in 1..n : more[i] = s[i]
        /\ DOMAIN s = 1..n /\ DOMAIN more = 1..m
    BY AppendProperties, LenProperties
  <1>2. PICK f \in [0..n -> Seq(T)] : Keeps(f, s, K) /\ KeptFold(s, K)[1..n] = f[n]
    <2> HIDE DEF K
    <2> QED
      BY KeptSteps
  <1> HIDE DEF more
  <1>3. PICK g \in [0..m -> Seq(T)] : Keeps(g, more, L) /\ KeptFold(more, L)[1..m] = g[m]
    <2> HIDE DEF L, m
    <2> QED
      BY <1>1, KeptSteps
  <1>4. KeptIn(s, A) = f[n] /\ KeptIn(more, A) = g[m] /\ f[n] \in Seq(T)
    <2>1. KeptIn(s, A) = f[n]
      BY <1>2 DEF KeptIn
    <2>2. KeptIn(more, A) = g[m]
      BY <1>1, <1>3 DEF KeptIn
    <2> QED
      BY <1>1, <2>1, <2>2
  <1>5. \A i \in 1..n : i \in K <=> i \in L
    BY <1>1
  <1>6. m \in L <=> x \in A
    BY <1>1
  <1>7. /\ f[0] = <<>> /\ \A k \in 1..n : f[k] = IF k \in K THEN Append(f[k - 1], s[k]) ELSE f[k - 1]
        /\ g[0] = <<>> /\ \A k \in 1..m : g[k] = IF k \in L THEN Append(g[k - 1], more[k]) ELSE g[k - 1]
    BY <1>1, <1>2, <1>3 DEF Keeps
  <1> HIDE DEF K, L, n
  <1> DEFINE S == {k \in Nat : k <= n => f[k] = g[k]}
  <1>8. Nat \subseteq S
    <2>1. 0 \in S
      BY <1>7
    <2>2. ASSUME NEW k \in Nat, k \in S PROVE k + 1 \in S
      <3> SUFFICES ASSUME k + 1 <= n PROVE f[k + 1] = g[k + 1]
        OBVIOUS
      <3>1. k + 1 \in 1..n /\ k + 1 \in 1..m /\ (k + 1) - 1 = k /\ f[k] = g[k]
        BY <1>1, <2>2
      <3> QED
        BY <1>1, <1>5, <1>7, <3>1
    <2> HIDE DEF S
    <2> QED
      BY <2>1, <2>2, NatSetInduction
  <1>9. f[n] = g[n]
    BY <1>1, <1>8
  <1>10. m \in 1..m /\ m - 1 = n
    BY <1>1
  <1>11. KeptIn(more, A) = IF x \in A THEN Append(KeptIn(s, A), x) ELSE KeptIn(s, A)
    BY <1>1, <1>4, <1>6, <1>7, <1>9, <1>10
  <1> QED
    BY <1>4, <1>11 DEF more

\* What is kept of two sequences joined is what is kept of each.
KeptJoined(s, t, A) == KeptIn(s \o t, A) = KeptIn(s, A) \o KeptIn(t, A)

\* That is so for any two sequences.
LEMMA KeptConcat ==
  ASSUME NEW T, NEW s \in Seq(T), NEW t \in Seq(T), NEW A
  PROVE  KeptJoined(s, t, A)
  <1> DEFINE S == {r \in Seq(T) : KeptIn(s \o r, A) = KeptIn(s, A) \o KeptIn(r, A)}
  <1>1. <<>> \in S
    <2>1. s \o <<>> = s /\ KeptIn(s, A) \in Seq(T)
      BY KeptTyped, ConcatEmptySeq
    <2>2. KeptIn(s, A) \o <<>> = KeptIn(s, A)
      BY <2>1, ConcatEmptySeq
    <2>3. KeptIn(<<>>, A) = <<>>
      BY KeptNone
    <2> QED
      BY <2>1, <2>2, <2>3, EmptySeq
  <1>2. ASSUME NEW r \in Seq(T), NEW x \in T, r \in S PROVE Append(r, x) \in S
    <2> DEFINE p == KeptIn(s, A)
               q == KeptIn(r, A)
               sr == s \o r
    <2>1. s \o Append(r, x) = Append(sr, x) /\ sr \in Seq(T)
      BY ConcatAppend
    <2>2. p \in Seq(T) /\ q \in Seq(T)
      BY KeptTyped
    <2>3. KeptIn(sr, A) = p \o q
      BY <1>2
    <2> HIDE DEF sr
    <2>4. /\ KeptIn(Append(sr, x), A) = IF x \in A THEN Append(KeptIn(sr, A), x) ELSE KeptIn(sr, A)
          /\ KeptIn(Append(r, x), A) = IF x \in A THEN Append(q, x) ELSE q
      BY <2>1, KeptAppend
    <2> HIDE DEF p, q
    <2>5. p \o Append(q, x) = Append(p \o q, x)
      BY <2>2, ConcatAppend
    <2>6. KeptIn(s \o Append(r, x), A) = p \o KeptIn(Append(r, x), A)
      BY <2>1, <2>3, <2>4, <2>5
    <2>7. Append(r, x) \in Seq(T)
      BY AppendProperties
    <2> QED
      BY <2>6, <2>7 DEF p
  <1>3. Seq(T) \subseteq S
    <2> HIDE DEF S
    <2> QED
      BY <1>1, <1>2, SeqSetInduction
  <1> QED
    BY <1>3 DEF KeptJoined

\* All is kept if all are in the set, and nothing if none is.
LEMMA KeptAllOrNone ==
  ASSUME NEW T, NEW s \in Seq(T), NEW A
  PROVE  /\ T \subseteq A => KeptIn(s, A) = s
         /\ T \cap A = {} => KeptIn(s, A) = <<>>
  <1> DEFINE S == {r \in Seq(T) : /\ T \subseteq A => KeptIn(r, A) = r
                                  /\ T \cap A = {} => KeptIn(r, A) = <<>>}
  <1>1. <<>> \in S
    <2>2. KeptIn(<<>>, A) = <<>>
      BY KeptNone
    <2> QED
      BY <2>2, EmptySeq
  <1>2. ASSUME NEW r \in Seq(T), NEW x \in T, r \in S PROVE Append(r, x) \in S
    <2>1. KeptIn(Append(r, x), A) = IF x \in A THEN Append(KeptIn(r, A), x) ELSE KeptIn(r, A)
      BY KeptAppend
    <2>2. Append(r, x) \in Seq(T)
      BY AppendProperties
    <2> QED
      BY <1>2, <2>1, <2>2
  <1>3. Seq(T) \subseteq S
    <2> HIDE DEF S
    <2> QED
      BY <1>1, <1>2, SeqSetInduction
  <1> QED
    BY <1>3

\* An element that is in the set is kept.
LEMMA KeptHolds ==
  ASSUME NEW T, NEW s \in Seq(T), NEW A, NEW y \in A, \E i \in 1..Len(s) : s[i] = y
  PROVE  \E i \in 1..Len(KeptIn(s, A)) : KeptIn(s, A)[i] = y
  <1> DEFINE Holds(r) == \E i \in 1..Len(r) : r[i] = y
             S == {r \in Seq(T) : Holds(r) => Holds(KeptIn(r, A))}
  <1>1. <<>> \in S
    BY EmptySeq
  <1>2. ASSUME NEW r \in Seq(T), NEW x \in T, r \in S PROVE Append(r, x) \in S
    <2> DEFINE kept == KeptIn(r, A)
               n == Len(r)
               k == Len(kept)
    <2>1. kept \in Seq(T) /\ KeptIn(Append(r, x), A) = IF x \in A THEN Append(kept, x) ELSE kept
      BY KeptAppend, KeptTyped
    <2>2. Append(r, x) \in Seq(T) /\ Len(Append(r, x)) = n + 1 /\ n \in Nat
          /\ Append(r, x)[n + 1] = x /\ \A i \in 1..n : Append(r, x)[i] = r[i]
      BY AppendProperties, LenProperties
    <2> HIDE DEF kept
    <2>3. Len(Append(kept, x)) = k + 1 /\ k \in Nat
          /\ Append(kept, x)[k + 1] = x /\ \A i \in 1..k : Append(kept, x)[i] = kept[i]
      BY <2>1, AppendProperties, LenProperties
    <2> SUFFICES ASSUME Holds(Append(r, x)) PROVE Holds(KeptIn(Append(r, x), A))
      BY <2>2
    <2>4. CASE x = y
      BY <2>1, <2>3, <2>4
    <2>5. CASE x # y
      <3>1. PICK i \in 1..n + 1 : Append(r, x)[i] = y
        BY <2>2
      <3>2. i \in 1..n /\ r[i] = y
        BY <2>2, <2>5, <3>1
      <3>3. Holds(r)
        BY <3>2
      <3>4. Holds(kept)
        BY <1>2, <3>3 DEF kept
      <3>5. PICK j \in 1..k : kept[j] = y
        BY <3>4
      <3>6. j \in 1..k + 1 /\ Append(kept, x)[j] = y
        BY <2>3, <3>5
      <3> QED
        BY <2>1, <2>3, <3>4, <3>6
    <2> QED
      BY <2>4, <2>5
  <1>3. Seq(T) \subseteq S
    <2> HIDE DEF S
    <2> QED
      BY <1>1, <1>2, SeqSetInduction
  <1> QED
    BY <1>3

-----------------------------------------------------------------------------
(* Sequences made of the elements of a sequence *)

\* What a function makes of each element, and all of it joined.
Mapped(h, s)  == [i \in DOMAIN s |-> h[s[i]]]
FlatMap(h, s) == FlattenSeq(Mapped(h, s))

\* One element more is mapped at the end.
LEMMA MappedAppend ==
  ASSUME NEW T, NEW V, NEW h \in [T -> V], NEW s \in Seq(T), NEW x \in T
  PROVE  Mapped(h, Append(s, x)) = Append(Mapped(h, s), h[x])
  <1> DEFINE n == Len(s)
             m == n + 1
             more == Append(s, x)
             f == Mapped(h, more)
             e == Mapped(h, s)
  <1>1. /\ n \in Nat /\ DOMAIN s = 1..n /\ DOMAIN more = 1..m /\ more[m] = x
        /\ \A i \in 1..n : s[i] \in T /\ more[i] = s[i]
    BY AppendProperties, LenProperties, ElementOfSeq
  <1>2. \A i \in 1..m : more[i] \in T /\ (i \in 1..n \/ i = m)
    BY <1>1
  <1> HIDE DEF more
  <1>3. e \in [1..n -> V] /\ f \in [1..m -> V]
    BY <1>1, <1>2 DEF Mapped
  <1>4. \A i \in 1..n : f[i] = e[i]
    BY <1>1, <1>2 DEF Mapped
  <1>5. m \in 1..m /\ f[m] = h[x]
    BY <1>1 DEF Mapped
  <1> HIDE DEF f, e, m
  <1>6. f = Append(e, f[m])
    BY <1>1, <1>3, <1>4, AppendedIs DEF m
  <1> QED
    BY <1>5, <1>6 DEF f, e, more

\* What is made of the elements is a sequence.
LEMMA MappedTyped ==
  ASSUME NEW T, NEW V, NEW h \in [T -> V], NEW s \in Seq(T)
  PROVE  /\ Mapped(h, s) \in Seq(V) /\ Len(Mapped(h, s)) = Len(s)
         /\ Mapped(h, <<>>) = <<>>
  <1> DEFINE n == Len(s)
  <1>1. n \in Nat /\ DOMAIN s = 1..n /\ \A i \in 1..n : s[i] \in T
    BY LenProperties, ElementOfSeq
  <1>2. Mapped(h, s) \in [1..n -> V]
    BY <1>1 DEF Mapped
  <1>3. Mapped(h, <<>>) = <<>>
    <2>1. DOMAIN <<>> = {}
      OBVIOUS
    <2>2. \A f : DOMAIN f = {} /\ f = [i \in DOMAIN f |-> f[i]] => f = <<>>
      OBVIOUS
    <2> QED
      BY <2>1, <2>2 DEF Mapped
  <1> QED
    BY <1>1, <1>2, <1>3, FunctionIsSeq

\* One element more adds its sequence at the end.
LEMMA FlatMapAppend ==
  ASSUME NEW T, NEW V, NEW h \in [T -> Seq(V)], NEW s \in Seq(T), NEW x \in T
  PROVE  FlatMap(h, Append(s, x)) = FlatMap(h, s) \o h[x]
  <1> DEFINE texts == Mapped(h, s)
             t == h[x]
             W == Seq(V)
  <1>1. texts \in Seq(W) /\ t \in Seq(V)
    BY MappedTyped
  <1>2. Mapped(h, Append(s, x)) = Append(texts, t)
    BY MappedAppend
  <1> HIDE DEF texts, t
  <1>3. FlattenSeq(Append(texts, t)) = FlattenSeq(texts) \o t
    BY <1>1, FlattenAppend
  <1> QED
    BY <1>2, <1>3 DEF FlatMap, texts, t

\* The same of every element.
MapsOn(h, T)  == \A s \in Seq(T), x \in T : Mapped(h, Append(s, x)) = Append(Mapped(h, s), h[x])
FlatsOn(h, T) == \A s \in Seq(T), x \in T : FlatMap(h, Append(s, x)) = FlatMap(h, s) \o h[x]

\* This holds of each element that is appended.
LEMMA MapsEach ==
  ASSUME NEW T, NEW V, NEW h \in [T -> V]
  PROVE  MapsOn(h, T)
  BY MappedAppend DEF MapsOn

\* And so does this.
LEMMA FlatsEach ==
  ASSUME NEW T, NEW V, NEW h \in [T -> Seq(V)]
  PROVE  FlatsOn(h, T)
  BY FlatMapAppend DEF FlatsOn

\* All of it is a sequence.
LEMMA FlatMapTyped ==
  ASSUME NEW T, NEW V, NEW h \in [T -> Seq(V)], NEW s \in Seq(T)
  PROVE  FlatMap(h, s) \in Seq(V)
  <1> DEFINE texts == Mapped(h, s)
             W == Seq(V)
  <1>1. texts \in Seq(W)
    BY MappedTyped
  <1>2. <<>> \in Seq(V)
    BY EmptySeq
  <1> HIDE DEF texts
  <1>3. FlattenSeq(texts) \in Seq(V)
    BY <1>1, <1>2, FlattenAppend
  <1> QED
    BY <1>3 DEF FlatMap, texts

\* Of no element nothing is made.
LEMMA FlatMapNone ==
  ASSUME NEW h
  PROVE  FlatMap(h, <<>>) = <<>>
  <1>1. Mapped(h, <<>>) = <<>>
    <2>1. DOMAIN <<>> = {}
      OBVIOUS
    <2>2. \A f : DOMAIN f = {} /\ f = [i \in DOMAIN f |-> f[i]] => f = <<>>
      OBVIOUS
    <2> QED
      BY <2>1, <2>2 DEF Mapped
  <1>2. FlattenSeq(<<>>) = <<>>
    BY DEF FlattenSeq
  <1> QED
    BY <1>1, <1>2 DEF FlatMap

\* Only the elements of a set make something, as they did.
OnlyOf(g, h, T, A) == \A x \in T : g[x] = IF x \in A THEN h[x] ELSE <<>>
FlatKept(h, g, s, A) == FlatMap(h, KeptIn(s, A)) = FlatMap(g, s)

\* What is made of those kept is what all make, if the others make nothing.
LEMMA FlatMapKept ==
  ASSUME NEW T, NEW V, NEW h \in [T -> Seq(V)], NEW A, NEW g \in [T -> Seq(V)],
         OnlyOf(g, h, T, A),
         NEW s \in Seq(T)
  PROVE  FlatKept(h, g, s, A)
  <1> DEFINE S == {r \in Seq(T) : FlatMap(h, KeptIn(r, A)) = FlatMap(g, r)}
  <1>0. FlatsOn(h, T) /\ FlatsOn(g, T)
    BY FlatsEach, Zenon
  <1>1. <<>> \in S
    BY KeptNone, FlatMapNone, EmptySeq
  <1>2. ASSUME NEW r \in Seq(T), NEW x \in T, r \in S PROVE Append(r, x) \in S
    <2> DEFINE more == Append(r, x)
               kept == KeptIn(r, A)
    <2>0. g[x] = IF x \in A THEN h[x] ELSE <<>>
      BY DEF OnlyOf
    <2>1. kept \in Seq(T) /\ KeptIn(more, A) = IF x \in A THEN Append(kept, x) ELSE kept
      BY KeptAppend, KeptTyped
    <2>2. FlatMap(g, more) = FlatMap(g, r) \o g[x]
      BY <1>0 DEF FlatsOn
    <2>3. more \in Seq(T)
      BY AppendProperties
    <2>4. FlatMap(h, kept) = FlatMap(g, r) /\ FlatMap(g, r) \in Seq(V)
      BY <1>2, FlatMapTyped
    <2> HIDE DEF kept, more
    <2>5. CASE x \in A
      <3>1. FlatMap(h, Append(kept, x)) = FlatMap(h, kept) \o h[x]
        BY <1>0, <2>1 DEF FlatsOn
      <3> QED
        BY <2>0, <2>1, <2>2, <2>3, <2>4, <2>5, <3>1 DEF more
    <2>6. CASE x \notin A
      <3>1. FlatMap(g, r) \o <<>> = FlatMap(g, r)
        BY <2>4, ConcatEmptySeq
      <3>2. KeptIn(more, A) = kept /\ g[x] = <<>>
        BY <2>0, <2>1, <2>6
      <3> QED
        BY <2>2, <2>3, <2>4, <3>1, <3>2 DEF more
    <2> QED
      BY <2>5, <2>6
  <1>3. Seq(T) \subseteq S
    <2> HIDE DEF S
    <2> QED
      BY <1>1, <1>2, SeqSetInduction
  <1> QED
    BY <1>3 DEF FlatKept

\* Of what each element makes, something is kept.
KeptOfEach(g, h, T, A) == \A x \in T : g[x] = KeptIn(h[x], A)
KeptFlat(h, g, s, A) == KeptIn(FlatMap(h, s), A) = FlatMap(g, s)

\* What is kept of all is what is kept of each.
LEMMA KeptFlatMap ==
  ASSUME NEW T, NEW V, NEW h \in [T -> Seq(V)], NEW A, NEW g \in [T -> Seq(V)],
         KeptOfEach(g, h, T, A),
         NEW s \in Seq(T)
  PROVE  KeptFlat(h, g, s, A)
  <1> DEFINE S == {r \in Seq(T) : KeptIn(FlatMap(h, r), A) = FlatMap(g, r)}
  <1>1. <<>> \in S
    BY KeptNone, FlatMapNone, EmptySeq
  <1>2. ASSUME NEW r \in Seq(T), NEW x \in T, r \in S PROVE Append(r, x) \in S
    <2> DEFINE more == Append(r, x)
               all == FlatMap(h, r)
               one == h[x]
    <2>1. FlatMap(h, more) = all \o one /\ FlatMap(g, more) = FlatMap(g, r) \o g[x]
      BY FlatMapAppend
    <2>2. all \in Seq(V) /\ one \in Seq(V)
      BY FlatMapTyped
    <2>3. more \in Seq(T)
      BY AppendProperties
    <2>4. KeptIn(all, A) = FlatMap(g, r) /\ KeptIn(one, A) = g[x]
      BY <1>2 DEF KeptOfEach
    <2> HIDE DEF all, one, more
    <2>5. KeptIn(all \o one, A) = KeptIn(all, A) \o KeptIn(one, A)
      <3>1. KeptJoined(all, one, A)
        BY <2>2, KeptConcat, Zenon
      <3> QED
        BY <3>1 DEF KeptJoined
    <2> QED
      BY <2>1, <2>3, <2>4, <2>5 DEF more
  <1>3. Seq(T) \subseteq S
    <2> HIDE DEF S
    <2> QED
      BY <1>1, <1>2, SeqSetInduction
  <1> QED
    BY <1>3 DEF KeptFlat

\* What each element makes after it was mapped.
Composed(g, h, e, T) == \A x \in T : g[x] = h[e[x]]
FlatMapped(h, e, g, s) == FlatMap(h, Mapped(e, s)) = FlatMap(g, s)

\* Elements that are mapped and then make a sequence make it themselves.
LEMMA FlatMapMapped ==
  ASSUME NEW T, NEW U, NEW V, NEW e \in [T -> U], NEW h \in [U -> Seq(V)],
         NEW g \in [T -> Seq(V)], Composed(g, h, e, T),
         NEW s \in Seq(T)
  PROVE  FlatMapped(h, e, g, s)
  <1> DEFINE n == Len(s)
             t == Mapped(e, s)
  <1>1. n \in Nat /\ DOMAIN s = 1..n /\ \A i \in 1..n : s[i] \in T
    BY LenProperties, ElementOfSeq
  <1>2. DOMAIN t = 1..n /\ \A i \in 1..n : t[i] = e[s[i]]
    BY <1>1 DEF Mapped
  <1> HIDE DEF t
  <1>3. \A i \in 1..n : h[t[i]] = g[s[i]]
    BY <1>1, <1>2 DEF Composed
  <1>4. Mapped(h, t) = Mapped(g, s)
    BY <1>1, <1>2, <1>3 DEF Mapped
  <1> QED
    BY <1>4 DEF FlatMap, t, FlatMapped

\* The elements that are mapped into a set.
MappedInto(h, T, A, B) == \A x \in T : x \in B <=> h[x] \in A
KeptMapped(h, s, A, B) == KeptIn(Mapped(h, s), A) = Mapped(h, KeptIn(s, B))

\* What is kept of the mapped elements is mapped of those kept.
LEMMA MappedKept ==
  ASSUME NEW T, NEW V, NEW h \in [T -> V], NEW A, NEW B, MappedInto(h, T, A, B),
         NEW s \in Seq(T)
  PROVE  KeptMapped(h, s, A, B)
  <1> DEFINE S == {r \in Seq(T) : KeptIn(Mapped(h, r), A) = Mapped(h, KeptIn(r, B))}
  <1>0. MapsOn(h, T)
    BY MapsEach, Zenon
  <1>1. <<>> \in S
    <2>1. Mapped(h, <<>>) = <<>> /\ <<>> \in Seq(T)
      BY EmptySeq, MappedTyped
    <2> QED
      BY <2>1, KeptNone
  <1>2. ASSUME NEW r \in Seq(T), NEW x \in T, r \in S PROVE Append(r, x) \in S
    <2> DEFINE more == Append(r, x)
               all == Mapped(h, r)
               y == h[x]
               kept == KeptIn(r, B)
    <2>1. Mapped(h, more) = Append(all, y) /\ all \in Seq(V) /\ y \in V
      BY MappedAppend, MappedTyped
    <2>2. kept \in Seq(T) /\ KeptIn(more, B) = IF x \in B THEN Append(kept, x) ELSE kept
      BY KeptAppend, KeptTyped
    <2>3. more \in Seq(T)
      BY AppendProperties
    <2>4. KeptIn(all, A) = Mapped(h, kept)
      BY <1>2
    <2>5. x \in B <=> y \in A
      BY DEF MappedInto
    <2> HIDE DEF all, y, kept, more
    <2>6. KeptIn(Append(all, y), A) = IF y \in A THEN Append(KeptIn(all, A), y) ELSE KeptIn(all, A)
      BY <2>1, KeptAppend
    <2>7. Mapped(h, Append(kept, x)) = Append(Mapped(h, kept), y)
      BY <1>0, <2>2 DEF MapsOn, y
    <2> QED
      BY <2>1, <2>2, <2>3, <2>4, <2>5, <2>6, <2>7 DEF more
  <1>3. Seq(T) \subseteq S
    <2> HIDE DEF S
    <2> QED
      BY <1>1, <1>2, SeqSetInduction
  <1> QED
    BY <1>3 DEF KeptMapped

\* What is kept of those kept is kept of all, if the first set holds the second.
LEMMA KeptTwice ==
  ASSUME NEW T, NEW A, NEW B, \A x \in T : x \in B => x \in A, NEW s \in Seq(T)
  PROVE  KeptIn(KeptIn(s, A), B) = KeptIn(s, B)
  <1> DEFINE S == {r \in Seq(T) : KeptIn(KeptIn(r, A), B) = KeptIn(r, B)}
  <1>1. <<>> \in S
    BY KeptNone, EmptySeq
  <1>2. ASSUME NEW r \in Seq(T), NEW x \in T, r \in S PROVE Append(r, x) \in S
    <2> DEFINE more == Append(r, x)
               kept == KeptIn(r, A)
    <2>1. kept \in Seq(T) /\ KeptIn(more, A) = IF x \in A THEN Append(kept, x) ELSE kept
      BY KeptAppend, KeptTyped
    <2>2. KeptIn(more, B) = IF x \in B THEN Append(KeptIn(r, B), x) ELSE KeptIn(r, B)
      BY KeptAppend
    <2>3. more \in Seq(T)
      BY AppendProperties
    <2>4. KeptIn(kept, B) = KeptIn(r, B)
      BY <1>2
    <2> HIDE DEF kept, more
    <2>5. KeptIn(Append(kept, x), B) = IF x \in B THEN Append(KeptIn(kept, B), x) ELSE KeptIn(kept, B)
      BY <2>1, KeptAppend
    <2> QED
      BY <2>1, <2>2, <2>3, <2>4, <2>5 DEF more
  <1>3. Seq(T) \subseteq S
    <2> HIDE DEF S
    <2> QED
      BY <1>1, <1>2, SeqSetInduction
  <1> QED
    BY <1>3

\* What is kept is in the set.
LEMMA KeptWithin ==
  ASSUME NEW T, NEW A, NEW s \in Seq(T)
  PROVE  KeptIn(s, A) \in Seq({x \in T : x \in A})
  <1> DEFINE U == {x \in T : x \in A}
             S == {r \in Seq(T) : KeptIn(r, A) \in Seq(U)}
  <1>1. <<>> \in S
    BY KeptNone, EmptySeq
  <1>2. ASSUME NEW r \in Seq(T), NEW x \in T, r \in S PROVE Append(r, x) \in S
    <2> DEFINE more == Append(r, x)
               kept == KeptIn(r, A)
    <2>1. kept \in Seq(U) /\ KeptIn(more, A) = IF x \in A THEN Append(kept, x) ELSE kept
      BY <1>2, KeptAppend
    <2>2. more \in Seq(T)
      BY AppendProperties
    <2>3. x \in A => x \in U
      OBVIOUS
    <2> HIDE DEF kept, more, U
    <2>4. x \in A => Append(kept, x) \in Seq(U)
      BY <2>1, <2>3, AppendProperties
    <2> QED
      BY <2>1, <2>2, <2>4 DEF more
  <1>3. Seq(T) \subseteq S
    <2> HIDE DEF S
    <2> QED
      BY <1>1, <1>2, SeqSetInduction
  <1> QED
    BY <1>3

\* Sequences of one element each are joined to the sequence of all.
LEMMA FlatMapOnes ==
  ASSUME NEW T, NEW s \in Seq(T)
  PROVE  FlatMap([x \in T |-> <<x>>], s) = s
  <1> DEFINE h == [x \in T |-> <<x>>]
             S == {r \in Seq(T) : FlatMap(h, r) = r}
  <1>1. h \in [T -> Seq(T)] /\ \A x \in T : h[x] = <<x>>
    OBVIOUS
  <1> HIDE DEF h
  <1>2. <<>> \in S
    BY FlatMapNone, EmptySeq
  <1>3. ASSUME NEW r \in Seq(T), NEW x \in T, r \in S PROVE Append(r, x) \in S
    <2>1. FlatMap(h, Append(r, x)) = r \o <<x>>
      BY <1>1, <1>3, FlatMapAppend
    <2>2. Append(r, x) = r \o <<x>> /\ Append(r, x) \in Seq(T)
      BY AppendIsConcat, AppendProperties
    <2> QED
      BY <2>1, <2>2
  <1>4. Seq(T) \subseteq S
    <2> HIDE DEF S
    <2> QED
      BY <1>2, <1>3, SeqSetInduction
  <1> QED
    BY <1>4 DEF h

\* The sequence of a set of one element.
LEMMA SingleSeq ==
  ASSUME NEW x
  PROVE  SetToSeq({x}) = <<x>>
  <1> DEFINE f == SetToSeq({x})
  <1>1. Cardinality({x}) = 1
    BY FS_Singleton
  <1>2. f = CHOOSE g \in [1..1 -> {x}] : IsInjective(g)
    BY <1>1 DEF SetToSeq
  <1>3. <<x>> \in [1..1 -> {x}] /\ IsInjective(<<x>>)
    BY DEF IsInjective
  <1>4. f \in [1..1 -> {x}]
    BY <1>2, <1>3
  <1> HIDE DEF f
  <1>5. f[1] = x /\ f = [i \in 1..1 |-> f[i]]
    BY <1>4
  <1> QED
    BY <1>4, <1>5, SeqDef DEF f

\* What is kept by one set and then by another is kept in either order.
LEMMA KeptCommutes ==
  ASSUME NEW T, NEW s \in Seq(T), NEW A, NEW B
  PROVE  KeptIn(KeptIn(s, A), B) = KeptIn(KeptIn(s, B), A)
  <1> DEFINE S == {r \in Seq(T) : KeptIn(KeptIn(r, A), B) = KeptIn(KeptIn(r, B), A)}
  <1>1. <<>> \in S
    BY KeptNone, EmptySeq
  <1>2. ASSUME NEW r \in Seq(T), NEW x \in T, r \in S PROVE Append(r, x) \in S
    <2> DEFINE more == Append(r, x)
               a == KeptIn(r, A)
               b == KeptIn(r, B)
    <2>1. a \in Seq(T) /\ KeptIn(more, A) = IF x \in A THEN Append(a, x) ELSE a
      BY KeptAppend, KeptTyped
    <2>2. b \in Seq(T) /\ KeptIn(more, B) = IF x \in B THEN Append(b, x) ELSE b
      BY KeptAppend, KeptTyped
    <2>3. more \in Seq(T)
      BY AppendProperties
    <2>4. KeptIn(a, B) = KeptIn(b, A)
      BY <1>2
    <2> HIDE DEF a, b, more
    <2>5. KeptIn(Append(a, x), B) = IF x \in B THEN Append(KeptIn(a, B), x) ELSE KeptIn(a, B)
      BY <2>1, KeptAppend
    <2>6. KeptIn(Append(b, x), A) = IF x \in A THEN Append(KeptIn(b, A), x) ELSE KeptIn(b, A)
      BY <2>2, KeptAppend
    <2>7. KeptIn(KeptIn(more, A), B) = KeptIn(KeptIn(more, B), A)
      BY <2>1, <2>2, <2>4, <2>5, <2>6
    <2> QED
      BY <2>3, <2>7 DEF more
  <1>3. Seq(T) \subseteq S
    <2> HIDE DEF S
    <2> QED
      BY <1>1, <1>2, SeqSetInduction
  <1> QED
    BY <1>3

MappedJoined(h, s, t) == Mapped(h, s \o t) = Mapped(h, s) \o Mapped(h, t)

\* Two sequences joined are mapped one by one.
LEMMA MappedConcat ==
  ASSUME NEW T, NEW V, NEW h \in [T -> V], NEW s \in Seq(T), NEW t \in Seq(T)
  PROVE  MappedJoined(h, s, t)
  <1> DEFINE S == {r \in Seq(T) : Mapped(h, s \o r) = Mapped(h, s) \o Mapped(h, r)}
  <1>0. MapsOn(h, T) /\ Mapped(h, s) \in Seq(V) /\ Mapped(h, <<>>) = <<>>
    <2>1. <<>> \in Seq(T)
      BY EmptySeq
    <2> QED
      BY <2>1, MapsEach, MappedTyped, Zenon
  <1>1. <<>> \in S
    <2>1. s \o <<>> = s /\ Mapped(h, s) \o <<>> = Mapped(h, s)
      BY <1>0, ConcatEmptySeq
    <2> QED
      BY <1>0, <2>1, EmptySeq
  <1>2. ASSUME NEW r \in Seq(T), NEW x \in T, r \in S PROVE Append(r, x) \in S
    <2> DEFINE sr == s \o r
               p == Mapped(h, s)
               q == Mapped(h, r)
    <2>1. s \o Append(r, x) = Append(sr, x) /\ sr \in Seq(T)
      BY ConcatAppend
    <2>2. q \in Seq(V) /\ h[x] \in V /\ p \in Seq(V)
      BY <1>0, MappedTyped
    <2>3. Mapped(h, sr) = p \o q
      BY <1>2
    <2> HIDE DEF sr
    <2>4. Mapped(h, Append(sr, x)) = Append(Mapped(h, sr), h[x])
          /\ Mapped(h, Append(r, x)) = Append(q, h[x])
      BY <1>0, <2>1 DEF MapsOn
    <2> HIDE DEF p, q
    <2>5. p \o Append(q, h[x]) = Append(p \o q, h[x])
      BY <2>2, ConcatAppend
    <2>6. Mapped(h, s \o Append(r, x)) = p \o Mapped(h, Append(r, x))
      BY <2>1, <2>3, <2>4, <2>5
    <2>7. Append(r, x) \in Seq(T)
      BY AppendProperties
    <2> QED
      BY <2>6, <2>7 DEF p
  <1>3. Seq(T) \subseteq S
    <2> HIDE DEF S
    <2> QED
      BY <1>1, <1>2, SeqSetInduction
  <1> QED
    BY <1>3 DEF MappedJoined

\* What each element makes, mapped.
MappedOfEach(g, k, h, T) == \A x \in T : g[x] = Mapped(h, k[x])
MappedFlat(h, k, g, s) == Mapped(h, FlatMap(k, s)) = FlatMap(g, s)

\* What all make is mapped as what each makes.
LEMMA MappedFlatMap ==
  ASSUME NEW T, NEW V, NEW W, NEW k \in [T -> Seq(V)], NEW h \in [V -> W],
         NEW g \in [T -> Seq(W)], MappedOfEach(g, k, h, T), NEW s \in Seq(T)
  PROVE  MappedFlat(h, k, g, s)
  <1> DEFINE S == {r \in Seq(T) : Mapped(h, FlatMap(k, r)) = FlatMap(g, r)}
  <1>0. FlatsOn(k, T) /\ FlatsOn(g, T)
    BY FlatsEach, Zenon
  <1>1. <<>> \in S
    <2>1. <<>> \in Seq(T) /\ <<>> \in Seq(V)
      BY EmptySeq
    <2>2. Mapped(h, <<>>) = <<>>
      BY <2>1, MappedTyped
    <2> QED
      BY <2>1, <2>2, FlatMapNone
  <1>2. ASSUME NEW r \in Seq(T), NEW x \in T, r \in S PROVE Append(r, x) \in S
    <2> DEFINE more == Append(r, x)
               all == FlatMap(k, r)
               one == k[x]
    <2>1. FlatMap(k, more) = all \o one /\ FlatMap(g, more) = FlatMap(g, r) \o g[x]
      BY <1>0 DEF FlatsOn
    <2>2. all \in Seq(V) /\ one \in Seq(V)
      BY FlatMapTyped
    <2>3. more \in Seq(T)
      BY AppendProperties
    <2>4. Mapped(h, all) = FlatMap(g, r) /\ Mapped(h, one) = g[x]
      BY <1>2 DEF MappedOfEach
    <2> HIDE DEF all, one, more
    <2>5. Mapped(h, all \o one) = Mapped(h, all) \o Mapped(h, one)
      <3>1. MappedJoined(h, all, one)
        BY <2>2, MappedConcat, Zenon
      <3> QED
        BY <3>1 DEF MappedJoined
    <2> QED
      BY <2>1, <2>3, <2>4, <2>5 DEF more
  <1>3. Seq(T) \subseteq S
    <2> HIDE DEF S
    <2> QED
      BY <1>1, <1>2, SeqSetInduction
  <1> QED
    BY <1>3 DEF MappedFlat

-----------------------------------------------------------------------------
(* Rising numbers *)

Rises(s) == \A i, j \in 1..Len(s) : i < j => s[i] < s[j]

\* One number more rises on if it is greater than the others.
LEMMA RisesOn ==
  ASSUME NEW s \in Seq(Nat), NEW x \in Nat
  PROVE  Rises(Append(s, x)) <=> Rises(s) /\ \A i \in 1..Len(s) : s[i] < x
  <1> DEFINE n == Len(s)
             more == Append(s, x)
  <1>1. /\ n \in Nat /\ more \in Seq(Nat) /\ Len(more) = n + 1 /\ more[n + 1] = x
        /\ \A i \in 1..n : more[i] = s[i]
    BY AppendProperties, LenProperties
  <1> HIDE DEF more, n
  <1>2. ASSUME Rises(more) PROVE \A i, j \in 1..n : i < j => s[i] < s[j]
    BY <1>1, <1>2 DEF Rises
  <1>3. ASSUME Rises(more) PROVE \A i \in 1..n : s[i] < x
    <2> SUFFICES ASSUME NEW i \in 1..n PROVE s[i] < x
      OBVIOUS
    <2>1. i \in 1..Len(more) /\ n + 1 \in 1..Len(more) /\ i < n + 1
      BY <1>1
    <2>2. more[i] < more[n + 1]
      BY <1>3, <2>1 DEF Rises
    <2> QED
      BY <1>1, <2>2
  <1>4. ASSUME \A i, j \in 1..n : i < j => s[i] < s[j], \A i \in 1..n : s[i] < x
        PROVE  Rises(more)
    <2> SUFFICES ASSUME NEW i \in 1..n + 1, NEW j \in 1..n + 1, i < j PROVE more[i] < more[j]
      BY <1>1 DEF Rises
    <2>1. i \in 1..n /\ (j \in 1..n \/ j = n + 1)
      BY <1>1
    <2> QED
      BY <1>1, <1>4, <2>1
  <1> QED
    BY <1>2, <1>3, <1>4 DEF Rises, more, n

\* What is kept of rising numbers rises.
LEMMA KeptRises ==
  ASSUME NEW s \in Seq(Nat), Rises(s), NEW A
  PROVE  KeptIn(s, A) \in Seq(Nat) /\ Rises(KeptIn(s, A))
  <1> DEFINE S == {r \in Seq(Nat) : Rises(r) => Rises(KeptIn(r, A))}
  <1>1. <<>> \in S
    BY KeptNone, EmptySeq DEF Rises
  <1>2. ASSUME NEW r \in Seq(Nat), NEW x \in Nat, r \in S PROVE Append(r, x) \in S
    <2> DEFINE more == Append(r, x)
               kept == KeptIn(r, A)
               n == Len(r)
               T == {y \in Nat : y < x}
    <2>1. kept \in Seq(Nat) /\ KeptIn(more, A) = IF x \in A THEN Append(kept, x) ELSE kept
      BY KeptAppend, KeptTyped
    <2>2. more \in Seq(Nat)
      BY AppendProperties
    <2> HIDE DEF more
    <2>3. ASSUME Rises(more) PROVE Rises(KeptIn(more, A))
      <3>1. Rises(r) /\ \A i \in 1..n : r[i] < x
        BY <2>3, RisesOn DEF more
      <3>2. n \in Nat /\ \A i \in 1..n : r[i] \in T
        BY <3>1, LenProperties, ElementOfSeq
      <3>3. r \in Seq(T)
        <4>1. r \in [1..n -> T]
          BY <3>2, LenProperties
        <4> HIDE DEF T
        <4> QED
          BY <3>2, <4>1, FunctionIsSeq
      <3>4. kept \in Seq(T)
        <4> HIDE DEF T
        <4> QED
          BY <3>3, KeptTyped
      <3>5. \A i \in 1..Len(kept) : kept[i] < x
        BY <3>4, ElementOfSeq
      <3>6. Rises(kept)
        BY <1>2, <3>1
      <3> HIDE DEF kept
      <3>7. Rises(Append(kept, x))
        BY <2>1, <3>5, <3>6, RisesOn
      <3> QED
        BY <2>1, <3>6, <3>7
    <2> QED
      BY <2>2, <2>3 DEF more
  <1>3. Seq(Nat) \subseteq S
    <2> HIDE DEF S
    <2> QED
      BY <1>1, <1>2, SeqSetInduction
  <1> QED
    BY <1>3, KeptTyped

\* The numbers from one on.
FirstOf(n) == [i \in 1..n |-> i]

\* Of these, rising numbers keep themselves.
LEMMA RisingKept ==
  ASSUME NEW n \in Nat, NEW s \in Seq(1..n), Rises(s)
  PROVE  KeptIn(FirstOf(n), ToSet(s)) = s
  <1> DEFINE P(m) == \A r \in Seq(1..m) : Rises(r) => KeptIn(FirstOf(m), ToSet(r)) = r
             S == {m \in Nat : P(m)}
  <1>1. 0 \in S
    <2> SUFFICES ASSUME NEW r \in Seq(1..0) PROVE KeptIn(FirstOf(0), ToSet(r)) = r
      OBVIOUS
    <2>1. r = <<>>
      <3>1. \A i \in 1..Len(r) : r[i] \in 1..0
        BY ElementOfSeq
      <3>2. Len(r) = 0
        BY <3>1, LenProperties
      <3> QED
        BY <3>2, EmptySeq
    <2>2. FirstOf(0) = <<>>
      <3>1. FirstOf(0) \in [1..0 -> Nat]
        BY DEF FirstOf
      <3>2. FirstOf(0) \in Seq(Nat) /\ Len(FirstOf(0)) = 0
        BY <3>1, FunctionIsSeq
      <3> QED
        BY <3>2, EmptySeq
    <2> QED
      BY <2>1, <2>2, KeptNone
  <1>2. ASSUME NEW m \in Nat, m \in S PROVE m + 1 \in S
    <2> DEFINE k == m + 1
               f == FirstOf(m)
    <2>1. k \in Nat /\ f \in Seq(1..m) /\ f \in Seq(1..k) /\ FirstOf(k) = Append(f, k)
      <3>1. f \in [1..m -> 1..m] /\ f \in [1..m -> 1..k] /\ FirstOf(k) \in [1..k -> 1..k]
        BY DEF FirstOf
      <3>2. (\A i \in 1..m : FirstOf(k)[i] = f[i]) /\ FirstOf(k)[k] = k
        BY DEF FirstOf
      <3>3. k \in Nat /\ f \in Seq(1..m) /\ f \in Seq(1..k)
        BY <3>1, FunctionIsSeq
      <3> DEFINE K == 1..k
      <3> HIDE DEF K, f
      <3>4. FirstOf(k) = Append(f, FirstOf(k)[k])
        <4>1. FirstOf(k) \in [1..k -> K] /\ f \in [1..m -> K]
          BY <3>1 DEF K
        <4> QED
          BY <3>2, <4>1, AppendedIs
      <3> QED
        BY <3>2, <3>3, <3>4
    <2> HIDE DEF f
    <2> SUFFICES ASSUME NEW r \in Seq(1..k), Rises(r) PROVE KeptIn(FirstOf(k), ToSet(r)) = r
      BY <2>1
    <2> DEFINE A == ToSet(r)
    <2>2. KeptIn(FirstOf(k), A) = IF k \in A THEN Append(KeptIn(f, A), k) ELSE KeptIn(f, A)
      <3> DEFINE K == 1..k
      <3>1. k \in K /\ f \in Seq(K)
        BY <2>1
      <3> HIDE DEF A, K, k
      <3> QED
        BY <2>1, <3>1, KeptAppend
    <2>3. /\ Len(r) \in Nat /\ DOMAIN r = 1..Len(r) /\ \A i \in 1..Len(r) : r[i] \in 1..k
      BY LenProperties, ElementOfSeq
    <2>4. A = {r[i] : i \in 1..Len(r)}
      BY <2>3 DEF ToSet
    <2>5. CASE k \notin A
      <3>1. \A i \in 1..Len(r) : r[i] \in 1..m
        <4> SUFFICES ASSUME NEW i \in 1..Len(r) PROVE r[i] \in 1..m
          OBVIOUS
        <4>1. r[i] \in 1..k /\ r[i] # k
          BY <2>3, <2>4, <2>5
        <4> QED
          BY <4>1
      <3>2. r \in [1..Len(r) -> 1..m]
        BY <3>1, LenProperties
      <3>3. r \in Seq(1..m)
        BY <2>3, <3>2, FunctionIsSeq
      <3> QED
        BY <1>2, <2>2, <2>5, <3>3 DEF f
    <2>6. CASE k \in A
      <3>1. r # <<>>
        <4>1. \E i \in 1..Len(r) : TRUE
          BY <2>4, <2>6
        <4> QED
          BY <4>1, EmptySeq
      <3>2. PICK t \in Seq(1..k), x \in 1..k : r = Append(t, x)
        <4> DEFINE K == 1..k
        <4> HIDE DEF K, k
        <4>1. r \in Seq(K)
          BY DEF K
        <4>2. \E t \in Seq(K) : \E x \in K : r = Append(t, x)
          BY <3>1, <4>1, SequenceEmptyOrAppend
        <4> QED
          BY <4>2 DEF K
      <3>3. /\ Len(t) \in Nat /\ DOMAIN t = 1..Len(t) /\ \A i \in 1..Len(t) : t[i] \in 1..k
            /\ Len(r) = Len(t) + 1 /\ r[Len(t) + 1] = x /\ \A i \in 1..Len(t) : r[i] = t[i]
        BY <3>2, LenProperties, ElementOfSeq, AppendProperties
      <3>4. t \in Seq(Nat) /\ x \in Nat
        <4>1. t \in [1..Len(t) -> Nat]
          BY <3>3, LenProperties
        <4> QED
          BY <3>3, <4>1, FunctionIsSeq
      <3>5. Rises(t) /\ \A i \in 1..Len(t) : t[i] < x
        BY <3>2, <3>4, RisesOn
      <3>6. x = k
        <4>1. PICK i \in 1..Len(r) : r[i] = k
          BY <2>4, <2>6
        <4>2. CASE i = Len(t) + 1
          BY <3>3, <4>1, <4>2
        <4>3. CASE i \in 1..Len(t)
          BY <3>2, <3>3, <3>5, <4>1, <4>3
        <4> QED
          BY <3>3, <4>2, <4>3
      <3>7. t \in Seq(1..m)
        <4>1. \A i \in 1..Len(t) : t[i] \in 1..m
          BY <3>3, <3>5, <3>6
        <4>2. t \in [1..Len(t) -> 1..m]
          BY <4>1, LenProperties
        <4> QED
          BY <3>3, <4>2, FunctionIsSeq
      <3>8. KeptIn(f, ToSet(t)) = t
        BY <1>2, <3>5, <3>7 DEF f
      <3>9. KeptIn(f, A) = KeptIn(f, ToSet(t))
        <4>1. \A y \in 1..m : y \in A <=> y \in ToSet(t)
          <5> SUFFICES ASSUME NEW y \in 1..m PROVE y \in A <=> y \in ToSet(t)
            OBVIOUS
          <5>1. ToSet(t) = {t[i] : i \in 1..Len(t)}
            BY <3>3 DEF ToSet
          <5>2. y # k
            OBVIOUS
          <5>3. ASSUME y \in A PROVE y \in ToSet(t)
            <6>1. PICK i \in 1..Len(r) : r[i] = y
              BY <2>4, <5>3
            <6>2. i \in 1..Len(t)
              BY <3>3, <3>6, <5>2, <6>1
            <6> QED
              BY <3>3, <5>1, <6>1, <6>2
          <5>4. ASSUME y \in ToSet(t) PROVE y \in A
            <6>1. PICK i \in 1..Len(t) : t[i] = y
              BY <5>1, <5>4
            <6>2. i \in 1..Len(r) /\ r[i] = y
              BY <3>3, <6>1
            <6> QED
              BY <2>4, <6>2
          <5> QED
            BY <5>3, <5>4
        <4>2. \A i \in DOMAIN f : f[i] \in 1..m
          <5> DEFINE M == 1..m
          <5>1. f \in Seq(M)
            BY <2>1
          <5> HIDE DEF M
          <5>2. \A i \in DOMAIN f : f[i] \in M
            BY <5>1, LenProperties, ElementOfSeq
          <5> QED
            BY <5>2 DEF M
        <4>3. {i \in DOMAIN f : f[i] \in A} = {i \in DOMAIN f : f[i] \in ToSet(t)}
          BY <4>1, <4>2
        <4> QED
          BY <4>3 DEF KeptIn
      <3> QED
        BY <2>2, <2>6, <3>2, <3>6, <3>8, <3>9
    <2> QED
      BY <2>5, <2>6
  <1>3. Nat \subseteq S
    <2> HIDE DEF S
    <2> QED
      BY <1>1, <1>2, NatSetInduction
  <1> QED
    BY <1>3
=============================================================================
