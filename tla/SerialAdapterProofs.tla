------------------------- MODULE SerialAdapterProofs -------------------------
(***************************************************************************)
(* What the owner of a serial port is given, for any number of frames,     *)
(* connects and kept frames: no frame is missing from what it receives,    *)
(* and a connect that began with nothing under way and was told the        *)
(* version is in step with its device from then on.                        *)
(*                                                                         *)
(* Three invariants are inductive, one after the other: AdapterTypeInv,    *)
(* FramesInv (what the device has sent and not been read are its latest    *)
(* frames) and DialogueInv (at every step of connect, what has been        *)
(* answered and what has not).  They rest on lemmas about the part of a    *)
(* sequence of tokens after some place in it.                              *)
(***************************************************************************)
EXTENDS SerialAdapter, FoldLemmas

-----------------------------------------------------------------------------
(* Sequences of tokens *)

\* Position finds the first such token, or is 0 without one.
LEMMA PositionFirst ==
  ASSUME NEW T, buffer \in Seq(T), NEW token
  PROVE  /\ Position(token) \in 0..Len(buffer)
         /\ Position(token) = 0 => \A i \in 1..Len(buffer) : buffer[i] # token
         /\ Position(token) # 0 => /\ buffer[Position(token)] = token
                                   /\ \A i \in 1..Position(token) - 1 : buffer[i] # token
  <1> DEFINE At == {i \in 1..Len(buffer) : buffer[i] = token}
  <1>1. Len(buffer) \in Nat
    BY LenProperties
  <1>2. Position(token) = IF At # {} THEN Min(At) ELSE 0
    BY DEF Position, SelectInSeq
  <1>3. ASSUME At # {} PROVE Min(At) \in At /\ \A i \in At : Min(At) <= i
    <2>1. At \subseteq Nat
      BY <1>1
    <2>2. \E x \in At : \A y \in At : x <= y
      <3> HIDE DEF At
      <3> QED
        BY <1>3, <2>1, LeastElement
    <2> QED
      BY <2>2 DEF Min
  <1>4. CASE At = {}
    BY <1>1, <1>2, <1>4
  <1>5. CASE At # {}
    <2>1. Position(token) \in At /\ \A i \in At : Position(token) <= i
      BY <1>2, <1>3, <1>5
    <2>2. Position(token) \in 1..Len(buffer) /\ buffer[Position(token)] = token
      BY <2>1
    <2>3. ASSUME NEW i \in 1..Position(token) - 1, buffer[i] = token PROVE FALSE
      <3>1. i \in At
        BY <1>1, <2>2, <2>3
      <3> QED
        BY <1>1, <2>1, <2>2, <3>1
    <2> QED
      BY <1>1, <2>2, <2>3
  <1> QED
    BY <1>4, <1>5

-----------------------------------------------------------------------------
(* What is left of a text, and what is added to one *)

\* What is left when the first k tokens are gone.
After(s, k) == SubSeq(s, k + 1, Len(s))

\* What follows the first k tokens.
LEMMA AfterIsSeq ==
  ASSUME NEW T, NEW s \in Seq(T), NEW k \in 0..Len(s)
  PROVE  /\ After(s, k) \in Seq(T)
         /\ Len(After(s, k)) = Len(s) - k
         /\ \A i \in 1..Len(s) - k : After(s, k)[i] = s[k + i]
         /\ k = Len(s) => After(s, k) = <<>>
  <1>1. Len(s) \in Nat
    BY LenProperties
  <1>2. \A i \in k + 1..Len(s) : s[i] \in T
    BY <1>1, ElementOfSeq
  <1> QED
    BY <1>1, <1>2, SubSeqProperties, SubSeqEmpty DEF After

\* A tail is what follows the first token.
LEMMA TailIsAfter ==
  ASSUME NEW T, NEW s \in Seq(T), s # <<>>
  PROVE  Tail(s) = After(s, 1) /\ Head(s) = s[1] /\ 1 \in 0..Len(s)
  BY TailIsSubSeq, EmptySeq, HeadTailProperties DEF After

\* Tokens that come later do not change what is cut off in front.
LEMMA AfterOfConcat ==
  ASSUME NEW T, NEW s \in Seq(T), NEW t \in Seq(T), NEW k \in 0..Len(s)
  PROVE  After(s, k) \o t = After(s \o t, k)
  <1> DEFINE u == After(s, k) \o t
             v == After(s \o t, k)
  <1>1. /\ Len(s) \in Nat /\ Len(t) \in Nat /\ s \o t \in Seq(T)
        /\ Len(s \o t) = Len(s) + Len(t)
        /\ \A i \in 1..Len(s) + Len(t) : (s \o t)[i] = IF i <= Len(s) THEN s[i] ELSE t[i - Len(s)]
    BY LenProperties, ConcatProperties
  <1>2. /\ After(s, k) \in Seq(T) /\ Len(After(s, k)) = Len(s) - k
        /\ \A i \in 1..Len(s) - k : After(s, k)[i] = s[k + i]
    BY AfterIsSeq
  <1>3. /\ v \in Seq(T) /\ Len(v) = Len(s) + Len(t) - k
        /\ \A i \in 1..Len(s) + Len(t) - k : v[i] = (s \o t)[k + i]
    <2>1. k \in 0..Len(s \o t)
      BY <1>1
    <2> DEFINE w == s \o t
    <2>2. w \in Seq(T) /\ k \in 0..Len(w)
      BY <1>1, <2>1
    <2>3. /\ After(w, k) \in Seq(T) /\ Len(After(w, k)) = Len(w) - k
          /\ \A i \in 1..Len(w) - k : After(w, k)[i] = w[k + i]
      <3> HIDE DEF w
      <3> QED
        BY <2>2, AfterIsSeq
    <2> QED
      BY <1>1, <2>3
  <1>4. /\ u \in Seq(T) /\ Len(u) = Len(s) - k + Len(t)
        /\ \A i \in 1..Len(s) - k + Len(t) :
             u[i] = IF i <= Len(s) - k THEN After(s, k)[i] ELSE t[i - (Len(s) - k)]
    <2> DEFINE w == After(s, k)
    <2>1. w \in Seq(T) /\ Len(w) = Len(s) - k
      BY <1>2
    <2>2. /\ w \o t \in Seq(T) /\ Len(w \o t) = Len(w) + Len(t)
          /\ \A i \in 1..Len(w) + Len(t) : (w \o t)[i] = IF i <= Len(w) THEN w[i] ELSE t[i - Len(w)]
      <3> HIDE DEF w
      <3> QED
        BY <2>1, ConcatProperties
    <2> QED
      BY <2>1, <2>2
  <1>5. ASSUME NEW i \in 1..Len(u) PROVE u[i] = v[i]
    <2>1. /\ i \in 1..Len(s) - k + Len(t) /\ i \in 1..Len(s) + Len(t) - k
          /\ k + i \in 1..Len(s) + Len(t)
      BY <1>1, <1>4
    <2>2. v[i] = IF k + i <= Len(s) THEN s[k + i] ELSE t[k + i - Len(s)]
      BY <1>1, <1>3, <2>1
    <2>3. CASE i <= Len(s) - k
      <3>1. i \in 1..Len(s) - k /\ k + i <= Len(s)
        BY <1>1, <2>1, <2>3
      <3> QED
        BY <1>2, <1>4, <2>1, <2>2, <3>1
    <2>4. CASE ~ (i <= Len(s) - k)
      <3>1. ~ (k + i <= Len(s)) /\ k + i - Len(s) = i - (Len(s) - k)
        BY <1>1, <2>1, <2>4
      <3> QED
        BY <1>4, <2>1, <2>2, <2>4, <3>1
    <2> QED
      BY <2>3, <2>4
  <1> QED
    <2>1. Len(u) = Len(v)
      BY <1>1, <1>3, <1>4
    <2> HIDE DEF u, v
    <2>2. u = v
      BY <1>3, <1>4, <1>5, <2>1, SeqEqual
    <2> QED
      BY <2>2 DEF u, v

\* Three parts joined in either order.
LEMMA JoinAssociates ==
  ASSUME NEW T, NEW s \in Seq(T), NEW a \in Seq(T), NEW b \in Seq(T),
         NEW u, u = s \o a, NEW t, t = a \o b
  PROVE  u \o b = s \o t
  <1>1. /\ Len(s) \in Nat /\ Len(a) \in Nat /\ Len(b) \in Nat
    BY LenProperties
  <1>2. /\ t \in Seq(T) /\ Len(t) = Len(a) + Len(b)
        /\ \A i \in 1..Len(a) + Len(b) : t[i] = IF i <= Len(a) THEN a[i] ELSE b[i - Len(a)]
    BY ConcatProperties
  <1>3. /\ u \in Seq(T) /\ Len(u) = Len(s) + Len(a)
        /\ \A i \in 1..Len(s) + Len(a) : u[i] = IF i <= Len(s) THEN s[i] ELSE a[i - Len(s)]
    BY ConcatProperties
  <1> DEFINE v == u \o b
             w == s \o t
  <1>4. /\ v \in Seq(T) /\ Len(v) = Len(u) + Len(b)
        /\ \A i \in 1..Len(u) + Len(b) : v[i] = IF i <= Len(u) THEN u[i] ELSE b[i - Len(u)]
    <2>1. u \in Seq(T)
      BY <1>3
    <2> QED
      BY <2>1, ConcatProperties
  <1>5. /\ w \in Seq(T) /\ Len(w) = Len(s) + Len(t)
        /\ \A i \in 1..Len(s) + Len(t) : w[i] = IF i <= Len(s) THEN s[i] ELSE t[i - Len(s)]
    <2>1. t \in Seq(T)
      BY <1>2
    <2> QED
      BY <2>1, ConcatProperties
  <1> HIDE DEF v, w
  <1>6. ASSUME NEW i \in 1..Len(w) PROVE v[i] = w[i]
    <2>1. CASE i <= Len(s)
      <3>1. /\ i \in 1..Len(s) + Len(a) /\ i \in 1..Len(u) + Len(b) /\ i <= Len(u)
            /\ i \in 1..Len(s) + Len(t)
        BY <1>1, <1>2, <1>3, <1>5, <2>1
      <3> QED
        BY <1>3, <1>4, <1>5, <2>1, <3>1
    <2>2. CASE Len(s) < i /\ i <= Len(s) + Len(a)
      <3>1. i - Len(s) \in 1..Len(a) + Len(b) /\ i - Len(s) <= Len(a)
        BY <1>1, <1>5, <2>2
      <3>2. v[i] = a[i - Len(s)]
        BY <1>1, <1>3, <1>4, <1>5, <2>2
      <3>3. i \in 1..Len(s) + Len(t) /\ ~ (i <= Len(s))
        BY <1>1, <1>2, <1>5, <2>2
      <3> QED
        BY <1>2, <1>5, <3>1, <3>2, <3>3
    <2>3. CASE Len(s) + Len(a) < i
      <3>1. /\ i - Len(s) \in 1..Len(a) + Len(b) /\ ~ (i - Len(s) <= Len(a))
            /\ i - Len(s) - Len(a) = i - (Len(s) + Len(a))
        BY <1>1, <1>2, <1>5, <2>3
      <3>2. v[i] = b[i - (Len(s) + Len(a))]
        BY <1>1, <1>2, <1>3, <1>4, <1>5, <2>3
      <3>3. i \in 1..Len(s) + Len(t) /\ ~ (i <= Len(s))
        BY <1>1, <1>2, <1>5, <2>3
      <3> QED
        BY <1>2, <1>5, <3>1, <3>2, <3>3
    <2> QED
      BY <1>1, <1>5, <2>1, <2>2, <2>3
  <1>7. Len(v) = Len(w)
    BY <1>1, <1>2, <1>3, <1>4, <1>5
  <1>8. \A i \in 1..Len(v) : v[i] = w[i]
    BY <1>6, <1>7
  <1>9. v = w
    BY <1>4, <1>5, <1>7, <1>8, SeqEqual
  <1> QED
    BY <1>9 DEF v, w

\* What moves from the front of v's side to the end of u's is still there.
Regroups(s, t, u, v) == u \o v = s \o t

\* The same with its conclusion under one name.
LEMMA JoinRegroups ==
  ASSUME NEW T, NEW s \in Seq(T), NEW a \in Seq(T), NEW b \in Seq(T)
  PROVE  Regroups(s, a \o b, s \o a, b)
  BY JoinAssociates DEF Regroups

\* A read moves a chunk from one end to the other.
LEMMA ChunkMoves ==
  ASSUME NEW T, NEW s \in Seq(T), NEW t \in Seq(T), NEW n \in 1..Len(t),
         NEW u, u = s \o SubSeq(t, 1, n), NEW v, v = SubSeq(t, n + 1, Len(t))
  PROVE  u \in Seq(T) /\ v \in Seq(T) /\ Regroups(s, t, u, v)
  <1>1. Len(t) \in Nat
    BY LenProperties
  <1>2. t = SubSeq(t, 1, n) \o v
    <2>1. SubSeq(t, 1, n) \o SubSeq(t, n + 1, Len(t)) = SubSeq(t, 1, Len(t))
      BY <1>1, ConcatAdjacentSubSeq
    <2> QED
      BY <2>1, SubSeqFull
  <1>3. SubSeq(t, 1, n) \in Seq(T) /\ v \in Seq(T)
    BY <1>1, ElementOfSeq, SubSeqProperties
  <1>4. u \in Seq(T)
    BY <1>3, ConcatProperties
  <1>5. PICK a \in Seq(T) : u = s \o a /\ t = a \o v
    BY <1>2, <1>3
  <1>6. Regroups(s, a \o v, s \o a, v)
    BY <1>3, <1>5, JoinRegroups
  <1> QED
    BY <1>3, <1>4, <1>5, <1>6

-----------------------------------------------------------------------------
(* The frames in a text *)

\* Part of a text that carries frames up to the last carries those from some
\* number on.
LEMMA CarryAfter ==
  ASSUME NEW T, NEW s \in Seq(T), NEW a \in Nat, NEW b \in Nat, a <= b + 1,
         Carry(s, a, b), NEW k \in 0..Len(s)
  PROVE  \E m \in a..b + 1 : Carry(After(s, k), m, b)
  <1> DEFINE r == After(s, k)
             At == {i \in 1..Len(s) - k : IsHead(s[k + i])}
  <1>1. Len(s) \in Nat /\ DOMAIN s = 1..Len(s)
    BY LenProperties
  <1>2. /\ r \in Seq(T) /\ Len(r) = Len(s) - k /\ DOMAIN r = 1..Len(s) - k
        /\ \A i \in 1..Len(s) - k : r[i] = s[k + i]
    BY AfterIsSeq, LenProperties
  <1>3. \A i \in 1..Len(s) - k : k + i \in DOMAIN s
    BY <1>1
  <1>4. CASE At = {}
    <2>1. (b + 1)..b = {}
      OBVIOUS
    <2>2. \A i \in DOMAIN r : ~IsHead(r[i])
      BY <1>2, <1>4
    <2>3. Carry(r, b + 1, b)
      BY <2>1, <2>2 DEF Carry
    <2> QED
      BY <2>3
  <1>5. CASE At # {}
    <2>1. PICK i \in At : \A j \in At : i <= j
      <3>1. At \subseteq Nat
        BY <1>1
      <3> HIDE DEF At
      <3> QED
        BY <1>5, <3>1, LeastElement
    <2> DEFINE m == s[k + i].frame
    <2>2. i \in 1..Len(s) - k /\ IsHead(s[k + i]) /\ k + i \in DOMAIN s /\ k + i \in Nat
      BY <1>1, <1>3, <2>1
    <2>3. m \in a..b
      BY <2>2 DEF Carry
    <2>4. ASSUME NEW j \in DOMAIN r, IsHead(r[j]) PROVE r[j].frame \in m..b
      <3>1. j \in At /\ k + j \in DOMAIN s /\ j \in Nat
        BY <1>1, <1>2, <1>3, <2>4
      <3>2. i <= j /\ r[j] = s[k + j] /\ s[k + j].frame \in a..b
        BY <1>2, <2>1, <2>4, <3>1 DEF Carry
      <3>3. i # j => k + i < k + j
        BY <1>1, <2>2, <3>1, <3>2
      <3>4. i # j => m < s[k + j].frame
        BY <2>2, <2>4, <3>1, <3>2, <3>3 DEF Carry
      <3> QED
        BY <2>3, <3>2, <3>4
    <2>5. ASSUME NEW n \in m..b PROVE \E j \in DOMAIN r : IsHead(r[j]) /\ r[j].frame = n
      <3>1. n \in a..b
        BY <2>3
      <3>2. PICK j \in DOMAIN s : IsHead(s[j]) /\ s[j].frame = n
        BY <3>1 DEF Carry
      <3>3. j < k + i => s[j].frame < m
        BY <2>2, <3>2 DEF Carry
      <3>4. j - k \in 1..Len(s) - k /\ k + (j - k) = j
        BY <1>1, <2>2, <2>3, <3>2, <3>3
      <3> QED
        BY <1>2, <3>2, <3>4
    <2>6. ASSUME NEW j \in DOMAIN r, NEW l \in DOMAIN r, j < l, IsHead(r[j]), IsHead(r[l])
          PROVE  r[j].frame < r[l].frame
      <3>1. k + j \in DOMAIN s /\ k + l \in DOMAIN s /\ k + j < k + l
        BY <1>1, <1>2, <1>3, <2>6
      <3> QED
        BY <1>2, <2>6, <3>1 DEF Carry
    <2>7. Carry(r, m, b)
      BY <2>4, <2>5, <2>6 DEF Carry
    <2> QED
      BY <2>3, <2>7
  <1> QED
    BY <1>4, <1>5

\* A part without frames is no loss.
LEMMA CarryAll ==
  ASSUME NEW T, NEW s \in Seq(T), NEW a \in Nat, NEW b \in Nat, Carry(s, a, b),
         NEW k \in 0..Len(s), \A i \in 1..k : ~IsHead(s[i])
  PROVE  Carry(After(s, k), a, b)
  <1> DEFINE r == After(s, k)
  <1>1. Len(s) \in Nat /\ DOMAIN s = 1..Len(s)
    BY LenProperties
  <1>2. /\ r \in Seq(T) /\ Len(r) = Len(s) - k /\ DOMAIN r = 1..Len(s) - k
        /\ \A i \in 1..Len(s) - k : r[i] = s[k + i]
    BY AfterIsSeq, LenProperties
  <1>3. \A i \in DOMAIN r : k + i \in DOMAIN s
    BY <1>1, <1>2
  <1>4. ASSUME NEW i \in DOMAIN r, IsHead(r[i]) PROVE r[i].frame \in a..b
    BY <1>2, <1>3, <1>4 DEF Carry
  <1>5. ASSUME NEW n \in a..b PROVE \E i \in DOMAIN r : IsHead(r[i]) /\ r[i].frame = n
    <2>1. PICK j \in DOMAIN s : IsHead(s[j]) /\ s[j].frame = n
      BY DEF Carry
    <2>2. j - k \in 1..Len(s) - k /\ k + (j - k) = j
      BY <1>1, <2>1
    <2> QED
      BY <1>2, <2>1, <2>2
  <1>6. ASSUME NEW j \in DOMAIN r, NEW l \in DOMAIN r, j < l, IsHead(r[j]), IsHead(r[l])
        PROVE  r[j].frame < r[l].frame
    <2>1. k + j \in DOMAIN s /\ k + l \in DOMAIN s /\ k + j < k + l
      BY <1>1, <1>2, <1>3, <1>6
    <2> QED
      BY <1>2, <1>6, <2>1 DEF Carry
  <1> QED
    BY <1>4, <1>5, <1>6 DEF Carry

\* The first frame line is that of the first frame.
LEMMA CarryFirst ==
  ASSUME NEW T, NEW s \in Seq(T), NEW a \in Nat, NEW b \in Nat, a <= b + 1, Carry(s, a, b),
         Len(s) >= 3, IsHead(s[1]), ~IsHead(s[2]), ~IsHead(s[3])
  PROVE  s[1].frame = a /\ a <= b /\ Carry(After(s, 3), a + 1, b)
  <1> DEFINE r == After(s, 3)
  <1>1. Len(s) \in Nat /\ DOMAIN s = 1..Len(s) /\ 1 \in DOMAIN s /\ 3 \in 0..Len(s)
    BY LenProperties
  <1>2. /\ r \in Seq(T) /\ Len(r) = Len(s) - 3 /\ DOMAIN r = 1..Len(s) - 3
        /\ \A i \in 1..Len(s) - 3 : r[i] = s[3 + i]
    <2>1. \A k \in 0..Len(s) :
            /\ After(s, k) \in Seq(T) /\ Len(After(s, k)) = Len(s) - k
            /\ \A i \in 1..Len(s) - k : After(s, k)[i] = s[k + i]
      BY AfterIsSeq
    <2>2. /\ r \in Seq(T) /\ Len(r) = Len(s) - 3
          /\ \A i \in 1..Len(s) - 3 : r[i] = s[3 + i]
      BY <1>1, <2>1
    <2> QED
      BY <2>2, LenProperties
  <1>3. \A i \in DOMAIN r : 3 + i \in DOMAIN s
    BY <1>1, <1>2
  <1>4. s[1].frame \in a..b
    BY <1>1 DEF Carry
  <1>5. PICK p \in DOMAIN s : IsHead(s[p]) /\ s[p].frame = a
    BY <1>4 DEF Carry
  <1>6. p > 1 => s[1].frame < a
    BY <1>1, <1>5 DEF Carry
  <1>7. p = 1
    BY <1>1, <1>4, <1>5, <1>6
  <1>8. ASSUME NEW i \in DOMAIN r, IsHead(r[i]) PROVE r[i].frame \in a + 1..b
    <2>1. 3 + i \in DOMAIN s /\ 1 < 3 + i /\ r[i] = s[3 + i]
      BY <1>2, <1>3
    <2>2. s[3 + i].frame \in a..b /\ a < s[3 + i].frame
      BY <1>1, <1>5, <1>7, <1>8, <2>1 DEF Carry
    <2> QED
      BY <2>1, <2>2
  <1>9. ASSUME NEW n \in a + 1..b PROVE \E i \in DOMAIN r : IsHead(r[i]) /\ r[i].frame = n
    <2>1. n \in a..b /\ n # a
      OBVIOUS
    <2>2. PICK j \in DOMAIN s : IsHead(s[j]) /\ s[j].frame = n
      BY <2>1 DEF Carry
    <2>3. j # 1 /\ j # 2 /\ j # 3
      BY <1>5, <1>7, <2>1, <2>2
    <2>4. j - 3 \in 1..Len(s) - 3 /\ 3 + (j - 3) = j
      BY <1>1, <2>2, <2>3
    <2> QED
      BY <1>2, <2>2, <2>4
  <1>10. ASSUME NEW j \in DOMAIN r, NEW l \in DOMAIN r, j < l, IsHead(r[j]), IsHead(r[l])
         PROVE  r[j].frame < r[l].frame
    <2>1. 3 + j \in DOMAIN s /\ 3 + l \in DOMAIN s /\ 3 + j < 3 + l
      BY <1>1, <1>2, <1>3, <1>10
    <2> QED
      BY <1>2, <1>10, <2>1 DEF Carry
  <1>11. Carry(r, a + 1, b)
    BY <1>8, <1>9, <1>10 DEF Carry
  <1> QED
    BY <1>4, <1>5, <1>7, <1>11

\* An answer adds none.
LEMMA CarryMore ==
  ASSUME NEW T, NEW s \in Seq(T), NEW t \in Seq(T), NEW a \in Nat, NEW b \in Nat, Carry(s, a, b),
         \A i \in 1..Len(t) : ~IsHead(t[i])
  PROVE  Carry(s \o t, a, b)
  <1> DEFINE r == s \o t
  <1>1. Len(s) \in Nat /\ DOMAIN s = 1..Len(s) /\ Len(t) \in Nat
    BY LenProperties
  <1>2. /\ r \in Seq(T) /\ Len(r) = Len(s) + Len(t) /\ DOMAIN r = 1..Len(s) + Len(t)
        /\ \A i \in 1..Len(s) + Len(t) : r[i] = IF i <= Len(s) THEN s[i] ELSE t[i - Len(s)]
    BY ConcatProperties, LenProperties
  <1>3. ASSUME NEW i \in DOMAIN r, IsHead(r[i]) PROVE i \in DOMAIN s /\ r[i] = s[i]
    <2>1. ~ (i <= Len(s)) => i - Len(s) \in 1..Len(t)
      BY <1>1, <1>2
    <2> QED
      BY <1>1, <1>2, <1>3, <2>1
  <1>4. \A i \in DOMAIN s : i \in DOMAIN r /\ r[i] = s[i]
    BY <1>1, <1>2
  <1> QED
    BY <1>3, <1>4 DEF Carry

\* The line of the next frame adds that one.
LEMMA CarryNext ==
  ASSUME NEW T, NEW s \in Seq(T), NEW t \in Seq(T), NEW a \in Nat, NEW b \in Nat, a <= b + 1,
         Carry(s, a, b), Len(t) = 3, IsHead(t[1]), t[1].frame = b + 1, ~IsHead(t[2]), ~IsHead(t[3])
  PROVE  Carry(s \o t, a, b + 1)
  <1> DEFINE r == s \o t
  <1>1. Len(s) \in Nat /\ DOMAIN s = 1..Len(s)
    BY LenProperties
  <1>2. /\ r \in Seq(T) /\ Len(r) = Len(s) + 3 /\ DOMAIN r = 1..Len(s) + 3
        /\ \A i \in 1..Len(s) + 3 : r[i] = IF i <= Len(s) THEN s[i] ELSE t[i - Len(s)]
    <2>1. /\ r \in Seq(T) /\ Len(r) = Len(s) + Len(t)
          /\ \A i \in 1..Len(s) + Len(t) : r[i] = IF i <= Len(s) THEN s[i] ELSE t[i - Len(s)]
      BY ConcatProperties
    <2>2. DOMAIN r = 1..Len(r)
      <3> HIDE DEF r
      <3> QED
        BY <2>1, LenProperties
    <2> QED
      BY <2>1, <2>2
  <1>3. ASSUME NEW i \in DOMAIN r, IsHead(r[i])
        PROVE  \/ i \in DOMAIN s /\ r[i] = s[i] /\ r[i].frame \in a..b
               \/ i = Len(s) + 1 /\ r[i].frame = b + 1
    <2>1. CASE i <= Len(s)
      <3>1. i \in DOMAIN s /\ r[i] = s[i]
        BY <1>1, <1>2, <2>1
      <3> QED
        BY <1>3, <3>1 DEF Carry
    <2>2. CASE ~ (i <= Len(s))
      <3>1. r[i] = t[i - Len(s)] /\ i - Len(s) \in {1, 2, 3}
        BY <1>1, <1>2, <2>2
      <3>2. i - Len(s) = 1
        BY <1>3, <3>1
      <3> QED
        BY <1>1, <1>2, <3>1, <3>2
    <2> QED
      BY <2>1, <2>2
  <1>4. \A i \in DOMAIN s : i \in DOMAIN r /\ r[i] = s[i]
    BY <1>1, <1>2
  <1>5. Len(s) + 1 \in DOMAIN r /\ r[Len(s) + 1] = t[1]
    BY <1>1, <1>2
  <1>6. \A i \in DOMAIN r : IsHead(r[i]) => r[i].frame \in a..b + 1
    BY <1>3
  <1>7. \A n \in a..b + 1 : \E i \in DOMAIN r : IsHead(r[i]) /\ r[i].frame = n
    <2>1. ASSUME NEW n \in a..b PROVE \E i \in DOMAIN r : IsHead(r[i]) /\ r[i].frame = n
      BY <1>4 DEF Carry
    <2>2. \A n \in a..b + 1 : n \in a..b \/ n = b + 1
      OBVIOUS
    <2> QED
      BY <1>5, <2>1, <2>2
  <1>8. ASSUME NEW i \in DOMAIN r, NEW j \in DOMAIN r, i < j, IsHead(r[i]), IsHead(r[j])
        PROVE  r[i].frame < r[j].frame
    <2>1. CASE j \in DOMAIN s /\ r[j] = s[j]
      <3>1. i \in DOMAIN s /\ r[i] = s[i]
        BY <1>1, <1>2, <1>4, <1>8, <2>1
      <3> QED
        BY <1>8, <2>1, <3>1 DEF Carry
    <2>2. CASE j = Len(s) + 1 /\ r[j].frame = b + 1
      <3>1. r[i].frame \in a..b
        BY <1>1, <1>3, <1>8, <2>2
      <3> QED
        BY <2>2, <3>1
    <2> QED
      BY <1>3, <1>8, <2>1, <2>2
  <1>9. a <= (b + 1) + 1
    OBVIOUS
  <1> QED
    BY <1>6, <1>7, <1>8, <1>9 DEF Carry

-----------------------------------------------------------------------------
(* The answers in a text *)

\* A text that ends where a line ends.
LineDone(s) == s = <<>> \/ s[Len(s)] \in {Cr, Bel}

\* No two answers are farther apart than w.
Within(s, w) == \A i, j \in Answers(s) : j <= i + w

\* What the tokens are that the device sends.
LEMMA TokenKinds ==
  /\ Cr.kind = "cr" /\ Bel.kind = "bel" /\ VersionText.kind = "version"
  /\ {Cr, Bel, VersionText} \subseteq Tokens
  /\ \A n : LET t == FrameLine(n)
            IN  /\ Len(t) = 3 /\ Head(t).frame = n
                /\ t[1].kind = "head" /\ t[1].frame = n
                /\ t[2].kind = "tail" /\ t[2].frame = n
                /\ t[3] = Cr
                /\ n \in 1..MaxFrames => t \in Seq(Tokens)
  <1>1. /\ Cr.kind = "cr" /\ Bel.kind = "bel" /\ VersionText.kind = "version"
        /\ {Cr, Bel, VersionText} \subseteq Tokens
    BY DEF Cr, Bel, VersionText, Token, Tokens
  <1>2. ASSUME NEW n, NEW t, t = FrameLine(n)
        PROVE  /\ Len(t) = 3 /\ Head(t) = Token("head", n)
               /\ t[1] = Token("head", n) /\ t[2] = Token("tail", n) /\ t[3] = Cr
               /\ n \in 1..MaxFrames => t \in Seq(Tokens)
    <2>1. Len(t) = 3 /\ Head(t) = Token("head", n) /\ t[1] = Token("head", n) /\ t[2] = Token("tail", n) /\ t[3] = Cr
      BY <1>2 DEF FrameLine
    <2>2. ASSUME n \in 1..MaxFrames
          PROVE  Token("head", n) \in Tokens /\ Token("tail", n) \in Tokens /\ Cr \in Tokens
      BY <1>1, <2>2 DEF Tokens
    <2>3. \A a, b, c \in Tokens : <<a, b, c>> \in Seq(Tokens)
      OBVIOUS
    <2> QED
      BY <1>2, <2>1, <2>2, <2>3 DEF FrameLine
  <1>3. \A k, n : Token(k, n).kind = k /\ Token(k, n).frame = n
    BY DEF Token
  <1> QED
    BY <1>1, <1>2, <1>3

\* What is an answer behind a CR or a BEL was one in the whole text.
LEMMA AnswersAfter ==
  ASSUME NEW T, NEW s \in Seq(T), NEW k \in 0..Len(s), k # 0 => s[k] \in {Cr, Bel}
  PROVE  \A i \in Answers(After(s, k)) : k + i \in Answers(s)
  <1> DEFINE r == After(s, k)
  <1>1. Len(s) \in Nat /\ DOMAIN s = 1..Len(s)
    BY LenProperties
  <1>2. /\ r \in Seq(T) /\ Len(r) = Len(s) - k /\ DOMAIN r = 1..Len(s) - k
        /\ \A i \in 1..Len(s) - k : r[i] = s[k + i]
    BY AfterIsSeq, LenProperties
  <1> HIDE DEF r
  <1>3. ASSUME NEW i \in DOMAIN r, EndsFrame(s, k + i) PROVE EndsFrame(r, i)
    <2>1. i # 1 \/ k = 0
      <3> SUFFICES ASSUME i = 1, k # 0 PROVE FALSE
        OBVIOUS
      <3>1. (k + i) - 1 = k
        BY <1>1
      <3> QED
        BY <1>3, <3>1, TokenKinds DEF EndsFrame
    <2>2. i # 2 \/ k = 0
      <3> SUFFICES ASSUME i = 2, k # 0 PROVE FALSE
        OBVIOUS
      <3>1. (k + i) - 2 = k
        BY <1>1
      <3> QED
        BY <1>3, <3>1, TokenKinds DEF EndsFrame, IsHead
    <2>3. i >= 3
      BY <1>1, <1>2, <1>3, <2>1, <2>2 DEF EndsFrame
    <2>4. /\ r[i] = s[k + i] /\ r[i - 1] = s[(k + i) - 1] /\ r[i - 2] = s[(k + i) - 2]
          /\ i > 3 => r[i - 3] = s[(k + i) - 3] /\ k + i > 3
      <3>1. /\ i - 1 \in 1..Len(s) - k /\ k + (i - 1) = (k + i) - 1
            /\ i - 2 \in 1..Len(s) - k /\ k + (i - 2) = (k + i) - 2
            /\ i > 3 => i - 3 \in 1..Len(s) - k /\ k + (i - 3) = (k + i) - 3 /\ k + i > 3
        <4>1. i \in 1..Len(s) - k /\ k \in Nat
          BY <1>1, <1>2
        <4>2. /\ i - 1 \in 1..Len(s) - k /\ k + (i - 1) = (k + i) - 1
              /\ i - 2 \in 1..Len(s) - k /\ k + (i - 2) = (k + i) - 2
          BY <1>1, <2>3, <4>1
        <4>3. i > 3 => i - 3 \in 1..Len(s) - k /\ k + (i - 3) = (k + i) - 3 /\ k + i > 3
          BY <1>1, <4>1
        <4> QED
          BY <4>2, <4>3
      <3> QED
        BY <1>2, <3>1
    <2>5. /\ s[k + i] = Cr /\ s[(k + i) - 1].kind = "tail" /\ IsHead(s[(k + i) - 2])
          /\ s[(k + i) - 1].frame = s[(k + i) - 2].frame
          /\ k + i > 3 => s[(k + i) - 3] \in {Cr, Bel}
      BY <1>3 DEF EndsFrame
    <2> QED
      BY <2>3, <2>4, <2>5 DEF EndsFrame
  <1> SUFFICES ASSUME NEW i \in Answers(r) PROVE k + i \in Answers(s)
    BY DEF r
  <1>4. i \in DOMAIN r /\ k + i \in DOMAIN s /\ r[i] = s[k + i]
    <2>1. i \in 1..Len(s) - k
      BY <1>2 DEF Answers
    <2>2. k + i \in 1..Len(s)
      BY <1>1, <2>1
    <2> QED
      BY <1>1, <1>2, <2>1, <2>2
  <1> QED
    BY <1>3, <1>4 DEF Answers

\* Answers are within their bound in what is left of a text, too.
LEMMA WithinAfter ==
  ASSUME NEW T, NEW s \in Seq(T), NEW k \in 0..Len(s), k # 0 => s[k] \in {Cr, Bel},
         NEW w \in Nat, Within(s, w)
  PROVE  Within(After(s, k), w)
  <1>1. \A i \in Answers(After(s, k)) : k + i \in Answers(s)
    BY AnswersAfter
  <1>2. \A i \in Answers(After(s, k)) : i \in Int
    BY AfterIsSeq, LenProperties DEF Answers
  <1>3. k \in Int
    BY LenProperties
  <1> SUFFICES ASSUME NEW i \in Answers(After(s, k)), NEW j \in Answers(After(s, k))
               PROVE  j <= i + w
    BY DEF Within
  <1>4. k + j <= k + i + w
    BY <1>1 DEF Within
  <1> QED
    BY <1>2, <1>3, <1>4

\* What is left of a text of whole lines ends as that text does.
LEMMA DoneAfter ==
  ASSUME NEW T, NEW s \in Seq(T), NEW k \in 0..Len(s), LineDone(s)
  PROVE  LineDone(After(s, k))
  <1> DEFINE r == After(s, k)
  <1>1. Len(s) \in Nat
    BY LenProperties
  <1>2. /\ r \in Seq(T) /\ Len(r) = Len(s) - k /\ (k = Len(s) => r = <<>>)
        /\ \A i \in 1..Len(s) - k : r[i] = s[k + i]
    BY AfterIsSeq
  <1>3. CASE k = Len(s)
    BY <1>2, <1>3 DEF LineDone
  <1>4. CASE k # Len(s)
    <2>1. Len(r) \in 1..Len(s) - k /\ k + Len(r) = Len(s) /\ Len(s) # 0
      BY <1>1, <1>2, <1>4
    <2>2. s # <<>>
      BY <2>1, EmptySeq
    <2> QED
      BY <1>2, <2>1, <2>2 DEF LineDone
  <1> QED
    BY <1>3, <1>4

\* What is added to a text changes nothing in it.
LEMMA AnswersMore ==
  ASSUME NEW T, NEW s \in Seq(T), NEW t \in Seq(T)
  PROVE  \A i \in Answers(s \o t) : i \in Answers(s) \/ i \in Len(s) + 1..Len(s) + Len(t)
  <1> DEFINE r == s \o t
  <1>1. Len(s) \in Nat /\ DOMAIN s = 1..Len(s) /\ Len(t) \in Nat
    BY LenProperties
  <1>2. /\ r \in Seq(T) /\ Len(r) = Len(s) + Len(t) /\ DOMAIN r = 1..Len(s) + Len(t)
        /\ \A i \in 1..Len(s) + Len(t) : r[i] = IF i <= Len(s) THEN s[i] ELSE t[i - Len(s)]
    BY ConcatProperties, LenProperties
  <1> HIDE DEF r
  <1>3. ASSUME NEW i \in 1..Len(s), EndsFrame(s, i) PROVE EndsFrame(r, i)
    <2>1. /\ r[i] = s[i] /\ r[i - 1] = s[i - 1] /\ r[i - 2] = s[i - 2]
          /\ i > 3 => r[i - 3] = s[i - 3]
      <3>1. /\ i \in 1..Len(s) + Len(t)
            /\ i - 1 \in 1..Len(s) + Len(t) /\ i - 1 <= Len(s)
            /\ i - 2 \in 1..Len(s) + Len(t) /\ i - 2 <= Len(s)
            /\ i > 3 => i - 3 \in 1..Len(s) + Len(t) /\ i - 3 <= Len(s)
        BY <1>1, <1>3 DEF EndsFrame
      <3> QED
        BY <1>2, <3>1
    <2> QED
      BY <1>3, <2>1 DEF EndsFrame
  <1> SUFFICES ASSUME NEW i \in Answers(r), ~ (i \in Len(s) + 1..Len(s) + Len(t))
               PROVE  i \in Answers(s)
    BY DEF r
  <1>4. i \in 1..Len(s) /\ r[i] = s[i]
    BY <1>1, <1>2 DEF Answers
  <1> QED
    BY <1>1, <1>3, <1>4 DEF Answers

\* An answer behind a text without one.
LEMMA AnswerComes ==
  ASSUME NEW T, NEW s \in Seq(T), NEW t \in Seq(T), Answers(s) = {}, NEW w \in Nat, Len(t) <= w + 1
  PROVE  Within(s \o t, w)
  <1>1. Len(s) \in Nat /\ Len(t) \in Nat
    BY LenProperties
  <1>2. \A i \in Answers(s \o t) : i \in Len(s) + 1..Len(s) + Len(t)
    BY AnswersMore
  <1> QED
    BY <1>1, <1>2 DEF Within

\* A text that ends a line ends whatever it is added to.
LEMMA DoneMore ==
  ASSUME NEW T, NEW s \in Seq(T), NEW t \in Seq(T), t # <<>>, t[Len(t)] \in {Cr, Bel}
  PROVE  LineDone(s \o t)
  <1>1. Len(s) \in Nat /\ Len(t) \in Nat \ {0}
    BY LenProperties, EmptySeq
  <1>2. /\ Len(s \o t) = Len(s) + Len(t)
        /\ \A i \in 1..Len(s) + Len(t) : (s \o t)[i] = IF i <= Len(s) THEN s[i] ELSE t[i - Len(s)]
    BY ConcatProperties
  <1>3. /\ Len(s) + Len(t) \in 1..Len(s) + Len(t) /\ ~ (Len(s) + Len(t) <= Len(s))
        /\ Len(s) + Len(t) - Len(s) = Len(t)
    BY <1>1
  <1> QED
    BY <1>2, <1>3 DEF LineDone

\* The line of a frame adds no answer.
LEMMA FrameComes ==
  ASSUME NEW s \in Seq(Tokens), LineDone(s), NEW n \in 1..MaxFrames
  PROVE  Answers(s \o FrameLine(n)) \subseteq Answers(s) /\ LineDone(s \o FrameLine(n))
  <1> DEFINE t == FrameLine(n)
             r == s \o t
  <1>1. /\ Len(t) = 3 /\ t \in Seq(Tokens) /\ t[1].kind = "head" /\ t[1].frame = n
        /\ t[2].kind = "tail" /\ t[2].frame = n /\ t[3] = Cr
    BY TokenKinds
  <1> HIDE DEF t
  <1>2. Len(s) \in Nat /\ DOMAIN s = 1..Len(s)
    BY LenProperties
  <1>3. /\ r \in Seq(Tokens) /\ Len(r) = Len(s) + Len(t)
        /\ \A i \in 1..Len(s) + Len(t) : r[i] = IF i <= Len(s) THEN s[i] ELSE t[i - Len(s)]
    BY <1>1, ConcatProperties
  <1>4. \A i \in Answers(r) : i \in Answers(s) \/ i \in Len(s) + 1..Len(s) + Len(t)
    BY <1>1, AnswersMore
  <1> HIDE DEF r
  <1>5. /\ r[Len(s) + 1] = t[1] /\ r[Len(s) + 2] = t[2] /\ r[Len(s) + 3] = t[3]
        /\ Len(s) > 0 => r[Len(s)] = s[Len(s)]
    <2>1. /\ Len(s) + 1 \in 1..Len(s) + Len(t) /\ ~ (Len(s) + 1 <= Len(s)) /\ Len(s) + 1 - Len(s) = 1
          /\ Len(s) + 2 \in 1..Len(s) + Len(t) /\ ~ (Len(s) + 2 <= Len(s)) /\ Len(s) + 2 - Len(s) = 2
          /\ Len(s) + 3 \in 1..Len(s) + Len(t) /\ ~ (Len(s) + 3 <= Len(s)) /\ Len(s) + 3 - Len(s) = 3
          /\ Len(s) > 0 => Len(s) \in 1..Len(s) + Len(t) /\ Len(s) <= Len(s)
      BY <1>1, <1>2
    <2> QED
      BY <1>3, <2>1
  <1>6. EndsFrame(r, Len(s) + 3)
    <2>1. /\ Len(s) + 3 >= 3 /\ Len(s) + 3 - 1 = Len(s) + 2 /\ Len(s) + 3 - 2 = Len(s) + 1
          /\ Len(s) + 3 - 3 = Len(s) /\ (Len(s) + 3 > 3 => Len(s) > 0)
      BY <1>2
    <2>2. Len(s) > 0 => s[Len(s)] \in {Cr, Bel}
      BY <1>2, EmptySeq DEF LineDone
    <2> QED
      BY <1>1, <1>5, <2>1, <2>2 DEF EndsFrame, IsHead
  <1>7. Len(s) + 1 \notin Answers(r) /\ Len(s) + 2 \notin Answers(r) /\ Len(s) + 3 \notin Answers(r)
    BY <1>1, <1>5, <1>6, TokenKinds DEF Answers
  <1>8. \A i \in Len(s) + 1..Len(s) + Len(t) : i = Len(s) + 1 \/ i = Len(s) + 2 \/ i = Len(s) + 3
    BY <1>1, <1>2
  <1>9. Answers(r) \subseteq Answers(s)
    BY <1>4, <1>7, <1>8
  <1>10. t # <<>> /\ t[Len(t)] \in {Cr, Bel}
    <2>1. Len(<<>>) = 0
      OBVIOUS
    <2>2. t[Len(t)] = Cr
      BY <1>1
    <2>3. t # <<>>
      <3>1. Len(t) # Len(<<>>)
        BY <1>1, <2>1
      <3> QED
        BY <3>1
    <2> QED
      BY <2>2, <2>3
  <1>11. LineDone(s \o t)
    BY <1>1, <1>10, DoneMore
  <1> QED
    BY <1>9, <1>11 DEF r, t

\* The first line of a text that has no answer is a frame.
LEMMA FirstLineIsFrame ==
  ASSUME NEW s \in Seq(Tokens), NEW p \in 1..Len(s), EndsFrame(s, p),
         \A i \in 1..p - 1 : s[i] \notin {Cr, Bel}
  PROVE  p = 3 /\ IsFrame(SubSeq(s, 1, p)) /\ SubSeq(s, 1, p) # <<Cr>>
  <1>1. Len(s) \in Nat
    BY LenProperties
  <1>2. p = 3
    <2>1. p > 3 => p - 3 \in 1..p - 1
      BY <1>1
    <2> QED
      BY <1>1, <2>1 DEF EndsFrame
  <1>3. s[1] \in Tokens /\ s[2] \in Tokens
    BY <1>1, <1>2, ElementOfSeq
  <1>4. /\ s[1].kind = "head" /\ s[2].kind = "tail" /\ s[2].frame = s[1].frame /\ s[3] = Cr
    BY <1>2 DEF EndsFrame, IsHead
  <1>5. PICK n \in 1..MaxFrames : s[1] = Token("head", n)
    BY <1>3, <1>4 DEF Tokens, Token, Cr, Bel, VersionText
  <1>6. s[2] = Token("tail", n)
    BY <1>3, <1>4, <1>5 DEF Tokens, Token, Cr, Bel, VersionText
  <1>7. /\ SubSeq(s, 1, 3) \in Seq(Tokens) /\ Len(SubSeq(s, 1, 3)) = 3
        /\ \A i \in 1..3 : SubSeq(s, 1, 3)[i] = s[i]
    <2>1. \A i \in 1..3 : s[i] \in Tokens
      BY <1>1, <1>2, ElementOfSeq
    <2> QED
      BY <2>1, SubSeqProperties
  <1>8. SubSeq(s, 1, 3) = FrameLine(n)
    <2>1. FrameLine(n) \in Seq(Tokens) /\ Len(FrameLine(n)) = 3
      BY TokenKinds
    <2>2. FrameLine(n)[1] = s[1] /\ FrameLine(n)[2] = s[2] /\ FrameLine(n)[3] = s[3]
      BY <1>4, <1>5, <1>6 DEF FrameLine
    <2> QED
      BY <1>7, <2>1, <2>2, SeqEqual
  <1>9. Len(<<Cr>>) = 1
    OBVIOUS
  <1> QED
    BY <1>2, <1>7, <1>8, <1>9 DEF IsFrame

-----------------------------------------------------------------------------
(* Types *)

\* While the port is open nothing has ended, and connect leaves what
\* next_frame uses alone.
AdapterTypeInv ==
  /\ AdapterTypeOK
  /\ step # "closed" => result = "none"
  /\ step \in Connecting => buffer = <<>> /\ delivered = <<>>

LEMMA TypeInit == AdapterInit => AdapterTypeInv
  <1> SUFFICES ASSUME AdapterInit PROVE AdapterTypeInv
    OBVIOUS
  <1>1. \A S : <<>> \in Seq(S)
    BY EmptySeq
  <1>2. DOMAIN Dialogue = 1..7
    BY DEF Dialogue
  <1>3. kept \in 0..MaxKept /\ connects \in 0..MaxConnects /\ emitted \in 0..MaxFrames
    BY AdapterAssumption DEF AdapterInit
  <1>4. kept = MaxKept <=> result = "max-frames-reached"
    BY AdapterAssumption DEF AdapterInit
  <1>5. /\ commands \in Seq(Settings \cup {"V", "C", "O"}) /\ wire \in Seq(Tokens)
        /\ line \in Seq(Tokens \ {Cr, Bel}) /\ buffer \in Seq(Tokens)
        /\ delivered \in Seq(1..MaxFrames)
    BY <1>1 DEF AdapterInit
  <1>6. step = "closed" /\ result = "none" /\ result \in Results /\ command \in DOMAIN Dialogue
    BY <1>2 DEF AdapterInit, Results
  <1>7. /\ device \in {"closed", "open"} /\ settings \subseteq Settings /\ owner \in {"worker", "capture"}
        /\ version \in BOOLEAN /\ over \in BOOLEAN /\ inStep \in BOOLEAN
    BY DEF AdapterInit
  <1> QED
    BY <1>3, <1>4, <1>5, <1>6, <1>7 DEF AdapterTypeInv, AdapterTypeOK, Connecting

\* The commands that are written.
LEMMA DialogueCommands ==
  /\ DOMAIN Dialogue = 1..7 /\ Len(Dialogue) = 7
  /\ \A k \in 1..7 : Dialogue[k] \in Settings \cup {"V", "C", "O"}
  /\ Dialogue[1] = "V" /\ Dialogue[2] = "C" /\ Dialogue[7] = "O"
  /\ \A k \in 3..6 : Dialogue[k] \in Settings
  /\ \A c \in Settings : \E k \in 3..6 : Dialogue[k] = c
  /\ \A k \in 1..7 : (Dialogue[k] = "V" <=> k = 1) /\ (Dialogue[k] = "C" <=> k = 2)
  /\ Settings \cap {"V", "C", "O"} = {}
  <1>1. DOMAIN Dialogue = 1..7 /\ Len(Dialogue) = 7
    BY DEF Dialogue
  <1>2. /\ Dialogue[1] = "V" /\ Dialogue[2] = "C" /\ Dialogue[3] = "M" /\ Dialogue[4] = "A"
        /\ Dialogue[5] = "S" /\ Dialogue[6] = "Y" /\ Dialogue[7] = "O"
    BY DEF Dialogue
  <1>3. \A k \in 1..7 : k = 1 \/ k = 2 \/ k = 3 \/ k = 4 \/ k = 5 \/ k = 6 \/ k = 7
    OBVIOUS
  <1>4. \A k \in 3..6 : k = 3 \/ k = 4 \/ k = 5 \/ k = 6
    OBVIOUS
  <1>5. 3 \in 3..6 /\ 4 \in 3..6 /\ 5 \in 3..6 /\ 6 \in 3..6
    OBVIOUS
  <1>6. \A c \in Settings : \E k \in 3..6 : Dialogue[k] = c
    BY <1>2, <1>5 DEF Settings
  <1>7. \A k \in 1..7 : (Dialogue[k] = "V" <=> k = 1) /\ (Dialogue[k] = "C" <=> k = 2)
    BY <1>2, <1>3
  <1> QED
    BY <1>1, <1>2, <1>3, <1>4, <1>6, <1>7 DEF Settings

\* The next command, or the end of connect.
LEMMA NextCommandIs ==
  ASSUME NextCommand, command \in 1..7
  PROVE  \/ command = 7 /\ step' = "loop" /\ command' = command
         \/ command < 7 /\ step' = "write" /\ command' = command + 1
  BY DialogueCommands DEF NextCommand

\* The rest of a buffer that has this token.
LEMMA RestOfBuffer ==
  ASSUME NEW token, Position(token) # 0, buffer \in Seq(Tokens), wire \in Seq(Tokens)
  PROVE  /\ Position(token) \in 1..Len(buffer)
         /\ SubSeq(buffer, Position(token) + 1, Len(buffer)) = After(buffer, Position(token))
         /\ After(buffer, Position(token)) \in Seq(Tokens)
         /\ After(buffer \o wire, Position(token)) = After(buffer, Position(token)) \o wire
         /\ buffer[Position(token)] = token
         /\ \A i \in 1..Position(token) - 1 : buffer[i] # token
  <1>1. /\ Position(token) \in 0..Len(buffer) /\ buffer[Position(token)] = token
        /\ \A i \in 1..Position(token) - 1 : buffer[i] # token
    BY PositionFirst
  <1>2. Len(buffer) \in Nat
    BY LenProperties
  <1> DEFINE p == Position(token)
  <1> HIDE DEF p
  <1>3. p \in 1..Len(buffer) /\ p \in 0..Len(buffer)
    BY <1>1, <1>2 DEF p
  <1>4. After(buffer, p) \in Seq(Tokens) /\ After(buffer \o wire, p) = After(buffer, p) \o wire
    BY <1>3, AfterIsSeq, AfterOfConcat
  <1> QED
    BY <1>1, <1>3, <1>4 DEF p, After

LEMMA TypeNext ==
  ASSUME AdapterTypeInv, [AdapterNext]_adapterVars
  PROVE  AdapterTypeInv'
  <1> USE DEF AdapterTypeInv
  <1>1. ASSUME NEW who \in {"worker", "capture"}, OpenPort(who) PROVE AdapterTypeInv'
    <2>1. wire' \in Seq(Tokens) /\ <<>> \in Seq(Tokens \ {Cr, Bel}) /\ <<>> \in Seq(1..MaxFrames) /\ <<>> \in Seq(Tokens)
      BY <1>1, EmptySeq DEF OpenPort, AdapterTypeOK
    <2>2. connects' \in 0..MaxConnects /\ kept' \in 0..MaxKept /\ kept' # MaxKept
      BY <1>1, AdapterAssumption DEF OpenPort, AdapterTypeOK
    <2>3. inStep' \in BOOLEAN
      BY <1>1 DEF OpenPort
    <2>4. /\ step' = "write" /\ result' = "none" /\ result' \in Results /\ command' \in DOMAIN Dialogue
          /\ buffer' = <<>> /\ delivered' = <<>> /\ line' = <<>>
      BY <1>1, DialogueCommands DEF OpenPort, Results
    <2>5. /\ owner' \in {"worker", "capture"} /\ version' \in BOOLEAN /\ over' \in BOOLEAN
          /\ UNCHANGED <<device, settings, emitted, commands>>
      BY <1>1 DEF OpenPort, deviceVars
    <2> QED
      BY <2>1, <2>2, <2>3, <2>4, <2>5 DEF AdapterTypeOK, Connecting, Receiving
  <1>2. CASE WriteCommand
    <2>1. commands' \in Seq(Settings \cup {"V", "C", "O"})
      BY <1>2, DialogueCommands, AppendProperties DEF WriteCommand, AdapterTypeOK
    <2>2. <<>> \in Seq(Tokens \ {Cr, Bel})
      BY EmptySeq
    <2> QED
      BY <1>2, <2>1, <2>2
         DEF WriteCommand, AdapterTypeOK, deviceVars, receiveVars, openVars, Connecting, Receiving
  <1>3. CASE ReadByte
    <2>1. wire # <<>> /\ Head(wire) \in Tokens /\ wire' \in Seq(Tokens)
      BY <1>3, HeadTailProperties DEF ReadByte, AdapterTypeOK
    <2>2. command \in 1..7 /\ step = "wait"
      BY <1>3, DialogueCommands DEF ReadByte, AdapterTypeOK
    <2>3. ASSUME NEW byte \in Tokens, byte \notin {Cr, Bel}
          PROVE  Append(line, byte) \in Seq(Tokens \ {Cr, Bel})
      BY <2>3, AppendProperties DEF AdapterTypeOK
    <2>4. <<>> \in Seq(Tokens \ {Cr, Bel})
      BY EmptySeq
    <2>5. ASSUME NextCommand
          PROVE  step' \in {"loop", "write"} /\ command' \in 1..7
      BY <2>2, <2>5, NextCommandIs
    <2>6. /\ step' \in {"closed", "wait", "loop", "write"} /\ command' \in 1..7
          /\ line' \in Seq(Tokens \ {Cr, Bel}) /\ version' \in BOOLEAN
      <3>1. CASE ReadVersion(Head(wire))
        BY <2>1, <2>2, <2>3, <2>4, <2>5, <3>1 DEF ReadVersion, AdapterTypeOK
      <3>2. CASE ReadAnswer(Head(wire))
        BY <2>1, <2>2, <2>3, <2>4, <2>5, <3>2 DEF ReadAnswer, ConnectFails, AdapterTypeOK
      <3> QED
        BY <1>3, <3>1, <3>2 DEF ReadByte
    <2> QED
      BY <1>3, <2>1, <2>2, <2>6, DialogueCommands
         DEF ReadByte, AdapterTypeOK, deviceVars, receiveVars, openVars, Connecting, Receiving
  <1>4. CASE CommandFails
    <2>1. command \in 1..7 /\ step \in Connecting
      BY <1>4, DialogueCommands DEF CommandFails, AdapterTypeOK
    <2>2. step' \in {"closed", "loop", "write"} /\ command' \in 1..7
      BY <1>4, <2>1, NextCommandIs DEF CommandFails, ConnectFails
    <2> QED
      BY <1>4, <2>1, <2>2, DialogueCommands
         DEF CommandFails, AdapterTypeOK, deviceVars, receiveVars, openVars, Connecting, Receiving
  <1>5. ASSUME NEW why \in {"stopped", "duration-elapsed", "source-ended", "error"}, Finish(why),
               UNCHANGED <<deviceVars, wire, connectVars, delivered, kept, over, openVars>>,
               buffer' \in Seq(Tokens), step \in Receiving
        PROVE  AdapterTypeInv'
    <2>1. commands' \in Seq(Settings \cup {"V", "C", "O"})
      BY <1>5, AppendProperties DEF Finish, Closing, AdapterTypeOK
    <2>2. kept # MaxKept
      BY <1>5 DEF AdapterTypeOK, Receiving
    <2> QED
      BY <1>5, <2>1, <2>2
         DEF Finish, AdapterTypeOK, deviceVars, connectVars, openVars, Connecting, Receiving, Results
  <1>6. ASSUME step' \in Receiving, step \in Receiving, UNCHANGED <<result, commands>>,
               UNCHANGED <<deviceVars, connectVars, delivered, kept, openVars>>,
               over' \in BOOLEAN, wire' \in Seq(Tokens), buffer' \in Seq(Tokens)
        PROVE  AdapterTypeInv'
    BY <1>6 DEF AdapterTypeOK, deviceVars, connectVars, openVars, Connecting, Receiving
  <1>7. CASE TestOver
    <2>1. /\ step \in Receiving /\ over' \in BOOLEAN /\ wire' \in Seq(Tokens) /\ buffer' \in Seq(Tokens)
          /\ UNCHANGED <<deviceVars, wire, connectVars, delivered, kept, over, openVars>>
      BY <1>7 DEF TestOver, AdapterTypeOK, Receiving
    <2>2. CASE over
      <3>1. \E why \in {"stopped", "duration-elapsed"} : Finish(why)
        BY <1>7, <2>2 DEF TestOver
      <3> QED
        BY <1>5, <2>1, <3>1
    <2>3. CASE ~over
      BY <1>6, <1>7, <2>1, <2>3 DEF TestOver, Receiving
    <2> QED
      BY <2>2, <2>3
  <1>8. CASE TakeBel
    <2>1. buffer' \in Seq(Tokens)
      BY <1>8, RestOfBuffer DEF TakeBel, AdapterTypeOK
    <2> QED
      BY <1>5, <1>8, <2>1 DEF TakeBel, AdapterTypeOK, Receiving
  <1>9. CASE TakeLine
    <2> DEFINE text == SubSeq(buffer, 1, Position(Cr))
    <2>1. /\ step \in Receiving /\ over' \in BOOLEAN /\ wire' \in Seq(Tokens) /\ buffer' \in Seq(Tokens)
          /\ UNCHANGED <<deviceVars, wire, connectVars, over, openVars>>
      BY <1>9, RestOfBuffer DEF TakeLine, Rest, AdapterTypeOK, Receiving
    <2>2. CASE text = <<Cr>> /\ step' = "read" /\ UNCHANGED <<delivered, kept, result, commands>>
      BY <1>6, <2>1, <2>2 DEF Receiving
    <2>3. CASE IsFrame(text) /\ delivered' = Append(delivered, Head(text).frame) /\ TakesFrame
      <3>1. PICK n \in 1..MaxFrames : text = FrameLine(n)
        BY <2>3 DEF IsFrame
      <3>2. Head(text).frame = n
        <4> HIDE DEF text
        <4> QED
          BY <3>1, TokenKinds
      <3>3. delivered' \in Seq(1..MaxFrames)
        BY <2>3, <3>2, AppendProperties DEF AdapterTypeOK
      <3>4. kept < MaxKept /\ kept \in Nat /\ result = "none"
        BY <2>1, AdapterAssumption DEF AdapterTypeOK, Receiving
      <3>5. commands \in Seq(Settings \cup {"V", "C", "O"}) /\ Append(commands, "C") \in Seq(Settings \cup {"V", "C", "O"})
        BY AppendProperties DEF AdapterTypeOK
      <3>6. /\ step' \in {"loop", "closed"} /\ commands' \in Seq(Settings \cup {"V", "C", "O"})
            /\ kept' \in 0..MaxKept
            /\ \/ result' = "none" /\ kept' # MaxKept
               \/ result' = "max-frames-reached" /\ kept' = MaxKept /\ step' = "closed"
        <4>1. CASE Again /\ UNCHANGED kept
          BY <3>4, <3>5, <4>1, AdapterAssumption DEF Again
        <4>2. CASE kept' = kept + 1 /\ kept' >= MaxKept /\ Finish("max-frames-reached")
          BY <3>4, <3>5, <4>2, AdapterAssumption DEF Finish, Closing
        <4>3. CASE kept' = kept + 1 /\ ~ (kept' >= MaxKept) /\ Again
          BY <3>4, <3>5, <4>3, AdapterAssumption DEF Again
        <4> QED
          BY <2>3, <4>1, <4>2, <4>3 DEF TakesFrame
      <3> QED
        BY <2>1, <3>3, <3>6
           DEF AdapterTypeOK, deviceVars, connectVars, openVars, Connecting, Receiving, Results
    <2>4. CASE Finish("error") /\ UNCHANGED <<delivered, kept>>
      BY <1>5, <2>1, <2>4
    <2> QED
      BY <1>9, <2>2, <2>3, <2>4 DEF TakeLine
  <1>10. CASE NoLine
    BY <1>6, <1>10 DEF NoLine, receiveVars, AdapterTypeOK, Receiving
  <1>11. CASE ReadChunk
    <2>1. wire' \in Seq(Tokens) /\ buffer' \in Seq(Tokens)
      BY <1>11, ChunkMoves DEF ReadChunk, AdapterTypeOK
    <2> QED
      BY <1>6, <1>11, <2>1 DEF ReadChunk, AdapterTypeOK, Receiving
  <1>12. CASE ReadTimesOut
    <2>1. CASE Again
      BY <1>6, <1>12, <2>1 DEF ReadTimesOut, Again, AdapterTypeOK, Receiving
    <2>2. CASE Finish("source-ended")
      BY <1>5, <1>12, <2>2 DEF ReadTimesOut, AdapterTypeOK, Receiving
    <2> QED
      BY <1>12, <2>1, <2>2 DEF ReadTimesOut, NoFrame
  <1>13. CASE PortFails
    BY <1>13 DEF PortFails, AdapterTypeOK, deviceVars, connectVars, openVars, Connecting, Receiving, Results
  <1>14. CASE IsOver
    BY <1>6, <1>14 DEF IsOver, receiveVars, AdapterTypeOK
  <1>15. CASE Execute
    <2>1. commands' \in Seq(Settings \cup {"V", "C", "O"})
      BY <1>15, HeadTailProperties DEF Execute, AdapterTypeOK
    <2>2. \A t \in {<<VersionText, Cr>>, <<Bel>>, <<>>, <<Cr>>} : t \in Seq(Tokens)
      <3>1. \A a, b \in Tokens : <<a, b>> \in Seq(Tokens) /\ <<a>> \in Seq(Tokens)
        OBVIOUS
      <3> QED
        BY <3>1, TokenKinds, EmptySeq
    <2>3. wire' \in Seq(Tokens)
      <3>1. \E t \in {<<VersionText, Cr>>, <<Bel>>, <<>>, <<Cr>>} : wire' = wire \o t
        BY <1>15 DEF Execute, Reply
      <3>2. PICK t \in Seq(Tokens) : wire' = wire \o t
        BY <2>2, <3>1
      <3> QED
        BY <3>2, ConcatProperties DEF AdapterTypeOK
    <2>4. device' \in {"closed", "open"} /\ settings' \subseteq Settings
      BY <1>15 DEF Execute, AdapterTypeOK
    <2> QED
      BY <1>15, <2>1, <2>3, <2>4
         DEF Execute, AdapterTypeOK, connectVars, receiveVars, openVars
  <1>16. CASE Emit
    <2>1. emitted' \in 0..MaxFrames /\ emitted + 1 \in 1..MaxFrames
      BY <1>16, AdapterAssumption DEF Emit, AdapterTypeOK
    <2>2. wire' \in Seq(Tokens)
      BY <1>16, <2>1, TokenKinds, ConcatProperties DEF Emit, Reply, AdapterTypeOK
    <2> QED
      BY <1>16, <2>1, <2>2
         DEF Emit, AdapterTypeOK, connectVars, receiveVars, openVars
  <1>17. CASE UNCHANGED adapterVars
    BY <1>17 DEF AdapterTypeOK, adapterVars, deviceVars, connectVars, receiveVars, openVars, Connecting
  <1> QED
    BY <1>1, <1>2, <1>3, <1>4, <1>7, <1>8, <1>9, <1>10, <1>11, <1>12, <1>13, <1>14, <1>15, <1>16, <1>17
       DEF AdapterNext, OwnerNext

-----------------------------------------------------------------------------
(* No frame is missing *)

\* What is on the wire are the latest frames, whoever reads them.
LatestOnWire == \E m \in 1..emitted + 1 : Carry(wire, m, emitted)

FramesInv == LatestOnWire /\ NoFrameMissing

LEMMA FramesInit == AdapterInit => FramesInv
  <1> SUFFICES ASSUME AdapterInit PROVE FramesInv
    OBVIOUS
  <1>1. wire = <<>> /\ emitted = 0 /\ step = "closed"
    BY DEF AdapterInit
  <1>2. DOMAIN wire = {} /\ 1..0 = {} /\ 1 \in 1..emitted + 1
    BY <1>1
  <1>3. Carry(wire, 1, emitted)
    BY <1>1, <1>2 DEF Carry
  <1> QED
    BY <1>1, <1>2, <1>3 DEF FramesInv, LatestOnWire, NoFrameMissing, Receiving

\* The frames sent grow by one at most.
LEMMA MoreEmitted ==
  ASSUME NEW e \in Nat, NEW f \in Nat, f = e \/ f = e + 1
  PROVE  \A m \in 1..e + 1 : m \in 1..f + 1
  OBVIOUS

LEMMA FramesNext ==
  ASSUME AdapterTypeInv, AdapterTypeInv', FramesInv, [AdapterNext]_adapterVars
  PROVE  FramesInv'
  <1> USE DEF FramesInv
  <1>1. /\ emitted \in Nat /\ wire \in Seq(Tokens) /\ buffer \in Seq(Tokens)
        /\ emitted' \in Nat /\ wire' \in Seq(Tokens) /\ buffer' \in Seq(Tokens)
        /\ delivered \in Seq(1..MaxFrames)
    BY AdapterAssumption DEF AdapterTypeInv, AdapterTypeOK
  <1>2. ASSUME NEW k \in 0..Len(wire), wire' = After(wire, k), emitted' = emitted
        PROVE  LatestOnWire'
    <2>1. PICK m \in 1..emitted + 1 : Carry(wire, m, emitted)
      BY DEF LatestOnWire
    <2>2. \E l \in m..emitted + 1 : Carry(After(wire, k), l, emitted)
      BY <1>1, <2>1, CarryAfter
    <2> QED
      BY <1>1, <1>2, <2>1, <2>2 DEF LatestOnWire
  <1>3. ASSUME UNCHANGED <<wire, emitted>>
        PROVE  LatestOnWire'
    BY <1>3 DEF LatestOnWire
  <1>4. ASSUME step' \notin Receiving
        PROVE  NoFrameMissing'
    BY <1>4 DEF NoFrameMissing
  <1>5. ASSUME LatestOnWire', buffer' = <<>>, delivered' = <<>>
        PROVE  NoFrameMissing'
    <2>1. PICK m \in 1..emitted' + 1 : Carry(wire', m, emitted')
      BY <1>5 DEF LatestOnWire
    <2>2. buffer' \o wire' = wire'
      BY <1>1, <1>5, ConcatEmptySeq
    <2>3. Len(delivered') = 0 /\ DOMAIN delivered' = {} /\ m + 0 = m
      BY <1>5, EmptySeq
    <2> QED
      BY <2>1, <2>2, <2>3 DEF NoFrameMissing
  <1>6. ASSUME step \in Receiving, buffer' \o wire' = buffer \o wire, UNCHANGED <<delivered, emitted>>
        PROVE  NoFrameMissing'
    BY <1>6 DEF NoFrameMissing
  <1>7. ASSUME NEW who \in {"worker", "capture"}, OpenPort(who) PROVE FramesInv'
    <2>1. step' \notin Receiving /\ emitted' = emitted /\ wire' \in {<<>>, wire}
      BY <1>7 DEF OpenPort, deviceVars, Receiving
    <2>2. CASE wire' = wire
      BY <1>3, <1>4, <2>1, <2>2
    <2>3. CASE wire' = <<>>
      <3>1. Len(wire) \in 0..Len(wire) /\ After(wire, Len(wire)) = <<>>
        BY <1>1, LenProperties, AfterIsSeq
      <3> QED
        BY <1>2, <1>4, <2>1, <2>3, <3>1
    <2> QED
      BY <2>1, <2>2, <2>3
  <1>8. CASE WriteCommand
    BY <1>3, <1>4, <1>8 DEF WriteCommand, deviceVars, Receiving
  <1>9. CASE ReadByte
    <2>1. wire # <<>> /\ wire' = Tail(wire) /\ emitted' = emitted
      BY <1>9 DEF ReadByte, deviceVars
    <2>2. wire' = After(wire, 1) /\ 1 \in 0..Len(wire)
      BY <1>1, <2>1, TailIsAfter
    <2>3. LatestOnWire'
      BY <1>2, <2>1, <2>2
    <2>4. buffer' = <<>> /\ delivered' = <<>>
      BY <1>9 DEF ReadByte, receiveVars, Connecting, AdapterTypeInv
    <2> QED
      BY <1>5, <2>3, <2>4
  <1>10. CASE CommandFails
    <2>1. buffer' = <<>> /\ delivered' = <<>> /\ UNCHANGED <<wire, emitted>>
      BY <1>10 DEF CommandFails, receiveVars, deviceVars, AdapterTypeInv
    <2> QED
      BY <1>3, <1>5, <2>1
  <1>11. CASE TestOver
    BY <1>3, <1>6, <1>11 DEF TestOver, deviceVars, Receiving
  <1>12. CASE TakeBel
    BY <1>3, <1>4, <1>12 DEF TakeBel, Finish, deviceVars, Receiving
  <1>13. CASE TakeLine
    <2> DEFINE p == Position(Cr)
               text == SubSeq(buffer, 1, p)
               all == buffer \o wire
    <2>1. /\ UNCHANGED <<wire, emitted>> /\ step \in Receiving /\ p # 0 /\ buffer' = Rest
      BY <1>13 DEF TakeLine, deviceVars, Receiving
    <2>2. /\ p \in 1..Len(buffer) /\ buffer' \o wire' = After(all, p) /\ buffer[p] = Cr
      BY <1>1, <2>1, RestOfBuffer DEF Rest
    <2>3. /\ Len(buffer) \in Nat /\ all \in Seq(Tokens) /\ p \in 0..Len(all) /\ Len(buffer) <= Len(all)
          /\ \A i \in 1..Len(buffer) : all[i] = buffer[i] /\ i \in DOMAIN all
      <3>1. /\ all \in Seq(Tokens) /\ Len(all) = Len(buffer) + Len(wire)
            /\ \A i \in 1..Len(buffer) + Len(wire) : all[i] = IF i <= Len(buffer) THEN buffer[i] ELSE wire[i - Len(buffer)]
        BY <1>1, ConcatProperties
      <3>2. Len(buffer) \in Nat /\ Len(wire) \in Nat /\ DOMAIN all = 1..Len(all)
        <4> HIDE DEF all
        <4> QED
          BY <1>1, <3>1, LenProperties
      <3> HIDE DEF all, p
      <3> QED
        BY <2>2, <3>1, <3>2
    <2>4. LatestOnWire'
      BY <1>3, <2>1
    <2>5. PICK first \in 1..emitted + 1 :
            /\ \A i \in DOMAIN delivered : delivered[i] = first + i - 1
            /\ Carry(all, first + Len(delivered), emitted)
      BY <2>1 DEF NoFrameMissing
    <2> DEFINE next == first + Len(delivered)
    <2>6. Len(delivered) \in Nat /\ next \in Nat
      BY <1>1, LenProperties
    <2> HIDE DEF p, all
    <2>7. CASE text = <<Cr>> /\ UNCHANGED <<delivered, kept, result, commands>>
      <3>1. p = 1
        <4>1. Len(<<Cr>>) = 1
          OBVIOUS
        <4>2. Len(text) = p
          <5>1. \A i \in 1..p : buffer[i] \in Tokens
            BY <1>1, <2>2, <2>3, ElementOfSeq
          <5> QED
            BY <2>2, <2>3, <5>1, SubSeqProperties
        <4> QED
          BY <2>7, <4>1, <4>2
      <3>2. ~IsHead(all[1])
        BY <2>2, <2>3, <3>1, TokenKinds DEF IsHead
      <3>3. Carry(After(all, p), next, emitted)
        BY <1>1, <2>3, <2>5, <2>6, <3>1, <3>2, CarryAll
      <3>4. NoFrameMissing'
        BY <2>1, <2>2, <2>5, <2>7, <3>3 DEF NoFrameMissing
      <3> QED
        BY <2>4, <3>4
    <2>8. CASE IsFrame(text) /\ delivered' = Append(delivered, Head(text).frame)
      <3>1. PICK n \in 1..MaxFrames : text = FrameLine(n)
        BY <2>8 DEF IsFrame
      <3>2. Len(text) = p /\ \A i \in 1..p : text[i] = buffer[i]
        <4>1. \A i \in 1..p : buffer[i] \in Tokens
          BY <1>1, <2>2, <2>3, ElementOfSeq
        <4> QED
          BY <2>2, <2>3, <4>1, SubSeqProperties
      <3>3. p = 3 /\ Head(text).frame = n /\ text[1].kind = "head" /\ text[1].frame = n /\ text[2].kind = "tail" /\ text[3] = Cr
        <4> HIDE DEF text
        <4> QED
          BY <3>1, <3>2, TokenKinds
      <3>4. all[1] = text[1] /\ all[2] = text[2] /\ all[3] = text[3] /\ Len(all) >= 3
        <4>1. 1 \in 1..p /\ 2 \in 1..p /\ 3 \in 1..p /\ 1 \in 1..Len(buffer) /\ 2 \in 1..Len(buffer) /\ 3 \in 1..Len(buffer)
          BY <2>2, <2>3, <3>3
        <4> HIDE DEF text
        <4> QED
          BY <2>2, <2>3, <3>2, <3>3, <4>1
      <3>5. next <= emitted + 1
        <4>1. 1 \in DOMAIN all /\ IsHead(all[1])
          BY <2>2, <2>3, <3>3, <3>4 DEF IsHead
        <4>2. all[1].frame \in next..emitted
          BY <2>5, <4>1 DEF Carry
        <4> QED
          BY <1>1, <2>6, <4>2
      <3>6. n = next /\ next <= emitted /\ Carry(After(all, 3), next + 1, emitted)
        <4>1. IsHead(all[1]) /\ ~IsHead(all[2]) /\ ~IsHead(all[3]) /\ all[1].frame = n
          BY <3>3, <3>4, TokenKinds DEF IsHead
        <4> HIDE DEF next
        <4> QED
          BY <1>1, <2>3, <2>5, <2>6, <3>4, <3>5, <4>1, CarryFirst DEF next
      <3>7. /\ Len(delivered') = Len(delivered) + 1
            /\ \A i \in DOMAIN delivered' : delivered'[i] = first + i - 1
        <4>1. /\ delivered' = Append(delivered, n) /\ Len(delivered') = Len(delivered) + 1
              /\ DOMAIN delivered' = 1..Len(delivered) + 1 /\ DOMAIN delivered = 1..Len(delivered)
              /\ \A i \in 1..Len(delivered) : delivered'[i] = delivered[i]
              /\ delivered'[Len(delivered) + 1] = n
          <5>1. delivered' = Append(delivered, n)
            BY <2>8, <3>3
          <5>2. delivered' \in Seq(1..MaxFrames)
            BY DEF AdapterTypeInv, AdapterTypeOK
          <5> QED
            BY <1>1, <5>1, <5>2, AppendProperties, LenProperties
        <4>2. ASSUME NEW i \in 1..Len(delivered) + 1 PROVE delivered'[i] = first + i - 1
          <5>1. CASE i \in 1..Len(delivered)
            BY <2>5, <4>1, <5>1
          <5>2. CASE i = Len(delivered) + 1
            BY <2>6, <3>6, <4>1, <5>2
          <5> QED
            BY <2>6, <5>1, <5>2
        <4> QED
          BY <4>1, <4>2, MoreEmitted
      <3>8. first + Len(delivered') = next + 1
        BY <2>6, <3>7
      <3>9. Carry(buffer' \o wire', first + Len(delivered'), emitted')
        BY <2>1, <2>2, <3>3, <3>6, <3>8
      <3>10. NoFrameMissing'
        BY <2>1, <3>7, <3>9 DEF NoFrameMissing
      <3> QED
        BY <2>4, <3>10
    <2>9. CASE Finish("error")
      BY <1>4, <2>4, <2>9 DEF Finish, Receiving
    <2> QED
      BY <1>13, <2>7, <2>8, <2>9 DEF TakeLine, p
  <1>14. CASE NoLine
    BY <1>3, <1>6, <1>14 DEF NoLine, deviceVars, receiveVars, Receiving
  <1>15. CASE ReadChunk
    <2>1. PICK n \in 1..Len(wire) : buffer' = buffer \o SubSeq(wire, 1, n) /\ wire' = SubSeq(wire, n + 1, Len(wire))
      BY <1>15 DEF ReadChunk
    <2>2. buffer' \o wire' = buffer \o wire
      <3>1. Regroups(buffer, wire, buffer', wire')
        BY <1>1, <2>1, ChunkMoves
      <3> QED
        BY <3>1 DEF Regroups
    <2>3. n \in 0..Len(wire) /\ wire' = After(wire, n)
      BY <2>1 DEF After
    <2>4. UNCHANGED <<delivered, emitted>> /\ step \in Receiving
      BY <1>15 DEF ReadChunk, deviceVars, Receiving
    <2> QED
      BY <1>2, <1>6, <2>2, <2>3, <2>4
  <1>16. CASE ReadTimesOut
    BY <1>3, <1>6, <1>16 DEF ReadTimesOut, deviceVars, Receiving
  <1>17. CASE PortFails
    BY <1>3, <1>4, <1>17 DEF PortFails, deviceVars, Receiving
  <1>18. CASE IsOver
    BY <1>3, <1>6, <1>18 DEF IsOver, deviceVars, receiveVars
  <1>19. ASSUME NEW t \in Seq(Tokens), Reply(t), emitted' \in {emitted, emitted + 1},
                \A m \in Nat, s \in Seq(Tokens) : m <= emitted + 1 /\ Carry(s, m, emitted) => Carry(s \o t, m, emitted'),
                UNCHANGED <<step, receiveVars>>
         PROVE  FramesInv'
    <2>1. LatestOnWire'
      <3>1. PICK m \in 1..emitted + 1 : Carry(wire, m, emitted)
        BY DEF LatestOnWire
      <3>2. Carry(wire', m, emitted')
        BY <1>1, <1>19, <3>1 DEF Reply
      <3>3. m \in 1..emitted' + 1
        <4>1. emitted \in Nat /\ emitted' \in Nat
          BY <1>1
        <4>2. emitted' = emitted \/ emitted' = emitted + 1
          BY <1>19
        <4> QED
          BY <4>1, <4>2, MoreEmitted
      <3> QED
        BY <3>2, <3>3 DEF LatestOnWire
    <2>2. ASSUME step \in Receiving PROVE NoFrameMissing'
      <3>1. PICK first \in 1..emitted + 1 :
              /\ \A i \in DOMAIN delivered : delivered[i] = first + i - 1
              /\ Carry(buffer \o wire, first + Len(delivered), emitted)
        BY <2>2 DEF NoFrameMissing
      <3>2. buffer \o wire \in Seq(Tokens)
        BY <1>1, ConcatProperties
      <3>3. first + Len(delivered) \in Nat
        BY <1>1, LenProperties
      <3>4. buffer' \o wire' = (buffer \o wire) \o t
        <4>1. buffer' = buffer /\ wire' = wire \o t
          BY <1>19 DEF Reply, receiveVars
        <4>2. \A u : u = buffer \o wire => u \o t = buffer \o wire'
          BY <1>1, <4>1, JoinAssociates
        <4> QED
          BY <4>1, <4>2, MoreEmitted
      <3>5. Carry(buffer' \o wire', first + Len(delivered), emitted')
        <4>1. first + Len(delivered) <= emitted + 1
          BY <3>1 DEF Carry
        <4> QED
          BY <1>19, <3>1, <3>2, <3>3, <3>4, <4>1
      <3>6. first \in 1..emitted' + 1
        <4>1. emitted \in Nat /\ emitted' \in Nat
          BY <1>1
        <4>2. emitted' = emitted \/ emitted' = emitted + 1
          BY <1>19
        <4> QED
          BY <4>1, <4>2, MoreEmitted
      <3> QED
        BY <1>19, <3>1, <3>5, <3>6 DEF NoFrameMissing, receiveVars
    <2> QED
      BY <1>4, <1>19, <2>1, <2>2
  <1>20. CASE Execute
    <2>1. PICK t \in {<<VersionText, Cr>>, <<Bel>>, <<>>, <<Cr>>} : Reply(t)
      BY <1>20 DEF Execute
    <2>2. t \in Seq(Tokens) /\ \A i \in 1..Len(t) : ~IsHead(t[i])
      <3>1. \A a, b \in Tokens : <<a, b>> \in Seq(Tokens) /\ <<a>> \in Seq(Tokens)
        OBVIOUS
      <3>2. t \in Seq(Tokens)
        BY <3>1, TokenKinds, EmptySeq
      <3>3. \A a : Len(<<a>>) = 1 /\ <<a>>[1] = a
        OBVIOUS
      <3>4. \A a, b : Len(<<a, b>>) = 2 /\ <<a, b>>[1] = a /\ <<a, b>>[2] = b
        OBVIOUS
      <3>5. (1..0 = {}) /\ (1..1 = {1}) /\ (1..2 = {1, 2}) /\ Len(<<>>) = 0
        OBVIOUS
      <3>6. \A i \in 1..Len(t) : t[i] \in {Cr, Bel, VersionText}
        BY <3>3, <3>4, <3>5
      <3> QED
        BY <3>2, <3>6, TokenKinds DEF IsHead
    <2>3. \A m \in Nat, s \in Seq(Tokens) : Carry(s, m, emitted) => Carry(s \o t, m, emitted)
      BY <1>1, <2>2, CarryMore
    <2>4. emitted' = emitted /\ UNCHANGED <<step, receiveVars>>
      BY <1>20 DEF Execute
    <2> QED
      BY <1>19, <2>1, <2>2, <2>3, <2>4
  <1>21. CASE Emit
    <2>1. Reply(FrameLine(emitted + 1)) /\ emitted' = emitted + 1 /\ UNCHANGED <<step, receiveVars>>
      BY <1>21 DEF Emit
    <2>2. emitted + 1 \in 1..MaxFrames
      BY <1>1, <1>21, AdapterAssumption DEF Emit
    <2>3. ASSUME NEW m \in Nat, NEW s \in Seq(Tokens), m <= emitted + 1, Carry(s, m, emitted)
          PROVE  Carry(s \o FrameLine(emitted + 1), m, emitted + 1)
      <3>1. ASSUME NEW t, t = FrameLine(emitted + 1) PROVE Carry(s \o t, m, emitted + 1)
        <4>1. /\ t \in Seq(Tokens) /\ Len(t) = 3 /\ IsHead(t[1]) /\ t[1].frame = emitted + 1
              /\ ~IsHead(t[2]) /\ ~IsHead(t[3])
          BY <2>2, <3>1, TokenKinds DEF IsHead
        <4> QED
          BY <1>1, <2>3, <4>1, CarryNext
      <3> QED
        BY <3>1
    <2>4. FrameLine(emitted + 1) \in Seq(Tokens)
      BY <2>2, TokenKinds
    <2> QED
      BY <1>19, <2>1, <2>3, <2>4
  <1>22. CASE UNCHANGED adapterVars
    BY <1>22 DEF adapterVars, deviceVars, receiveVars, LatestOnWire, NoFrameMissing
  <1> QED
    BY <1>7, <1>8, <1>9, <1>10, <1>11, <1>12, <1>13, <1>14, <1>15, <1>16, <1>17, <1>18, <1>20, <1>21, <1>22
       DEF AdapterNext, OwnerNext

-----------------------------------------------------------------------------
(* The dialogue stays in step *)

\* The first k commands have been executed and did what they ask for.
Done(k) ==
  k >= 2 => /\ device = (IF k = 7 THEN "open" ELSE "closed")
            /\ \A i \in 3..k : Dialogue[i] \in Settings => Dialogue[i] \in settings

\* Nothing is under way, and k commands are done.
Quiet(text, k) ==
  /\ commands = <<>>
  /\ LineDone(text)
  /\ Answers(text) = {}
  /\ Done(k)

\* The command is not executed yet, or its answer is the only one: that of V
\* is a line or a BEL, and a setting or O may be refused with a BEL.
Waiting(text) ==
  \/ /\ commands = <<Dialogue[command]>>
     /\ Answers(text) = {}
     /\ Done(command - 1)
  \/ /\ commands = <<>>
     /\ command = 1
     /\ Within(text, 1)
  \/ /\ commands = <<>>
     /\ command > 1
     /\ Within(text, 0)
     /\ Done(command) \/ (command > 2 /\ \A i \in Answers(text) : text[i] = Bel)

\* As long as V may still be answered, and for good once it was.
DialogueInv ==
  inStep =>
    /\ version => result # "error"
    /\ command = 1 /\ step \in Connecting => ~version
    /\ version \/ command = 1 =>
         /\ step = "write" => Quiet(wire, command - 1)
         /\ step = "wait" => LineDone(line \o wire) /\ Waiting(line \o wire)
         /\ step \in Receiving => Quiet(buffer \o wire, 7)

LEMMA DialogueImplies == AdapterTypeInv /\ DialogueInv => VersionPutsInStep
  <1> SUFFICES ASSUME AdapterTypeInv, DialogueInv, inStep, version, step \in Receiving
               PROVE  /\ device = "open" /\ settings = Settings /\ commands = <<>>
                      /\ Answers(buffer \o wire) = {}
    BY DEF VersionPutsInStep, DialogueInv
  <1>1. Quiet(buffer \o wire, 7)
    BY DEF DialogueInv
  <1>2. device = "open" /\ \A i \in 3..7 : Dialogue[i] \in Settings => Dialogue[i] \in settings
    BY <1>1 DEF Quiet, Done
  <1>3. \A i \in 3..6 : i \in 3..7
    OBVIOUS
  <1>4. Settings \subseteq settings
    BY <1>2, <1>3, DialogueCommands
  <1> QED
    BY <1>1, <1>2, <1>4 DEF Quiet, AdapterTypeInv, AdapterTypeOK

\* What is left of a text that may be waiting may be waiting.
LEMMA WaitingAfter ==
  ASSUME NEW text \in Seq(Tokens), NEW k \in 0..Len(text), k # 0 => text[k] \in {Cr, Bel}, Waiting(text)
  PROVE  Waiting(After(text, k))
  <1>1. \A i \in Answers(After(text, k)) : k + i \in Answers(text)
    BY AnswersAfter
  <1>2. \A w \in Nat : Within(text, w) => Within(After(text, k), w)
    BY WithinAfter
  <1>3. \A i \in Answers(After(text, k)) : After(text, k)[i] = text[k + i]
    <2>1. /\ After(text, k) \in Seq(Tokens) /\ Len(After(text, k)) = Len(text) - k
          /\ \A i \in 1..Len(text) - k : After(text, k)[i] = text[k + i]
      BY AfterIsSeq
    <2>2. DOMAIN After(text, k) = 1..Len(text) - k
      BY <2>1, LenProperties
    <2> QED
      BY <2>1, <2>2 DEF Answers
  <1>4. 0 \in Nat /\ 1 \in Nat
    OBVIOUS
  <1> QED
    BY <1>1, <1>2, <1>3, <1>4 DEF Waiting

\* An empty text holds no answer and no part of a line.
LEMMA NothingQuiet == LineDone(<<>>) /\ Answers(<<>>) = {}
  BY DEF LineDone, Answers

\* A byte that ends no line is kept, one that ends a line drops the line.
LEMMA ByteRead ==
  ASSUME AdapterTypeOK, ReadByte
  PROVE  LET text == line \o wire
             p == Len(line) + 1
         IN  /\ text \in Seq(Tokens) /\ p \in 1..Len(text) /\ text[p] = Head(wire)
             /\ wire' = After(text, p)
             /\ line' = Append(line, Head(wire)) => line' \o wire' = text
             /\ line # <<>> => p > 1 /\ text[1] = Head(line)
             /\ line = <<>> => p = 1
             /\ \A i \in 1..p - 1 : text[i] \notin {Cr, Bel}
  <1> DEFINE text == line \o wire
             p == Len(line) + 1
             byte == Head(wire)
  <1>1. wire \in Seq(Tokens) /\ wire # <<>> /\ wire' = Tail(wire)
    BY DEF ReadByte, AdapterTypeOK
  <1>2. line \in Seq(Tokens \ {Cr, Bel}) /\ line \in Seq(Tokens)
    BY SeqMonotonic DEF AdapterTypeOK
  <1>3. /\ Len(line) \in Nat /\ Len(wire) \in Nat /\ Len(wire) >= 1
        /\ byte = wire[1] /\ byte \in Tokens /\ wire' \in Seq(Tokens) /\ Len(wire') = Len(wire) - 1
        /\ \A i \in 1..Len(wire) - 1 : wire'[i] = wire[1 + i]
    <2>1. /\ After(wire, 1) \in Seq(Tokens) /\ Len(After(wire, 1)) = Len(wire) - 1
          /\ \A i \in 1..Len(wire) - 1 : After(wire, 1)[i] = wire[1 + i]
          /\ wire' = After(wire, 1)
      BY <1>1, TailIsAfter, AfterIsSeq
    <2> QED
      BY <1>1, <1>2, <2>1, LenProperties, EmptySeq, HeadTailProperties
  <1>4. /\ text \in Seq(Tokens) /\ Len(text) = Len(line) + Len(wire)
        /\ \A i \in 1..Len(line) + Len(wire) : text[i] = IF i <= Len(line) THEN line[i] ELSE wire[i - Len(line)]
    BY <1>1, <1>2, ConcatProperties
  <1>5. p \in 1..Len(text) /\ p \in 0..Len(text) /\ text[p] = byte
    <2>1. p \in 1..Len(line) + Len(wire) /\ ~ (p <= Len(line)) /\ p - Len(line) = 1
      BY <1>3
    <2> HIDE DEF text
    <2> QED
      BY <1>3, <1>4, <2>1
  <1>6. /\ After(text, p) \in Seq(Tokens) /\ Len(After(text, p)) = Len(text) - p
        /\ \A i \in 1..Len(text) - p : After(text, p)[i] = text[p + i]
    <2> HIDE DEF text, p
    <2> QED
      BY <1>4, <1>5, AfterIsSeq
  <1>7. wire' = After(text, p)
    <2> HIDE DEF text
    <2>1. Len(wire') = Len(After(text, p))
      BY <1>3, <1>4, <1>6
    <2>2. ASSUME NEW i \in 1..Len(wire') PROVE wire'[i] = After(text, p)[i]
      <3>1. /\ i \in 1..Len(wire) - 1 /\ i \in 1..Len(text) - p
            /\ p + i \in 1..Len(line) + Len(wire) /\ ~ (p + i <= Len(line)) /\ (p + i) - Len(line) = 1 + i
        BY <1>3, <1>4
      <3> QED
        BY <1>3, <1>4, <1>6, <3>1
    <2> QED
      BY <1>3, <1>6, <2>1, <2>2, SeqEqual
  <1>8. ASSUME line' = Append(line, byte) PROVE line' \o wire' = text
    <2>1. wire = <<byte>> \o wire'
      <3>1. <<byte>> \in Seq(Tokens) /\ Len(<<byte>>) = 1 /\ <<byte>>[1] = byte
        BY <1>3
      <3>2. /\ <<byte>> \o wire' \in Seq(Tokens) /\ Len(<<byte>> \o wire') = 1 + Len(wire')
            /\ \A i \in 1..1 + Len(wire') : (<<byte>> \o wire')[i] = IF i <= 1 THEN <<byte>>[i] ELSE wire'[i - 1]
        BY <1>3, <3>1, ConcatProperties
      <3> DEFINE w == <<byte>> \o wire'
      <3> HIDE DEF w
      <3>3. ASSUME NEW i \in 1..Len(wire) PROVE wire[i] = w[i]
        <4>1. CASE i = 1
          BY <1>3, <3>1, <3>2, <4>1 DEF w
        <4>2. CASE i # 1
          <5>1. i \in 1..1 + Len(wire') /\ ~ (i <= 1) /\ i - 1 \in 1..Len(wire) - 1 /\ 1 + (i - 1) = i
            BY <1>3, <4>2
          <5> QED
            BY <1>3, <3>2, <5>1 DEF w
        <4> QED
          BY <4>1, <4>2
      <3>4. w \in Seq(Tokens) /\ Len(wire) = Len(w)
        BY <1>3, <3>2 DEF w
      <3>5. wire = w
        BY <1>1, <3>3, <3>4, SeqEqual
      <3> QED
        BY <3>5 DEF w
    <2>2. line' = line \o <<byte>>
      BY <1>2, <1>3, <1>8, AppendIsConcat
    <2>3. <<byte>> \in Seq(Tokens)
      BY <1>3
    <2>4. Regroups(line, <<byte>> \o wire', line \o <<byte>>, wire')
      BY <1>2, <1>3, <2>3, JoinRegroups
    <2>5. Regroups(line, wire, line', wire')
      BY <2>1, <2>2, <2>4
    <2> QED
      BY <2>5 DEF Regroups
  <1>9. /\ line # <<>> => p > 1 /\ text[1] = Head(line)
        /\ line = <<>> => p = 1
        /\ \A i \in 1..p - 1 : text[i] \notin {Cr, Bel}
    <2>1. \A i \in 1..Len(line) : line[i] \notin {Cr, Bel} /\ i \in 1..Len(line) + Len(wire) /\ i <= Len(line)
      BY <1>2, <1>3, ElementOfSeq
    <2>2. line # <<>> => Len(line) >= 1 /\ Head(line) = line[1]
      BY <1>2, EmptySeq, HeadTailProperties
    <2>3. line = <<>> => Len(line) = 0
      BY EmptySeq
    <2>4. 1..p - 1 = 1..Len(line)
      BY <1>3
    <2> HIDE DEF text
    <2>5. \A i \in 1..Len(line) : text[i] = line[i]
      BY <1>4, <2>1
    <2> QED
      BY <1>3, <2>1, <2>2, <2>3, <2>4, <2>5
  <1> QED
    BY <1>4, <1>5, <1>7, <1>8, <1>9

LEMMA DialogueInit == AdapterInit => DialogueInv
  BY DEF AdapterInit, DialogueInv

\* The bytes that connect reads.
LEMMA DialogueReadByte ==
  ASSUME AdapterTypeInv, DialogueInv, ReadByte
  PROVE  DialogueInv'
  <1> DEFINE text == line \o wire
             p == Len(line) + 1
             byte == Head(wire)
  <1> SUFFICES ASSUME inStep, version \/ command = 1 PROVE DialogueInv'
    <2>1. ASSUME ~ (version \/ command = 1), inStep PROVE DialogueInv'
      <3>1. command \in 2..7 /\ ReadAnswer(byte) /\ version' = version
        BY <2>1, DialogueCommands DEF ReadByte, ReadAnswer, AdapterTypeInv, AdapterTypeOK
      <3>2. command' # 1
        BY <3>1, NextCommandIs DEF ReadAnswer, ConnectFails
      <3> QED
        BY <2>1, <3>1, <3>2 DEF DialogueInv
    <2>2. inStep' = inStep
      BY DEF ReadByte, openVars
    <2> QED
      BY <2>1, <2>2 DEF DialogueInv
  <1>1. /\ step = "wait" /\ LineDone(text) /\ Waiting(text) /\ (command = 1 => ~version)
        /\ result = "none" /\ buffer = <<>> /\ command \in 1..7
    BY DialogueCommands DEF ReadByte, DialogueInv, AdapterTypeInv, AdapterTypeOK, Connecting
  <1>2. UNCHANGED <<device, settings, commands, result, buffer, inStep>>
    BY DEF ReadByte, deviceVars, receiveVars, openVars
  <1>3. /\ text \in Seq(Tokens) /\ p \in 1..Len(text) /\ text[p] = byte
        /\ wire' = After(text, p)
        /\ line' = Append(line, byte) => line' \o wire' = text
        /\ line # <<>> => p > 1 /\ text[1] = Head(line)
        /\ line = <<>> => p = 1
    BY ByteRead DEF AdapterTypeInv
  <1>4. wire' \in Seq(Tokens) /\ <<>> \o wire' = wire' /\ p \in 0..Len(text) /\ p \in DOMAIN text
    <2>1. wire' \in Seq(Tokens)
      BY HeadTailProperties DEF ReadByte, AdapterTypeInv, AdapterTypeOK
    <2>2. p \in 0..Len(text) /\ p \in DOMAIN text
      <3> HIDE DEF text, p
      <3> QED
        BY <1>3, LenProperties
    <2> QED
      BY <2>1, <2>2, ConcatEmptySeq
  <1> HIDE DEF text, p, byte
  <1>5. ASSUME byte \in {Cr, Bel}
        PROVE  /\ LineDone(wire') /\ Waiting(wire')
               /\ \A i \in Answers(wire') : p + i \in Answers(text) /\ i \in Nat \ {0}
    <2>1. LineDone(After(text, p))
      BY <1>1, <1>3, <1>4, DoneAfter
    <2>2. \A i \in Answers(After(text, p)) : p + i \in Answers(text)
      BY <1>3, <1>4, <1>5, AnswersAfter
    <2>3. Waiting(After(text, p))
      BY <1>1, <1>3, <1>4, <1>5, WaitingAfter
    <2>4. \A i \in Answers(wire') : i \in Nat \ {0}
      BY <1>4, LenProperties DEF Answers
    <2> QED
      BY <1>3, <2>1, <2>2, <2>3, <2>4
  <1>6. ASSUME NEW t, Waiting(t), command' = command PROVE Waiting(t)'
    BY <1>2, <1>6 DEF Waiting, Done
  \* The command stays, and a line may have been dropped.
  <1>7. ASSUME byte \in {Cr, Bel}, line' = <<>>, UNCHANGED <<step, command, version>>
        PROVE  DialogueInv'
    <2>1. line' \o wire' = wire'
      BY <1>4, <1>7
    <2>2. Waiting(wire)'
      BY <1>2, <1>5, <1>7 DEF Waiting, Done
    <2> QED
      BY <1>1, <1>2, <1>5, <1>7, <2>1, <2>2 DEF DialogueInv, Connecting, Receiving
  <1>8. ASSUME line' = Append(line, byte), UNCHANGED <<step, command, version>>
        PROVE  DialogueInv'
    <2>1. line' \o wire' = text /\ command' = command
      BY <1>3, <1>8
    <2>2. \A t : t = text => Waiting(t)'
      BY <1>1, <1>6, <2>1
    <2>3. Waiting(line \o wire)'
      BY <2>1, <2>2 DEF Waiting
    <2> QED
      BY <1>1, <1>2, <1>8, <2>1, <2>3 DEF DialogueInv, Connecting, Receiving
  \* The answer has come, and with it all that was under way.
  <1>9. ASSUME commands = <<>>, byte \in {Cr, Bel}, \A i \in Answers(text) : i <= p,
               Done(command), NextCommand, command > 1 \/ version'
        PROVE  DialogueInv'
    <2>1. Answers(wire') = {}
      BY <1>1, <1>3, <1>5, <1>9 DEF p
    <2>2. ASSUME NEW k \in 1..7, k = command PROVE Quiet(wire, k)'
      BY <1>2, <1>5, <1>9, <2>1, <2>2 DEF Quiet, Done
    <2>3. CASE command = 7 /\ step' = "loop" /\ command' = command
      <3>1. Quiet(buffer \o wire, 7)'
        <4>1. buffer' \o wire' = wire'
          BY <1>1, <1>2, <1>4
        <4>2. \A t : t = wire' => Quiet(t, 7)'
          BY <2>2, <2>3 DEF Quiet, Done
        <4> QED
          BY <4>1, <4>2 DEF Quiet
      <3> QED
        BY <1>1, <1>2, <2>3, <3>1 DEF DialogueInv, Connecting, Receiving
    <2>4. CASE command < 7 /\ step' = "write" /\ command' = command + 1
      <3>1. command' - 1 = command /\ command' # 1
        BY <1>1, <2>4
      <3>2. Quiet(wire, command - 1)'
        <4>1. \A k \in 1..7 : k = command => Quiet(wire, k)'
          BY <2>2
        <4> QED
          BY <1>1, <3>1, <4>1 DEF Quiet, Done
      <3> QED
        BY <1>1, <1>2, <2>4, <3>1, <3>2 DEF DialogueInv, Connecting, Receiving
    <2> QED
      BY <1>1, <1>9, <2>3, <2>4, NextCommandIs
  <1>10. CASE Dialogue[command] = "V" /\ ReadVersion(byte)
    <2>1. command = 1 /\ ~version
      BY <1>1, <1>10, DialogueCommands
    <2>2. CASE byte = Cr /\ line # <<>> /\ Head(line) = VersionText /\ version' = TRUE /\ NextCommand
      <3>1. 1 \in Answers(text)
        BY <1>3, <1>4, <2>2 DEF Answers
      <3>2. commands = <<>> /\ Within(text, 1)
        BY <1>1, <2>1, <3>1 DEF Waiting
      <3>3. \A i \in Answers(text) : i <= p
        <4>1. \A i \in Answers(text) : i <= 1 + 1
          BY <3>1, <3>2 DEF Within
        <4>2. p > 1 /\ p \in Nat /\ \A i \in Answers(text) : i \in Nat
          BY <1>3, <1>4, <2>2, LenProperties DEF Answers
        <4> QED
          BY <4>1, <4>2
      <3> QED
        BY <1>9, <2>1, <2>2, <3>2, <3>3 DEF Done
    <2>3. CASE byte = Cr /\ line' = <<>> /\ UNCHANGED <<version, step, command>>
      BY <1>7, <2>3
    <2>4. CASE byte = Bel /\ NextCommand /\ UNCHANGED <<version, line>>
      <3>1. ~version' /\ command' # 1
        BY <1>1, <2>1, <2>4, NextCommandIs
      <3> QED
        BY <3>1 DEF DialogueInv
    <2>5. CASE line' = Append(line, byte) /\ UNCHANGED <<version, step, command>>
      BY <1>8, <2>5
    <2> QED
      BY <1>10, <2>2, <2>3, <2>4, <2>5 DEF ReadVersion
  <1>11. CASE Dialogue[command] # "V" /\ ReadAnswer(byte)
    <2>1. command > 1 /\ version' = version
      BY <1>1, <1>11, DialogueCommands DEF ReadAnswer
    <2>2. CASE Accepted(byte) /\ NextCommand
      <3>1. p = 1 /\ byte = Cr
        BY <1>3, <2>2 DEF Accepted
      <3>2. 1 \in Answers(text) /\ text[1] # Bel
        BY <1>3, <1>4, <3>1, TokenKinds DEF Answers, EndsFrame
      <3>3. commands = <<>> /\ Within(text, 0) /\ Done(command)
        BY <1>1, <2>1, <3>2 DEF Waiting
      <3>4. \A i \in Answers(text) : i <= p
        BY <1>4, <3>1, <3>2, <3>3 DEF Within, Answers
      <3> QED
        BY <1>9, <2>1, <2>2, <3>1, <3>3, <3>4
    <2>3. CASE byte = Bel /\ Dialogue[command] = "C" /\ NextCommand
      <3>1. p \in Answers(text) /\ command = 2
        BY <1>1, <1>3, <1>4, <2>3, DialogueCommands DEF Answers
      <3>2. commands = <<>> /\ Within(text, 0) /\ Done(command)
        BY <1>1, <3>1 DEF Waiting
      <3>3. \A i \in Answers(text) : i <= p
        <4>1. \A i \in Answers(text) : i <= p + 0
          BY <3>1, <3>2 DEF Within
        <4> QED
          BY <1>4, <4>1
      <3> QED
        BY <1>9, <2>1, <2>3, <3>2, <3>3
    <2>4. CASE ConnectFails
      BY <1>1, <1>2, <2>1, <2>4 DEF ConnectFails, DialogueInv, Connecting, Receiving
    <2>5. CASE byte = Cr /\ line' = <<>> /\ UNCHANGED <<step, command>>
      BY <1>7, <2>1, <2>5
    <2>6. CASE line' = Append(line, byte) /\ UNCHANGED <<step, command>>
      BY <1>8, <2>1, <2>6
    <2> QED
      BY <1>11, <2>2, <2>3, <2>4, <2>5, <2>6 DEF ReadAnswer
  <1> QED
    BY <1>10, <1>11 DEF ReadByte, byte

\* What the device adds while a command is under way is its answer.
LEMMA DialogueExecute ==
  ASSUME AdapterTypeInv, DialogueInv, Execute
  PROVE  DialogueInv'
  <1>1. UNCHANGED <<step, command, line, version, buffer, result, inStep>>
    BY DEF Execute, connectVars, receiveVars, openVars
  <1>2. commands # <<>> /\ commands' = Tail(commands)
    BY DEF Execute
  <1> SUFFICES ASSUME inStep, version \/ command = 1, step # "closed" PROVE DialogueInv'
    BY <1>1 DEF DialogueInv, Connecting, Receiving
  <1>3. step = "wait"
    BY <1>2 DEF DialogueInv, Quiet, AdapterTypeInv, AdapterTypeOK, Connecting
  <1> DEFINE text == line \o wire
  <1>4. /\ commands = <<Dialogue[command]>> /\ Answers(text) = {} /\ Done(command - 1)
        /\ LineDone(text) /\ command \in 1..7
    BY <1>2, <1>3, DialogueCommands DEF DialogueInv, Waiting, AdapterTypeInv, AdapterTypeOK
  <1>5. Head(commands) = Dialogue[command] /\ commands' = <<>>
    BY <1>2, <1>4
  <1>6. /\ line \in Seq(Tokens) /\ wire \in Seq(Tokens) /\ text \in Seq(Tokens)
    BY SeqMonotonic, ConcatProperties DEF AdapterTypeInv, AdapterTypeOK
  <1>7. ASSUME NEW t \in {<<VersionText, Cr>>, <<Bel>>, <<>>, <<Cr>>}, Reply(t)
        PROVE  /\ line' \o wire' = text \o t
               /\ LineDone(text \o t)
               /\ Within(text \o t, 1)
               /\ t # <<VersionText, Cr>> => Within(text \o t, 0)
               /\ t = <<Bel>> => \A i \in Answers(text \o t) : (text \o t)[i] = Bel
    <2>1. /\ t \in Seq(Tokens) /\ Len(t) <= 2 /\ (t # <<VersionText, Cr>> => Len(t) <= 1)
          /\ t = <<>> \/ t[Len(t)] \in {Cr, Bel}
      <3>1. \A a, b \in Tokens : <<a, b>> \in Seq(Tokens) /\ <<a>> \in Seq(Tokens)
        OBVIOUS
      <3>2. \A a, b : Len(<<a>>) = 1 /\ <<a>>[1] = a /\ Len(<<a, b>>) = 2 /\ <<a, b>>[2] = b
        OBVIOUS
      <3>3. Len(<<>>) = 0
        OBVIOUS
      <3>4. CASE t = <<VersionText, Cr>>
        BY <3>1, <3>2, <3>4, TokenKinds
      <3>5. CASE t = <<Bel>>
        BY <3>1, <3>2, <3>5, TokenKinds
      <3>6. CASE t = <<Cr>>
        BY <3>1, <3>2, <3>6, TokenKinds
      <3>7. CASE t = <<>>
        BY <3>3, <3>7, EmptySeq
      <3> QED
        BY <3>4, <3>5, <3>6, <3>7
    <2>2. line' \o wire' = text \o t
      <3>1. wire' = wire \o t /\ line' = line
        BY <1>1, <1>7 DEF Reply
      <3>2. Regroups(line, wire \o t, text, t)
        BY <1>6, <2>1, JoinRegroups
      <3> QED
        BY <3>1, <3>2 DEF Regroups
    <2> HIDE DEF text
    <2>3. LineDone(text \o t)
      <3>1. CASE t = <<>>
        <4>1. text \o <<>> = text
          BY <1>6, ConcatEmptySeq
        <4> QED
          BY <1>4, <3>1, <4>1
      <3>2. CASE t # <<>>
        BY <1>6, <2>1, <3>2, DoneMore
      <3> QED
        BY <3>1, <3>2
    <2>4. Within(text \o t, 1)
      <3>1. 1 \in Nat /\ Len(t) <= 1 + 1
        BY <2>1
      <3> QED
        BY <1>4, <1>6, <2>1, <3>1, AnswerComes
    <2>5. ASSUME t # <<VersionText, Cr>> PROVE Within(text \o t, 0)
      <3>1. 0 \in Nat /\ Len(t) <= 0 + 1
        BY <2>1, <2>5
      <3> QED
        BY <1>4, <1>6, <2>1, <3>1, AnswerComes
    <2>6. ASSUME t = <<Bel>>, NEW i \in Answers(text \o t) PROVE (text \o t)[i] = Bel
      <3>1. Len(t) = 1 /\ t[1] = Bel /\ Len(text) \in Nat
        BY <1>6, <2>6, LenProperties
      <3>2. i \in Len(text) + 1..Len(text) + Len(t)
        BY <1>4, <1>6, <2>1, AnswersMore
      <3>3. /\ i = Len(text) + 1 /\ i \in 1..Len(text) + Len(t) /\ ~ (i <= Len(text)) /\ i - Len(text) = 1
        BY <3>1, <3>2
      <3>4. \A j \in 1..Len(text) + Len(t) : (text \o t)[j] = IF j <= Len(text) THEN text[j] ELSE t[j - Len(text)]
        BY <1>6, <2>1, ConcatProperties
      <3> QED
        BY <3>1, <3>3, <3>4
    <2> QED
      BY <2>2, <2>3, <2>4, <2>5, <2>6
  \* It is enough that the command was executed, or was answered with a BEL.
  <1> HIDE DEF text
  <1>8. ASSUME NEW t \in {<<VersionText, Cr>>, <<Bel>>, <<>>, <<Cr>>}, Reply(t),
               \/ command = 1
               \/ command > 1 /\ t # <<VersionText, Cr>> /\ (\A k \in 1..7 : k = command => Done(k)')
               \/ command > 2 /\ t = <<Bel>>
        PROVE  DialogueInv'
    <2>1. t = <<Bel>> => t # <<VersionText, Cr>>
      <3>1. Len(<<Bel>>) = 1 /\ Len(<<VersionText, Cr>>) = 2
        OBVIOUS
      <3> QED
        BY <3>1
    <2> DEFINE new == text \o t
    <2>2. /\ line' \o wire' = new /\ LineDone(new) /\ Within(new, 1)
          /\ t # <<VersionText, Cr>> => Within(new, 0)
          /\ t = <<Bel>> => \A i \in Answers(new) : new[i] = Bel
      BY <1>7, <1>8
    <2> HIDE DEF new
    <2>3. command > 1 => Done(command)' \/ (command' > 2 /\ t = <<Bel>>)
      <3>1. (\A k \in 1..7 : k = command => Done(k)') => Done(command)'
        BY <1>1, <1>4 DEF Done
      <3> QED
        BY <1>1, <1>4, <1>8, <3>1
    <2>4. \A s : s = new => Waiting(s)'
      <3>1. command = 1 \/ command > 1
        BY <1>4
      <3>2. \A s : s = new => \/ command' = 1 /\ Within(s, 1)
                              \/ /\ command' > 1 /\ Within(s, 0)
                                 /\ Done(command)' \/ (command' > 2 /\ \A i \in Answers(s) : s[i] = Bel)
        BY <1>1, <1>8, <2>1, <2>2, <2>3, <3>1
      <3> QED
        BY <1>5, <3>2 DEF Waiting
    <2>5. Waiting(line \o wire)'
      BY <2>2, <2>4 DEF Waiting
    <2> QED
      BY <1>1, <1>3, <2>2, <2>5 DEF DialogueInv, Connecting, Receiving
  <1>9. CASE Dialogue[command] = "V"
    <2>1. command = 1
      BY <1>4, <1>9, DialogueCommands
    <2>2. PICK t \in {<<VersionText, Cr>>, <<Bel>>, <<>>, <<Cr>>} : Reply(t)
      BY DEF Execute
    <2> QED
      BY <1>8, <2>1, <2>2
  <1>10. CASE Dialogue[command] = "C"
    <2>1. command = 2
      BY <1>4, <1>10, DialogueCommands
    <2>2. PICK t \in {<<Bel>>, <<Cr>>} : Reply(t) /\ device' = "closed"
      BY <1>5, <1>10, DialogueCommands DEF Execute, AdapterTypeInv, AdapterTypeOK
    <2>3. t # <<VersionText, Cr>>
      <3>1. Len(<<Bel>>) = 1 /\ Len(<<Cr>>) = 1 /\ Len(<<VersionText, Cr>>) = 2
        OBVIOUS
      <3> QED
        BY <3>1
    <2>4. \A k \in 1..7 : k = command => Done(k)'
      <3>1. 3..2 = {}
        OBVIOUS
      <3> QED
        BY <2>1, <2>2, <3>1 DEF Done
    <2> QED
      BY <1>8, <2>1, <2>2, <2>3, <2>4
  <1>11. CASE Dialogue[command] \notin {"V", "C"}
    <2>1. command > 2 /\ device = "closed"
      <3>1. command > 2
        BY <1>4, <1>11, DialogueCommands
      <3>2. command - 1 >= 2 /\ command - 1 # 7
        BY <1>4, <3>1
      <3> QED
        BY <1>4, <3>1, <3>2 DEF Done
    <2>2. CASE Reply(<<Bel>>)
      BY <1>8, <2>1, <2>2
    <2>3. CASE /\ Dialogue[command] \in Settings /\ settings' = settings \cup {Dialogue[command]}
               /\ Reply(<<Cr>>) /\ device' = device
      <3>1. command # 7
        BY <2>3, DialogueCommands
      <3>2. \A k \in 1..7 : k = command => Done(k)'
        <4>1. \A i \in 3..command : i = command \/ i \in 3..command - 1
          BY <1>4
        <4>2. \A i \in 3..command - 1 : Dialogue[i] \in Settings => Dialogue[i] \in settings
          BY <1>4, <2>1 DEF Done
        <4>3. \A i \in 3..command : Dialogue[i] \in Settings => Dialogue[i] \in settings'
          BY <2>3, <4>1, <4>2
        <4> QED
          BY <2>1, <2>3, <3>1, <4>3 DEF Done
      <3>3. <<Cr>> # <<VersionText, Cr>>
        <4>1. Len(<<Cr>>) = 1 /\ Len(<<VersionText, Cr>>) = 2
          OBVIOUS
        <4> QED
          BY <4>1
      <3> QED
        BY <1>4, <1>8, <2>1, <2>3, <3>2, <3>3
    <2>4. CASE /\ Dialogue[command] = "O" /\ device' = "open" /\ Reply(<<Cr>>) /\ settings' = settings
      <3>1. command = 7
        BY <1>4, <2>1, <2>4, DialogueCommands
      <3>2. \A k \in 1..7 : k = command => Done(k)'
        <4>1. \A i \in 3..7 : i = 7 \/ i \in 3..7 - 1
          OBVIOUS
        <4>2. \A i \in 3..7 - 1 : Dialogue[i] \in Settings => Dialogue[i] \in settings
          BY <1>4, <3>1 DEF Done
        <4>3. \A i \in 3..7 : Dialogue[i] \in Settings => Dialogue[i] \in settings'
          BY <2>4, <4>1, <4>2, DialogueCommands
        <4> QED
          BY <2>4, <3>1, <4>3 DEF Done
      <3>3. <<Cr>> # <<VersionText, Cr>>
        <4>1. Len(<<Cr>>) = 1 /\ Len(<<VersionText, Cr>>) = 2
          OBVIOUS
        <4> QED
          BY <4>1
      <3> QED
        BY <1>4, <1>8, <2>1, <2>4, <3>2, <3>3
    <2> QED
      BY <1>5, <1>11, <2>1, <2>2, <2>3, <2>4 DEF Execute
  <1> QED
    BY <1>9, <1>10, <1>11

\* A frame line is no answer.
LEMMA DialogueEmit ==
  ASSUME AdapterTypeInv, DialogueInv, Emit
  PROVE  DialogueInv'
  <1>1. /\ UNCHANGED <<device, settings, commands, step, command, line, version, buffer, result, inStep>>
        /\ Reply(FrameLine(emitted + 1))
    BY DEF Emit, connectVars, receiveVars, openVars
  <1>2. emitted + 1 \in 1..MaxFrames
    BY AdapterAssumption DEF Emit, AdapterTypeInv, AdapterTypeOK
  <1>3. PICK t \in Seq(Tokens) : t = FrameLine(emitted + 1) /\ wire' = wire \o t
    BY <1>1, <1>2, TokenKinds DEF Reply
  <1>4. wire \in Seq(Tokens) /\ line \in Seq(Tokens) /\ buffer \in Seq(Tokens)
    BY SeqMonotonic DEF AdapterTypeInv, AdapterTypeOK
  <1>5. ASSUME NEW s \in Seq(Tokens), LineDone(s)
        PROVE  /\ LineDone(s \o t) /\ Answers(s \o t) \subseteq Answers(s)
               /\ \A i \in Answers(s \o t) : (s \o t)[i] = s[i]
    <2>1. LineDone(s \o t) /\ Answers(s \o t) \subseteq Answers(s)
      BY <1>2, <1>3, <1>5, FrameComes
    <2>2. ASSUME NEW i \in Answers(s) PROVE (s \o t)[i] = s[i]
      <3>1. i \in 1..Len(s) /\ Len(s) \in Nat /\ Len(t) \in Nat
        BY LenProperties DEF Answers
      <3>2. i \in 1..Len(s) + Len(t) /\ i <= Len(s)
        BY <3>1
      <3>3. \A j \in 1..Len(s) + Len(t) : (s \o t)[j] = IF j <= Len(s) THEN s[j] ELSE t[j - Len(s)]
        BY ConcatProperties
      <3> QED
        BY <3>2, <3>3
    <2> QED
      BY <2>1, <2>2
  <1>6. ASSUME NEW s \in Seq(Tokens), NEW u, u = s \o wire PROVE s \o wire' = u \o t
    <2>1. Regroups(s, wire \o t, s \o wire, t)
      BY <1>3, <1>4, JoinRegroups
    <2> QED
      BY <1>3, <1>6, <2>1 DEF Regroups
  <1> SUFFICES ASSUME inStep, version \/ command = 1 PROVE DialogueInv'
    BY <1>1 DEF DialogueInv
  <1>7. CASE step = "write"
    <2>1. Quiet(wire, command - 1)
      BY <1>7 DEF DialogueInv
    <2>2. Quiet(wire, command - 1)'
      BY <1>1, <1>3, <1>4, <1>5, <2>1 DEF Quiet, Done
    <2> QED
      BY <1>1, <1>7, <2>2 DEF DialogueInv, Connecting, Receiving
  <1>8. CASE step = "wait"
    <2>1. LineDone(line \o wire) /\ Waiting(line \o wire) /\ line \o wire \in Seq(Tokens)
      BY <1>4, <1>8, ConcatProperties DEF DialogueInv
    <2> DEFINE text == line \o wire
               new == text \o t
    <2>2. /\ LineDone(new) /\ Answers(new) \subseteq Answers(text)
          /\ \A i \in Answers(new) : new[i] = text[i]
      BY <1>5, <2>1
    <2>3. line' \o wire' = new
      BY <1>1, <1>4, <1>6
    <2> HIDE DEF text, new
    <2>4. Waiting(text)
      BY <2>1 DEF text
    <2>5. \A s : s = new => Waiting(s)'
      <3>1. \A s, w : s = new /\ Within(text, w) => Within(s, w)
        BY <2>2 DEF Within
      <3>2. \A s : s = new /\ Answers(text) = {} => Answers(s) = {}
        BY <2>2
      <3>3. \A s : s = new /\ (\A i \in Answers(text) : text[i] = Bel) => \A i \in Answers(s) : s[i] = Bel
        BY <2>2
      <3> QED
        BY <1>1, <2>4, <3>1, <3>2, <3>3 DEF Waiting, Done
    <2>6. Waiting(line \o wire)'
      BY <2>3, <2>5 DEF Waiting
    <2> QED
      BY <1>1, <1>8, <2>2, <2>3, <2>6 DEF DialogueInv, Connecting, Receiving
  <1>9. CASE step \in Receiving
    <2>1. Quiet(buffer \o wire, 7) /\ buffer \o wire \in Seq(Tokens)
      BY <1>4, <1>9, ConcatProperties DEF DialogueInv
    <2>2. LineDone((buffer \o wire) \o t) /\ Answers((buffer \o wire) \o t) = {}
      BY <1>5, <2>1 DEF Quiet
    <2>3. buffer' \o wire' = (buffer \o wire) \o t
      BY <1>1, <1>4, <1>6
    <2>4. Quiet(buffer \o wire, 7)'
      BY <1>1, <2>1, <2>2, <2>3 DEF Quiet, Done
    <2> QED
      BY <1>1, <1>9, <2>4 DEF DialogueInv, Connecting, Receiving
  <1>10. CASE step \notin Connecting \cup Receiving
    BY <1>1, <1>10 DEF DialogueInv, Connecting, Receiving
  <1> QED
    BY <1>7, <1>8, <1>9, <1>10 DEF Connecting

\* next_frame meets nothing but whole lines of frames.
LEMMA DialogueTakes ==
  ASSUME AdapterTypeInv, DialogueInv, TakeBel \/ TakeLine
  PROVE  DialogueInv'
  <1> DEFINE all == buffer \o wire
  <1>1. /\ step = "take" /\ step \in Receiving /\ buffer \in Seq(Tokens) /\ wire \in Seq(Tokens)
        /\ UNCHANGED <<device, settings, command, version, inStep, wire>>
        /\ result = "none"
    BY DEF TakeBel, TakeLine, deviceVars, connectVars, openVars, Receiving, AdapterTypeInv, AdapterTypeOK
  <1> SUFFICES ASSUME inStep, version \/ command = 1 PROVE DialogueInv'
    BY <1>1 DEF DialogueInv
  <1>2. Quiet(all, 7)
    BY <1>1 DEF DialogueInv
  <1>3. /\ all \in Seq(Tokens) /\ Len(buffer) \in Nat /\ DOMAIN all = 1..Len(all)
        /\ Len(all) >= Len(buffer) /\ Len(all) \in Nat
        /\ \A i \in 1..Len(buffer) : i \in 1..Len(all) /\ all[i] = buffer[i]
    <2>1. /\ all \in Seq(Tokens) /\ Len(all) = Len(buffer) + Len(wire)
          /\ \A i \in 1..Len(buffer) + Len(wire) : all[i] = IF i <= Len(buffer) THEN buffer[i] ELSE wire[i - Len(buffer)]
      BY <1>1, ConcatProperties
    <2>2. Len(buffer) \in Nat /\ Len(wire) \in Nat
      BY <1>1, LenProperties
    <2> HIDE DEF all
    <2>3. DOMAIN all = 1..Len(all)
      BY <2>1, LenProperties
    <2> QED
      BY <2>1, <2>2, <2>3
  <1> HIDE DEF all
  <1>4. Position(Bel) = 0
    <2> SUFFICES ASSUME Position(Bel) # 0 PROVE FALSE
      OBVIOUS
    <2>1. Position(Bel) \in 1..Len(buffer) /\ buffer[Position(Bel)] = Bel
      BY <1>1, RestOfBuffer
    <2>2. Position(Bel) \in Answers(all)
      BY <1>3, <2>1 DEF Answers
    <2> QED
      BY <1>2, <2>2 DEF Quiet
  <1>5. TakeLine
    BY <1>4 DEF TakeBel
  <1> DEFINE p == Position(Cr)
             text == SubSeq(buffer, 1, p)
  <1>6. /\ p \in 1..Len(buffer) /\ buffer[p] = Cr /\ \A i \in 1..p - 1 : buffer[i] # Cr
        /\ buffer' \o wire' = After(all, p)
    BY <1>1, <1>5, RestOfBuffer DEF TakeLine, Rest, all
  <1>7. \A i \in 1..Len(buffer) : buffer[i] # Bel
    BY <1>1, <1>4, PositionFirst
  <1> HIDE DEF p
  <1>8. p \in 1..Len(all) /\ p \in 0..Len(all) /\ all[p] = Cr
    BY <1>3, <1>6
  <1>9. EndsFrame(all, p)
    BY <1>2, <1>3, <1>8 DEF Quiet, Answers
  <1>10. EndsFrame(buffer, p)
    <2>1. /\ p - 1 \in 1..Len(buffer) /\ p - 2 \in 1..Len(buffer)
          /\ p > 3 => p - 3 \in 1..Len(buffer)
      BY <1>3, <1>6, <1>9 DEF EndsFrame
    <2> QED
      BY <1>3, <1>6, <1>9, <2>1 DEF EndsFrame
  <1>11. IsFrame(text) /\ text # <<Cr>>
    <2>1. \A i \in 1..p - 1 : buffer[i] \notin {Cr, Bel}
      BY <1>3, <1>6, <1>7
    <2> QED
      BY <1>1, <1>6, <1>10, <2>1, FirstLineIsFrame
  <1>12. TakesFrame
    BY <1>5, <1>11 DEF TakeLine, p
  <1>13. CASE Again
    <2>1. LineDone(After(all, p))
      BY <1>2, <1>3, <1>8, DoneAfter DEF Quiet
    <2>2. Answers(After(all, p)) = {}
      <3>1. \A i \in Answers(After(all, p)) : p + i \in Answers(all)
        BY <1>3, <1>8, AnswersAfter
      <3> QED
        BY <1>2, <3>1 DEF Quiet
    <2>3. commands' = <<>> /\ step' = "loop" /\ result' = "none"
      BY <1>1, <1>2, <1>13 DEF Again, Quiet
    <2>4. Quiet(buffer \o wire, 7)'
      BY <1>1, <1>2, <1>6, <2>1, <2>2, <2>3 DEF Quiet, Done
    <2> QED
      BY <1>1, <2>3, <2>4 DEF DialogueInv, Connecting, Receiving
  <1>14. CASE Finish("max-frames-reached")
    BY <1>14 DEF Finish, DialogueInv, Connecting, Receiving
  <1> QED
    BY <1>12, <1>13, <1>14 DEF TakesFrame

LEMMA DialogueNext ==
  ASSUME AdapterTypeInv, AdapterTypeInv', DialogueInv, [AdapterNext]_adapterVars
  PROVE  DialogueInv'
  \* An owner that ends otherwise than with an error, or goes on.
  <1>1. ASSUME NEW why \in {"stopped", "duration-elapsed", "source-ended"}, Finish(why)
        PROVE  DialogueInv'
    BY <1>1 DEF Finish, DialogueInv, Connecting, Receiving
  <1>2. ASSUME step \in Receiving, step' \in Receiving, buffer' \o wire' = buffer \o wire,
               UNCHANGED <<device, settings, commands, command, version, result, inStep>>
        PROVE  DialogueInv'
    <2> SUFFICES ASSUME inStep, version \/ command = 1 PROVE DialogueInv'
      BY <1>2 DEF DialogueInv, Connecting, Receiving
    <2>1. Quiet(buffer \o wire, 7)
      BY <1>2 DEF DialogueInv
    <2>2. Quiet(buffer \o wire, 7)'
      BY <1>2, <2>1 DEF Quiet, Done
    <2> QED
      BY <1>2, <2>2 DEF DialogueInv, Connecting, Receiving
  <1>3. ASSUME NEW who \in {"worker", "capture"}, OpenPort(who) PROVE DialogueInv'
    <2>1. /\ step' = "write" /\ command' = 1 /\ version' = FALSE /\ result' = "none" /\ commands' = commands
          /\ inStep' => commands = <<>> /\ wire' = <<>>
      BY <1>3 DEF OpenPort
    <2>2. inStep' => Quiet(wire, command - 1)'
      BY <2>1, NothingQuiet DEF Quiet, Done
    <2> QED
      BY <2>1, <2>2 DEF DialogueInv, Connecting, Receiving
  <1>4. CASE WriteCommand
    <2>1. /\ step = "write" /\ step' = "wait" /\ line' = <<>> /\ commands' = Append(commands, Dialogue[command])
          /\ UNCHANGED <<device, settings, command, version, result, inStep, wire>>
      BY <1>4 DEF WriteCommand, deviceVars, receiveVars, openVars
    <2> SUFFICES ASSUME inStep, version \/ command = 1 PROVE DialogueInv'
      BY <2>1 DEF DialogueInv
    <2>2. Quiet(wire, command - 1)
      BY <2>1 DEF DialogueInv
    <2>3. line' \o wire' = wire
      BY <2>1, ConcatEmptySeq DEF AdapterTypeInv, AdapterTypeOK
    <2>4. commands' = <<Dialogue[command]>>
      BY <2>1, <2>2 DEF Quiet
    <2>5. LineDone(line' \o wire') /\ Waiting(line \o wire)'
      BY <2>1, <2>2, <2>3, <2>4 DEF Quiet, Waiting, Done
    <2> QED
      BY <2>1, <2>5 DEF DialogueInv, Connecting, Receiving
  <1>5. CASE CommandFails
    <2>1. /\ command \in 1..7 /\ step \in Connecting /\ result = "none"
          /\ UNCHANGED <<device, settings, version, result, inStep>>
      BY <1>5, DialogueCommands
         DEF CommandFails, deviceVars, receiveVars, openVars, AdapterTypeInv, AdapterTypeOK, Connecting
    <2>2. CASE command = 1
      <3>1. command' # 1
        BY <1>5, <2>1, <2>2, DialogueCommands, NextCommandIs DEF CommandFails
      <3> QED
        BY <2>1, <2>2, <3>1 DEF DialogueInv
    <2>3. CASE command # 1
      <3>1. step' = "closed"
        BY <1>5, <2>1, <2>3, DialogueCommands DEF CommandFails, ConnectFails
      <3> QED
        BY <2>1, <3>1 DEF DialogueInv, Connecting, Receiving
    <2> QED
      BY <2>2, <2>3
  <1>6. CASE TestOver
    <2>1. CASE over
      <3>1. \E why \in {"stopped", "duration-elapsed"} : Finish(why)
        BY <1>6, <2>1 DEF TestOver
      <3> QED
        BY <1>1, <3>1
    <2>2. CASE ~over
      BY <1>2, <1>6, <2>2 DEF TestOver, deviceVars, connectVars, openVars, Receiving
    <2> QED
      BY <2>1, <2>2
  <1>7. CASE NoLine
    BY <1>2, <1>7 DEF NoLine, deviceVars, connectVars, receiveVars, openVars, Receiving
  <1>8. CASE ReadChunk
    <2>1. PICK n \in 1..Len(wire) : buffer' = buffer \o SubSeq(wire, 1, n) /\ wire' = SubSeq(wire, n + 1, Len(wire))
      BY <1>8 DEF ReadChunk
    <2>2. wire \in Seq(Tokens) /\ buffer \in Seq(Tokens)
      BY DEF AdapterTypeInv, AdapterTypeOK
    <2>3. Regroups(buffer, wire, buffer', wire')
      BY <2>1, <2>2, ChunkMoves
    <2>4. buffer' \o wire' = buffer \o wire
      BY <2>3 DEF Regroups
    <2> QED
      BY <1>2, <1>8, <2>4 DEF ReadChunk, deviceVars, connectVars, openVars, Receiving
  <1>9. CASE ReadTimesOut
    <2>1. CASE Again
      BY <1>2, <1>9, <2>1 DEF ReadTimesOut, Again, deviceVars, connectVars, openVars, Receiving
    <2>2. CASE Finish("source-ended")
      BY <1>1, <2>2
    <2> QED
      BY <1>9, <2>1, <2>2 DEF ReadTimesOut, NoFrame
  <1>10. CASE PortFails
    BY <1>10 DEF PortFails, DialogueInv, Connecting, Receiving
  <1>11. CASE IsOver
    BY <1>2, <1>11 DEF IsOver, deviceVars, connectVars, receiveVars, openVars
  <1>12. CASE UNCHANGED adapterVars
    BY <1>12 DEF adapterVars, deviceVars, connectVars, receiveVars, openVars, DialogueInv,
       Quiet, Waiting, Done
  <1> QED
    BY <1>3, <1>4, <1>5, <1>6, <1>7, <1>8, <1>9, <1>10, <1>11, <1>12, DialogueReadByte, DialogueTakes,
       DialogueExecute, DialogueEmit
       DEF AdapterNext, OwnerNext

-----------------------------------------------------------------------------
(* The theorems *)

AdapterInv == AdapterTypeInv /\ FramesInv /\ DialogueInv

LEMMA AdapterInvariant == AdapterSpec => []AdapterInv
  <1>1. AdapterInit => AdapterInv
    BY TypeInit, FramesInit, DialogueInit DEF AdapterInv
  <1>2. AdapterInv /\ [AdapterNext]_adapterVars => AdapterInv'
    BY TypeNext, FramesNext, DialogueNext DEF AdapterInv
  <1> QED
    BY <1>1, <1>2, PTL DEF AdapterSpec

\* Whatever the device answers and wherever reads cut its lines, the adapter
\* stays within its types, and a capture has kept all the frames it may
\* exactly when it ended for that reason.
THEOREM AdapterTypes == AdapterSpec => []AdapterTypeOK
  <1>1. AdapterInv => AdapterTypeOK
    BY DEF AdapterInv, AdapterTypeInv
  <1> QED
    BY <1>1, AdapterInvariant, PTL

\* For any number of frames and connects: what next_frame returned and what is
\* still in its buffer or on the wire are the latest frames of the device, each
\* once and in order.
THEOREM NoFrameIsMissing == AdapterSpec => []NoFrameMissing
  <1>1. AdapterInv => NoFrameMissing
    BY DEF AdapterInv, FramesInv
  <1> QED
    BY <1>1, AdapterInvariant, PTL

\* A connect that found nothing under way and was told the version has taken
\* every answer for the command it is about.
THEOREM VersionKeepsInStep == AdapterSpec => []VersionPutsInStep
  <1>1. AdapterInv => VersionPutsInStep
    BY DialogueImplies DEF AdapterInv
  <1> QED
    BY <1>1, AdapterInvariant, PTL
=============================================================================
