--------------------------- MODULE PipelineProofs ---------------------------
(***************************************************************************)
(* Proofs about Pipeline, whatever the frames, the names, the times, the   *)
(* arguments, the configurations and the layouts: the line of any frame is *)
(* read back as that frame and a damaged one is refused; the event of a    *)
(* frame gives back all that an event holds, its time to the nanosecond;   *)
(* the rows that one formatter makes of frames and the other of events are *)
(* the same, for arguments that the server takes as they were meant; a     *)
(* capture is read back frame by frame, to the millisecond, or refused if  *)
(* a bus name has a line break; an integer signal is the float nearest to  *)
(* a field of bits of the data as one number; and the live plot shows the  *)
(* points that are made of the files, which number the frames anew.        *)
(*                                                                         *)
(* HexValue, KeptOf, SplitLine, the lines of a text and the extraction of  *)
(* a signal are folds; the ...Steps lemmas say what each position adds to  *)
(* them.                                                                   *)
(***************************************************************************)
EXTENDS Pipeline, FoldLemmas

-----------------------------------------------------------------------------
(* Quotients *)

\* A quotient and what remains are determined by what they make.
LEMMA QuotientIs ==
  ASSUME NEW p \in Nat \ {0}, NEW q \in Nat, NEW r \in 0..(p - 1), NEW a, a = p * q + r
  PROVE  a \div p = q /\ a % p = r
  OBVIOUS

\* They are natural numbers that make it.
LEMMA QuotientMakes ==
  ASSUME NEW a \in Nat, NEW p \in Nat \ {0}
  PROVE  a \div p \in Nat /\ (a % p) \in 0..(p - 1) /\ a = p * (a \div p) + (a % p)
  OBVIOUS

-----------------------------------------------------------------------------
(* Hex digits *)

\* Both digits of a byte make the byte again.
LEMMA NibblesBack ==
  ASSUME NEW x \in Bytes
  PROVE  /\ x \div 16 \in Digits /\ x % 16 \in Digits
         /\ 16 * (x \div 16) + (x % 16) = x
  BY DEF Bytes, Digits

\* The digits of some bytes.
LEMMA DataHexDigits ==
  ASSUME NEW data \in Seq(Bytes)
  PROVE  /\ DataHex(data) \in Seq(Digits)
         /\ Len(data) \in Nat /\ Len(DataHex(data)) = 2 * Len(data)
         /\ \A i \in 1..Len(data) : /\ DataHex(data)[2 * i - 1] = data[i] \div 16
                                    /\ DataHex(data)[2 * i] = data[i] % 16
  <1> DEFINE n == Len(data)
  <1>1. n \in Nat /\ \A i \in 1..n : data[i] \in Bytes
    BY LenProperties
  <1> HIDE DEF n
  <1>2. DataHex(data) = [i \in 1..2 * n |-> IF i % 2 = 1 THEN data[(i + 1) \div 2] \div 16
                                            ELSE data[i \div 2] % 16]
    BY DEF DataHex, n
  <1>3. ASSUME NEW i \in 1..2 * n PROVE DataHex(data)[i] \in Digits
    <2>1. CASE i % 2 = 1
      <3>1. (i + 1) \div 2 \in 1..n
        BY <1>1, <2>1
      <3> QED
        BY <1>1, <1>2, <2>1, <3>1, NibblesBack
    <2>2. CASE i % 2 # 1
      <3>1. i \div 2 \in 1..n
        BY <1>1, <2>2
      <3> QED
        BY <1>1, <1>2, <2>2, <3>1, NibblesBack
    <2> QED
      BY <2>1, <2>2
  <1>4. DataHex(data) \in [1..2 * n -> Digits]
    BY <1>2, <1>3
  <1>5. 2 * n \in Nat
    BY <1>1
  <1>6. DataHex(data) \in Seq(Digits) /\ Len(DataHex(data)) = 2 * n
    BY <1>4, <1>5, SeqDef, LenProperties
  <1>7. ASSUME NEW i \in 1..n
        PROVE  DataHex(data)[2 * i - 1] = data[i] \div 16 /\ DataHex(data)[2 * i] = data[i] % 16
    <2>1. /\ 2 * i - 1 \in 1..2 * n /\ (2 * i - 1) % 2 = 1 /\ ((2 * i - 1) + 1) \div 2 = i
          /\ 2 * i \in 1..2 * n /\ (2 * i) % 2 # 1 /\ (2 * i) \div 2 = i
      BY <1>1
    <2> QED
      BY <1>2, <2>1
  <1> QED
    BY <1>1, <1>6, <1>7 DEF n

\* What is read of a text of digits.
LEMMA HexBytesOf ==
  ASSUME NEW digits \in Seq(Digits)
  PROVE  AllDigits(digits)
  <1>1. \A i \in 1..Len(digits) : digits[i] # NoDigit
    BY DEF Digits, NoDigit
  <1> QED
    BY <1>1 DEF AllDigits, ToSet

\* The bytes that were written are read.
LEMMA BytesBack ==
  ASSUME NEW data \in Seq(Bytes)
  PROVE  HexBytes(DataHex(data)) = {data}
  <1> DEFINE n == Len(data)
             hex == DataHex(data)
             read == [i \in 1..Len(hex) \div 2 |-> 16 * hex[2 * i - 1] + hex[2 * i]]
  <1>1. /\ hex \in Seq(Digits) /\ n \in Nat /\ Len(hex) = 2 * n
        /\ \A i \in 1..n : hex[2 * i - 1] = data[i] \div 16 /\ hex[2 * i] = data[i] % 16
    BY DataHexDigits
  <1>2. \A i \in 1..n : data[i] \in Bytes
    BY LenProperties
  <1>3. data = [i \in 1..n |-> data[i]]
    BY LenProperties
  <1>4. AllDigits(hex)
    BY <1>1, HexBytesOf
  <1> HIDE DEF n, hex
  <1>5. Len(hex) \div 2 = n /\ Len(hex) % 2 = 0
    BY <1>1
  <1>6. \A i \in 1..n : 16 * hex[2 * i - 1] + hex[2 * i] = data[i]
    BY <1>1, <1>2, NibblesBack
  <1>7. read = data
    BY <1>3, <1>5, <1>6
  <1>8. HexBytes(hex) = {read}
    BY <1>4, <1>5 DEF HexBytes
  <1> QED
    BY <1>7, <1>8 DEF hex

\* The recursion of HexValue.
HexEquation(digits, iter) ==
  [s \in SUBSET (1..Len(digits)) |->
     IF s = {} THEN 0 ELSE 16 * iter[s \ {Max(s)}] + digits[Max(s)]]

HexFold(digits) == CHOOSE iter : iter = HexEquation(digits, iter)

\* Each digit multiplies what was read by 16 and adds itself.
LEMMA HexSteps ==
  ASSUME NEW digits \in Seq(Digits)
  PROVE  \E f \in [0..Len(digits) -> Nat] :
           /\ HexValue(digits) = f[Len(digits)]
           /\ f[0] = 0
           /\ \A k \in 1..Len(digits) : f[k] = 16 * f[k - 1] + digits[k]
  <1> DEFINE n == Len(digits)
             g == [i \in 1..n |-> [v \in Nat |-> 16 * v + digits[i]]]
             I == HexFold(digits)
  <1>1. n \in Nat /\ DOMAIN digits = 1..n /\ \A i \in 1..n : digits[i] \in Nat
    BY LenProperties DEF Digits
  <1>2. HexValue(digits) = I[1..n]
    <2>1. HexValue(digits) =
            (CHOOSE iter : iter = [s \in SUBSET (DOMAIN digits) |->
                                     IF s = {} THEN 0
                                     ELSE LET x == Max(s) IN 16 * iter[s \ {x}] + digits[x]])[DOMAIN digits]
      BY DEF HexValue, FoldLeft, MapThenFoldSet
    <2> QED
      BY <1>1, <2>1 DEF HexFold, HexEquation
  <1>3. g \in [1..n -> [Nat -> Nat]]
    BY <1>1
  <1>4. \A i \in 1..n, v \in Nat : g[i][v] = 16 * v + digits[i]
    OBVIOUS
  <1> HIDE DEF n, g
  <1>5. PICK h \in [SUBSET (1..n) -> Nat] : FoldSolves(h, n, 0, g)
    BY <1>1, <1>3, FoldExists
  <1>6. h = HexEquation(digits, h)
    <2>1. ASSUME NEW s \in SUBSET (1..n), s # {}
          PROVE  h[s] = 16 * h[s \ {Max(s)}] + digits[Max(s)]
      <3>1. Max(s) \in 1..n
        BY <1>1, <2>1, MaxOfInterval
      <3>2. h[s \ {Max(s)}] \in Nat
        OBVIOUS
      <3> QED
        BY <1>4, <1>5, <2>1, <3>1, <3>2 DEF FoldSolves
    <2>2. h = [s \in SUBSET (1..n) |-> h[s]]
      OBVIOUS
    <2>3. \A s \in SUBSET (1..n) :
             h[s] = IF s = {} THEN 0 ELSE 16 * h[s \ {Max(s)}] + digits[Max(s)]
      BY <1>5, <2>1 DEF FoldSolves
    <2> QED
      BY <2>2, <2>3 DEF HexEquation, n
  <1>7. I = HexEquation(digits, I)
    BY <1>6 DEF HexFold
  <1> HIDE DEF I
  <1>8. \A s \in SUBSET (1..n) :
          I[s] = IF s = {} THEN 0 ELSE 16 * I[s \ {Max(s)}] + digits[Max(s)]
    BY <1>7 DEF HexEquation, n
  <1>9. 0 \in Nat /\ FoldMeets(I, n, Nat, 0, g)
    <2>1. ASSUME NEW s \in SUBSET (1..n), s # {}, I[s \ {Max(s)}] \in Nat
          PROVE  I[s] = g[Max(s)][I[s \ {Max(s)}]]
      <3>1. Max(s) \in 1..n
        BY <1>1, <2>1, MaxOfInterval
      <3> QED
        BY <1>4, <1>8, <2>1, <3>1
    <2>2. I[{}] = 0
      BY <1>8
    <2> QED
      BY <2>1, <2>2 DEF FoldMeets
  <1>10. PICK f \in [0..n -> Nat] : FoldRuns(f, n, 0, g, I)
    BY <1>1, <1>3, <1>9, FoldSteps
  <1>11. ASSUME NEW k \in 1..n PROVE f[k] = 16 * f[k - 1] + digits[k]
    <2>1. k - 1 \in 0..n
      BY <1>1
    <2>2. f[k - 1] \in Nat /\ f[k] = g[k][f[k - 1]]
      BY <1>10, <2>1 DEF FoldRuns
    <2> QED
      BY <1>4, <2>2
  <1> QED
    BY <1>2, <1>10, <1>11 DEF FoldRuns, n

\* Digits of a number are a text of that length.
LEMMA HexDigitsAre ==
  ASSUME NEW v, NEW n \in Nat, \A i \in 1..n : HexDigits(v, n)[i] \in Digits
  PROVE  HexDigits(v, n) \in Seq(Digits) /\ Len(HexDigits(v, n)) = n
  <1>1. HexDigits(v, n) = [i \in 1..n |-> HexDigits(v, n)[i]]
    BY DEF HexDigits
  <1>2. HexDigits(v, n) \in [1..n -> Digits]
    BY <1>1
  <1> QED
    BY <1>2, FunctionIsSeq

\* The digits of an identifier are its value again.
LEMMA ThreeDigits ==
  ASSUME NEW v \in Nat, v <= MaxId("standard")
  PROVE  /\ HexDigits(v, 3) \in Seq(Digits) /\ Len(HexDigits(v, 3)) = 3
         /\ HexValue(HexDigits(v, 3)) = v
  <1> DEFINE d == HexDigits(v, 3)
  <1>1. d = [i \in 1..3 |-> (v \div 16 ^ (3 - i)) % 16]
    BY DEF HexDigits
  <1>2. 16 ^ (3 - 1) = 256 /\ 16 ^ (3 - 2) = 16 /\ 16 ^ (3 - 3) = 1
    OBVIOUS
  <1>3. d[1] = (v \div 256) % 16 /\ d[2] = (v \div 16) % 16 /\ d[3] = (v \div 1) % 16
    BY <1>1, <1>2
  <1>4. \A i \in 1..3 : d[i] \in Digits
    <2>1. \A i \in 1..3 : i = 1 \/ i = 2 \/ i = 3
      OBVIOUS
    <2> HIDE DEF d
    <2>2. d[1] \in Digits /\ d[2] \in Digits /\ d[3] \in Digits
      BY <1>3 DEF Digits
    <2> QED
      BY <2>1, <2>2
  <1>5. d \in Seq(Digits) /\ Len(d) = 3
    BY <1>4, HexDigitsAre
  <1> HIDE DEF d
  <1>6. PICK f \in [0..3 -> Nat] : /\ HexValue(d) = f[3] /\ f[0] = 0
                                   /\ \A k \in 1..3 : f[k] = 16 * f[k - 1] + d[k]
    BY <1>5, HexSteps
  <1>7. f[1] = d[1] /\ f[2] = 16 * f[1] + d[2] /\ f[3] = 16 * f[2] + d[3]
    <2>1. f[1] = 16 * f[1 - 1] + d[1] /\ f[2] = 16 * f[2 - 1] + d[2] /\ f[3] = 16 * f[3 - 1] + d[3]
      BY <1>6
    <2> QED
      BY <1>6, <1>3, <2>1
  <1>8. f[3] = v
    <2>1. v <= 2047
      BY DEF MaxId
    <2> QED
      BY <1>3, <1>7, <2>1
  <1> QED
    BY <1>5, <1>6, <1>8 DEF d

\* Eight digits hold any extended identifier.
LEMMA EightDigits ==
  ASSUME NEW v \in Nat, v <= MaxId("extended")
  PROVE  /\ HexDigits(v, 8) \in Seq(Digits) /\ Len(HexDigits(v, 8)) = 8
         /\ HexValue(HexDigits(v, 8)) = v
  <1> DEFINE d == HexDigits(v, 8)
  <1>1. d = [i \in 1..8 |-> (v \div 16 ^ (8 - i)) % 16]
    BY DEF HexDigits
  <1>2. /\ 16 ^ (8 - 1) = 268435456 /\ 16 ^ (8 - 2) = 16777216 /\ 16 ^ (8 - 3) = 1048576
        /\ 16 ^ (8 - 4) = 65536 /\ 16 ^ (8 - 5) = 4096 /\ 16 ^ (8 - 6) = 256
        /\ 16 ^ (8 - 7) = 16 /\ 16 ^ (8 - 8) = 1
    OBVIOUS
  <1>3. /\ d[1] = (v \div 268435456) % 16 /\ d[2] = (v \div 16777216) % 16
        /\ d[3] = (v \div 1048576) % 16 /\ d[4] = (v \div 65536) % 16
        /\ d[5] = (v \div 4096) % 16 /\ d[6] = (v \div 256) % 16
        /\ d[7] = (v \div 16) % 16 /\ d[8] = (v \div 1) % 16
    BY <1>1, <1>2
  <1>4. \A i \in 1..8 : d[i] \in Digits
    <2>1. \A i \in 1..8 : i = 1 \/ i = 2 \/ i = 3 \/ i = 4 \/ i = 5 \/ i = 6 \/ i = 7 \/ i = 8
      OBVIOUS
    <2> HIDE DEF d
    <2>2. /\ d[1] \in Digits /\ d[2] \in Digits /\ d[3] \in Digits /\ d[4] \in Digits
          /\ d[5] \in Digits /\ d[6] \in Digits /\ d[7] \in Digits /\ d[8] \in Digits
      BY <1>3 DEF Digits
    <2> QED
      BY <2>1, <2>2
  <1>5. d \in Seq(Digits) /\ Len(d) = 8
    BY <1>4, HexDigitsAre
  <1> HIDE DEF d
  <1>6. PICK f \in [0..8 -> Nat] : /\ HexValue(d) = f[8] /\ f[0] = 0
                                   /\ \A k \in 1..8 : f[k] = 16 * f[k - 1] + d[k]
    BY <1>5, HexSteps
  <1>7. /\ f[1] = d[1] /\ f[2] = 16 * f[1] + d[2] /\ f[3] = 16 * f[2] + d[3]
        /\ f[4] = 16 * f[3] + d[4] /\ f[5] = 16 * f[4] + d[5] /\ f[6] = 16 * f[5] + d[6]
        /\ f[7] = 16 * f[6] + d[7] /\ f[8] = 16 * f[7] + d[8]
    <2>1. /\ f[1] = 16 * f[1 - 1] + d[1] /\ f[2] = 16 * f[2 - 1] + d[2]
          /\ f[3] = 16 * f[3 - 1] + d[3] /\ f[4] = 16 * f[4 - 1] + d[4]
          /\ f[5] = 16 * f[5 - 1] + d[5] /\ f[6] = 16 * f[6 - 1] + d[6]
          /\ f[7] = 16 * f[7 - 1] + d[7] /\ f[8] = 16 * f[8 - 1] + d[8]
      BY <1>6
    <2>2. d[1] \in Nat
      BY <1>3
    <2> QED
      BY <1>6, <2>1, <2>2
  <1>8. /\ f[1] = v \div 268435456 /\ f[2] = v \div 16777216 /\ f[3] = v \div 1048576
        /\ f[4] = v \div 65536
    <2>1. v <= 536870911
      BY DEF MaxId
    <2> QED
      BY <1>3, <1>7, <2>1
  <1>9. f[5] = v \div 4096 /\ f[6] = v \div 256 /\ f[7] = v \div 16 /\ f[8] = v
    BY <1>3, <1>7, <1>8
  <1> QED
    BY <1>5, <1>6, <1>9 DEF d

\* The digits of an identifier are read back as that identifier.
LEMMA IdBack ==
  ASSUME NEW f \in IdFormats, NEW v \in Nat, v <= MaxId(f)
  PROVE  /\ HexDigits(v, IdDigits(f)) \in Seq(Digits) /\ Len(HexDigits(v, IdDigits(f))) = IdDigits(f)
         /\ HexValue(HexDigits(v, IdDigits(f))) = v
  <1>1. CASE f = "standard"
    BY <1>1, ThreeDigits DEF IdDigits
  <1>2. CASE f = "extended"
    BY <1>2, EightDigits DEF IdDigits
  <1> QED
    BY <1>1, <1>2 DEF IdFormats

\* Eight digits of which the first is 7.
LEMMA EightSteps ==
  ASSUME NEW v \in [0..8 -> Nat], v[0] = 0, NEW d,
         d[1] = 7, \A k \in 1..8 : d[k] \in Nat,
         \A k \in 1..8 : v[k] = 16 * v[k - 1] + d[k]
  PROVE  ~ (v[8] <= MaxId("extended"))
  <1>1. /\ v[1] \in Nat /\ v[2] \in Nat /\ v[3] \in Nat /\ v[4] \in Nat
        /\ v[5] \in Nat /\ v[6] \in Nat /\ v[7] \in Nat /\ v[8] \in Nat
    OBVIOUS
  <1>2. /\ v[1] = 16 * v[1 - 1] + d[1] /\ v[2] = 16 * v[2 - 1] + d[2]
        /\ v[3] = 16 * v[3 - 1] + d[3] /\ v[4] = 16 * v[4 - 1] + d[4]
        /\ v[5] = 16 * v[5 - 1] + d[5] /\ v[6] = 16 * v[6 - 1] + d[6]
        /\ v[7] = 16 * v[7 - 1] + d[7] /\ v[8] = 16 * v[8 - 1] + d[8]
    OBVIOUS
  <1>3. v[1] = 7 /\ v[2] >= 112
    BY <1>1, <1>2
  <1>4. v[4] >= 28672
    BY <1>1, <1>2, <1>3
  <1>5. v[8] >= 1879048192
    BY <1>1, <1>2, <1>4, SMT
  <1> QED
    BY <1>1, <1>5, SMT DEF MaxId

\* An identifier that begins with a digit of its damaged line does not exist.
LEMMA BigFirst ==
  ASSUME NEW f \in IdFormats, NEW d \in Seq(Digits), Len(d) = IdDigits(f),
         d[1] = IF f = "standard" THEN 8 ELSE 7
  PROVE  ~ (HexValue(d) <= MaxId(f))
  <1>1. PICK v \in [0..Len(d) -> Nat] : /\ HexValue(d) = v[Len(d)] /\ v[0] = 0
                                        /\ \A k \in 1..Len(d) : v[k] = 16 * v[k - 1] + d[k]
    BY HexSteps
  <1>2. \A i \in 1..Len(d) : d[i] \in Nat
    <2>1. \A i \in 1..Len(d) : d[i] \in Digits
      BY LenProperties
    <2>2. \A x \in Digits : x \in Nat
      BY DEF Digits
    <2> QED
      BY <2>1, <2>2, Zenon
  <1>3. CASE f = "standard"
    <2>1. Len(d) = 3
      BY <1>3 DEF IdDigits
    <2>2. d[1] = 8 /\ d[2] \in Nat /\ d[3] \in Nat
      BY <1>2, <1>3, <2>1
    <2>3. v[1] = 16 * v[1 - 1] + d[1] /\ v[2] = 16 * v[2 - 1] + d[2] /\ v[3] = 16 * v[3 - 1] + d[3]
      BY <1>1, <2>1
    <2>4. v[3] >= 2048
      BY <1>1, <2>2, <2>3
    <2>5. MaxId(f) = 2047
      BY <1>3, SMT DEF MaxId
    <2> QED
      BY <1>1, <2>1, <2>4, <2>5, SMT
  <1>4. CASE f = "extended"
    <2>1. Len(d) = 8
      BY <1>4 DEF IdDigits
    <2>2. d[1] = 7
      BY <1>4
    <2>3. v \in [0..8 -> Nat] /\ v[0] = 0 /\ HexValue(d) = v[8]
      BY <1>1, <2>1
    <2>4. \A k \in 1..8 : v[k] = 16 * v[k - 1] + d[k]
      BY <1>1, <2>1
    <2>5. \A k \in 1..8 : d[k] \in Nat
      BY <1>2, <2>1
    <2>6. ~ (v[8] <= MaxId("extended"))
      BY <2>2, <2>3, <2>4, <2>5, EightSteps, Zenon
    <2> QED
      BY <1>4, <2>3, <2>6, Zenon
  <1> QED
    BY <1>3, <1>4 DEF IdFormats

\* A part of a text is all digits when the tokens there are.
LEMMA PartDigits ==
  ASSUME NEW T, NEW b \in Seq(T), NEW m \in 1..Len(b) + 1, NEW k \in m - 1..Len(b)
  PROVE  AllDigits(SubSeq(b, m, k)) <=> \A i \in m..k : b[i] # NoDigit
  <1> DEFINE part == SubSeq(b, m, k)
  <1>1. Len(b) \in Nat /\ m \in Nat /\ k \in Nat
    BY LenProperties
  <1>2. part = [i \in 1..k - m + 1 |-> b[i + m - 1]]
    BY <1>1
  <1>3. AllDigits(part) <=> \A i \in DOMAIN part : part[i] # NoDigit
    BY DEF AllDigits, ToSet
  <1>4. DOMAIN part = 1..(k - m) + 1 /\ \A i \in 1..(k - m) + 1 : part[i] = b[(i + m) - 1]
    BY <1>1
  <1> HIDE DEF part
  <1>5. ASSUME \A i \in DOMAIN part : part[i] # NoDigit, NEW i \in m..k PROVE b[i] # NoDigit
    <2>1. (i - m) + 1 \in 1..(k - m) + 1 /\ (((i - m) + 1) + m) - 1 = i
      BY <1>1
    <2> QED
      BY <1>4, <1>5, <2>1
  <1>6. ASSUME \A i \in m..k : b[i] # NoDigit, NEW i \in DOMAIN part PROVE part[i] # NoDigit
    <2>1. (i + m) - 1 \in m..k
      BY <1>1, <1>4
    <2> QED
      BY <1>4, <1>6, <2>1
  <1> QED
    BY <1>3, <1>5, <1>6 DEF part

-----------------------------------------------------------------------------
(* Lines *)

\* What SentAssumption says of a frame, field by field.
LEMMA SentIs ==
  ASSUME NEW sent \in Sent
  PROVE  /\ sent \in SentFrames
         /\ sent.id <= MaxId(sent.id_format)
         /\ sent.dlc <= MaxDlc(sent.frame_format)
         /\ sent.data_length = DataLength(sent.dlc)
         /\ FitsDlc(sent.frame_type, sent.dlc, sent.data)
         /\ sent.bitrate_switch => sent.frame_format = "fd"
  <1> DEFINE plain == [sent EXCEPT !.bitrate_switch = FALSE]
  <1>1. /\ sent \in SentFrames
        /\ sent.bitrate_switch => sent.frame_format = "fd"
        /\ plain \in NewRx(sent.id, sent.id_format, sent.frame_format, sent.frame_type, sent.dlc,
                           sent.data)
    BY SentAssumption
  <1>2. plain.data_length = sent.data_length
    BY <1>1 DEF SentFrames
  <1> HIDE DEF plain
  <1>3. /\ sent.id <= MaxId(sent.id_format)
        /\ sent.dlc <= MaxDlc(sent.frame_format)
        /\ FitsDlc(sent.frame_type, sent.dlc, sent.data)
        /\ plain.data_length = IF sent.dlc <= MaxDlc(sent.frame_format) THEN DataLength(sent.dlc) ELSE 0
    BY <1>1 DEF NewRx
  <1> QED
    BY <1>1, <1>2, <1>3

\* The length of the line of a frame.
LineLength(frame) == IdDigits(frame.id_format) + 1 + 2 * Len(frame.data)

\* The digits of the line of a frame.
LineBody(frame) ==
  HexDigits(frame.id, IdDigits(frame.id_format)) \o <<frame.dlc>> \o DataHex(frame.data)

\* A header says the formats of the frames that are sent with it.
LEMMA HeaderIs ==
  ASSUME NEW sent \in Sent, NEW h \in HeadersOf(sent)
  PROVE  /\ h \in DOMAIN Header
         /\ Header[h].id_format = sent.id_format
         /\ Header[h].frame_format = sent.frame_format
         /\ Header[h].frame_type = sent.frame_type
         /\ Header[h].brs = sent.bitrate_switch
         /\ sent.frame_type \in {"data", "remote"}
         /\ h \in {"t", "r", "d", "b"} <=> sent.id_format = "standard"
  <1>1. /\ sent.bitrate_switch \in BOOLEAN
        /\ sent.bitrate_switch => sent.frame_format = "fd"
    BY SentIs DEF SentFrames
  <1>2. /\ h \in DOMAIN Header
        /\ Header[h] = [id_format |-> sent.id_format, frame_format |-> sent.frame_format,
                        frame_type |-> sent.frame_type,
                        brs |-> sent.frame_format = "fd" /\ sent.bitrate_switch]
    BY DEF HeadersOf
  <1>3. h \in {"t", "T", "r", "R", "d", "D", "b", "B"}
    BY <1>2 DEF Header
  <1>4. /\ Header[h].frame_type \in {"data", "remote"}
        /\ h \in {"t", "r", "d", "b"} <=> Header[h].id_format = "standard"
    BY <1>3 DEF Header
  <1>5. Header[h].brs = (sent.frame_format = "fd" /\ sent.bitrate_switch)
    BY <1>2
  <1>6. Header[h].brs = sent.bitrate_switch
    BY <1>1, <1>5
  <1> QED
    BY <1>2, <1>4, <1>6

\* Digits, DLC and data of a line.
LEMMA BodyIs ==
  ASSUME NEW sent \in Sent
  PROVE  /\ IdDigits(sent.id_format) \in Nat /\ IdDigits(sent.id_format) >= 3
         /\ Len(sent.data) \in Nat /\ LineLength(sent) \in Nat
         /\ LineBody(sent) \in Seq(Digits) /\ Len(LineBody(sent)) = LineLength(sent)
         /\ \A i \in 1..IdDigits(sent.id_format) :
              LineBody(sent)[i] = HexDigits(sent.id, IdDigits(sent.id_format))[i]
         /\ LineBody(sent)[IdDigits(sent.id_format) + 1] = sent.dlc
         /\ \A i \in 1..2 * Len(sent.data) :
              LineBody(sent)[IdDigits(sent.id_format) + 1 + i] = DataHex(sent.data)[i]
         /\ sent.dlc \in Digits
  <1> DEFINE n == IdDigits(sent.id_format)
             a == HexDigits(sent.id, n)
             c == DataHex(sent.data)
  <1>1. n \in Nat /\ n >= 3
    BY DEF IdDigits
  <1>2. a \in Seq(Digits) /\ Len(a) = n
    BY SentIs, IdBack DEF SentFrames
  <1>3. c \in Seq(Digits) /\ Len(sent.data) \in Nat /\ Len(c) = 2 * Len(sent.data)
    BY SentIs, DataHexDigits DEF SentFrames
  <1>4. sent.dlc \in Digits
    <2>1. sent.dlc \in Nat /\ sent.dlc <= MaxDlc(sent.frame_format)
      BY SentIs DEF SentFrames
    <2>2. MaxDlc(sent.frame_format) \in 8..15
      BY DEF MaxDlc
    <2> HIDE DEF n, a, c
    <2> QED
      BY <2>1, <2>2 DEF Digits
  <1> DEFINE m == 2 * Len(sent.data)
  <1>m. m \in Nat
    BY <1>3
  <1> HIDE DEF n, a, c, m
  <1>5. /\ <<sent.dlc>> \in Seq(Digits) /\ Len(<<sent.dlc>>) = 1 /\ <<sent.dlc>>[1] = sent.dlc
    BY <1>4
  <1> DEFINE ab == a \o <<sent.dlc>>
  <1>6. /\ ab \in Seq(Digits) /\ Len(ab) = n + 1
        /\ \A i \in 1..n : ab[i] = a[i]
        /\ ab[n + 1] = sent.dlc
    BY <1>1, <1>2, <1>5, ConcatProperties
  <1> HIDE DEF ab
  <1>7. /\ ab \o c \in Seq(Digits) /\ Len(ab \o c) = n + 1 + m
        /\ \A i \in 1..n + 1 : (ab \o c)[i] = ab[i]
        /\ \A i \in 1..m : (ab \o c)[n + 1 + i] = c[i]
    <2>1. c \in Seq(Digits) /\ Len(c) = m
      BY <1>3 DEF m
    <2>2. ab \o c \in Seq(Digits) /\ Len(ab \o c) = Len(ab) + Len(c)
      BY <1>6, <2>1, ConcatProperties
    <2>3. \A i \in 1..Len(ab) + Len(c) :
            (ab \o c)[i] = IF i <= Len(ab) THEN ab[i] ELSE c[i - Len(ab)]
      BY <1>6, <2>1, ConcatProperties
    <2> QED
      BY <1>1, <1>m, <1>6, <2>1, <2>2, <2>3
  <1>8. LineBody(sent) = ab \o c
    BY DEF LineBody, ab, a, c, n
  <1>9. /\ LineBody(sent) \in Seq(Digits) /\ Len(LineBody(sent)) = n + 1 + m
        /\ \A i \in 1..n : LineBody(sent)[i] = a[i]
        /\ LineBody(sent)[n + 1] = sent.dlc
        /\ \A i \in 1..m : LineBody(sent)[n + 1 + i] = c[i]
    <2>1. \A i \in 1..n : i \in 1..n + 1
      BY <1>1
    <2>2. n + 1 \in 1..n + 1
      BY <1>1
    <2> QED
      BY <1>6, <1>7, <1>8, <2>1, <2>2, Zenon
  <1>10. LineLength(sent) = n + 1 + m
    BY DEF LineLength, n, m
  <1>11. n + 1 + m \in Nat
    BY <1>1, <1>m
  <1> QED
    BY <1>1, <1>3, <1>4, <1>9, <1>10, <1>11 DEF n, a, c, m

\* The length that parse_line expects behind the header.
LEMMA ExpectedLength ==
  ASSUME NEW sent \in Sent, sent.frame_type \in {"data", "remote"}
  PROVE  IdDigits(sent.id_format) + 1
           + (IF sent.frame_type = "data" THEN 2 * DataLength(sent.dlc) ELSE 0) = LineLength(sent)
  <1>1. CASE sent.frame_type = "data"
    <2>1. Len(sent.data) = DataLength(sent.dlc)
      BY <1>1, SentIs DEF FitsDlc
    <2> QED
      BY <1>1, <2>1 DEF LineLength
  <1>2. CASE sent.frame_type = "remote"
    <2>1. Len(sent.data) = 0
      BY <1>2, SentIs DEF FitsDlc
    <2>2. sent.frame_type # "data"
      BY <1>2
    <2> QED
      BY <2>1, <2>2 DEF LineLength
  <1> QED
    BY <1>1, <1>2

\* When parse_line takes these digits for a line of the DLC of the frame, and
\* what it makes of them.
TakenFor(frame, b) ==
  /\ Len(b) >= IdDigits(frame.id_format) + 1
  /\ AllDigits(SubSeq(b, 1, IdDigits(frame.id_format) + 1))
  /\ LengthFits(Len(b), LineLength(frame))
  /\ AllDigits(SubSeq(b, LineLength(frame) + 1, Len(b)))

\* The time of the device behind the line of a frame.
TimeIn(frame, b) ==
  LET rest == SubSeq(b, LineLength(frame) + 1, Len(b))
  IN  IF rest = <<>> THEN {} ELSE {HexValue(rest)}

MadeOf(frame, h, b, data) ==
  {[made EXCEPT !.bitrate_switch = frame.bitrate_switch, !.timestamp_device = TimeIn(frame, b),
                !.raw = {[header |-> h, body |-> b]}] :
     made \in NewRx(HexValue(SubSeq(b, 1, IdDigits(frame.id_format))), frame.id_format,
                    frame.frame_format, frame.frame_type, frame.dlc, data)}

\* A body that has the length code of a frame in its place is read with the
\* length of that frame: its data if it fits, or no frame.
LEMMA ParsedByDlc ==
  ASSUME NEW sent \in Sent, NEW h \in HeadersOf(sent), NEW b,
         b[IdDigits(sent.id_format) + 1] = sent.dlc
  PROVE  ParseLine([header |-> h, body |-> b]) =
           IF TakenFor(sent, b)
           THEN UNION {MadeOf(sent, h, b, data) :
                         data \in HexBytes(SubSeq(b, IdDigits(sent.id_format) + 2, LineLength(sent)))}
           ELSE {}
  <1> DEFINE line == [header |-> h, body |-> b]
             kind == Header[line.header]
             n    == IdDigits(kind.id_format)
             dlc  == line.body[n + 1]
             base == n + 1 + IF kind.frame_type = "data" THEN 2 * DataLength(dlc) ELSE 0
             rest == SubSeq(line.body, base + 1, Len(line.body))
             time == IF rest = <<>> THEN {} ELSE {HexValue(rest)}
             made(data) == {[frame EXCEPT !.bitrate_switch = kind.brs,
                                          !.timestamp_device = time, !.raw = {line}] :
                     frame \in NewRx(HexValue(SubSeq(line.body, 1, n)), kind.id_format,
                                     kind.frame_format, kind.frame_type, dlc, data)}
  <1>1. line.header = h /\ line.body = b
    OBVIOUS
  <1>2. /\ kind.id_format = sent.id_format /\ kind.frame_format = sent.frame_format
        /\ kind.frame_type = sent.frame_type /\ kind.brs = sent.bitrate_switch
        /\ h \in DOMAIN Header
        /\ sent.frame_type \in {"data", "remote"}
    BY <1>1, HeaderIs
  <1>3. ParseLine(line) =
          IF /\ Len(line.body) >= n + 1
             /\ AllDigits(SubSeq(line.body, 1, n + 1))
             /\ dlc <= MaxDlc(kind.frame_format)
             /\ LengthFits(Len(line.body), base)
             /\ AllDigits(rest)
          THEN UNION {made(data) : data \in HexBytes(SubSeq(line.body, n + 2, base))}
          ELSE {}
    <2>1. ParseLine(line) = ParseAs(kind, line)
      BY <1>1, <1>2, Zenon DEF ParseLine
    <2> QED
      BY <2>1, Zenon DEF ParseAs
  <1> HIDE DEF kind
  <1>4. n = IdDigits(sent.id_format)
    BY <1>2, Zenon
  <1>5. dlc = sent.dlc
    BY <1>1, <1>4
  <1>6. base = LineLength(sent)
    <2>1. base = IdDigits(sent.id_format) + 1
                 + (IF sent.frame_type = "data" THEN 2 * DataLength(sent.dlc) ELSE 0)
      BY <1>2, <1>4, <1>5, Zenon
    <2> QED
      BY <1>2, <2>1, ExpectedLength
  <1>t. time = TimeIn(sent, b)
    BY <1>1, <1>6, Zenon DEF TimeIn
  <1>7. \A data : made(data) = MadeOf(sent, h, b, data)
    <2> HIDE DEF time
    <2> QED
      BY <1>1, <1>2, <1>4, <1>5, <1>t, Zenon DEF MadeOf
  <1>8. dlc <= MaxDlc(kind.frame_format)
    BY <1>2, <1>5, SentIs
  <1> HIDE DEF line, n, dlc, base, time, made
  <1>9. TakenFor(sent, b) <=>
          /\ Len(line.body) >= n + 1
          /\ AllDigits(SubSeq(line.body, 1, n + 1))
          /\ dlc <= MaxDlc(kind.frame_format)
          /\ LengthFits(Len(line.body), base)
          /\ AllDigits(rest)
    BY <1>1, <1>4, <1>6, <1>8, Zenon DEF TakenFor
  <1>10. UNION {made(data) : data \in HexBytes(SubSeq(line.body, n + 2, base))} =
         UNION {MadeOf(sent, h, b, data) :
                  data \in HexBytes(SubSeq(b, IdDigits(sent.id_format) + 2, LineLength(sent)))}
    BY <1>1, <1>4, <1>6, <1>7
  <1> HIDE DEF rest
  <1> QED
    BY <1>3, <1>9, <1>10, Zenon DEF line

\* A line that ends before its DLC, or whose first digits are none.
LEMMA ParsedNoDlc ==
  ASSUME NEW sent \in Sent, NEW h \in HeadersOf(sent), NEW b,
         ~ (/\ Len(b) >= IdDigits(sent.id_format) + 1
            /\ AllDigits(SubSeq(b, 1, IdDigits(sent.id_format) + 1)))
  PROVE  ParseLine([header |-> h, body |-> b]) = {}
  <1>1. Header[h].id_format = sent.id_format
    BY HeaderIs
  <1>2. /\ [header |-> h, body |-> b].header = h
        /\ [header |-> h, body |-> b].body = b
    OBVIOUS
  <1> QED
    BY <1>1, <1>2, Zenon DEF ParseLine, ParseAs

\* A line of another length.
LEMMA ParsedOther ==
  ASSUME NEW sent \in Sent, NEW h \in HeadersOf(sent), NEW b,
         Len(b) >= IdDigits(sent.id_format) + 1 => b[IdDigits(sent.id_format) + 1] = sent.dlc,
         Len(b) \notin {LineLength(sent), LineLength(sent) + 4}
  PROVE  ParseLine([header |-> h, body |-> b]) = {}
  <1>1. CASE Len(b) >= IdDigits(sent.id_format) + 1
    BY <1>1, ParsedByDlc DEF TakenFor, LengthFits
  <1>2. CASE ~ (Len(b) >= IdDigits(sent.id_format) + 1)
    BY <1>2, ParsedNoDlc
  <1> QED
    BY <1>1, <1>2

\* A frame as it is read, with the time of the device and the line.
AsRead(frame, time, line) == [frame EXCEPT !.timestamp_device = time, !.raw = {line}]

\* The frame without its bitrate switch, set again.
LEMMA SwitchSet ==
  ASSUME NEW frame \in SentFrames, NEW time, NEW line
  PROVE  [[frame EXCEPT !.bitrate_switch = FALSE]
            EXCEPT !.bitrate_switch = frame.bitrate_switch, !.timestamp_device = time,
                   !.raw = {line}] = AsRead(frame, time, line)
  BY DEF SentFrames, AsRead

\* A whole line, with a timestamp or without.
LEMMA ParsedWhole ==
  ASSUME NEW sent \in Sent, NEW h \in HeadersOf(sent), NEW b \in Seq(Digits),
         Len(b) \in {LineLength(sent), LineLength(sent) + 4},
         \A i \in 1..LineLength(sent) : b[i] = LineBody(sent)[i]
  PROVE  ParseLine([header |-> h, body |-> b]) =
           {AsRead(sent, TimeIn(sent, b), [header |-> h, body |-> b])}
  <1> DEFINE n == IdDigits(sent.id_format)
             m == 2 * Len(sent.data)
             base == LineLength(sent)
             data == sent.data
  <1>1. /\ n \in Nat /\ n >= 3 /\ m \in Nat /\ base = n + 1 + m /\ base \in Nat
    BY BodyIs DEF LineLength
  <1>2. /\ \A i \in 1..n : LineBody(sent)[i] = HexDigits(sent.id, n)[i]
        /\ LineBody(sent)[n + 1] = sent.dlc
        /\ \A i \in 1..m : LineBody(sent)[n + 1 + i] = DataHex(sent.data)[i]
    BY BodyIs
  <1>3. /\ HexDigits(sent.id, n) \in Seq(Digits) /\ Len(HexDigits(sent.id, n)) = n
        /\ HexValue(HexDigits(sent.id, n)) = sent.id
    BY SentIs, IdBack DEF SentFrames
  <1>4. /\ DataHex(sent.data) \in Seq(Digits) /\ Len(DataHex(sent.data)) = m
        /\ HexBytes(DataHex(sent.data)) = {sent.data}
    BY SentIs, DataHexDigits, BytesBack DEF SentFrames
  <1> HIDE DEF n, m, base, data
  <1>5. Len(b) \in Nat /\ Len(b) >= base
    BY <1>1, LenProperties DEF base
  <1>6. b[n + 1] = sent.dlc
    <2>1. n + 1 \in 1..base
      BY <1>1
    <2> QED
      BY <1>2, <2>1 DEF base
  <1>7. \A p, q \in Nat : p >= 1 => SubSeq(b, p, q) = [i \in 1..(q - p) + 1 |-> b[(i + p) - 1]]
    OBVIOUS
  <1>8. SubSeq(b, 1, n) = HexDigits(sent.id, n)
    <2>1. SubSeq(b, 1, n) = [i \in 1..n |-> b[i]]
      BY <1>1, <1>5
    <2>2. \A i \in 1..n : i \in 1..base
      BY <1>1
    <2>3. \A i \in 1..n : b[i] = HexDigits(sent.id, n)[i]
      BY <1>2, <2>2 DEF base
    <2>4. HexDigits(sent.id, n) = [i \in 1..n |-> HexDigits(sent.id, n)[i]]
      BY <1>3, LenProperties
    <2> QED
      BY <2>1, <2>3, <2>4
  <1>9. SubSeq(b, n + 2, base) = DataHex(sent.data)
    <2>1. SubSeq(b, n + 2, base) = [i \in 1..m |-> b[n + 1 + i]]
      <3>1. (base - (n + 2)) + 1 = m /\ n + 2 \in Nat /\ n + 2 >= 1
        BY <1>1
      <3>2. \A i \in 1..m : (i + (n + 2)) - 1 = n + 1 + i
        BY <1>1
      <3>3. SubSeq(b, n + 2, base) = [i \in 1..m |-> b[(i + (n + 2)) - 1]]
        BY <1>1, <1>7, <3>1
      <3> QED
        BY <3>2, <3>3
    <2>2. \A i \in 1..m : n + 1 + i \in 1..base
      BY <1>1
    <2>3. \A i \in 1..m : b[n + 1 + i] = DataHex(sent.data)[i]
      BY <1>2, <2>2 DEF base
    <2>4. DataHex(sent.data) = [i \in 1..m |-> DataHex(sent.data)[i]]
      BY <1>4, LenProperties
    <2> QED
      BY <2>1, <2>3, <2>4
  <1>10. \A p, q \in Nat : p >= 1 /\ q <= Len(b) => AllDigits(SubSeq(b, p, q))
    <2> SUFFICES ASSUME NEW p \in Nat, NEW q \in Nat, p >= 1, q <= Len(b)
                 PROVE  AllDigits(SubSeq(b, p, q))
      OBVIOUS
    <2>1. SubSeq(b, p, q) = [i \in 1..(q - p) + 1 |-> b[(i + p) - 1]]
      BY <1>7
    <2>2. ASSUME NEW i \in 1..(q - p) + 1 PROVE b[(i + p) - 1] # NoDigit
      <3>1. (i + p) - 1 \in 1..Len(b)
        BY <1>5
      <3>2. b[(i + p) - 1] \in Digits
        BY <3>1, LenProperties
      <3> QED
        BY <3>2 DEF Digits, NoDigit
    <2> HIDE DEF AllDigits
    <2> QED
      BY <2>1, <2>2 DEF AllDigits, ToSet
  <1>11. TakenFor(sent, b)
    <2>1. Len(b) >= n + 1 /\ n + 1 \in Nat /\ n + 1 <= Len(b) /\ base + 1 >= 1 /\ base + 1 \in Nat
      BY <1>1, <1>5
    <2>2. AllDigits(SubSeq(b, 1, n + 1))
      BY <1>10, <2>1
    <2>3. AllDigits(SubSeq(b, base + 1, Len(b)))
      BY <1>5, <1>10, <2>1
    <2> QED
      BY <2>1, <2>2, <2>3 DEF TakenFor, LengthFits, n, base
  <1>12. MadeOf(sent, h, b, sent.data) = {AsRead(sent, TimeIn(sent, b), [header |-> h, body |-> b])}
    <2> DEFINE plain == [sent EXCEPT !.bitrate_switch = FALSE]
    <2>1. NewRx(sent.id, sent.id_format, sent.frame_format, sent.frame_type, sent.dlc, sent.data)
            = {plain}
      <3>1. plain \in NewRx(sent.id, sent.id_format, sent.frame_format, sent.frame_type, sent.dlc,
                            sent.data)
        BY SentAssumption
      <3> HIDE DEF plain
      <3> QED
        BY <3>1 DEF NewRx
    <2> DEFINE line == [header |-> h, body |-> b]
               time == TimeIn(sent, b)
    <2> HIDE DEF line, time
    <2>2. [plain EXCEPT !.bitrate_switch = sent.bitrate_switch, !.timestamp_device = time,
                        !.raw = {line}] = AsRead(sent, time, line)
      BY SentIs, SwitchSet, Zenon
    <2> HIDE DEF plain
    <2>3. MadeOf(sent, h, b, sent.data) =
            {[made EXCEPT !.bitrate_switch = sent.bitrate_switch, !.timestamp_device = time,
                          !.raw = {line}] : made \in {plain}}
      BY <1>3, <1>8, <2>1, Zenon DEF MadeOf, n, time, line
    <2> QED
      BY <2>2, <2>3 DEF line, time
  <1>13. ParseLine([header |-> h, body |-> b]) =
           UNION {MadeOf(sent, h, b, d) : d \in HexBytes(SubSeq(b, n + 2, base))}
    BY <1>6, <1>11, ParsedByDlc DEF n, base
  <1>14. HexBytes(SubSeq(b, n + 2, base)) = {sent.data}
    BY <1>4, <1>9
  <1> QED
    BY <1>12, <1>13, <1>14

\* A line of a frame: one of its headers and its body.
LEMMA LineIs ==
  ASSUME NEW sent, NEW line \in FrameToLine(sent)
  PROVE  line.header \in HeadersOf(sent)
         /\ line = [header |-> line.header, body |-> LineBody(sent)]
  BY DEF FrameToLine, LineBody

\* Digits with a timestamp behind them, one more, and those of a line of an
\* identifier that does not exist.
Stamped(w) == w \o <<0, 10, 9, 15>>
Longer(w) == Append(w, 5)
BigId(h, w) == [w EXCEPT ![1] = IF h \in {"t", "r", "d", "b"} THEN 8 ELSE 7]

\* The digits of a damaged line.
LEMMA DamagedIs ==
  ASSUME NEW h, NEW w, NEW line, line = [header |-> h, body |-> w]
  PROVE  /\ Damaged(line, "none") = [header |-> h, body |-> w]
         /\ Damaged(line, "timestamp") = [header |-> h, body |-> Stamped(w)]
         /\ Damaged(line, "cut") = [header |-> h, body |-> SubSeq(w, 1, Len(w) - 1)]
         /\ Damaged(line, "cut4") = [header |-> h, body |-> SubSeq(w, 1, Len(w) - 4)]
         /\ Damaged(line, "extra") = [header |-> h, body |-> Longer(w)]
         /\ Damaged(line, "noise") = [header |-> h, body |-> [w EXCEPT ![Len(w)] = NoDigit]]
         /\ Damaged(line, "bigId") =
              [header |-> h, body |-> BigId(h, w)]
  <1>1. line.header = h /\ line.body = w
    OBVIOUS
  <1>2. Damaged(line, "none") = [header |-> h, body |-> w]
    BY DEF Damaged
  <1>3. Damaged(line, "timestamp") = [header |-> h, body |-> Stamped(w)]
    <2>1. Damaged(line, "timestamp") = [line EXCEPT !.body = line.body \o <<0, 10, 9, 15>>]
      BY DEF Damaged
    <2> QED
      BY <1>1, <2>1 DEF Stamped
  <1>4. Damaged(line, "cut") = [header |-> h, body |-> SubSeq(w, 1, Len(w) - 1)]
    <2>1. Damaged(line, "cut") = [line EXCEPT !.body = SubSeq(line.body, 1, Len(line.body) - 1)]
      BY DEF Damaged
    <2> QED
      BY <1>1, <2>1
  <1>5. Damaged(line, "cut4") = [header |-> h, body |-> SubSeq(w, 1, Len(w) - 4)]
    <2>1. Damaged(line, "cut4") = [line EXCEPT !.body = SubSeq(line.body, 1, Len(line.body) - 4)]
      BY DEF Damaged
    <2> QED
      BY <1>1, <2>1
  <1>6. Damaged(line, "extra") = [header |-> h, body |-> Longer(w)]
    <2>1. Damaged(line, "extra") = [line EXCEPT !.body = Append(line.body, 5)]
      BY DEF Damaged
    <2> QED
      BY <1>1, <2>1 DEF Longer
  <1>7. Damaged(line, "noise") = [header |-> h, body |-> [w EXCEPT ![Len(w)] = NoDigit]]
    <2>1. Damaged(line, "noise") = [line EXCEPT !.body = [line.body EXCEPT ![Len(line.body)] = NoDigit]]
      BY DEF Damaged
    <2> QED
      BY <1>1, <2>1
  <1>8. Damaged(line, "bigId") = [header |-> h, body |-> BigId(h, w)]
    <2>1. Damaged(line, "bigId") = [line EXCEPT !.body = BigId(line.header, line.body)]
      BY DEF Damaged, BigId
    <2> QED
      BY <1>1, <2>1
  <1> QED
    BY <1>2, <1>3, <1>4, <1>5, <1>6, <1>7, <1>8

\* 0A9F.
TimeStamp == 2719

\* The digits of a timestamp are its value.
LEMMA StampValue ==
  /\ <<0, 10, 9, 15>> \in Seq(Digits) /\ Len(<<0, 10, 9, 15>>) = 4
  /\ HexValue(<<0, 10, 9, 15>>) = TimeStamp
  <1> DEFINE d == <<0, 10, 9, 15>>
  <1>1. /\ d \in Seq(Digits) /\ Len(d) = 4
        /\ d[1] = 0 /\ d[2] = 10 /\ d[3] = 9 /\ d[4] = 15
    <2>1. 0 \in Digits /\ 10 \in Digits /\ 9 \in Digits /\ 15 \in Digits
      BY DEF Digits
    <2> QED
      BY <2>1
  <1> HIDE DEF d
  <1>2. PICK f \in [0..4 -> Nat] : /\ HexValue(d) = f[4] /\ f[0] = 0
                                   /\ \A k \in 1..4 : f[k] = 16 * f[k - 1] + d[k]
    BY <1>1, HexSteps
  <1>3. /\ f[1] = 16 * f[1 - 1] + d[1] /\ f[2] = 16 * f[2 - 1] + d[2]
        /\ f[3] = 16 * f[3 - 1] + d[3] /\ f[4] = 16 * f[4 - 1] + d[4]
    BY <1>2
  <1>4. f[1] = 0 /\ f[2] = 10 /\ f[3] = 169 /\ f[4] = 2719
    <2>1. f[1] = 0
      BY <1>1, <1>2, <1>3
    <2>2. f[2] = 10
      BY <1>1, <1>3, <2>1
    <2>3. f[3] = 169
      BY <1>1, <1>3, <2>2
    <2> QED
      BY <1>1, <1>3, <2>1, <2>2, <2>3
  <1> QED
    BY <1>1, <1>2, <1>4 DEF d, TimeStamp

\* The time of the device that a line carries.
TimeOf(damage) == IF damage = "timestamp" THEN {TimeStamp} ELSE {}

\* What is read of a line that arrives whole.
ReadOf(sent, damage, line) ==
  IF damage \in {"none", "timestamp"} THEN {AsRead(sent, TimeOf(damage), line)} ELSE {}

\* A line that arrives whole.
LEMMA ReadWhole ==
  ASSUME NEW sent \in Sent, NEW h \in HeadersOf(sent)
  PROVE  /\ ParseLine([header |-> h, body |-> LineBody(sent)]) =
              {AsRead(sent, {}, [header |-> h, body |-> LineBody(sent)])}
         /\ ParseLine([header |-> h, body |-> Stamped(LineBody(sent))]) =
              {AsRead(sent, {TimeStamp}, [header |-> h, body |-> Stamped(LineBody(sent))])}
         /\ LineBody(sent) \in Seq(Digits)
         /\ Stamped(LineBody(sent)) \in Seq(Digits)
  <1> DEFINE w == LineBody(sent)
             stamp == <<0, 10, 9, 15>>
  <1>1. w \in Seq(Digits) /\ Len(w) = LineLength(sent) /\ LineLength(sent) \in Nat
    BY BodyIs
  <1>2. stamp \in Seq(Digits) /\ Len(stamp) = 4
    BY StampValue
  <1>v. HexValue(stamp) = TimeStamp
    BY StampValue
  <1> HIDE DEF w, stamp
  <1>3. w \o stamp \in Seq(Digits) /\ Len(w \o stamp) = LineLength(sent) + 4
    <2>1. w \o stamp \in Seq(Digits) /\ Len(w \o stamp) = Len(w) + Len(stamp)
      BY <1>1, <1>2, ConcatProperties
    <2> QED
      BY <1>1, <1>2, <2>1
  <1>4. \A i \in 1..LineLength(sent) : (w \o stamp)[i] = w[i]
    BY <1>1, <1>2, ConcatProperties
  <1>5. TimeIn(sent, w) = {}
    <2>1. SubSeq(w, LineLength(sent) + 1, Len(w)) = <<>>
      BY <1>1
    <2> QED
      BY <2>1 DEF TimeIn
  <1>6. TimeIn(sent, w \o stamp) = {TimeStamp}
    <2> DEFINE l == LineLength(sent)
    <2>0. l \in Nat /\ Len(w) = l /\ Len(w \o stamp) = l + 4
      BY <1>1, <1>3
    <2> HIDE DEF l
    <2>1. \A i \in 1..4 : (w \o stamp)[i + l] = stamp[i]
      <3>1. \A i \in 1..Len(w) + Len(stamp) :
              (w \o stamp)[i] = IF i <= Len(w) THEN w[i] ELSE stamp[i - Len(w)]
        BY <1>1, <1>2, ConcatProperties
      <3>2. \A i \in 1..4 : /\ i + l \in 1..Len(w) + Len(stamp) /\ ~ (i + l <= Len(w))
                            /\ (i + l) - Len(w) = i
        BY <1>2, <2>0
      <3> QED
        BY <3>1, <3>2
    <2>2. SubSeq(w \o stamp, l + 1, l + 4) = [i \in 1..4 |-> (w \o stamp)[i + l]]
      <3>1. \A s : \A p, q \in Nat : SubSeq(s, p, q) = [i \in 1..(q - p) + 1 |-> s[(i + p) - 1]]
        OBVIOUS
      <3>2. l + 1 \in Nat /\ l + 4 \in Nat /\ ((l + 4) - (l + 1)) + 1 = 4
        BY <2>0
      <3>3. \A i \in 1..4 : (i + (l + 1)) - 1 = i + l
        BY <2>0
      <3> DEFINE s == w \o stamp
                 p == l + 1
                 q == l + 4
      <3> HIDE DEF s, p, q
      <3>4. SubSeq(s, p, q) = [i \in 1..(q - p) + 1 |-> s[(i + p) - 1]]
        BY <3>1, <3>2 DEF p, q
      <3>5. (q - p) + 1 = 4
        BY <3>2 DEF p, q
      <3>6. \A i \in 1..4 : (i + p) - 1 = i + l
        BY <3>3 DEF p
      <3>7. SubSeq(s, p, q) = [i \in 1..4 |-> s[i + l]]
        BY <3>4, <3>5, <3>6
      <3> QED
        BY <3>7 DEF s, p, q
    <2>3. stamp = [i \in 1..4 |-> stamp[i]]
      BY <1>2, LenProperties
    <2>4. SubSeq(w \o stamp, l + 1, l + 4) = stamp
      BY <2>1, <2>2, <2>3
    <2>5. stamp # <<>>
      BY <1>2
    <2>6. SubSeq(w \o stamp, LineLength(sent) + 1, Len(w \o stamp)) = stamp
      BY <1>3, <2>4 DEF l
    <2> DEFINE rest == SubSeq(w \o stamp, LineLength(sent) + 1, Len(w \o stamp))
    <2>7. TimeIn(sent, w \o stamp) = IF rest = <<>> THEN {} ELSE {HexValue(rest)}
      BY DEF TimeIn
    <2>8. rest = stamp
      BY <2>6
    <2> HIDE DEF rest
    <2>9. TimeIn(sent, w \o stamp) = {HexValue(rest)}
      BY <2>5, <2>7, <2>8
    <2>10. HexValue(rest) = HexValue(stamp)
      BY <2>8
    <2> HIDE DEF HexValue
    <2> QED
      BY <1>v, <2>9, <2>10
  <1>7. ParseLine([header |-> h, body |-> w]) = {AsRead(sent, {}, [header |-> h, body |-> w])}
    BY <1>1, <1>5, ParsedWhole DEF w
  <1>8. ParseLine([header |-> h, body |-> w \o stamp]) =
          {AsRead(sent, {TimeStamp}, [header |-> h, body |-> w \o stamp])}
    BY <1>3, <1>4, <1>6, ParsedWhole DEF w
  <1> QED
    BY <1>1, <1>3, <1>7, <1>8, Zenon DEF w, stamp, Stamped

\* A line of which digits were lost or one was added.
LEMMA ReadOfOtherLength ==
  ASSUME NEW sent \in Sent, NEW h \in HeadersOf(sent)
  PROVE  /\ ParseLine([header |-> h, body |-> SubSeq(LineBody(sent), 1, Len(LineBody(sent)) - 1)]) = {}
         /\ ParseLine([header |-> h, body |-> SubSeq(LineBody(sent), 1, Len(LineBody(sent)) - 4)]) = {}
         /\ ParseLine([header |-> h, body |-> Append(LineBody(sent), 5)]) = {}
  <1> DEFINE w == LineBody(sent)
             l == LineLength(sent)
             n == IdDigits(sent.id_format)
  <1>1. /\ w \in Seq(Digits) /\ Len(w) = l /\ l \in Nat /\ l >= n + 1 /\ n \in Nat /\ n >= 3
        /\ w[n + 1] = sent.dlc
    BY BodyIs DEF LineLength
  <1> HIDE DEF w, l, n
  <1>2. ASSUME NEW k \in {1, 4} PROVE ParseLine([header |-> h, body |-> SubSeq(w, 1, l - k)]) = {}
    <2> DEFINE b == SubSeq(w, 1, l - k)
    <2>1. l - k \in Nat /\ l - k <= l
      BY <1>1
    <2>2. b = [i \in 1..l - k |-> w[i]]
      BY <1>1, <2>1
    <2>3. Len(b) = l - k
      BY <2>1, <2>2
    <2> HIDE DEF b
    <2>4. Len(b) >= n + 1 => b[n + 1] = sent.dlc
      BY <1>1, <2>1, <2>2, <2>3
    <2>5. Len(b) \notin {l, l + 4}
      BY <1>1, <2>3
    <2> QED
      BY <2>4, <2>5, ParsedOther DEF b, l, n
  <1>3. ParseLine([header |-> h, body |-> Append(w, 5)]) = {}
    <2> DEFINE b == Append(w, 5)
    <2>1. 5 \in Digits
      BY DEF Digits
    <2>2. Len(b) = l + 1 /\ \A i \in 1..l : b[i] = w[i]
      BY <1>1, <2>1, AppendProperties
    <2> HIDE DEF b
    <2>3. b[n + 1] = sent.dlc
      BY <1>1, <2>2
    <2>4. Len(b) \notin {l, l + 4}
      BY <1>1, <2>2
    <2> QED
      BY <2>3, <2>4, ParsedOther DEF b, l, n
  <1>4. ParseLine([header |-> h, body |-> SubSeq(w, 1, l - 1)]) = {}
    BY <1>2
  <1>5. ParseLine([header |-> h, body |-> SubSeq(w, 1, l - 4)]) = {}
    BY <1>2
  <1> QED
    BY <1>1, <1>3, <1>4, <1>5 DEF w

\* A line whose last character is no digit.
LEMMA ReadNoise ==
  ASSUME NEW sent \in Sent, NEW h \in HeadersOf(sent)
  PROVE  ParseLine([header |-> h, body |-> [LineBody(sent) EXCEPT ![Len(LineBody(sent))] = NoDigit]]) = {}
  <1> DEFINE w == LineBody(sent)
             l == LineLength(sent)
             n == IdDigits(sent.id_format)
             m == 2 * Len(sent.data)
             b == [w EXCEPT ![l] = NoDigit]
  <1>1. /\ w \in Seq(Digits) /\ Len(w) = l /\ l \in Nat /\ l = n + 1 + m
        /\ n \in Nat /\ n >= 3 /\ m \in Nat
        /\ w[n + 1] = sent.dlc
    BY BodyIs DEF LineLength
  <1> DEFINE T == Digits \cup {NoDigit}
  <1>2. /\ b \in Seq(T) /\ Len(b) = l /\ b[l] = NoDigit
        /\ \A i \in 1..l - 1 : b[i] = w[i]
    <2> HIDE DEF w, l, n, m, T
    <2>1. DOMAIN w = 1..l /\ \A i \in 1..l : w[i] \in Digits
      BY <1>1, LenProperties
    <2>2. DOMAIN b = 1..l /\ b[l] = NoDigit /\ \A i \in 1..l - 1 : b[i] = w[i]
      BY <1>1, <2>1
    <2>3. \A i \in 1..l : b[i] \in T
      BY <1>1, <2>1, <2>2 DEF T
    <2>4. b \in [1..l -> T]
      BY <2>2, <2>3
    <2> HIDE DEF b
    <2> QED
      BY <1>1, <2>2, <2>4, FunctionIsSeq
  <1> HIDE DEF w, l, n, m, b, T
  <1>3. CASE m = 0
    <2>1. n + 1 = l
      BY <1>1, <1>3
    <2>2. ~ AllDigits(SubSeq(b, 1, n + 1))
      <3>1. 1 \in 1..Len(b) + 1 /\ n + 1 \in 1 - 1..Len(b) /\ l \in 1..n + 1
        BY <1>1, <1>2, <2>1
      <3>2. AllDigits(SubSeq(b, 1, n + 1)) <=> \A i \in 1..n + 1 : b[i] # NoDigit
        BY <1>2, <3>1, PartDigits
      <3> QED
        BY <1>2, <3>1, <3>2
    <2> QED
      BY <1>1, <1>2, <2>2, ParsedNoDlc DEF b, w, l, n
  <1>4. CASE m # 0
    <2>1. n + 1 \in 1..l - 1 /\ n + 2 \in 1..l /\ l \in n + 2..l
      BY <1>1, <1>4
    <2>2. b[n + 1] = sent.dlc
      BY <1>1, <1>2, <2>1
    <2>3. ~ AllDigits(SubSeq(b, n + 2, l))
      <3>1. n + 2 \in 1..Len(b) + 1 /\ l \in (n + 2) - 1..Len(b)
        BY <1>1, <1>2, <2>1
      <3>2. AllDigits(SubSeq(b, n + 2, l)) <=> \A i \in n + 2..l : b[i] # NoDigit
        BY <1>2, <3>1, PartDigits
      <3> QED
        BY <1>2, <2>1, <3>2
    <2>4. HexBytes(SubSeq(b, n + 2, l)) = {}
      BY <2>3 DEF HexBytes
    <2>5. ParseLine([header |-> h, body |-> b]) =
           IF TakenFor(sent, b) THEN UNION {MadeOf(sent, h, b, data) : data \in HexBytes(SubSeq(b, n + 2, l))}
           ELSE {}
      BY <2>2, ParsedByDlc DEF n, l
    <2>6. ParseLine([header |-> h, body |-> b]) = {}
      BY <2>4, <2>5
    <2> QED
      BY <1>1, <2>6 DEF b, w, l
  <1> QED
    BY <1>3, <1>4

\* A line of an identifier that does not exist.
LEMMA ReadBigId ==
  ASSUME NEW sent \in Sent, NEW h \in HeadersOf(sent)
  PROVE  ParseLine([header |-> h,
                    body |-> [LineBody(sent) EXCEPT ![1] = IF h \in {"t", "r", "d", "b"} THEN 8 ELSE 7]]) = {}
  <1> DEFINE w == LineBody(sent)
             l == LineLength(sent)
             n == IdDigits(sent.id_format)
             first == IF sent.id_format = "standard" THEN 8 ELSE 7
             b == [w EXCEPT ![1] = first]
  <1>1. /\ w \in Seq(Digits) /\ Len(w) = l /\ l \in Nat /\ l >= n + 1
        /\ n \in Nat /\ n >= 3
        /\ w[n + 1] = sent.dlc
    BY BodyIs DEF LineLength
  <1>2. first \in Digits
    BY DEF Digits
  <1>3. (IF h \in {"t", "r", "d", "b"} THEN 8 ELSE 7) = first
    BY HeaderIs
  <1>4. sent.id_format \in IdFormats
    BY SentIs DEF SentFrames
  <1> DEFINE d == SubSeq(b, 1, n)
  <1>5. /\ b \in [1..l -> Digits] /\ b[1] = first /\ b[n + 1] = sent.dlc
    <2> HIDE DEF w, l, n, first
    <2>1. DOMAIN w = 1..l /\ \A i \in 1..l : w[i] \in Digits
      BY <1>1, LenProperties
    <2>2. DOMAIN b = 1..l /\ b[1] = first /\ \A i \in 2..l : b[i] = w[i]
      BY <1>1, <2>1
    <2>3. \A i \in 1..l : b[i] \in Digits
      BY <1>1, <1>2, <2>1, <2>2
    <2>4. n + 1 \in 2..l
      BY <1>1
    <2> QED
      BY <1>1, <2>2, <2>3, <2>4
  <1> HIDE DEF w, l, n, first, b
  <1>6. b \in Seq(Digits) /\ Len(b) = l
    BY <1>1, <1>5, FunctionIsSeq
  <1>7. d \in Seq(Digits) /\ Len(d) = n /\ d[1] = first
    <2>1. d = [i \in 1..n |-> b[i]]
      BY <1>1, <1>6
    <2>2. \A i \in 1..n : i \in 1..l
      BY <1>1
    <2>3. d \in [1..n -> Digits]
      BY <1>5, <2>1, <2>2
    <2>4. d[1] = first
      BY <1>1, <1>5, <2>1
    <2> HIDE DEF d
    <2> QED
      BY <1>1, <2>3, <2>4, FunctionIsSeq
  <1> HIDE DEF d
  <1>8. ~ (HexValue(d) <= MaxId(sent.id_format))
    BY <1>4, <1>7, BigFirst DEF n, first
  <1>9. \A data : MadeOf(sent, h, b, data) = {}
    BY <1>8 DEF MadeOf, NewRx, d, n
  <1>10. ParseLine([header |-> h, body |-> b]) =
           IF TakenFor(sent, b)
           THEN UNION {MadeOf(sent, h, b, data) : data \in HexBytes(SubSeq(b, n + 2, l))}
           ELSE {}
    BY <1>5, ParsedByDlc DEF n, l
  <1>11. ParseLine([header |-> h, body |-> b]) = {}
    BY <1>9, <1>10
  <1> QED
    BY <1>3, <1>11 DEF b, w

\* Lines of which nothing is damaged.
WholeLines == [header : DOMAIN Header, body : Seq(Digits)]

\* What the adapter reads of a line of a frame.
LEMMA ReadOfLine ==
  ASSUME NEW sent \in Sent, NEW damage \in Damages, NEW line \in FrameToLine(sent)
  PROVE  /\ ParseLine(Damaged(line, damage)) = ReadOf(sent, damage, Damaged(line, damage))
         /\ damage \in {"none", "timestamp"} => Damaged(line, damage) \in WholeLines
  <1> DEFINE h == line.header
             w == LineBody(sent)
  <1>1. h \in HeadersOf(sent) /\ line = [header |-> h, body |-> w]
    BY LineIs
  <1> HIDE DEF h, w
  <1> DEFINE whole(d) == Damaged(line, d) \in WholeLines
  <1>2. /\ ParseLine(Damaged(line, "none")) = {AsRead(sent, {}, Damaged(line, "none"))}
        /\ ParseLine(Damaged(line, "timestamp")) = {AsRead(sent, {TimeStamp}, Damaged(line, "timestamp"))}
        /\ whole("none") /\ whole("timestamp")
    <2>1. /\ Damaged(line, "none") = [header |-> h, body |-> w]
          /\ Damaged(line, "timestamp") = [header |-> h, body |-> Stamped(w)]
      BY <1>1, DamagedIs, Zenon
    <2>2. /\ ParseLine([header |-> h, body |-> w]) = {AsRead(sent, {}, [header |-> h, body |-> w])}
          /\ ParseLine([header |-> h, body |-> Stamped(w)]) =
               {AsRead(sent, {TimeStamp}, [header |-> h, body |-> Stamped(w)])}
          /\ w \in Seq(Digits) /\ Stamped(w) \in Seq(Digits)
      <3>1. ParseLine([header |-> h, body |-> w]) = {AsRead(sent, {}, [header |-> h, body |-> w])}
        BY <1>1, ReadWhole, Zenon DEF w
      <3>2. ParseLine([header |-> h, body |-> Stamped(w)]) =
              {AsRead(sent, {TimeStamp}, [header |-> h, body |-> Stamped(w)])}
        BY <1>1, ReadWhole, Zenon DEF w
      <3>3. w \in Seq(Digits) /\ Stamped(w) \in Seq(Digits)
        BY <1>1, ReadWhole, Zenon DEF w
      <3> QED
        BY <3>1, <3>2, <3>3
    <2>3. h \in DOMAIN Header
      BY <1>1, HeaderIs
    <2>4. whole("none") /\ whole("timestamp")
      BY <2>1, <2>2, <2>3 DEF WholeLines
    <2>5. ParseLine(Damaged(line, "none")) = {AsRead(sent, {}, Damaged(line, "none"))}
      BY <2>1, <2>2
    <2>6. ParseLine(Damaged(line, "timestamp")) = {AsRead(sent, {TimeStamp}, Damaged(line, "timestamp"))}
      BY <2>1, <2>2
    <2> HIDE DEF whole
    <2> QED
      BY <2>4, <2>5, <2>6
  <1> HIDE DEF whole
  <1>3. /\ ParseLine(Damaged(line, "cut")) = {}
        /\ ParseLine(Damaged(line, "cut4")) = {}
        /\ ParseLine(Damaged(line, "extra")) = {}
    <2>1. /\ Damaged(line, "cut") = [header |-> h, body |-> SubSeq(w, 1, Len(w) - 1)]
          /\ Damaged(line, "cut4") = [header |-> h, body |-> SubSeq(w, 1, Len(w) - 4)]
          /\ Damaged(line, "extra") = [header |-> h, body |-> Longer(w)]
      BY <1>1, DamagedIs, Zenon
    <2>2. /\ ParseLine([header |-> h, body |-> SubSeq(w, 1, Len(w) - 1)]) = {}
          /\ ParseLine([header |-> h, body |-> SubSeq(w, 1, Len(w) - 4)]) = {}
          /\ ParseLine([header |-> h, body |-> Longer(w)]) = {}
      BY <1>1, ReadOfOtherLength, Zenon DEF w, Longer
    <2> QED
      BY <2>1, <2>2, Zenon
  <1>4. ParseLine(Damaged(line, "noise")) = {}
    <2>1. Damaged(line, "noise") = [header |-> h, body |-> [w EXCEPT ![Len(w)] = NoDigit]]
      BY <1>1, DamagedIs, Zenon
    <2>2. ParseLine([header |-> h, body |-> [w EXCEPT ![Len(w)] = NoDigit]]) = {}
      BY <1>1, ReadNoise, Zenon DEF w
    <2> QED
      BY <2>1, <2>2, Zenon
  <1>5. ParseLine(Damaged(line, "bigId")) = {}
    <2>1. Damaged(line, "bigId") =
            [header |-> h, body |-> BigId(h, w)]
      BY <1>1, DamagedIs, Zenon
    <2>2. ParseLine([header |-> h, body |-> BigId(h, w)]) = {}
      BY <1>1, ReadBigId, Zenon DEF w, BigId
    <2> QED
      BY <2>1, <2>2, Zenon
  <1> DEFINE Read(d) == ParseLine(Damaged(line, d))
             Expected(d) == ReadOf(sent, d, Damaged(line, d))
  <1>6. /\ Expected("none") = {AsRead(sent, {}, Damaged(line, "none"))}
        /\ Expected("timestamp") = {AsRead(sent, {TimeStamp}, Damaged(line, "timestamp"))}
        /\ Expected("cut") = {} /\ Expected("cut4") = {} /\ Expected("extra") = {}
        /\ Expected("noise") = {} /\ Expected("bigId") = {}
    BY DEF ReadOf, TimeOf
  <1>7. /\ Read("none") = Expected("none") /\ Read("timestamp") = Expected("timestamp")
        /\ Read("cut") = Expected("cut") /\ Read("cut4") = Expected("cut4")
        /\ Read("extra") = Expected("extra") /\ Read("noise") = Expected("noise")
        /\ Read("bigId") = Expected("bigId")
    <2> HIDE DEF Expected
    <2> QED
      BY <1>2, <1>3, <1>4, <1>5, <1>6
  <1> HIDE DEF Read, Expected
  <1>8. Read(damage) = Expected(damage)
    BY <1>7 DEF Damages
  <1>9. damage \in {"none", "timestamp"} => whole(damage)
    BY <1>2
  <1> QED
    BY <1>8, <1>9, Zenon DEF Read, Expected, whole

\* The length of a frame gives back its DLC.
LEMMA LengthsBack ==
  ASSUME NEW sent \in Sent
  PROVE  DlcFromDataLength(sent.frame_format, sent.data_length) = {sent.dlc}
  <1>1. sent.dlc \in Nat /\ sent.dlc <= MaxDlc(sent.frame_format) /\ sent.data_length = DataLength(sent.dlc)
    BY SentIs DEF SentFrames
  <1>2. \A c, d \in 0..15 : DataLength(c) = DataLength(d) => c = d
    <2>1. \A c \in 0..15 : c \in 0..8 \/ c = 9 \/ c = 10 \/ c = 11 \/ c = 12 \/ c = 13 \/ c = 14 \/ c = 15
      OBVIOUS
    <2>2. \A c \in 0..8 : DataLength(c) = c
      BY DEF DataLength
    <2>3. /\ DataLength(9) = 12 /\ DataLength(10) = 16 /\ DataLength(11) = 20 /\ DataLength(12) = 24
          /\ DataLength(13) = 32 /\ DataLength(14) = 48 /\ DataLength(15) = 64
      BY DEF DataLength, LongLengths
    <2> QED
      BY <2>1, <2>2, <2>3
  <1>3. MaxDlc(sent.frame_format) \in 8..15
    BY DEF MaxDlc
  <1>4. \A d \in 0..MaxDlc(sent.frame_format) : d \in 0..15
    BY <1>3
  <1>5. sent.dlc \in 0..MaxDlc(sent.frame_format)
    BY <1>1, <1>3
  <1> QED
    BY <1>1, <1>2, <1>4, <1>5 DEF DlcFromDataLength

-----------------------------------------------------------------------------
(* The invariant *)

DeviceTimes == {{}, {TimeStamp}}

\* Frames as the adapter hands them on.
CanFrames ==
  {Received(AsRead(sent, time, line), bus, host) :
     sent \in Sent, time \in DeviceTimes, line \in WholeLines, bus \in BusNames, host \in Times}

\* A frame that was read is one of these when it has been received.
LEMMA HandedOn ==
  ASSUME NEW sent \in Sent, NEW time \in DeviceTimes, NEW line \in WholeLines,
         NEW bus \in BusNames, NEW host \in Times
  PROVE  Received(AsRead(sent, time, line), bus, host) \in CanFrames
  BY DEF CanFrames

\* The last line, if there is one, was read as it should be.
ReadingInv ==
  \/ reading = NoLine
  \/ \E sent \in Sent, damage \in Damages : \E line \in FrameToLine(sent) :
       reading = [sent |-> {sent}, damage |-> damage, line |-> {Damaged(line, damage)},
                  read |-> ReadOf(sent, damage, Damaged(line, damage))]

PipelineInv == frames \in Seq(CanFrames) /\ ReadingInv

\* Nothing has been received at first.
LEMMA PipelineInvInit == PipelineInit => PipelineInv
  BY EmptySeq DEF PipelineInit, PipelineInv, ReadingInv

\* What is received is the frame that was sent, or none if the line is damaged.
LEMMA PipelineInvStep ==
  PipelineInv /\ [PipelineNext]_pipelineVars => PipelineInv'
  <1> SUFFICES ASSUME PipelineInv, [PipelineNext]_pipelineVars PROVE PipelineInv'
    OBVIOUS
  <1> USE DEF PipelineInv
  <1>1. ASSUME NEW sent \in Sent, NEW damage \in Damages, NEW bus \in BusNames, NEW time \in Times,
               ReceiveLine(sent, damage, bus, time)
        PROVE  PipelineInv'
    <2>1. PICK line \in FrameToLine(sent) :
            /\ reading' = [sent |-> {sent}, damage |-> damage, line |-> {Damaged(line, damage)},
                           read |-> ParseLine(Damaged(line, damage))]
            /\ \/ ParseLine(Damaged(line, damage)) = {} /\ UNCHANGED frames
               \/ \E frame \in ParseLine(Damaged(line, damage)) :
                    frames' = Append(frames, Received(frame, bus, time))
      BY <1>1, Zenon DEF ReceiveLine
    <2>2. /\ ParseLine(Damaged(line, damage)) = ReadOf(sent, damage, Damaged(line, damage))
          /\ damage \in {"none", "timestamp"} => Damaged(line, damage) \in WholeLines
      BY ReadOfLine
    <2>3. ReadingInv'
      BY <2>1, <2>2, Zenon DEF ReadingInv
    <2>4. frames' \in Seq(CanFrames)
      <3>1. CASE UNCHANGED frames
        BY <3>1
      <3>2. CASE \E frame \in ParseLine(Damaged(line, damage)) :
                   frames' = Append(frames, Received(frame, bus, time))
        <4> DEFINE f == Received(AsRead(sent, TimeOf(damage), Damaged(line, damage)), bus, time)
        <4>1. frames' = Append(frames, f) /\ damage \in {"none", "timestamp"}
          BY <2>2, <3>2 DEF ReadOf
        <4>2. f \in CanFrames
          <5>1. TimeOf(damage) \in DeviceTimes
            BY DEF TimeOf, DeviceTimes
          <5>2. Damaged(line, damage) \in WholeLines
            BY <2>2, <4>1
          <5> QED
            BY <5>1, <5>2, HandedOn, Zenon
        <4> HIDE DEF f
        <4> QED
          BY <4>1, <4>2, AppendProperties
      <3> QED
        BY <2>1, <3>1, <3>2
    <2> QED
      BY <2>3, <2>4
  <1>2. ASSUME NEW chosen, NEW seen, NEW text, RunCapture(chosen, seen, text) PROVE PipelineInv'
    BY <1>2, Zenon DEF RunCapture, ReadingInv
  <1>3. ASSUME NEW chosen, NEW seen, RunStandalone(chosen, seen) \/ RunClient(chosen, seen)
        PROVE  PipelineInv'
    BY <1>2, <1>3, Zenon DEF RunStandalone, RunClient
  <1>4. ASSUME UNCHANGED <<reading, frames>> PROVE PipelineInv'
    BY <1>4 DEF ReadingInv
  <1>5. ASSUME NEW chosen, RunParse(chosen) PROVE PipelineInv'
    BY <1>4, <1>5 DEF RunParse
  <1>6. ASSUME NEW chosen, RunPlot(chosen) PROVE PipelineInv'
    BY <1>4, <1>6 DEF RunPlot
  <1>7. CASE UNCHANGED pipelineVars
    BY <1>4, <1>7 DEF pipelineVars
  <1> QED
    BY <1>1, <1>3, <1>5, <1>6, <1>7 DEF PipelineNext

\* What the pipeline always keeps.
LEMMA PipelineInvariant == PipelineSpec => []PipelineInv
  BY PipelineInvInit, PipelineInvStep, PTL DEF PipelineSpec

\* A line of any frame of the device that arrives whole is read as that frame,
\* a damaged one is no frame, and the length of a frame gives back its DLC:
\* weact::parse_line, frame_to_line and dlc_from_data_length.
THEOREM LinesAreRead == PipelineSpec => []LinesReadBack
  <1>1. PipelineInv => LinesReadBack
    <2> SUFFICES ASSUME PipelineInv PROVE LinesReadBack
      OBVIOUS
    <2>1. CASE reading = NoLine
      BY <2>1 DEF NoLine, LinesReadBack
    <2>2. ASSUME NEW sent \in Sent, NEW damage \in Damages, NEW line,
                 reading = [sent |-> {sent}, damage |-> damage, line |-> {line},
                            read |-> ReadOf(sent, damage, line)]
          PROVE  LinesReadBack
      <3> DEFINE frame == AsRead(sent, TimeOf(damage), line)
      <3>1. /\ reading.sent = {sent} /\ reading.damage = damage /\ reading.line = {line}
            /\ reading.read = ReadOf(sent, damage, line)
        BY <2>2
      <3>2. /\ frame.frame_format = sent.frame_format /\ frame.data_length = sent.data_length
            /\ frame.dlc = sent.dlc
        BY SentIs DEF AsRead, SentFrames
      <3>3. DlcFromDataLength(frame.frame_format, frame.data_length) = {frame.dlc}
        BY <3>2, LengthsBack
      <3>4. reading.read = IF reading.damage \in {"none", "timestamp"} THEN {frame} ELSE {}
        BY <3>1, Zenon DEF ReadOf
      <3>5. {[s EXCEPT !.timestamp_device = IF reading.damage = "timestamp" THEN {2719} ELSE {},
                       !.raw = reading.line] : s \in reading.sent} = {frame}
        BY <3>1 DEF AsRead, TimeOf, TimeStamp
      <3> HIDE DEF frame
      <3> QED
        BY <3>3, <3>4, <3>5 DEF LinesReadBack
    <2> QED
      BY <2>1, <2>2 DEF PipelineInv, ReadingInv
  <1> QED
    BY <1>1, PipelineInvariant, PTL

-----------------------------------------------------------------------------
(* The stream *)

HostTimes == [secs : Nat, nanos : 0 .. Second - 1]

\* A frame made anew, with another time, from another adapter and of another line.
Anew(f, time, adapter, raw) ==
  [bus |-> f.bus, timestamp_host |-> time, timestamp_device |-> {}, direction |-> f.direction,
   id |-> f.id, id_format |-> f.id_format, frame_format |-> f.frame_format,
   frame_type |-> f.frame_type, dlc |-> f.dlc, data_length |-> f.data_length,
   data |-> f.data, bitrate_switch |-> f.bitrate_switch,
   error_state_indicator |-> f.error_state_indicator, adapter |-> adapter, raw |-> raw]

\* The fields of a frame as the adapter hands it on.
LEMMA ReceivedIs ==
  ASSUME NEW f \in CanFrames
  PROVE  /\ f.data \in Seq(Bytes)
         /\ f.bitrate_switch \in BOOLEAN
         /\ f.error_state_indicator \in BOOLEAN
         /\ f.id \in Nat
         /\ f.bus \in BusNames /\ f.timestamp_host \in HostTimes
         /\ f = [bus |-> f.bus, timestamp_host |-> f.timestamp_host,
                 timestamp_device |-> f.timestamp_device, direction |-> f.direction,
                 id |-> f.id, id_format |-> f.id_format, frame_format |-> f.frame_format,
                 frame_type |-> f.frame_type, dlc |-> f.dlc, data_length |-> f.data_length,
                 data |-> f.data, bitrate_switch |-> f.bitrate_switch,
                 error_state_indicator |-> f.error_state_indicator,
                 adapter |-> f.adapter, raw |-> f.raw]
  <1>1. PICK sent \in Sent, device \in DeviceTimes, line \in WholeLines, bus \in BusNames,
             time \in Times : f = Received(AsRead(sent, device, line), bus, time)
    BY DEF CanFrames
  <1> DEFINE r == AsRead(sent, device, line)
  <1>2. /\ sent.data \in Seq(Bytes) /\ sent.bitrate_switch \in BOOLEAN
        /\ sent.error_state_indicator \in BOOLEAN /\ sent.id \in Nat
    BY SentIs DEF SentFrames
  <1>3. /\ r.id = sent.id /\ r.data = sent.data /\ r.bitrate_switch = sent.bitrate_switch
        /\ r.error_state_indicator = sent.error_state_indicator
    BY SentIs DEF AsRead, SentFrames
  <1> HIDE DEF r
  <1>4. f = [bus |-> bus, timestamp_host |-> time, timestamp_device |-> r.timestamp_device,
             direction |-> "rx", id |-> r.id, id_format |-> r.id_format,
             frame_format |-> r.frame_format, frame_type |-> r.frame_type, dlc |-> r.dlc,
             data_length |-> r.data_length, data |-> r.data,
             bitrate_switch |-> r.bitrate_switch,
             error_state_indicator |-> r.error_state_indicator,
             adapter |-> "weact_slcan_fd", raw |-> r.raw]
    BY <1>1 DEF Received, r
  <1>5. /\ f.bus = bus /\ f.timestamp_host = time /\ f.id = r.id /\ f.data = r.data
        /\ f.bitrate_switch = r.bitrate_switch
        /\ f.error_state_indicator = r.error_state_indicator
    BY <1>4
  <1>6. time \in HostTimes
    BY InputAssumption DEF HostTimes
  <1>7. f = [bus |-> f.bus, timestamp_host |-> f.timestamp_host,
             timestamp_device |-> f.timestamp_device, direction |-> f.direction,
             id |-> f.id, id_format |-> f.id_format, frame_format |-> f.frame_format,
             frame_type |-> f.frame_type, dlc |-> f.dlc, data_length |-> f.data_length,
             data |-> f.data, bitrate_switch |-> f.bitrate_switch,
             error_state_indicator |-> f.error_state_indicator,
             adapter |-> f.adapter, raw |-> f.raw]
    BY <1>4
  <1> QED
    BY <1>2, <1>3, <1>5, <1>6, <1>7, Zenon

\* A frame with another time, from another adapter and of another line.
AnewOf(f, time, adapter, raw) ==
  [[[[f EXCEPT !.timestamp_host = time] EXCEPT !.timestamp_device = {}]
      EXCEPT !.adapter = adapter] EXCEPT !.raw = raw]

\* Which of its fields are those of the frame.
LEMMA AnewIs ==
  ASSUME NEW f \in CanFrames, NEW time, NEW adapter, NEW raw
  PROVE  AnewOf(f, time, adapter, raw) = Anew(f, time, adapter, raw)
  <1> DEFINE F(t, d, a, r) ==
         [bus |-> f.bus, timestamp_host |-> t, timestamp_device |-> d, direction |-> f.direction,
          id |-> f.id, id_format |-> f.id_format, frame_format |-> f.frame_format,
          frame_type |-> f.frame_type, dlc |-> f.dlc, data_length |-> f.data_length,
          data |-> f.data, bitrate_switch |-> f.bitrate_switch,
          error_state_indicator |-> f.error_state_indicator, adapter |-> a, raw |-> r]
  <1>1. f = F(f.timestamp_host, f.timestamp_device, f.adapter, f.raw)
    BY ReceivedIs
  <1>2. \A t, d, a, r, u : [F(t, d, a, r) EXCEPT !.timestamp_host = u] = F(u, d, a, r)
    OBVIOUS
  <1>3. \A t, d, a, r, u : [F(t, d, a, r) EXCEPT !.timestamp_device = u] = F(t, u, a, r)
    OBVIOUS
  <1>4. \A t, d, a, r, u : [F(t, d, a, r) EXCEPT !.adapter = u] = F(t, d, u, r)
    OBVIOUS
  <1>5. \A t, d, a, r, u : [F(t, d, a, r) EXCEPT !.raw = u] = F(t, d, a, u)
    OBVIOUS
  <1>6. Anew(f, time, adapter, raw) = F(time, {}, adapter, raw)
    BY DEF Anew
  <1> HIDE DEF F
  <1> DEFINE g1 == [f EXCEPT !.timestamp_host = time]
             g2 == [g1 EXCEPT !.timestamp_device = {}]
             g3 == [g2 EXCEPT !.adapter = adapter]
  <1>7. g1 = F(time, f.timestamp_device, f.adapter, f.raw)
    BY <1>1, <1>2
  <1> HIDE DEF g1
  <1>8. g2 = F(time, {}, f.adapter, f.raw)
    BY <1>3, <1>7
  <1> HIDE DEF g2
  <1>9. g3 = F(time, {}, adapter, f.raw)
    BY <1>4, <1>8
  <1> HIDE DEF g3
  <1>10. [g3 EXCEPT !.raw = raw] = F(time, {}, adapter, raw)
    BY <1>5, <1>9
  <1> QED
    BY <1>6, <1>10 DEF g1, g2, g3, AnewOf

\* The fields of an event.
LEMMA EventIs ==
  ASSUME NEW k, NEW f
  PROVE  /\ FrameEvent(k, f).bus = f.bus
         /\ FrameEvent(k, f).timestamp_host_unix_ns = UnixNs(f.timestamp_host)
         /\ FrameEvent(k, f).direction = f.direction
         /\ FrameEvent(k, f).id = PrefixedHex(f.id)
         /\ FrameEvent(k, f).id_format = f.id_format
         /\ FrameEvent(k, f).frame_format = f.frame_format
         /\ FrameEvent(k, f).frame_type = f.frame_type
         /\ FrameEvent(k, f).dlc = f.dlc
         /\ FrameEvent(k, f).data_length = f.data_length
         /\ FrameEvent(k, f).flags = Flags(f)
         /\ FrameEvent(k, f).data_hex = DataHex(f.data)
  BY DEF FrameEvent

\* Seconds are told from the nanoseconds beyond them.
LEMMA SecondIs == Second \in Nat \ {0}
  BY SMT DEF Second

\* A text of nanoseconds gives back the time, and the same row text as the time.
LEMMA NsBack ==
  ASSUME NEW time \in HostTimes
  PROVE  /\ \E ns \in Nat : /\ ReadDecimal(UnixNs(time)) = {ns}
                            /\ ParseUnixNs(ns) = time
                            /\ CsvTimestamp(ns) = FormatTimestamp(time)
  <1> DEFINE s == time.secs
             m == time.nanos
             ns == s * Second + m
  <1>1. s \in Nat /\ m \in 0..Second - 1
    BY SMT DEF HostTimes
  <1>2. ns \in Nat /\ ns \div Second = s /\ ns % Second = m
    <2> DEFINE d == Second
    <2>1. d \in Nat \ {0} /\ m \in 0..(d - 1) /\ s \in Nat
      BY <1>1, SecondIs, SMT
    <2> HIDE DEF s, m, d
    <2>2. s * d + m = d * s + m /\ s * d + m \in Nat
      BY <2>1, SMT
    <2> DEFINE a == s * d + m
    <2>3. a = d * s + m /\ a \in Nat
      BY <2>2, SMT
    <2> HIDE DEF a
    <2>4. a \div d = s /\ a % d = m
      BY <2>1, <2>3, QuotientIs, Zenon
    <2> QED
      BY <2>3, <2>4 DEF a, d
  <1> HIDE DEF ns
  <1>3. ParseUnixNs(ns) = time
    <2>1. time = [secs |-> time.secs, nanos |-> time.nanos]
      BY DEF HostTimes
    <2> QED
      BY <1>2, <2>1, Zenon DEF ParseUnixNs
  <1>4. CsvTimestamp(ns) = FormatTimestamp(time)
    BY <1>2, SMT DEF CsvTimestamp, FormatTimestamp
  <1>5. ReadDecimal(UnixNs(time)) = {ns}
    <2>1. UnixNs(time) = Decimal(ns)
      BY DEF UnixNs, ns
    <2>2. \A n : ReadDecimal(Decimal(n)) = {n}
      BY DEF ReadDecimal, ReadAs, Decimal
    <2> QED
      BY <2>1, <2>2
  <1> QED
    BY <1>2, <1>3, <1>4, <1>5

\* An identifier is read as it was printed.
LEMMA IdReadBack ==
  ASSUME NEW id
  PROVE  ReadCanId(PrefixedHex(id)) = {id}
  <1>1. PrefixedHex(id)[1] = "0x{:X}" /\ PrefixedHex(id)[2] = id
    BY DEF PrefixedHex
  <1> QED
    BY <1>1 DEF ReadCanId, ReadAs

\* The fields of a frame, its flags and its data as texts among them, make a
\* frame that differs by what is said beside them.
LEMMA FrameMade ==
  ASSUME NEW f \in CanFrames, NEW e, NEW time, NEW adapter, NEW raw,
         e.bus = f.bus, e.direction = f.direction, e.id = f.id, e.id_format = f.id_format,
         e.frame_format = f.frame_format, e.frame_type = f.frame_type, e.dlc = f.dlc,
         e.data_length = f.data_length, e.flags = Flags(f), e.data_hex = DataHex(f.data)
  PROVE  FrameOf(e, time, adapter, raw) = {Anew(f, time, adapter, raw)}
  <1>1. /\ f.bitrate_switch \in BOOLEAN /\ f.error_state_indicator \in BOOLEAN
        /\ f.data \in Seq(Bytes)
    BY ReceivedIs
  <1>2. ("brs" \in e.flags) = f.bitrate_switch
    BY <1>1 DEF Flags
  <1>3. ("esi" \in e.flags) = f.error_state_indicator
    BY <1>1 DEF Flags
  <1>4. HexBytes(e.data_hex) = {f.data}
    BY <1>1, BytesBack
  <1> DEFINE made(data) ==
           [bus |-> e.bus, timestamp_host |-> time, timestamp_device |-> {},
            direction |-> e.direction, id |-> e.id, id_format |-> e.id_format,
            frame_format |-> e.frame_format, frame_type |-> e.frame_type,
            dlc |-> e.dlc, data_length |-> e.data_length, data |-> data,
            bitrate_switch |-> "brs" \in e.flags,
            error_state_indicator |-> "esi" \in e.flags,
            adapter |-> adapter, raw |-> raw]
  <1>5. FrameOf(e, time, adapter, raw) = {made(data) : data \in HexBytes(e.data_hex)}
    BY Zenon DEF FrameOf
  <1>6. made(f.data) = Anew(f, time, adapter, raw)
    BY <1>2, <1>3, Zenon DEF Anew
  <1> HIDE DEF made
  <1>7. {made(data) : data \in {f.data}} = {Anew(f, time, adapter, raw)}
    BY <1>6
  <1> QED
    BY <1>4, <1>5, <1>7

\* What the stream carries of a frame.
AsStreamed(f) == [f EXCEPT !.timestamp_device = {}, !.adapter = "server", !.raw = {}]

\* That is the frame anew, with its own time.
LEMMA StreamedIs ==
  ASSUME NEW f \in CanFrames
  PROVE  AsStreamed(f) = Anew(f, f.timestamp_host, "server", {})
  <1>1. [f EXCEPT !.timestamp_host = f.timestamp_host] = f
    BY ReceivedIs
  <1>2. AnewOf(f, f.timestamp_host, "server", {}) = Anew(f, f.timestamp_host, "server", {})
    BY AnewIs
  <1> QED
    BY <1>1, <1>2 DEF AsStreamed, AnewOf

\* An event gives back the frame it was made of.
LEMMA EventBack ==
  ASSUME NEW f \in CanFrames, NEW k
  PROVE  FrameFromEvent(FrameEvent(k, f)) = {AsStreamed(f)}
  <1> DEFINE e == FrameEvent(k, f)
             fields == [e EXCEPT !.id = f.id]
  <1>1. PICK n \in Nat : ReadDecimal(UnixNs(f.timestamp_host)) = {n}
                         /\ ParseUnixNs(n) = f.timestamp_host
    BY ReceivedIs, NsBack
  <1>2. ReadCanId(e.id) = {f.id} /\ ReadDecimal(e.timestamp_host_unix_ns) = {n}
    BY <1>1, IdReadBack, EventIs
  <1>3. FrameFromEvent(e) =
          UNION {FrameOf([e EXCEPT !.id = id], ParseUnixNs(ns), "server", {}) :
                   id \in ReadCanId(e.id), ns \in ReadDecimal(e.timestamp_host_unix_ns)}
    BY DEF FrameFromEvent
  <1>4. FrameFromEvent(e) = FrameOf(fields, f.timestamp_host, "server", {})
    <2> HIDE DEF e
    <2> QED
      BY <1>1, <1>2, <1>3
  <1>5. /\ fields.bus = f.bus /\ fields.direction = f.direction /\ fields.id = f.id
        /\ fields.id_format = f.id_format /\ fields.frame_format = f.frame_format
        /\ fields.frame_type = f.frame_type /\ fields.dlc = f.dlc
        /\ fields.data_length = f.data_length /\ fields.flags = Flags(f)
        /\ fields.data_hex = DataHex(f.data)
    BY DEF FrameEvent
  <1> HIDE DEF e, fields
  <1>6. FrameOf(fields, f.timestamp_host, "server", {}) = {Anew(f, f.timestamp_host, "server", {})}
    BY <1>5, FrameMade
  <1>7. AsStreamed(f) = Anew(f, f.timestamp_host, "server", {})
    BY StreamedIs
  <1> QED
    BY <1>4, <1>6, <1>7 DEF e

\* What the stream has carried is the frame that was received, to the nanosecond
\* and but for the time of the device, the adapter and the line: from_frame of
\* the server and frame_from_event of the desktop application.
THEOREM StreamIsFaithful == PipelineSpec => []StreamKeepsFrames
  <1>1. PipelineInv => StreamKeepsFrames
    <2> SUFFICES ASSUME PipelineInv, NEW i \in DOMAIN frames
                 PROVE  FrameFromEvent(FrameEvent(i - 1, frames[i])) = {AsStreamed(frames[i])}
      BY DEF StreamKeepsFrames, AsStreamed
    <2>1. frames[i] \in CanFrames
      BY LenProperties DEF PipelineInv
    <2> QED
      BY <2>1, EventBack
  <1> QED
    BY <1>1, PipelineInvariant, PTL

-----------------------------------------------------------------------------
(* Standalone and Client mode *)

\* What is kept of the numbers of frames, in Standalone mode and in Client mode.
Own(chosen, seen) == KeptOf(seen, LAMBDA n : CaptureAccepts(chosen, frames[n]))
Carried(queried, seen) ==
  KeptOf(seen, LAMBDA n : /\ StreamAccepts(queried, frames[n])
                          /\ \/ queried.include_tx
                             \/ FrameEvent(n - 1, frames[n]).direction = "rx")

FramesChosen(chosen) == {n \in DOMAIN frames : CaptureAccepts(chosen, frames[n])}

\* They are those of the frames that a capture accepts.
LEMMA OwnIs ==
  ASSUME NEW seen \in Seq(DOMAIN frames), NEW chosen
  PROVE  Own(chosen, seen) = KeptIn(seen, FramesChosen(chosen))
  <1> DEFINE n == Len(seen)
             Equation(iter) ==
               [s \in SUBSET (DOMAIN seen) |->
                  IF s = {} THEN <<>>
                  ELSE LET k == Max(s)
                       IN  IF CaptureAccepts(chosen, frames[seen[k]]) THEN Append(iter[s \ {k}], seen[k])
                           ELSE iter[s \ {k}]]
             fold == CHOOSE iter : iter = Equation(iter)
             K == {i \in DOMAIN seen : seen[i] \in FramesChosen(chosen)}
  <1>1. Own(chosen, seen) = fold[DOMAIN seen]
    BY DEF Own, KeptOf, FoldLeft, MapThenFoldSet
  <1>2. DOMAIN seen = 1..n /\ n \in Nat /\ \A i \in 1..n : seen[i] \in DOMAIN frames
    BY LenProperties, ElementOfSeq
  <1>3. \A s \in SUBSET (1..n) : s # {} => (CaptureAccepts(chosen, frames[seen[Max(s)]]) <=> Max(s) \in K)
    BY <1>2, MaxOfInterval DEF FramesChosen
  <1> HIDE DEF K
  <1>4. ASSUME NEW iter PROVE Equation(iter) = KeptEquation(seen, K, iter)
    BY <1>2, <1>3 DEF KeptEquation
  <1> HIDE DEF Equation
  <1>5. fold = KeptFold(seen, K)
    BY <1>4 DEF KeptFold
  <1> QED
    BY <1>1, <1>2, <1>5 DEF KeptIn, K

\* The server and its client choose as a capture of its own does.
LEMMA SameChoice ==
  ASSUME NEW queried, NEW n
  PROVE  (/\ StreamAccepts(queried, frames[n])
          /\ \/ queried.include_tx
             \/ FrameEvent(n - 1, frames[n]).direction = "rx")
         <=> CaptureAccepts(queried, frames[n])
  <1>1. FrameEvent(n - 1, frames[n]).direction = frames[n].direction
    BY EventIs
  <1> QED
    BY <1>1 DEF StreamAccepts, CaptureAccepts

\* The events that reach the file are of the frames chosen.
LEMMA CarriedIs ==
  ASSUME NEW seen \in Seq(DOMAIN frames), NEW chosen
  PROVE  Carried(chosen, seen) = KeptIn(seen, FramesChosen(chosen))
  <1> DEFINE n == Len(seen)
             Takes(k) == /\ StreamAccepts(chosen, frames[k])
                         /\ \/ chosen.include_tx
                            \/ FrameEvent(k - 1, frames[k]).direction = "rx"
             Equation(iter) ==
               [s \in SUBSET (DOMAIN seen) |->
                  IF s = {} THEN <<>>
                  ELSE LET k == Max(s)
                       IN  IF Takes(seen[k]) THEN Append(iter[s \ {k}], seen[k])
                           ELSE iter[s \ {k}]]
             fold == CHOOSE iter : iter = Equation(iter)
             K == {i \in DOMAIN seen : seen[i] \in FramesChosen(chosen)}
  <1>1. Carried(chosen, seen) = fold[DOMAIN seen]
    BY DEF Carried, KeptOf, FoldLeft, MapThenFoldSet
  <1>2. DOMAIN seen = 1..n /\ n \in Nat /\ \A i \in 1..n : seen[i] \in DOMAIN frames
    BY LenProperties, ElementOfSeq
  <1>3. \A k : Takes(k) <=> CaptureAccepts(chosen, frames[k])
    BY SameChoice
  <1> HIDE DEF Takes
  <1>4. \A s \in SUBSET (1..n) : s # {} => (Takes(seen[Max(s)]) <=> Max(s) \in K)
    BY <1>2, <1>3, MaxOfInterval DEF FramesChosen
  <1> HIDE DEF K
  <1>5. ASSUME NEW iter PROVE Equation(iter) = KeptEquation(seen, K, iter)
    BY <1>2, <1>4 DEF KeptEquation
  <1> HIDE DEF Equation
  <1>6. fold = KeptFold(seen, K)
    BY <1>5 DEF KeptFold
  <1> QED
    BY <1>1, <1>2, <1>6 DEF KeptIn, K

\* write_csv of a frame and frame_event_csv_line of its event write the same row.
LEMMA RowOfEvent ==
  ASSUME NEW f \in CanFrames, NEW k
  PROVE  EventRow(FrameEvent(k, f)) = CaptureRow(f)
  <1> DEFINE e == FrameEvent(k, f)
  <1>1. PICK ns \in Nat : /\ ReadDecimal(UnixNs(f.timestamp_host)) = {ns}
                          /\ CsvTimestamp(ns) = FormatTimestamp(f.timestamp_host)
    BY ReceivedIs, NsBack
  <1>2. /\ e.timestamp_host_unix_ns = UnixNs(f.timestamp_host)
        /\ e.bus = f.bus /\ e.direction = f.direction /\ e.id = PrefixedHex(f.id)
        /\ e.id_format = f.id_format
        /\ e.frame_format = f.frame_format /\ e.frame_type = f.frame_type
        /\ e.dlc = f.dlc /\ e.data_length = f.data_length /\ e.flags = Flags(f)
        /\ e.data_hex = DataHex(f.data)
    BY EventIs
  <1> HIDE DEF e
  <1>3. (CHOOSE m \in ReadDecimal(e.timestamp_host_unix_ns) : TRUE) = ns
    BY <1>1, <1>2
  <1>4. EventRow(e) =
          Joined(<<Field(CsvTimestamp(CHOOSE m \in ReadDecimal(e.timestamp_host_unix_ns) : TRUE)),
            Escape(e.bus), Field(e.direction), Field(e.id), Field(e.id_format),
            Field(e.frame_format), Field(e.frame_type), Field(UpperHex(e.dlc)),
            Field(Decimal(e.data_length)), Escape(Field(e.flags)), Field(e.data_hex)>>)
    BY Zenon DEF EventRow
  <1> QED
    BY <1>1, <1>2, <1>3, <1>4, Zenon DEF CaptureRow, e

\* A limit on the frames, if there is one, is one number.
OneLimit(chosen) ==
  /\ chosen.max_frames \subseteq Nat \ {0}
  /\ \A m, n \in chosen.max_frames : m = n

\* What is kept up to the limit are the first of those kept.
LEMMA LimitedIs ==
  ASSUME NEW T, NEW kept \in Seq(T), NEW chosen, OneLimit(chosen)
  PROVE  \E k \in 0..Len(kept) : Limited(chosen, kept) = SubSeq(kept, 1, k)
  <1> DEFINE S == {Len(kept)} \cup chosen.max_frames
             k == Min(S)
  <1>1. Len(kept) \in Nat
    BY LenProperties
  <1>2. \E x \in S : \A y \in S : x <= y
    <2>1. CASE chosen.max_frames = {}
      BY <1>1, <2>1
    <2>2. CASE chosen.max_frames # {}
      <3>1. PICK m \in Nat : chosen.max_frames = {m}
        BY <2>2 DEF OneLimit
      <3>2. Len(kept) <= m \/ m <= Len(kept)
        BY <1>1
      <3> QED
        BY <1>1, <3>1, <3>2
    <2> QED
      BY <2>1, <2>2
  <1>3. k \in S /\ \A y \in S : k <= y
    <2> HIDE DEF S
    <2> QED
      BY <1>2 DEF Min
  <1>4. k \in 0..Len(kept)
    <2>1. Len(kept) \in S /\ \A y \in S : y \in Nat
      BY <1>1 DEF OneLimit
    <2> HIDE DEF S, k
    <2> QED
      BY <1>1, <1>3, <2>1
  <1>5. Limited(chosen, kept) = SubSeq(kept, 1, k)
    BY DEF Limited
  <1> QED
    BY <1>4, <1>5

\* The frames that arrive during a capture follow one another.
Follow(seen) == \A i \in DOMAIN seen : seen[i] = seen[1] + (i - 1)

\* What a capture sees are frames received, in their order.
LEMMA WindowIs ==
  ASSUME NEW T, frames \in Seq(T), NEW seen \in Windows
  PROVE  seen \in Seq(DOMAIN frames) /\ Follow(seen)
  <1>1. DOMAIN frames = 1..Len(frames) /\ Len(frames) \in Nat
    BY LenProperties
  <1>2. PICK first \in 0..Len(frames), last \in 0..Len(frames) :
          seen = [i \in 1..last - first |-> first + i]
    BY DEF Windows
  <1>3. CASE first <= last
    <2> DEFINE m == last - first
    <2>1. m \in Nat /\ \A i \in 1..m : first + i \in 1..Len(frames)
      BY <1>1, <1>3
    <2>2. \A i \in 1..m : 1 \in 1..m /\ first + i = (first + 1) + (i - 1)
      BY <1>1, <2>1
    <2>3. seen = [i \in 1..m |-> first + i]
      BY <1>2
    <2> HIDE DEF m
    <2>4. seen \in [1..m -> DOMAIN frames]
      BY <1>1, <2>1, <2>3
    <2>5. seen \in Seq(DOMAIN frames)
      BY <2>1, <2>4, FunctionIsSeq
    <2>6. \A i \in 1..m : seen[i] = seen[1] + (i - 1)
      BY <2>2, <2>3
    <2> QED
      BY <2>4, <2>5, <2>6 DEF Follow
  <1>4. CASE ~ (first <= last)
    <2>1. 1..last - first = 1..0
      BY <1>1, <1>4
    <2>2. seen \in [1..0 -> DOMAIN frames]
      BY <1>2, <2>1
    <2>3. seen \in Seq(DOMAIN frames)
      BY <2>2, FunctionIsSeq
    <2> QED
      BY <2>2, <2>3 DEF Follow
  <1> QED
    BY <1>3, <1>4

\* The numbers that a capture keeps are those of frames.
LEMMA HeldTyped ==
  ASSUME NEW seen \in Seq(DOMAIN frames), NEW chosen, OneLimit(chosen)
  PROVE  /\ Held(chosen, seen) = Limited(chosen, KeptIn(seen, FramesChosen(chosen)))
         /\ Held(chosen, seen) \in Seq(DOMAIN frames)
         /\ \E k \in 0..Len(KeptIn(seen, FramesChosen(chosen))) :
              Held(chosen, seen) = SubSeq(KeptIn(seen, FramesChosen(chosen)), 1, k)
  <1> DEFINE kept == KeptIn(seen, FramesChosen(chosen))
  <1>1. Held(chosen, seen) = Limited(chosen, kept)
    <2>1. Own(chosen, seen) = kept
      BY OwnIs
    <2> QED
      BY <2>1 DEF Held, Own
  <1>2. kept \in Seq(DOMAIN frames)
    BY KeptTyped
  <1> HIDE DEF kept
  <1>3. PICK k \in 0..Len(kept) : Limited(chosen, kept) = SubSeq(kept, 1, k)
    BY <1>2, LimitedIs
  <1>4. SubSeq(kept, 1, k) \in Seq(DOMAIN frames)
    <2>1. Len(kept) \in Nat /\ \A i \in 1..Len(kept) : kept[i] \in DOMAIN frames
      BY <1>2, LenProperties, ElementOfSeq
    <2>2. \A i \in 1..k : kept[i] \in DOMAIN frames
      BY <2>1
    <2> QED
      BY <2>1, <2>2, SubSeqProperties
  <1> QED
    BY <1>1, <1>3, <1>4 DEF kept

\* Both modes keep the same frames and write them as the same rows.
LEMMA TextsAlike ==
  ASSUME frames \in Seq(CanFrames), NEW chosen, OneLimit(chosen), NEW seen \in Windows
  PROVE  StandaloneText(chosen, seen) = ClientText(chosen, seen)
  <1> DEFINE held == Held(chosen, seen)
             sent == Limited(chosen, Carried(chosen, seen))
  <1>1. seen \in Seq(DOMAIN frames)
    <2> DEFINE T == CanFrames
    <2>1. frames \in Seq(T)
      OBVIOUS
    <2> HIDE DEF T
    <2> QED
      BY <2>1, WindowIs
  <1>2. held \in Seq(DOMAIN frames) /\ sent = held
    BY <1>1, HeldTyped, CarriedIs
  <1>3. StandaloneText(chosen, seen) = FileText([i \in DOMAIN held |-> CaptureRow(frames[held[i]])])
    BY Zenon DEF StandaloneText
  <1>4. ClientText(chosen, seen) =
          FileText([i \in DOMAIN sent |-> EventRow(FrameEvent(sent[i] - 1, frames[sent[i]]))])
    BY Zenon DEF ClientText, Carried
  <1> HIDE DEF held, sent
  <1>5. DOMAIN held = 1..Len(held) /\ \A i \in 1..Len(held) : held[i] \in DOMAIN frames
    BY <1>2, LenProperties, ElementOfSeq
  <1>6. \A n \in DOMAIN frames : EventRow(FrameEvent(n - 1, frames[n])) = CaptureRow(frames[n])
    <2>1. \A n \in DOMAIN frames : frames[n] \in CanFrames
      BY LenProperties, ElementOfSeq
    <2> QED
      BY <2>1, RowOfEvent
  <1>7. [i \in DOMAIN held |-> EventRow(FrameEvent(held[i] - 1, frames[held[i]]))] =
          [i \in DOMAIN held |-> CaptureRow(frames[held[i]])]
    BY <1>5, <1>6
  <1> QED
    BY <1>2, <1>3, <1>4, <1>7

\* What the user may choose has one limit.
LEMMA LimitIs ==
  ASSUME NEW chosen \in Arguments
  PROVE  OneLimit(chosen)
  BY InputAssumption DEF OneLimit, CaptureArguments

\* A capture of the same arguments that sees the same frames has the same text
\* in both modes, if the server finds these arguments in its query: accepts and
\* write_csv of capture.rs, the filter of the server's stream and
\* frame_event_csv_line of the CLI.
THEOREM BothModesAgree == PipelineSpec => []ModesAgree
  <1>1. PipelineInv => ModesAgree
    <2> SUFFICES ASSUME PipelineInv, NEW chosen \in Arguments, NEW seen \in Windows
                 PROVE  StandaloneText(chosen, seen) = ClientText(chosen, seen)
      BY DEF ModesAgree
    <2> QED
      BY LimitIs, TextsAlike DEF PipelineInv
  <1> QED
    BY <1>1, PipelineInvariant, PTL

-----------------------------------------------------------------------------
(* The texts that grow *)

\* Texts of such characters, at least one.
Texts(T) == {texts \in Seq(Seq(T)) : texts # <<>>}

\* The last text with one more behind it.
GrownBy(texts, t) == Front(texts) \o <<Last(texts) \o t>>

\* What grows is its last text alone.
LEMMA GrownByOK ==
  ASSUME NEW T, NEW texts \in Texts(T), NEW t \in Seq(T)
  PROVE  /\ GrownBy(texts, t) \in Texts(T)
         /\ Front(GrownBy(texts, t)) = Front(texts)
         /\ Last(GrownBy(texts, t)) = Last(texts) \o t
  <1>1. Front(texts) \in Seq(Seq(T)) /\ Last(texts) \in Seq(T)
    BY FrontOfTexts DEF Texts
  <1>2. Last(texts) \o t \in Seq(T)
    BY <1>1, ConcatProperties
  <1> DEFINE f == Front(texts)
             x == Last(texts) \o t
  <1>3. Append(f, x) = f \o <<x>>
    <2> HIDE DEF f, x
    <2> QED
      BY <1>1, <1>2, AppendIsConcat DEF f
  <1>4. Append(f, x) \in Seq(Seq(T)) /\ Append(f, x) # <<>> /\ Front(Append(f, x)) = f /\ Last(Append(f, x)) = x
    <2> HIDE DEF x
    <2>1. f \in Seq(Seq(T)) /\ x \in Seq(T)
      BY <1>1, <1>2 DEF x
    <2> HIDE DEF f
    <2> QED
      BY <2>1, FrontLast, AppendProperties
  <1> QED
    BY <1>3, <1>4 DEF GrownBy, Texts

\* One character more is a text of one character more.
LEMMA GrownIs ==
  ASSUME NEW T, NEW texts \in Texts(T), NEW c \in T
  PROVE  Grown(texts, c) = GrownBy(texts, <<c>>) /\ Grown(texts, c) \in Texts(T)
  <1>1. Front(texts) \in Seq(Seq(T)) /\ Last(texts) \in Seq(T)
    BY FrontOfTexts DEF Texts
  <1>2. Append(Last(texts), c) = Last(texts) \o <<c>> /\ <<c>> \in Seq(T)
    BY <1>1, AppendIsConcat, OneChar
  <1> QED
    BY <1>2, GrownByOK DEF Grown, GrownBy

\* Growing by a text and then by another.
LEMMA GrownTwice ==
  ASSUME NEW T, NEW texts \in Texts(T), NEW t \in Seq(T), NEW u \in Seq(T)
  PROVE  /\ GrownBy(GrownBy(texts, t), u) = GrownBy(texts, t \o u)
         /\ GrownBy(texts, <<>>) = texts
  <1>1. Front(texts) \in Seq(Seq(T)) /\ Last(texts) \in Seq(T)
        /\ texts = Append(Front(texts), Last(texts))
    BY FrontOfTexts DEF Texts
  <1>2. (Last(texts) \o t) \o u = Last(texts) \o (t \o u)
    BY <1>1, ConcatAssociative
  <1>3. Last(texts) \o <<>> = Last(texts)
    BY <1>1, ConcatEmptySeq
  <1>4. Append(Front(texts), Last(texts)) = Front(texts) \o <<Last(texts)>>
    BY <1>1, AppendIsConcat
  <1> QED
    BY <1>1, <1>2, <1>3, <1>4, GrownByOK DEF GrownBy

\* A new text at the end that grows is that text.
LEMMA GrownAppended ==
  ASSUME NEW T, NEW texts \in Seq(Seq(T)), NEW t \in Seq(T)
  PROVE  /\ Append(texts, <<>>) \in Texts(T)
         /\ GrownBy(Append(texts, <<>>), t) = Append(texts, t)
  <1> DEFINE e == <<>>
  <1>1. e \in Seq(T)
    BY EmptySeq
  <1>2. Append(texts, e) \in Seq(Seq(T)) /\ Append(texts, e) # <<>>
        /\ Front(Append(texts, e)) = texts /\ Last(Append(texts, e)) = e
    <2> HIDE DEF e
    <2> QED
      BY <1>1, AppendProperties, FrontLast
  <1>3. <<>> \o t = t
    BY ConcatEmptySeq
  <1>4. texts \o <<t>> = Append(texts, t)
    BY AppendIsConcat
  <1> QED
    BY <1>2, <1>3, <1>4 DEF GrownBy, Texts

-----------------------------------------------------------------------------
(* Lines of a text *)

LinesOf(text) == FoldLeft(LineRead, << <<>> >>, text)

\* The recursion of this fold.
LinesEquation(text, iter) ==
  [s \in SUBSET (1..Len(text)) |->
     IF s = {} THEN << <<>> >> ELSE LineRead(iter[s \ {Max(s)}], text[Max(s)])]

LinesFold(text) == CHOOSE iter : iter = LinesEquation(text, iter)
LinesSteps(text, V) == [i \in 1..Len(text) |-> [v \in V |-> LineRead(v, text[i])]]

\* One character keeps the types.
LEMMA LineReadOK ==
  ASSUME NEW T, Special \subseteq T, NEW v \in Texts(T), NEW c \in T
  PROVE  LineRead(v, c) \in Texts(T)
  <1>1. CASE c = Newline
    BY <1>1, GrownAppended DEF LineRead, Texts
  <1>2. CASE c # Newline
    BY <1>2, GrownIs DEF LineRead
  <1> QED
    BY <1>1, <1>2

\* The lines of a text are the last step of this fold.
LEMMA LinesFolded ==
  ASSUME NEW T, Special \subseteq T, NEW text \in Seq(T)
  PROVE  /\ FoldMeets(LinesFold(text), Len(text), Texts(T), << <<>> >>, LinesSteps(text, Texts(T)))
         /\ LinesSteps(text, Texts(T)) \in [1..Len(text) -> [Texts(T) -> Texts(T)]]
         /\ LinesOf(text) = LinesFold(text)[1..Len(text)]
         /\ << <<>> >> \in Texts(T)
  <1> DEFINE n == Len(text)
             V == Texts(T)
             g == LinesSteps(text, V)
             I == LinesFold(text)
             base == << <<>> >>
  <1>1. n \in Nat /\ DOMAIN text = 1..n /\ \A i \in 1..n : text[i] \in T
    BY LenProperties
  <1>2. base \in V
    <2> DEFINE e == <<>>
    <2>1. e \in Seq(T)
      BY EmptySeq
    <2> HIDE DEF e
    <2>2. <<e>> \in Seq(Seq(T)) /\ <<e>> # <<>>
      BY <2>1
    <2> QED
      BY <2>2 DEF Texts, e
  <1>3. \A i \in 1..n, v \in V : LineRead(v, text[i]) \in V
    BY <1>1, LineReadOK
  <1>4. g \in [1..n -> [V -> V]] /\ \A i \in 1..n, v \in V : g[i][v] = LineRead(v, text[i])
    BY <1>3 DEF LinesSteps
  <1> HIDE DEF n, V, g, base
  <1>5. PICK h \in [SUBSET (1..n) -> V] : FoldSolves(h, n, base, g)
    BY <1>1, <1>2, <1>4, FoldExists
  <1>6. h = LinesEquation(text, h)
    <2>1. ASSUME NEW s \in SUBSET (1..n), s # {}
          PROVE  h[s] = LineRead(h[s \ {Max(s)}], text[Max(s)])
      <3>1. Max(s) \in 1..n
        BY <1>1, <2>1, MaxOfInterval
      <3>2. s \ {Max(s)} \in SUBSET (1..n)
        OBVIOUS
      <3> QED
        BY <1>4, <1>5, <2>1, <3>1, <3>2 DEF FoldSolves
    <2>2. h = [s \in SUBSET (1..n) |-> h[s]]
      OBVIOUS
    <2>3. \A s \in SUBSET (1..n) :
            h[s] = IF s = {} THEN base ELSE LineRead(h[s \ {Max(s)}], text[Max(s)])
      BY <1>5, <2>1 DEF FoldSolves
    <2> QED
      BY <2>2, <2>3 DEF LinesEquation, n, base
  <1>7. I = LinesEquation(text, I)
    BY <1>6 DEF LinesFold
  <1> HIDE DEF I
  <1>8. \A s \in SUBSET (1..n) :
          I[s] = IF s = {} THEN base ELSE LineRead(I[s \ {Max(s)}], text[Max(s)])
    BY <1>7 DEF LinesEquation, n, base
  <1>9. FoldMeets(I, n, V, base, g)
    <2>1. ASSUME NEW s \in SUBSET (1..n), s # {}, I[s \ {Max(s)}] \in V
          PROVE  I[s] = g[Max(s)][I[s \ {Max(s)}]]
      <3>1. Max(s) \in 1..n
        BY <1>1, <2>1, MaxOfInterval
      <3> QED
        BY <1>4, <1>8, <2>1, <3>1
    <2>2. I[{}] = base
      BY <1>8
    <2> QED
      BY <2>1, <2>2 DEF FoldMeets
  <1>10. LinesOf(text) = I[1..n]
    BY <1>1 DEF LinesOf, FoldLeft, MapThenFoldSet, I, LinesFold, LinesEquation, n
  <1> QED
    BY <1>2, <1>4, <1>9, <1>10 DEF n, V, g, base, I

\* The lines of a text with one character more.
LEMMA LinesAppend ==
  ASSUME NEW T, Special \subseteq T, NEW text \in Seq(T), NEW c \in T
  PROVE  /\ LinesOf(text) \in Texts(T)
         /\ LinesOf(Append(text, c)) = LineRead(LinesOf(text), c)
         /\ LinesOf(<<>>) = << <<>> >>
  <1> DEFINE n == Len(text)
             more == Append(text, c)
             m == n + 1
             V == Texts(T)
             g == LinesSteps(text, V)
             u == LinesSteps(more, V)
             base == << <<>> >>
  <1>1. /\ n \in Nat /\ more \in Seq(T) /\ Len(more) = m
        /\ \A k \in 1..n : more[k] = text[k]
        /\ more[m] = c
    BY LenProperties, AppendProperties
  <1> HIDE DEF more
  <1>2. /\ FoldMeets(LinesFold(text), n, V, base, g) /\ g \in [1..n -> [V -> V]]
        /\ LinesOf(text) = LinesFold(text)[1..n] /\ base \in V
    BY LinesFolded
  <1>3. /\ FoldMeets(LinesFold(more), m, V, base, u) /\ u \in [1..m -> [V -> V]]
        /\ LinesOf(more) = LinesFold(more)[1..m]
    BY <1>1, LinesFolded
  <1>4. /\ \A k \in 1..n : u[k] = g[k]
        /\ \A v \in V : u[m][v] = LineRead(v, c)
    BY <1>1 DEF LinesSteps
  <1> HIDE DEF V, g, u, base
  <1>5. LinesFold(text)[1..n] \in V /\ LinesFold(more)[1..m] = u[m][LinesFold(text)[1..n]]
    <2> DEFINE h == LinesFold(text)
               l == LinesFold(more)
    <2>1. /\ n \in Nat /\ base \in V /\ StepsMore(u, m, g, n, V)
          /\ FoldMeets(h, n, V, base, g) /\ FoldMeets(l, m, V, base, u)
      BY <1>1, <1>2, <1>3, <1>4 DEF StepsMore
    <2> HIDE DEF n, m, h, l
    <2>2. TakesLast(l, m, h, n, V, u)
      BY <2>1, FoldSnoc
    <2> QED
      BY <2>2 DEF TakesLast, h, l
  <1>6. LinesOf(<<>>) = base
    <2>1. <<>> \in Seq(T) /\ Len(<<>>) = 0 /\ 1..0 = {}
      BY EmptySeq
    <2> DEFINE e == <<>>
    <2> HIDE DEF e
    <2>2. e \in Seq(T) /\ Len(e) = 0
      BY <2>1 DEF e
    <2>3. FoldMeets(LinesFold(e), Len(e), V, base, LinesSteps(e, V)) /\ LinesOf(e) = LinesFold(e)[1..Len(e)]
      BY <2>2, LinesFolded DEF V, base
    <2>4. LinesFold(e)[{}] = base
      BY <2>3 DEF FoldMeets
    <2> QED
      BY <2>1, <2>2, <2>3, <2>4 DEF e
  <1>7. LinesOf(more) = LineRead(LinesOf(text), c)
    BY <1>2, <1>3, <1>4, <1>5
  <1> QED
    BY <1>2, <1>5, <1>6, <1>7 DEF more, V, base

-----------------------------------------------------------------------------
(* Columns of a line *)

Outside == [columns |-> << <<>> >>, mode |-> "outside"]
ScanOf(line) == FoldLeft(Scanned, Outside, line)
Scans(T) == [columns : Texts(T), mode : {"outside", "inside", "quote"}]

\* The recursion of this fold.
ScanEquation(text, iter) ==
  [s \in SUBSET (1..Len(text)) |->
     IF s = {} THEN Outside ELSE Scanned(iter[s \ {Max(s)}], text[Max(s)])]

ScanFold(text) == CHOOSE iter : iter = ScanEquation(text, iter)
ScanSteps(text, V) == [i \in 1..Len(text) |-> [v \in V |-> Scanned(v, text[i])]]

\* One character keeps the types.
LEMMA ScannedOK ==
  ASSUME NEW T, Special \subseteq T, NEW v \in Scans(T), NEW c \in T
  PROVE  Scanned(v, c) \in Scans(T)
  <1>1. v.columns \in Texts(T) /\ v.mode \in {"outside", "inside", "quote"}
    BY DEF Scans
  <1>2. Grown(v.columns, c) \in Texts(T) /\ Append(v.columns, <<>>) \in Texts(T)
    BY <1>1, GrownIs, GrownAppended, EmptySeq DEF Texts
  <1> QED
    BY <1>1, <1>2 DEF Scanned, Scans

\* The columns of a text are the last step of this fold.
LEMMA ScanFolded ==
  ASSUME NEW T, Special \subseteq T, NEW text \in Seq(T)
  PROVE  /\ FoldMeets(ScanFold(text), Len(text), Scans(T), Outside, ScanSteps(text, Scans(T)))
         /\ ScanSteps(text, Scans(T)) \in [1..Len(text) -> [Scans(T) -> Scans(T)]]
         /\ ScanOf(text) = ScanFold(text)[1..Len(text)]
         /\ Outside \in Scans(T)
  <1> DEFINE n == Len(text)
             V == Scans(T)
             g == ScanSteps(text, V)
             I == ScanFold(text)
             base == Outside
  <1>1. n \in Nat /\ DOMAIN text = 1..n /\ \A i \in 1..n : text[i] \in T
    BY LenProperties
  <1>2. base \in V
    <2> DEFINE e == <<>>
    <2>1. e \in Seq(T)
      BY EmptySeq
    <2> HIDE DEF e
    <2>2. <<e>> \in Seq(Seq(T)) /\ <<e>> # <<>>
      BY <2>1
    <2> QED
      BY <2>2 DEF Texts, Scans, Outside, e
  <1>3. \A i \in 1..n, v \in V : Scanned(v, text[i]) \in V
    BY <1>1, ScannedOK
  <1>4. g \in [1..n -> [V -> V]] /\ \A i \in 1..n, v \in V : g[i][v] = Scanned(v, text[i])
    BY <1>3 DEF ScanSteps
  <1> HIDE DEF n, V, g, base
  <1>5. PICK h \in [SUBSET (1..n) -> V] : FoldSolves(h, n, base, g)
    BY <1>1, <1>2, <1>4, FoldExists
  <1>6. h = ScanEquation(text, h)
    <2>1. ASSUME NEW s \in SUBSET (1..n), s # {}
          PROVE  h[s] = Scanned(h[s \ {Max(s)}], text[Max(s)])
      <3>1. Max(s) \in 1..n
        BY <1>1, <2>1, MaxOfInterval
      <3>2. s \ {Max(s)} \in SUBSET (1..n)
        OBVIOUS
      <3> QED
        BY <1>4, <1>5, <2>1, <3>1, <3>2 DEF FoldSolves
    <2>2. h = [s \in SUBSET (1..n) |-> h[s]]
      OBVIOUS
    <2>3. \A s \in SUBSET (1..n) :
            h[s] = IF s = {} THEN base ELSE Scanned(h[s \ {Max(s)}], text[Max(s)])
      BY <1>5, <2>1 DEF FoldSolves
    <2> QED
      BY <2>2, <2>3 DEF ScanEquation, n, base
  <1>7. I = ScanEquation(text, I)
    BY <1>6 DEF ScanFold
  <1> HIDE DEF I
  <1>8. \A s \in SUBSET (1..n) :
          I[s] = IF s = {} THEN base ELSE Scanned(I[s \ {Max(s)}], text[Max(s)])
    BY <1>7 DEF ScanEquation, n, base
  <1>9. FoldMeets(I, n, V, base, g)
    <2>1. ASSUME NEW s \in SUBSET (1..n), s # {}, I[s \ {Max(s)}] \in V
          PROVE  I[s] = g[Max(s)][I[s \ {Max(s)}]]
      <3>1. Max(s) \in 1..n
        BY <1>1, <2>1, MaxOfInterval
      <3> QED
        BY <1>4, <1>8, <2>1, <3>1
    <2>2. I[{}] = base
      BY <1>8
    <2> QED
      BY <2>1, <2>2 DEF FoldMeets
  <1>10. ScanOf(text) = I[1..n]
    BY <1>1 DEF ScanOf, FoldLeft, MapThenFoldSet, I, ScanFold, ScanEquation, n
  <1> QED
    BY <1>2, <1>4, <1>9, <1>10 DEF n, V, g, base, I

\* The columns of a line with one character more.
LEMMA ScanAppend ==
  ASSUME NEW T, Special \subseteq T, NEW text \in Seq(T), NEW c \in T
  PROVE  /\ ScanOf(text) \in Scans(T)
         /\ ScanOf(Append(text, c)) = Scanned(ScanOf(text), c)
         /\ ScanOf(<<>>) = Outside
  <1> DEFINE n == Len(text)
             more == Append(text, c)
             m == n + 1
             V == Scans(T)
             g == ScanSteps(text, V)
             u == ScanSteps(more, V)
             base == Outside
  <1>1. /\ n \in Nat /\ more \in Seq(T) /\ Len(more) = m
        /\ \A k \in 1..n : more[k] = text[k]
        /\ more[m] = c
    BY LenProperties, AppendProperties
  <1> HIDE DEF more
  <1>2. /\ FoldMeets(ScanFold(text), n, V, base, g) /\ g \in [1..n -> [V -> V]]
        /\ ScanOf(text) = ScanFold(text)[1..n] /\ base \in V
    BY ScanFolded
  <1>3. /\ FoldMeets(ScanFold(more), m, V, base, u) /\ u \in [1..m -> [V -> V]]
        /\ ScanOf(more) = ScanFold(more)[1..m]
    BY <1>1, ScanFolded
  <1>4. /\ \A k \in 1..n : u[k] = g[k]
        /\ \A v \in V : u[m][v] = Scanned(v, c)
    BY <1>1 DEF ScanSteps
  <1> HIDE DEF V, g, u, base
  <1>5. ScanFold(text)[1..n] \in V /\ ScanFold(more)[1..m] = u[m][ScanFold(text)[1..n]]
    <2> DEFINE h == ScanFold(text)
               l == ScanFold(more)
    <2>1. /\ n \in Nat /\ base \in V /\ StepsMore(u, m, g, n, V)
          /\ FoldMeets(h, n, V, base, g) /\ FoldMeets(l, m, V, base, u)
      BY <1>1, <1>2, <1>3, <1>4 DEF StepsMore
    <2> HIDE DEF n, m, h, l
    <2>2. TakesLast(l, m, h, n, V, u)
      BY <2>1, FoldSnoc
    <2> QED
      BY <2>2 DEF TakesLast, h, l
  <1>6. ScanOf(<<>>) = base
    <2>1. <<>> \in Seq(T) /\ Len(<<>>) = 0 /\ 1..0 = {}
      BY EmptySeq
    <2> DEFINE e == <<>>
    <2> HIDE DEF e
    <2>2. e \in Seq(T) /\ Len(e) = 0
      BY <2>1 DEF e
    <2>3. FoldMeets(ScanFold(e), Len(e), V, base, ScanSteps(e, V)) /\ ScanOf(e) = ScanFold(e)[1..Len(e)]
      BY <2>2, ScanFolded DEF V, base
    <2>4. ScanFold(e)[{}] = base
      BY <2>3 DEF FoldMeets
    <2> QED
      BY <2>1, <2>2, <2>3, <2>4 DEF e
  <1>7. ScanOf(more) = Scanned(ScanOf(text), c)
    BY <1>2, <1>3, <1>4, <1>5
  <1> QED
    BY <1>2, <1>5, <1>6, <1>7 DEF more, V, base

-----------------------------------------------------------------------------
(* The lines of a file *)

\* A text without a line break goes on with the last line.
LEMMA LineGrows ==
  ASSUME NEW T, Special \subseteq T, NEW s \in Seq(T), NEW t \in Seq(T \ {Newline})
  PROVE  LinesOf(s \o t) = GrownBy(LinesOf(s), t) /\ LinesOf(s) \in Texts(T)
  <1> DEFINE U == T \ {Newline}
             S == {r \in Seq(U) : LinesOf(s \o r) = GrownBy(LinesOf(s), r)}
  <1>1. LinesOf(s) \in Texts(T)
    <2> PICK c \in T : TRUE
      BY DEF Special
    <2> QED
      BY LinesAppend
  <1>2. <<>> \in S
    <2>1. <<>> \in Seq(U) /\ s \o <<>> = s
      BY EmptySeq, ConcatEmptySeq
    <2>2. GrownBy(LinesOf(s), <<>>) = LinesOf(s)
      BY <1>1, GrownTwice, EmptySeq
    <2> QED
      BY <2>1, <2>2
  <1>3. ASSUME NEW r \in Seq(U), NEW c \in U, r \in S PROVE Append(r, c) \in S
    <2>1. r \in Seq(T) /\ c \in T /\ c # Newline /\ Append(r, c) \in Seq(U)
      BY SeqMonotonic, AppendProperties
    <2>2. s \o Append(r, c) = Append(s \o r, c) /\ s \o r \in Seq(T)
      BY <2>1, ConcatAppend
    <2>3. LinesOf(Append(s \o r, c)) = Grown(LinesOf(s \o r), c)
      BY <2>1, <2>2, LinesAppend DEF LineRead
    <2>4. LinesOf(s \o r) = GrownBy(LinesOf(s), r) /\ GrownBy(LinesOf(s), r) \in Texts(T)
      BY <1>1, <1>3, <2>1, GrownByOK
    <2>5. Grown(LinesOf(s \o r), c) = GrownBy(GrownBy(LinesOf(s), r), <<c>>)
      BY <2>1, <2>4, GrownIs
    <2>6. <<c>> \in Seq(T) /\ r \o <<c>> = Append(r, c)
      BY <2>1, AppendIsConcat, OneChar
    <2>7. GrownBy(GrownBy(LinesOf(s), r), <<c>>) = GrownBy(LinesOf(s), r \o <<c>>)
      <3> DEFINE one == <<c>>
                 l == LinesOf(s)
      <3>1. one \in Seq(T) /\ l \in Texts(T)
        BY <1>1, <2>6
      <3> HIDE DEF one, l
      <3>2. GrownBy(GrownBy(l, r), one) = GrownBy(l, r \o one)
        BY <2>1, <3>1, GrownTwice
      <3> QED
        BY <3>2 DEF one, l
    <2> QED
      BY <2>1, <2>2, <2>3, <2>5, <2>6, <2>7
  <1>4. Seq(U) \subseteq S
    <2> HIDE DEF S, U
    <2> QED
      BY <1>2, <1>3, SeqSetInduction
  <1> QED
    BY <1>1, <1>4

\* The rows of a file, each with its line break.
Ended(rows) == [i \in 1..Len(rows) |-> rows[i] \o <<Newline>>]

\* One row more is one line more, with its line break.
LEMMA EndedAppend ==
  ASSUME NEW T, Special \subseteq T, NEW rows \in Seq(Seq(T)), NEW r \in Seq(T)
  PROVE  /\ Ended(Append(rows, r)) = Append(Ended(rows), Append(r, Newline))
         /\ Ended(rows) \in Seq(Seq(T))
         /\ Append(r, Newline) \in Seq(T)
  <1> DEFINE more == Append(rows, r)
             n == Len(rows)
             m == n + 1
             V == Seq(T)
             e == Ended(rows)
             f == Ended(more)
  <1>1. n \in Nat /\ \A i \in 1..n : rows[i] \in V
    BY LenProperties, ElementOfSeq
  <1>2. Newline \in T
    BY DEF Special
  <1>3. /\ Len(more) = m /\ more[m] = r /\ \A i \in 1..n : more[i] = rows[i]
    BY AppendProperties
  <1>4. \A t \in V : t \o <<Newline>> = Append(t, Newline) /\ Append(t, Newline) \in V
    BY <1>2, AppendIsConcat, AppendProperties
  <1>5. \A i \in 1..m : more[i] \in V
    BY <1>1, <1>3
  <1> HIDE DEF V, more
  <1>6. e = [i \in 1..n |-> Append(rows[i], Newline)]
    BY <1>1, <1>4 DEF Ended
  <1>7. f = [i \in 1..m |-> Append(more[i], Newline)]
    BY <1>3, <1>4, <1>5 DEF Ended
  <1>8. e \in [1..n -> V] /\ f \in [1..m -> V]
    BY <1>1, <1>4, <1>5, <1>6, <1>7
  <1>9. \A i \in 1..n : f[i] = e[i]
    <2> TAKE i \in 1..n
    <2>1. i \in 1..m
      BY <1>1
    <2> HIDE DEF m, e, f
    <2> QED
      BY <1>3, <1>6, <1>7, <2>1
  <1>10. f[m] = Append(r, Newline)
    <2>1. m \in 1..m
      BY <1>1
    <2> HIDE DEF m, f
    <2> QED
      BY <1>3, <1>7, <2>1
  <1>11. f = Append(e, f[m]) /\ e \in Seq(V)
    <2>1. m = n + 1
      OBVIOUS
    <2> HIDE DEF n, m, e, f
    <2> QED
      BY <1>1, <1>8, <1>9, <2>1, AppendedIs, FunctionIsSeq
  <1> QED
    BY <1>4, <1>10, <1>11 DEF V, more

\* A file with one row more.
LEMMA FileAppend ==
  ASSUME NEW T, Special \subseteq T, NEW rows \in Seq(Seq(T)), NEW r \in Seq(T)
  PROVE  /\ FileText(Append(rows, r)) = Append(FileText(rows) \o r, Newline)
         /\ FileText(rows) \in Seq(T)
         /\ FileText(<<>>) = <<>>
  <1> DEFINE l == Ended(rows)
             x == Append(r, Newline)
  <1>1. l \in Seq(Seq(T)) /\ x \in Seq(T) /\ Ended(Append(rows, r)) = Append(l, x)
    BY EndedAppend
  <1>2. FlattenSeq(Append(l, x)) = FlattenSeq(l) \o x /\ FlattenSeq(l) \in Seq(T)
    <2> HIDE DEF l, x
    <2> QED
      BY <1>1, FlattenAppend
  <1>3. FileText(rows) \in Seq(T) /\ FileText(Append(rows, r)) = FileText(rows) \o x
    BY <1>1, <1>2 DEF FileText, Ended
  <1>4. FileText(rows) \o Append(r, Newline) = Append(FileText(rows) \o r, Newline)
    BY <1>3, ConcatAppend DEF Special
  <1>5. FileText(<<>>) = <<>>
    <2>1. Ended(<<>>) = <<>>
      BY EmptySeq DEF Ended
    <2> QED
      BY <2>1, FlattenAppend, EmptySeq DEF FileText, Ended
  <1> QED
    BY <1>3, <1>4, <1>5

\* What is left open by a file is an empty line.
LEMMA FileOpen ==
  ASSUME NEW T, Special \subseteq T, NEW rows \in Seq(Seq(T))
  PROVE  LinesOf(FileText(rows)) \in Texts(T) /\ Last(LinesOf(FileText(rows))) = <<>>
  <1> DEFINE e == <<>>
  <1>0. e \in Seq(T) /\ Newline \in T
    BY EmptySeq DEF Special
  <1>1. CASE rows = <<>>
    <2>1. LinesOf(FileText(rows)) = <<e>> /\ LinesOf(FileText(rows)) \in Texts(T)
      BY <1>0, <1>1, FileAppend, LinesAppend
    <2>2. Last(<<e>>) = e
      <3> HIDE DEF e
      <3> QED
        BY <1>0, OneChar
    <2> QED
      BY <2>1, <2>2
  <1>2. CASE rows # <<>>
    <2>1. PICK first \in Seq(Seq(T)), r \in Seq(T) : rows = Append(first, r)
      BY <1>2, SequenceEmptyOrAppend
    <2> DEFINE s == FileText(first) \o r
    <2>2. s \in Seq(T) /\ FileText(rows) = Append(s, Newline)
      BY <2>1, FileAppend, ConcatProperties
    <2>3. LinesOf(s) \in Texts(T) /\ LinesOf(FileText(rows)) = Append(LinesOf(s), <<>>)
      BY <1>0, <2>2, LinesAppend DEF LineRead
    <2>4. Last(Append(LinesOf(s), e)) = e /\ Append(LinesOf(s), e) \in Texts(T)
      <3> DEFINE l == LinesOf(s)
      <3>1. l \in Seq(Seq(T))
        BY <2>3 DEF Texts
      <3> HIDE DEF e, l
      <3>2. Last(Append(l, e)) = e /\ Append(l, e) # <<>> /\ Append(l, e) \in Seq(Seq(T))
        BY <1>0, <3>1, FrontLast, AppendProperties
      <3> QED
        BY <3>2 DEF Texts, l
    <2> QED
      BY <2>3, <2>4
  <1> QED
    BY <1>1, <1>2

\* Rows without line breaks are the lines of their file.
LEMMA FileOfLines ==
  ASSUME NEW T, Special \subseteq T, NEW rows \in Seq(Seq(T \ {Newline}))
  PROVE  LinesOf(FileText(rows)) = Append(rows, <<>>)
  <1> DEFINE U == T \ {Newline}
             S == {rs \in Seq(Seq(U)) : LinesOf(FileText(rs)) = Append(rs, <<>>)}
  <1>0. Seq(U) \subseteq Seq(T) /\ Newline \in T
    BY SeqMonotonic DEF Special
  <1>1. <<>> \in S
    <2>1. FileText(<<>>) = <<>> /\ LinesOf(<<>>) = << <<>> >>
      BY <1>0, FileAppend, LinesAppend, EmptySeq
    <2>2. <<>> \in Seq(Seq(U)) /\ Append(<<>>, <<>>) = << <<>> >>
      BY EmptySeq
    <2> QED
      BY <2>1, <2>2
  <1>2. ASSUME NEW rs \in Seq(Seq(U)), NEW r \in Seq(U), rs \in S PROVE Append(rs, r) \in S
    <2>1. rs \in Seq(Seq(T)) /\ r \in Seq(T) /\ Append(rs, r) \in Seq(Seq(U))
      BY <1>0, SeqMonotonic, AppendProperties
    <2>2. FileText(Append(rs, r)) = Append(FileText(rs) \o r, Newline) /\ FileText(rs) \in Seq(T)
          /\ FileText(rs) \o r \in Seq(T)
      BY <2>1, FileAppend, ConcatProperties
    <2>3. LinesOf(FileText(Append(rs, r))) = Append(LinesOf(FileText(rs) \o r), <<>>)
      BY <1>0, <2>2, LinesAppend DEF LineRead
    <2>4. LinesOf(FileText(rs) \o r) = GrownBy(LinesOf(FileText(rs)), r)
      BY <2>2, LineGrows
    <2>5. GrownBy(Append(rs, <<>>), r) = Append(rs, r)
      BY <2>1, GrownAppended
    <2> QED
      BY <1>2, <2>1, <2>3, <2>4, <2>5
  <1>3. Seq(Seq(U)) \subseteq S
    <2> DEFINE V == Seq(U)
    <2>1. \A rs \in Seq(V), r \in V : rs \in S => Append(rs, r) \in S
      BY <1>2
    <2> HIDE DEF S, V
    <2>2. Seq(V) \subseteq S
      BY <1>1, <2>1, SeqSetInduction
    <2> QED
      BY <2>2 DEF V
  <1> QED
    BY <1>3

\* The lines of a text that a line break has ended.
EndedLines(text) == ToSet(Front(LinesOf(text)))

\* A line that has ended stays, whatever is behind it.
LEMMA LinesStay ==
  ASSUME NEW T, Special \subseteq T, NEW s \in Seq(T), NEW t \in Seq(T)
  PROVE  EndedLines(s) \subseteq EndedLines(s \o t)
  <1> DEFINE S == {r \in Seq(T) : EndedLines(s) \subseteq EndedLines(s \o r)}
  <1>1. <<>> \in S
    BY EmptySeq, ConcatEmptySeq
  <1>2. ASSUME NEW r \in Seq(T), NEW c \in T, r \in S PROVE Append(r, c) \in S
    <2> DEFINE l == LinesOf(s \o r)
    <2>1. s \o Append(r, c) = Append(s \o r, c) /\ s \o r \in Seq(T) /\ Append(r, c) \in Seq(T)
      BY ConcatAppend, AppendProperties
    <2>2. LinesOf(s \o Append(r, c)) = LineRead(l, c) /\ l \in Texts(T)
      BY <2>1, LinesAppend
    <2>3. ToSet(Front(l)) \subseteq ToSet(Front(LineRead(l, c)))
      <3> HIDE DEF l
      <3>1. CASE c = Newline
        <4> DEFINE e == <<>>
        <4>1. l \in Seq(Seq(T)) /\ l # <<>> /\ e \in Seq(T)
          BY <2>2, EmptySeq DEF Texts
        <4>2. LineRead(l, c) = Append(l, e)
          BY <3>1 DEF LineRead
        <4> HIDE DEF e
        <4>3. Front(Append(l, e)) = l
          BY <4>1, FrontLast
        <4>5. ToSet(Front(l)) \subseteq ToSet(l)
          BY <4>1, FrontInside
        <4> QED
          BY <4>2, <4>3, <4>5
      <3>2. CASE c # Newline
        <4>1. LineRead(l, c) = GrownBy(l, <<c>>)
          BY <2>2, <3>2, GrownIs DEF LineRead
        <4>2. Front(GrownBy(l, <<c>>)) = Front(l)
          BY <2>2, OneChar, GrownByOK
        <4> QED
          BY <4>1, <4>2
      <3> QED
        BY <3>1, <3>2
    <2> QED
      BY <1>2, <2>1, <2>2, <2>3 DEF EndedLines
  <1>3. Seq(T) \subseteq S
    <2> HIDE DEF S
    <2> QED
      BY <1>1, <1>2, SeqSetInduction
  <1> QED
    BY <1>3

\* A row that holds a line break ends a line of its file there.
LEMMA RowBreaks ==
  ASSUME NEW T, Special \subseteq T, NEW rows \in Seq(Seq(T)), NEW a \in Seq(T \ {Newline}),
         NEW b \in Seq(T), NEW i \in 1..Len(rows), rows[i] = Append(a, Newline) \o b
  PROVE  a \in EndedLines(FileText(rows))
  <1> DEFINE Breaks(rs) == \E j \in 1..Len(rs) : rs[j] = Append(a, Newline) \o b
             S == {rs \in Seq(Seq(T)) : Breaks(rs) => a \in EndedLines(FileText(rs))}
  <1>0. a \in Seq(T) /\ Newline \in T /\ Append(a, Newline) \in Seq(T)
    BY SeqMonotonic, AppendProperties DEF Special
  <1>1. <<>> \in S
    BY EmptySeq
  <1>4. ASSUME NEW x \in Seq(T), NEW y \in Seq(T)
        PROVE  x \o Append(y, Newline) = Append(x \o y, Newline) /\ Append(y, Newline) \in Seq(T)
    <2> DEFINE c == Newline
    <2>1. c \in T
      BY <1>0
    <2> HIDE DEF c
    <2>2. x \o Append(y, c) = Append(x \o y, c) /\ x \o y \in Seq(T)
      BY <2>1, ConcatAppend
    <2>3. Append(y, c) \in Seq(T)
      BY <2>1, AppendProperties
    <2> QED
      BY <2>2, <2>3 DEF c
  <1>2. ASSUME NEW rs \in Seq(Seq(T)), NEW r \in Seq(T), rs \in S PROVE Append(rs, r) \in S
    <2> DEFINE more == Append(rs, r)
               f == FileText(rs)
    <2>1. /\ more \in Seq(Seq(T)) /\ Len(more) = Len(rs) + 1 /\ Len(rs) \in Nat
          /\ \A j \in 1..Len(rs) : more[j] = rs[j]
          /\ more[Len(rs) + 1] = r
      BY AppendProperties, LenProperties
    <2>2. FileText(more) = Append(f \o r, Newline) /\ f \in Seq(T) /\ f \o r \in Seq(T)
      BY FileAppend, ConcatProperties
    <2>3. Append(f \o r, Newline) = f \o Append(r, Newline) /\ Append(r, Newline) \in Seq(T)
      BY <1>4, <2>2
    <2>4. ASSUME Breaks(rs) PROVE a \in EndedLines(FileText(more))
      <3>1. a \in EndedLines(f)
        BY <1>2, <2>4
      <3>2. EndedLines(f) \subseteq EndedLines(f \o Append(r, Newline))
        BY <2>2, <2>3, LinesStay
      <3> QED
        BY <2>2, <2>3, <3>1, <3>2
    <2>5. ASSUME r = Append(a, Newline) \o b PROVE a \in EndedLines(FileText(more))
      <3> DEFINE s == f \o a
                 u == Append(b, Newline)
                 l == LinesOf(f)
                 e == <<>>
      <3>1. s \in Seq(T) /\ u \in Seq(T) /\ e \in Seq(T)
        BY <1>0, <2>2, ConcatProperties, AppendProperties, EmptySeq
      <3>2. FileText(more) = Append(s, Newline) \o u
        <4> DEFINE q == Append(a, Newline)
        <4>1. q \in Seq(T) /\ f \in Seq(T) /\ Newline \in T
          BY <1>0, <2>2
        <4>2. Append(s, Newline) = f \o q
          BY <1>0, <1>4, <2>2
        <4>3. FileText(more) = Append(f \o (q \o b), Newline)
          BY <2>2, <2>5
        <4> HIDE DEF q, f, s, S, Breaks, more, l, e
        <4>4. EndsLast(f, q, b, Newline)
          BY <4>1, JoinedEnd
        <4> QED
          BY <4>2, <4>3, <4>4 DEF EndsLast, u
      <3>3. l \in Texts(T) /\ Last(l) = <<>>
        BY FileOpen
      <3>4. LinesOf(s) = GrownBy(l, a)
        BY <2>2, LineGrows
      <3>5. GrownBy(l, a) \in Texts(T) /\ Last(GrownBy(l, a)) = a
        <4>1. <<>> \o a = a
          BY <1>0, ConcatEmptySeq
        <4> HIDE DEF l
        <4> QED
          BY <1>0, <3>3, <4>1, GrownByOK
      <3> DEFINE k == LinesOf(s)
      <3>6. LinesOf(Append(s, Newline)) = Append(k, e) /\ k \in Seq(Seq(T)) /\ k # <<>> /\ Last(k) = a
        BY <1>0, <3>1, <3>4, <3>5, LinesAppend DEF LineRead, Texts
      <3>7. Front(Append(k, e)) = k
        <4> HIDE DEF k, e
        <4> QED
          BY <3>1, <3>6, FrontLast
      <3>8. a \in ToSet(k)
        <4> HIDE DEF k
        <4>1. Len(k) \in DOMAIN k
          BY <3>6, LenProperties, EmptySeq
        <4> QED
          BY <3>6, <4>1 DEF ToSet, Last
      <3>9. a \in EndedLines(Append(s, Newline))
        BY <3>6, <3>7, <3>8 DEF EndedLines
      <3>10. EndedLines(Append(s, Newline)) \subseteq EndedLines(Append(s, Newline) \o u)
        <4> DEFINE q == Append(s, Newline)
        <4>1. q \in Seq(T)
          BY <1>0, <3>1, AppendProperties
        <4> HIDE DEF q, u
        <4>2. EndedLines(q) \subseteq EndedLines(q \o u)
          BY <3>1, <4>1, LinesStay
        <4> QED
          BY <4>2 DEF q
      <3> QED
        BY <3>2, <3>9, <3>10
    <2>6. Breaks(more) => Breaks(rs) \/ r = Append(a, Newline) \o b
      <3> HIDE DEF more
      <3>1. \A j \in 1..Len(more) : j \in 1..Len(rs) \/ j = Len(rs) + 1
        BY <2>1
      <3> QED
        BY <2>1, <3>1
    <2> HIDE DEF Breaks, more
    <2> QED
      BY <2>1, <2>4, <2>5, <2>6 DEF more
  <1>3. Seq(Seq(T)) \subseteq S
    <2> DEFINE V == Seq(T)
    <2>1. \A rs \in Seq(V), r \in V : rs \in S => Append(rs, r) \in S
      BY <1>2
    <2> HIDE DEF S, V
    <2>2. Seq(V) \subseteq S
      BY <1>1, <2>1, SeqSetInduction
    <2> QED
      BY <2>2 DEF V
  <1> QED
    BY <1>3

-----------------------------------------------------------------------------
(* The lines that are not empty *)

\* The numbers of the lines that are not empty.
Full(lines) == {i \in DOMAIN lines : lines[i] # <<>>}

\* Those lines, as a fold.
LEMMA FileLinesIs ==
  ASSUME NEW T, NEW text, LinesOf(text) \in Seq(T)
  PROVE  FileLines(text) = KeptFold(LinesOf(text), Full(LinesOf(text)))[1..Len(LinesOf(text))]
  <1> DEFINE lines == LinesOf(text)
             Equation(iter) ==
               [s \in SUBSET (DOMAIN lines) |->
                  IF s = {} THEN <<>>
                  ELSE LET x == Max(s)
                       IN  IF lines[x] # <<>> THEN Append(iter[s \ {x}], lines[x])
                           ELSE iter[s \ {x}]]
             fold == CHOOSE iter : iter = Equation(iter)
  <1>1. FileLines(text) = fold[DOMAIN lines]
    BY DEF FileLines, LinesOf, KeptOf, FoldLeft, MapThenFoldSet
  <1> HIDE DEF lines
  <1>2. DOMAIN lines = 1..Len(lines) /\ Len(lines) \in Nat
    BY LenProperties DEF lines
  <1>3. \A s \in SUBSET (1..Len(lines)) : s # {} => (lines[Max(s)] # <<>> <=> Max(s) \in Full(lines))
    BY <1>2, MaxOfInterval DEF Full
  <1>4. ASSUME NEW iter PROVE Equation(iter) = KeptEquation(lines, Full(lines), iter)
    BY <1>2, <1>3 DEF KeptEquation
  <1> HIDE DEF Equation
  <1>5. fold = KeptFold(lines, Full(lines))
    BY <1>4 DEF KeptFold
  <1> QED
    BY <1>1, <1>2, <1>5 DEF lines

\* Rows that are not empty are all kept.
LEMMA RowsKept ==
  ASSUME NEW T, NEW text, NEW rows \in Seq(Seq(T)), \A i \in 1..Len(rows) : rows[i] # <<>>,
         LinesOf(text) = Append(rows, <<>>)
  PROVE  FileLines(text) = rows
  <1> DEFINE V == Seq(T)
             e == <<>>
             lines == Append(rows, e)
             n == Len(rows)
             m == n + 1
             K == Full(lines)
  <1>1. e \in V /\ n \in Nat /\ rows \in [1..n -> V]
    BY EmptySeq, LenProperties
  <1>2. /\ lines \in Seq(V) /\ Len(lines) = m /\ lines[m] = e
        /\ \A i \in 1..n : lines[i] = rows[i]
    <2> HIDE DEF e
    <2> QED
      BY <1>1, AppendProperties
  <1>3. m \notin K /\ \A i \in 1..n : i \in K
    <2>1. DOMAIN lines = 1..m
      BY <1>2, LenProperties
    <2> HIDE DEF lines
    <2> QED
      BY <1>1, <1>2, <2>1 DEF Full
  <1> HIDE DEF lines, K, V
  <1>4. PICK f \in [0..m -> Seq(V)] : Keeps(f, lines, K) /\ KeptFold(lines, K)[1..m] = f[m]
    <2>1. PICK f \in [0..Len(lines) -> Seq(V)] :
             Keeps(f, lines, K) /\ KeptFold(lines, K)[1..Len(lines)] = f[Len(lines)]
      <3>1. lines \in Seq(V)
        BY <1>2
      <3> QED
        BY <3>1, KeptSteps
    <2> QED
      BY <1>2, <2>1
  <1> DEFINE S == {k \in Nat : k <= n => Len(f[k]) = k /\ \A i \in 1..k : f[k][i] = rows[i]}
  <1>5. 0 \in S
    BY <1>4, EmptySeq DEF Keeps
  <1>6. ASSUME NEW k \in Nat, k \in S PROVE k + 1 \in S
    <2> SUFFICES ASSUME k + 1 <= n
                 PROVE  Len(f[k + 1]) = k + 1 /\ \A i \in 1..k + 1 : f[k + 1][i] = rows[i]
      OBVIOUS
    <2> DEFINE p == f[k]
               x == rows[k + 1]
    <2>1. k + 1 \in 1..n /\ k + 1 \in 1..m /\ (k + 1) - 1 = k /\ k \in 0..m
      BY <1>1
    <2>2. p \in Seq(V) /\ x \in V /\ Len(p) = k /\ \A i \in 1..k : p[i] = rows[i]
      BY <1>1, <1>4, <1>6, <2>1
    <2>3. f[k + 1] = Append(p, x)
      BY <1>2, <1>3, <1>4, <2>1 DEF Keeps
    <2> HIDE DEF p, x
    <2>4. Len(Append(p, x)) = k + 1 /\ (\A i \in 1..k : Append(p, x)[i] = p[i]) /\ Append(p, x)[k + 1] = x
      BY <2>2, AppendProperties
    <2>5. \A i \in 1..k + 1 : i \in 1..k \/ i = k + 1
      OBVIOUS
    <2> DEFINE pp == Append(p, x)
    <2> HIDE DEF pp
    <2>6. Len(pp) = k + 1 /\ \A i \in 1..k + 1 : pp[i] = rows[i]
      BY <2>2, <2>4, <2>5 DEF pp, x
    <2> QED
      BY <2>3, <2>6 DEF pp
  <1>7. Len(f[n]) = n /\ \A i \in 1..n : f[n][i] = rows[i]
    <2> HIDE DEF S
    <2>1. n \in S
      BY <1>1, <1>5, <1>6, NatSetInduction
    <2> QED
      BY <2>1 DEF S
  <1>8. f[n] = rows
    <2>1. f[n] \in Seq(V) /\ rows \in Seq(V)
      BY <1>1, <1>4 DEF V
    <2> QED
      BY <1>7, <2>1, SeqEqual
  <1>9. f[m] = f[n]
    <2>1. m \in 1..m /\ m - 1 = n
      BY <1>1
    <2> QED
      BY <1>2, <1>3, <1>4, <2>1 DEF Keeps
  <1>10. FileLines(text) = KeptFold(lines, K)[1..m]
    <2>1. LinesOf(text) = lines
      BY DEF lines
    <2> QED
      BY <1>2, <2>1, FileLinesIs DEF K
  <1> QED
    BY <1>4, <1>8, <1>9, <1>10

\* A line that is not empty is kept.
LEMMA LineKept ==
  ASSUME NEW T, NEW text, LinesOf(text) \in Seq(Seq(T)),
         NEW a, a # <<>>, a \in ToSet(LinesOf(text))
  PROVE  FileLines(text) \in Seq(Seq(T)) /\ a \in ToSet(FileLines(text))
  <1> DEFINE V == Seq(T)
             lines == LinesOf(text)
             n == Len(lines)
             K == Full(lines)
  <1>1. n \in Nat /\ DOMAIN lines = 1..n /\ \A i \in 1..n : lines[i] \in V
    BY LenProperties, ElementOfSeq
  <1>2. lines \in Seq(V) /\ FileLines(text) = KeptFold(lines, K)[1..n]
    BY FileLinesIs
  <1>3. PICK j \in 1..n : lines[j] = a
    BY <1>1 DEF ToSet
  <1>4. j \in K
    BY <1>1, <1>3 DEF Full
  <1> HIDE DEF lines, K, V
  <1>5. PICK f \in [0..n -> Seq(V)] : Keeps(f, lines, K) /\ KeptFold(lines, K)[1..n] = f[n]
    BY <1>2, KeptSteps
  <1> DEFINE Holds(q) == \E i \in 1..Len(q) : q[i] = a
             S == {k \in Nat : j <= k /\ k <= n => Holds(f[k])}
  <1>6. 0 \in S
    BY <1>1
  <1>7. ASSUME NEW k \in Nat, k \in S PROVE k + 1 \in S
    <2> HIDE DEF Holds
    <2> SUFFICES ASSUME j <= k + 1, k + 1 <= n PROVE Holds(f[k + 1])
      OBVIOUS
    <2> USE DEF Holds
    <2> DEFINE p == f[k]
               x == lines[k + 1]
    <2>1. k + 1 \in 1..n /\ (k + 1) - 1 = k /\ k \in 0..n
      BY <1>1
    <2>2. p \in Seq(V) /\ x \in V
      BY <1>1, <1>5, <2>1 DEF V
    <2>3. f[k + 1] = IF k + 1 \in K THEN Append(p, x) ELSE p
      BY <1>5, <2>1 DEF Keeps
    <2>4. CASE j = k + 1
      <3>1. f[k + 1] = Append(p, x) /\ x = a
        BY <1>3, <1>4, <2>3, <2>4
      <3> HIDE DEF p, x
      <3>2. Len(p) \in Nat /\ Len(Append(p, x)) = Len(p) + 1 /\ Append(p, x)[Len(p) + 1] = x
        BY <2>2, AppendProperties, LenProperties
      <3> DEFINE pp == Append(p, x)
                 l == Len(p) + 1
      <3>3. l \in 1..Len(pp) /\ pp[l] = a
        BY <3>1, <3>2
      <3> HIDE DEF pp, l
      <3> QED
        BY <3>1, <3>3 DEF pp
    <2>5. CASE j # k + 1
      <3>1. j <= k /\ k <= n
        BY <2>1, <2>5
      <3>2. PICK i \in 1..Len(p) : p[i] = a
        BY <1>7, <3>1
      <3>3. CASE k + 1 \notin K
        BY <2>3, <3>2, <3>3
      <3>4. CASE k + 1 \in K
        <4> HIDE DEF p, x
        <4>1. /\ Len(p) \in Nat /\ Len(Append(p, x)) = Len(p) + 1
              /\ \A l \in 1..Len(p) : Append(p, x)[l] = p[l]
          BY <2>2, AppendProperties, LenProperties
        <4> DEFINE pp == Append(p, x)
        <4>2. i \in 1..Len(pp) /\ pp[i] = a
          BY <3>2, <4>1
        <4>3. f[k + 1] = pp
          BY <2>3, <3>4
        <4> HIDE DEF pp
        <4> QED
          BY <4>2, <4>3
      <3> QED
        BY <3>3, <3>4
    <2> QED
      BY <2>4, <2>5
  <1>8. Holds(f[n]) /\ f[n] \in Seq(V)
    <2> HIDE DEF S
    <2>1. n \in S
      BY <1>1, <1>6, <1>7, NatSetInduction
    <2> HIDE DEF Holds
    <2>2. j <= n /\ n <= n /\ n \in 0..n
      BY <1>1
    <2> QED
      BY <1>5, <2>1, <2>2 DEF S
  <1>9. DOMAIN f[n] = 1..Len(f[n])
    BY <1>8, LenProperties
  <1> QED
    BY <1>2, <1>5, <1>8, <1>9 DEF ToSet, V

-----------------------------------------------------------------------------
(* The columns of a row *)

\* What is appended to a text is quoted if it has to be: each quote of it twice.
Doubled(text) ==
  FlattenSeq([i \in 1..Len(text) |-> IF text[i] = Quote THEN <<Quote, Quote>> ELSE <<text[i]>>])

\* One character of it.
Twice(c) == IF c = Quote THEN <<Quote, Quote>> ELSE <<c>>
Pieces(text) == [i \in 1..Len(text) |-> Twice(text[i])]

\* The state of the scan after one text more in the last column.
Into(at, text, mode) == [columns |-> GrownBy(at.columns, text), mode |-> mode]

\* One character more is one piece more.
LEMMA PiecesAppend ==
  ASSUME NEW T, Quote \in T, NEW text \in Seq(T), NEW c \in T
  PROVE  /\ Pieces(Append(text, c)) = Append(Pieces(text), Twice(c))
         /\ Pieces(text) \in Seq(Seq(T))
         /\ Twice(c) \in Seq(T)
  <1> DEFINE more == Append(text, c)
             n == Len(text)
             m == n + 1
             V == Seq(T)
             e == Pieces(text)
             f == Pieces(more)
  <1>1. n \in Nat /\ \A i \in 1..n : text[i] \in T
    BY LenProperties, ElementOfSeq
  <1>3. /\ Len(more) = m /\ more[m] = c /\ \A i \in 1..n : more[i] = text[i]
    BY AppendProperties
  <1>4. \A x \in T : Twice(x) \in V
    BY DEF Twice
  <1>5. \A i \in 1..m : more[i] \in T
    BY <1>1, <1>3
  <1> HIDE DEF V, more
  <1>6. e = [i \in 1..n |-> Twice(text[i])]
    BY DEF Pieces
  <1>7. f = [i \in 1..m |-> Twice(more[i])]
    BY <1>3 DEF Pieces
  <1>8. e \in [1..n -> V] /\ f \in [1..m -> V]
    BY <1>1, <1>4, <1>5, <1>6, <1>7
  <1>9. \A i \in 1..n : f[i] = e[i]
    <2> TAKE i \in 1..n
    <2>1. i \in 1..m
      BY <1>1
    <2> HIDE DEF m, e, f
    <2> QED
      BY <1>3, <1>6, <1>7, <2>1
  <1>10. f[m] = Twice(c)
    <2>1. m \in 1..m
      BY <1>1
    <2> HIDE DEF m, f
    <2> QED
      BY <1>3, <1>7, <2>1
  <1>11. f = Append(e, f[m]) /\ e \in Seq(V)
    <2>1. m = n + 1
      OBVIOUS
    <2> HIDE DEF n, m, e, f
    <2> QED
      BY <1>1, <1>8, <1>9, <2>1, AppendedIs, FunctionIsSeq
  <1> QED
    BY <1>4, <1>10, <1>11 DEF V, more

\* Inside quotes every character is itself when each quote comes twice.
LEMMA DoubledAppend ==
  ASSUME NEW T, Quote \in T, NEW text \in Seq(T), NEW c \in T
  PROVE  /\ Doubled(Append(text, c)) = Doubled(text) \o Twice(c)
         /\ Doubled(text) \in Seq(T)
         /\ Doubled(<<>>) = <<>>
  <1> DEFINE l == Pieces(text)
             x == Twice(c)
  <1>1. l \in Seq(Seq(T)) /\ x \in Seq(T) /\ Pieces(Append(text, c)) = Append(l, x)
    BY PiecesAppend
  <1>2. FlattenSeq(Append(l, x)) = FlattenSeq(l) \o x /\ FlattenSeq(l) \in Seq(T)
    <2> HIDE DEF l, x
    <2> QED
      BY <1>1, FlattenAppend
  <1>3. \A t : Doubled(t) = FlattenSeq(Pieces(t))
    BY DEF Doubled, Pieces, Twice
  <1>4. Doubled(<<>>) = <<>>
    <2>1. Pieces(<<>>) = <<>>
      BY EmptySeq DEF Pieces
    <2> QED
      BY <1>3, <2>1, FlattenAppend, EmptySeq
  <1> QED
    BY <1>1, <1>2, <1>3, <1>4

\* One character that is not special goes on with the column it is in.
LEMMA PlainChar ==
  ASSUME NEW T, Special \subseteq T, NEW s \in Seq(T), NEW c \in T, c # Quote,
         NEW mode \in {"outside", "inside"},
         ScanOf(s).mode = mode, c # Comma \/ mode = "inside"
  PROVE  ScanOf(Append(s, c)) = Into(ScanOf(s), <<c>>, mode)
  <1>1. ScanOf(Append(s, c)) = Scanned(ScanOf(s), c) /\ ScanOf(s) \in Scans(T)
    BY ScanAppend
  <1>2. ScanOf(s).columns \in Texts(T)
    BY <1>1 DEF Scans
  <1>3. Grown(ScanOf(s).columns, c) = GrownBy(ScanOf(s).columns, <<c>>)
    BY <1>2, GrownIs
  <1> QED
    BY <1>1, <1>3 DEF Scanned, Into

\* Two quotes inside quotes are one character.
LEMMA QuotePair ==
  ASSUME NEW T, Special \subseteq T, NEW s \in Seq(T), ScanOf(s).mode = "inside"
  PROVE  ScanOf(Append(Append(s, Quote), Quote)) = Into(ScanOf(s), <<Quote>>, "inside")
  <1>0. Quote \in T
    BY DEF Special
  <1> DEFINE r == Append(s, Quote)
  <1>1. r \in Seq(T) /\ ScanOf(r) = Scanned(ScanOf(s), Quote) /\ ScanOf(s) \in Scans(T)
    BY <1>0, ScanAppend, AppendProperties
  <1>2. ScanOf(r) = [columns |-> ScanOf(s).columns, mode |-> "quote"]
    BY <1>1 DEF Scanned
  <1>3. ScanOf(Append(r, Quote)) = Scanned(ScanOf(r), Quote)
    <2> HIDE DEF r
    <2> QED
      BY <1>0, <1>1, ScanAppend
  <1>4. ScanOf(s).columns \in Texts(T)
    BY <1>1 DEF Scans
  <1>5. Grown(ScanOf(s).columns, Quote) = GrownBy(ScanOf(s).columns, <<Quote>>)
    BY <1>0, <1>4, GrownIs
  <1> QED
    BY <1>2, <1>3, <1>5 DEF Scanned, Into

\* One character more in the last text.
Grows(l, r, one) == GrownBy(GrownBy(l, r), one) = GrownBy(l, r \o one)

\* Growing by two texts is growing by both at once.
LEMMA GrowsOn ==
  ASSUME NEW T, NEW l \in Texts(T), NEW r \in Seq(T), NEW one \in Seq(T)
  PROVE  Grows(l, r, one)
  BY GrownTwice DEF Grows

\* One character more in the last column.
IntoOne(at, r, c, mode) == Into(Into(at, r, mode), <<c>>, mode) = Into(at, Append(r, c), mode)

\* Into the last column goes one character more.
LEMMA IntoAppend ==
  ASSUME NEW T, NEW at, at.columns \in Texts(T), NEW r \in Seq(T), NEW c \in T, NEW mode
  PROVE  IntoOne(at, r, c, mode)
  <1> DEFINE one == <<c>>
             l == at.columns
             u == Append(r, c)
  <1>1. one \in Seq(T) /\ l \in Texts(T) /\ r \o one = u
    BY AppendIsConcat, OneChar
  <1> HIDE DEF one, l, u
  <1>2. Grows(l, r, one)
    BY <1>1, GrowsOn
  <1>3. GrownBy(GrownBy(l, r), one) = GrownBy(l, u)
    BY <1>1, <1>2 DEF Grows
  <1>4. Into(Into(at, r, mode), one, mode) = [columns |-> GrownBy(GrownBy(l, r), one), mode |-> mode]
    BY DEF Into, l
  <1>5. Into(at, u, mode) = [columns |-> GrownBy(l, u), mode |-> mode]
    BY DEF Into, l
  <1> QED
    BY <1>3, <1>4, <1>5 DEF one, u, IntoOne

\* A text that needs no quotes is read into the column it is in.
LEMMA PlainText ==
  ASSUME NEW T, Special \subseteq T, NEW s \in Seq(T), ScanOf(s).mode = "outside",
         NEW t \in Seq(T \ Special)
  PROVE  ScanOf(s \o t) = Into(ScanOf(s), t, "outside")
  <1> DEFINE U == T \ Special
             at == ScanOf(s)
             S == {r \in Seq(U) : ScanOf(s \o r) = Into(at, r, "outside")}
  <1>1. at \in Scans(T) /\ at.columns \in Texts(T)
    <2> PICK c \in T : TRUE
      BY DEF Special
    <2> QED
      BY ScanAppend DEF Scans
  <1>2. <<>> \in S
    <2>1. <<>> \in Seq(U) /\ s \o <<>> = s
      BY EmptySeq, ConcatEmptySeq
    <2>2. GrownBy(at.columns, <<>>) = at.columns
      BY <1>1, GrownTwice, EmptySeq
    <2> QED
      BY <1>1, <2>1, <2>2 DEF Into, Scans
  <1>3. ASSUME NEW r \in Seq(U), NEW c \in U, r \in S PROVE Append(r, c) \in S
    <2>1. r \in Seq(T) /\ c \in T /\ c # Quote /\ c # Comma /\ Append(r, c) \in Seq(U)
      BY SeqMonotonic, AppendProperties DEF Special
    <2>2. s \o Append(r, c) = Append(s \o r, c) /\ s \o r \in Seq(T)
      BY <2>1, ConcatAppend
    <2>3. ScanOf(s \o r) = Into(at, r, "outside") /\ ScanOf(s \o r).mode = "outside"
      BY <1>3 DEF Into
    <2>4. ScanOf(Append(s \o r, c)) = Into(ScanOf(s \o r), <<c>>, "outside")
      BY <2>1, <2>2, <2>3, PlainChar
    <2>5. Into(Into(at, r, "outside"), <<c>>, "outside") = Into(at, Append(r, c), "outside")
      <3> DEFINE mode == "outside"
      <3>1. at.columns \in Texts(T) /\ r \in Seq(T) /\ c \in T
        BY <1>1, <2>1
      <3> HIDE DEF at, mode, S, U
      <3>2. IntoOne(at, r, c, mode)
        BY <3>1, IntoAppend
      <3> QED
        BY <3>2 DEF mode, IntoOne
    <2> HIDE DEF at
    <2> QED
      BY <2>1, <2>2, <2>3, <2>4, <2>5
  <1>4. Seq(U) \subseteq S
    <2> HIDE DEF S, U
    <2> QED
      BY <1>2, <1>3, SeqSetInduction
  <1> QED
    BY <1>4

\* Any text is read inside quotes when each quote of it comes twice.
LEMMA QuotedText ==
  ASSUME NEW T, Special \subseteq T, NEW s \in Seq(T), ScanOf(s).mode = "inside",
         NEW t \in Seq(T)
  PROVE  ScanOf(s \o Doubled(t)) = Into(ScanOf(s), t, "inside")
  <1> DEFINE at == ScanOf(s)
             S == {r \in Seq(T) : ScanOf(s \o Doubled(r)) = Into(at, r, "inside")}
  <1>0. Quote \in T
    BY DEF Special
  <1>1. at \in Scans(T) /\ at.columns \in Texts(T)
    BY <1>0, ScanAppend DEF Scans
  <1>2. <<>> \in S
    <2>1. <<>> \in Seq(T) /\ s \o <<>> = s /\ Doubled(<<>>) = <<>>
      BY <1>0, EmptySeq, ConcatEmptySeq, DoubledAppend
    <2>2. GrownBy(at.columns, <<>>) = at.columns
      BY <1>1, GrownTwice, EmptySeq
    <2> QED
      BY <1>1, <2>1, <2>2 DEF Into, Scans
  <1>3. ASSUME NEW r \in Seq(T), NEW c \in T, r \in S PROVE Append(r, c) \in S
    <2> DEFINE d == Doubled(r)
               q == s \o d
    <2>1. d \in Seq(T) /\ Doubled(Append(r, c)) = d \o Twice(c) /\ q \in Seq(T)
          /\ Append(r, c) \in Seq(T)
      BY <1>0, DoubledAppend, ConcatProperties, AppendProperties
    <2>2. ScanOf(q) = Into(at, r, "inside") /\ ScanOf(q).mode = "inside"
      BY <1>3 DEF Into
    <2>3. ScanOf(s \o (d \o Twice(c))) = Into(ScanOf(q), <<c>>, "inside")
      <3> HIDE DEF d
      <3>1. CASE c = Quote
        <4>1. Twice(c) = <<Quote, Quote>>
          BY <3>1 DEF Twice
        <4>2. TwoMore(s, d, Quote)
          BY <1>0, <2>1, TwoBehind
        <4>3. s \o (d \o <<Quote, Quote>>) = Append(Append(q, Quote), Quote)
          BY <4>2 DEF TwoMore
        <4> HIDE DEF q
        <4>4. ScanOf(Append(Append(q, Quote), Quote)) = Into(ScanOf(q), <<Quote>>, "inside")
          BY <2>1, <2>2, QuotePair
        <4> QED
          BY <3>1, <4>1, <4>3, <4>4
      <3>2. CASE c # Quote
        <4>1. Twice(c) = <<c>>
          BY <3>2 DEF Twice
        <4>2. d \o <<c>> = Append(d, c) /\ s \o Append(d, c) = Append(q, c)
          BY <2>1, AppendIsConcat, ConcatAppend
        <4> HIDE DEF q
        <4>3. ScanOf(Append(q, c)) = Into(ScanOf(q), <<c>>, "inside")
          BY <2>1, <2>2, <3>2, PlainChar
        <4> QED
          BY <4>1, <4>2, <4>3
      <3> QED
        BY <3>1, <3>2
    <2>4. Into(Into(at, r, "inside"), <<c>>, "inside") = Into(at, Append(r, c), "inside")
      <3> DEFINE mode == "inside"
      <3> HIDE DEF at, mode
      <3>1. IntoOne(at, r, c, mode)
        BY <1>1, IntoAppend
      <3> QED
        BY <3>1 DEF mode, IntoOne
    <2> HIDE DEF at, d, q
    <2> QED
      BY <2>1, <2>2, <2>3, <2>4
  <1>4. Seq(T) \subseteq S
    <2> HIDE DEF S
    <2> QED
      BY <1>2, <1>3, SeqSetInduction
  <1> QED
    BY <1>4

-----------------------------------------------------------------------------
(* Escaped texts *)

\* The texts that csv_escape leaves as they are, and what it makes of others.
LEMMA EscapeIs ==
  ASSUME NEW T, NEW t \in Seq(T)
  PROVE  \/ Escape(t) = t /\ t \in Seq(T \ Special)
         \/ Escape(t) = (<<Quote>> \o Doubled(t)) \o <<Quote>>
  <1>1. CASE ToSet(t) \cap Special = {}
    <2>1. Escape(t) = t
      BY <1>1 DEF Escape
    <2>2. t \in [1..Len(t) -> T] /\ Len(t) \in Nat
      BY LenProperties
    <2>3. \A i \in 1..Len(t) : t[i] \in ToSet(t)
      BY <2>2 DEF ToSet
    <2>4. \A i \in 1..Len(t) : t[i] \in T \ Special
      BY <1>1, <2>2, <2>3
    <2>5. t \in Seq(T \ Special)
      <3> DEFINE U == T \ Special
                 n == Len(t)
      <3>1. t \in [1..n -> U] /\ n \in Nat
        BY <2>2, <2>4
      <3> HIDE DEF U, n
      <3>2. t \in Seq(U)
        BY <3>1, FunctionIsSeq
      <3> QED
        BY <3>2 DEF U
    <2> QED
      BY <2>1, <2>5
  <1>2. CASE ToSet(t) \cap Special # {}
    BY <1>2 DEF Escape, Doubled
  <1> QED
    BY <1>1, <1>2

\* csv_escape adds no character but quotes.
LEMMA EscapeTyped ==
  ASSUME NEW T, Quote \in T, NEW t \in Seq(T)
  PROVE  Escape(t) \in Seq(T)
  <1> DEFINE d == Doubled(t)
             one == <<Quote>>
             od == one \o d
  <1>1. d \in Seq(T) /\ one \in Seq(T)
    BY DoubledAppend, OneChar
  <1>2. od \in Seq(T)
    <2> HIDE DEF one, d
    <2> QED
      BY <1>1, ConcatProperties
  <1>3. od \o one \in Seq(T)
    <2> HIDE DEF one, od
    <2> QED
      BY <1>1, <1>2, ConcatProperties
  <1> QED
    BY <1>3, EscapeIs

\* A text that was escaped is read into the column it is in, and no quotes
\* stay open.
ReadsInto(s, t) ==
  /\ ScanOf(s \o Escape(t)).columns = GrownBy(ScanOf(s).columns, t)
  /\ ScanOf(s \o Escape(t)).mode \in {"outside", "quote"}

\* What csv_escape makes of a text does so, for it doubles a quote inside.
LEMMA EscapeScan ==
  ASSUME NEW T, Special \subseteq T, NEW s \in Seq(T), ScanOf(s).mode = "outside",
         NEW t \in Seq(T)
  PROVE  ReadsInto(s, t)
  <1>0. Quote \in T
    BY DEF Special
  <1>1. CASE Escape(t) = t /\ t \in Seq(T \ Special)
    <2>1. ScanOf(s \o t) = Into(ScanOf(s), t, "outside")
      BY <1>1, PlainText
    <2> QED
      BY <1>1, <2>1 DEF Into, ReadsInto
  <1>2. CASE Escape(t) = (<<Quote>> \o Doubled(t)) \o <<Quote>>
    <2> DEFINE d == Doubled(t)
               q == Append(s, Quote)
               r == q \o d
    <2>1. d \in Seq(T) /\ q \in Seq(T) /\ r \in Seq(T)
      <3>1. d \in Seq(T)
        BY <1>0, DoubledAppend
      <3>2. q \in Seq(T)
        BY <1>0, AppendProperties
      <3> QED
        BY <3>1, <3>2, ConcatProperties
    <2>2. s \o Escape(t) = Append(r, Quote) /\ Escape(t) = Append(<<Quote>> \o d, Quote)
      <3> HIDE DEF d
      <3>1. Wrapped(s, d, Quote)
        BY <1>0, <2>1, WrappedIs
      <3> QED
        BY <1>2, <3>1 DEF Wrapped, d
    <2>3. ScanOf(q) = Scanned(ScanOf(s), Quote) /\ ScanOf(s) \in Scans(T)
      BY <1>0, ScanAppend
    <2>4. ScanOf(q).columns = ScanOf(s).columns /\ ScanOf(q).mode = "inside"
      BY <2>3 DEF Scanned
    <2>5. ScanOf(r) = Into(ScanOf(q), t, "inside")
      <3> HIDE DEF q
      <3> QED
        BY <2>1, <2>4, QuotedText
    <2>6. ScanOf(Append(r, Quote)) = Scanned(ScanOf(r), Quote)
      <3> HIDE DEF r
      <3> QED
        BY <1>0, <2>1, ScanAppend
    <2>7. ScanOf(Append(r, Quote)) = [columns |-> GrownBy(ScanOf(s).columns, t), mode |-> "quote"]
      BY <2>4, <2>5, <2>6 DEF Scanned, Into
    <2> QED
      BY <2>2, <2>7 DEF ReadsInto
  <1> QED
    BY <1>1, <1>2, EscapeIs

-----------------------------------------------------------------------------
(* Columns of a row *)

\* Each column as it is written, and with the comma before it.
EscapedAll(texts) == [i \in 1..Len(texts) |-> Escape(texts[i])]
Behind(columns, x) == IF columns = <<>> THEN x ELSE <<Comma>> \o x
Commas(columns) ==
  [i \in 1..Len(columns) |-> IF i = 1 THEN columns[i] ELSE <<Comma>> \o columns[i]]

\* One column more is one escaped column more.
LEMMA EscapedAppend ==
  ASSUME NEW T, Quote \in T, NEW texts \in Seq(Seq(T)), NEW x \in Seq(T)
  PROVE  /\ EscapedAll(Append(texts, x)) = Append(EscapedAll(texts), Escape(x))
         /\ EscapedAll(texts) \in Seq(Seq(T))
         /\ Escape(x) \in Seq(T)
         /\ Len(EscapedAll(texts)) = Len(texts)
  <1> DEFINE more == Append(texts, x)
             n == Len(texts)
             m == n + 1
             V == Seq(T)
             e == EscapedAll(texts)
             f == EscapedAll(more)
  <1>1. n \in Nat /\ \A i \in 1..n : texts[i] \in V
    BY LenProperties, ElementOfSeq
  <1>3. /\ Len(more) = m /\ more[m] = x /\ \A i \in 1..n : more[i] = texts[i]
    BY AppendProperties
  <1>4. \A t \in V : Escape(t) \in V
    BY EscapeTyped
  <1>5. \A i \in 1..m : more[i] \in V
    BY <1>1, <1>3
  <1>12. Escape(x) \in V
    BY <1>4
  <1> HIDE DEF V, more
  <1>6. e = [i \in 1..n |-> Escape(texts[i])]
    BY DEF EscapedAll
  <1>7. f = [i \in 1..m |-> Escape(more[i])]
    BY <1>3 DEF EscapedAll
  <1>8. e \in [1..n -> V] /\ f \in [1..m -> V]
    BY <1>1, <1>4, <1>5, <1>6, <1>7
  <1>9. \A i \in 1..n : f[i] = e[i]
    <2> TAKE i \in 1..n
    <2>1. i \in 1..m
      BY <1>1
    <2> HIDE DEF m, e, f
    <2> QED
      BY <1>3, <1>6, <1>7, <2>1
  <1>10. f[m] = Escape(x)
    <2>1. m \in 1..m
      BY <1>1
    <2> HIDE DEF m, f
    <2> QED
      BY <1>3, <1>7, <2>1
  <1>11. f = Append(e, f[m]) /\ e \in Seq(V) /\ Len(e) = n
    <2>1. m = n + 1
      OBVIOUS
    <2> HIDE DEF n, m, e, f
    <2>2. f = Append(e, f[m])
      BY <1>1, <1>8, <1>9, <2>1, AppendedIs
    <2>3. e \in Seq(V) /\ Len(e) = n
      BY <1>1, <1>8, FunctionIsSeq
    <2> QED
      BY <2>2, <2>3
  <1> QED
    BY <1>10, <1>11, <1>12 DEF V, more

\* One column more has a comma before it unless it is the first.
LEMMA CommasAppend ==
  ASSUME NEW T, Comma \in T, NEW columns \in Seq(Seq(T)), NEW x \in Seq(T)
  PROVE  /\ Commas(Append(columns, x)) = Append(Commas(columns), Behind(columns, x))
         /\ Commas(columns) \in Seq(Seq(T))
         /\ Behind(columns, x) \in Seq(T)
  <1> DEFINE more == Append(columns, x)
             n == Len(columns)
             m == n + 1
             V == Seq(T)
             W(i, c) == IF i = 1 THEN c ELSE <<Comma>> \o c
             e == Commas(columns)
             f == Commas(more)
  <1>1. n \in Nat /\ \A i \in 1..n : columns[i] \in V
    BY LenProperties, ElementOfSeq
  <1>3. /\ Len(more) = m /\ more[m] = x /\ \A i \in 1..n : more[i] = columns[i]
    BY AppendProperties
  <1>4. \A i \in Nat, t \in V : W(i, t) \in V
    <2> DEFINE one == <<Comma>>
    <2>1. one \in Seq(T)
      BY OneChar
    <2> HIDE DEF one
    <2>2. \A t \in V : one \o t \in V
      BY <2>1, ConcatProperties
    <2> QED
      BY <2>2 DEF one
  <1>5. \A i \in 1..m : more[i] \in V
    BY <1>1, <1>3
  <1>12. Behind(columns, x) = W(m, x)
    BY <1>1, EmptySeq DEF Behind
  <1>13. W(m, x) \in V
    BY <1>1, <1>4
  <1>14. (\A i \in 1..n : i \in Nat) /\ \A i \in 1..m : i \in Nat
    BY <1>1
  <1>6. e = [i \in 1..n |-> W(i, columns[i])]
    BY DEF Commas
  <1>7. f = [i \in 1..m |-> W(i, more[i])]
    BY <1>3 DEF Commas
  <1> HIDE DEF V, more, W, e, f
  <1>8. e \in [1..n -> V] /\ f \in [1..m -> V]
    BY <1>1, <1>4, <1>5, <1>6, <1>7, <1>14
  <1>9. \A i \in 1..n : f[i] = e[i]
    <2> TAKE i \in 1..n
    <2>1. i \in 1..m
      BY <1>1
    <2> HIDE DEF m, e, f
    <2> QED
      BY <1>3, <1>6, <1>7, <2>1
  <1>10. f[m] = W(m, x)
    <2>1. m \in 1..m
      BY <1>1
    <2> HIDE DEF m, f
    <2> QED
      BY <1>3, <1>7, <2>1
  <1>11. f = Append(e, f[m]) /\ e \in Seq(V)
    <2>1. m = n + 1
      OBVIOUS
    <2> HIDE DEF n, m, e, f
    <2>2. f = Append(e, f[m])
      BY <1>1, <1>8, <1>9, <2>1, AppendedIs
    <2>3. e \in Seq(V)
      BY <1>1, <1>8, FunctionIsSeq
    <2> QED
      BY <2>2, <2>3
  <1> QED
    BY <1>10, <1>11, <1>12, <1>13 DEF V, more, e, f

\* A row with one column more.
LEMMA JoinedAppend ==
  ASSUME NEW T, Comma \in T, NEW columns \in Seq(Seq(T)), NEW x \in Seq(T)
  PROVE  /\ Joined(Append(columns, x)) = Joined(columns) \o Behind(columns, x)
         /\ Joined(columns) \in Seq(T)
         /\ Joined(<<>>) = <<>>
  <1> DEFINE l == Commas(columns)
             y == Behind(columns, x)
  <1>1. l \in Seq(Seq(T)) /\ y \in Seq(T) /\ Commas(Append(columns, x)) = Append(l, y)
    BY CommasAppend
  <1>2. FlattenSeq(Append(l, y)) = FlattenSeq(l) \o y /\ FlattenSeq(l) \in Seq(T)
    <2> HIDE DEF l, y
    <2> QED
      BY <1>1, FlattenAppend
  <1>3. \A cs : Joined(cs) = FlattenSeq(Commas(cs))
    BY DEF Joined, Commas
  <1>4. Joined(<<>>) = <<>>
    <2>1. Commas(<<>>) = <<>>
      BY EmptySeq DEF Commas
    <2> QED
      BY <1>3, <2>1, FlattenAppend, EmptySeq
  <1> QED
    BY <1>1, <1>2, <1>3, <1>4

\* A row is read column by column, and no quotes stay open.
ReadsAll(texts) ==
  /\ ScanOf(Joined(EscapedAll(texts))).columns = texts
  /\ ScanOf(Joined(EscapedAll(texts))).mode \in {"outside", "quote"}

\* A text with a line break is what is before the first one, and the rest.
LEMMA FirstBreak ==
  ASSUME NEW T, NEW t \in Seq(T), Newline \in ToSet(t), Newline \in T
  PROVE  \E p \in Seq(T \ {Newline}), q \in Seq(T) : t = Append(p, Newline) \o q
  <1> DEFINE U == T \ {Newline}
             c == Newline
             Breaks(r) == \E p \in Seq(U), q \in Seq(T) : r = Append(p, c) \o q
             S == {r \in Seq(T) : r \in Seq(U) \/ Breaks(r)}
  <1> HIDE DEF c
  <1>1. <<>> \in S
    BY EmptySeq
  <1>2. ASSUME NEW r \in Seq(T), NEW x \in T, r \in S PROVE Append(r, x) \in S
    <2> DEFINE more == Append(r, x)
    <2>1. more \in Seq(T)
      BY AppendProperties
    <2>2. CASE r \in Seq(U) /\ x \in U
      <3>1. more \in Seq(U)
        BY <2>2, AppendProperties
      <3> QED
        BY <2>1, <3>1
    <2>3. CASE r \in Seq(U) /\ x \notin U
      <3> DEFINE e == <<>>
      <3>1. x = c /\ e \in Seq(T)
        BY <2>3, EmptySeq DEF c
      <3>2. more = more \o e
        <4> HIDE DEF more
        <4> QED
          BY <2>1, ConcatEmptySeq
      <3>3. more = Append(r, c) \o e
        BY <3>1, <3>2
      <3> HIDE DEF more, e
      <3>4. Breaks(more)
        BY <2>3, <3>1, <3>3
      <3> HIDE DEF Breaks
      <3> QED
        BY <2>1, <3>4 DEF more
    <2>4. CASE Breaks(r)
      <3>1. PICK p \in Seq(U), q \in Seq(T) : r = Append(p, c) \o q
        BY <2>4
      <3> DEFINE w == Append(p, c)
                 qx == Append(q, x)
      <3>2. w \in Seq(T) /\ qx \in Seq(T)
        <4>1. p \in Seq(T) /\ c \in T
          BY SeqMonotonic DEF c
        <4> QED
          BY <4>1, AppendProperties
      <3>3. w \o qx = Append(w \o q, x)
        <4> HIDE DEF w
        <4> QED
          BY <3>2, ConcatAppend
      <3>4. more = Append(p, c) \o qx
        BY <3>1, <3>3
      <3> HIDE DEF qx, more
      <3>5. Breaks(more)
        BY <3>2, <3>4
      <3> HIDE DEF Breaks
      <3> QED
        BY <2>1, <3>5 DEF more
    <2> HIDE DEF Breaks
    <2> QED
      BY <1>2, <2>2, <2>3, <2>4
  <1>3. Seq(T) \subseteq S
    <2> HIDE DEF S
    <2> QED
      BY <1>1, <1>2, SeqSetInduction
  <1>4. t \notin Seq(U)
    <2> SUFFICES ASSUME t \in Seq(U) PROVE FALSE
      OBVIOUS
    <2>1. PICK i \in DOMAIN t : t[i] = Newline
      BY DEF ToSet
    <2>2. t \in [1..Len(t) -> U]
      BY LenProperties
    <2> QED
      BY <2>1, <2>2
  <1> QED
    BY <1>3, <1>4 DEF c

\* Doubling what is joined is joining what is doubled.
LEMMA DoubledConcat ==
  ASSUME NEW T, Quote \in T, NEW x \in Seq(T), NEW y \in Seq(T)
  PROVE  Doubled(x \o y) = Doubled(x) \o Doubled(y)
  <1> DEFINE d == Doubled(x)
             S == {r \in Seq(T) : Doubled(x \o r) = d \o Doubled(r)}
  <1>0. d \in Seq(T)
    BY DoubledAppend
  <1>1. <<>> \in S
    <2>1. <<>> \in Seq(T) /\ x \o <<>> = x /\ Doubled(<<>>) = <<>>
      BY EmptySeq, ConcatEmptySeq, DoubledAppend
    <2>2. d \o <<>> = d
      <3> HIDE DEF d
      <3> QED
        BY <1>0, ConcatEmptySeq
    <2> QED
      BY <2>1, <2>2
  <1>2. ASSUME NEW r \in Seq(T), NEW c \in T, r \in S PROVE Append(r, c) \in S
    <2> DEFINE xr == x \o r
               dr == Doubled(r)
               tc == Twice(c)
    <2>1. xr \in Seq(T) /\ x \o Append(r, c) = Append(xr, c) /\ Append(r, c) \in Seq(T)
      BY ConcatProperties, ConcatAppend, AppendProperties
    <2>2. Doubled(Append(xr, c)) = Doubled(xr) \o tc
      <3> HIDE DEF xr
      <3> QED
        BY <2>1, DoubledAppend
    <2>3. Doubled(Append(r, c)) = dr \o tc /\ dr \in Seq(T)
      BY DoubledAppend
    <2>4. tc \in Seq(T)
      BY PiecesAppend
    <2>5. Doubled(xr) = d \o dr
      BY <1>2
    <2>6. (d \o dr) \o tc = d \o (dr \o tc)
      <3> HIDE DEF d, dr, tc
      <3>1. Regrouped(d, dr, tc)
        BY <1>0, <2>3, <2>4, RegroupedIs
      <3> QED
        BY <3>1 DEF Regrouped
    <2>7. Doubled(x \o Append(r, c)) = d \o Doubled(Append(r, c))
      <3> HIDE DEF d, dr, tc, xr
      <3> QED
        BY <2>1, <2>2, <2>3, <2>5, <2>6
    <2> QED
      BY <2>1, <2>7
  <1>3. Seq(T) \subseteq S
    <2> HIDE DEF S
    <2> QED
      BY <1>1, <1>2, SeqSetInduction
  <1> QED
    BY <1>3

\* What a name with a line break is between its quotes, up to that line break.
LEMMA BrokenName ==
  ASSUME NEW T, Special \subseteq T, NEW p \in Seq(T), NEW q \in Seq(T),
         Newline \in ToSet(Append(p, Newline) \o q)
  PROVE  \E z \in Seq(T) :
           Escape(Append(p, Newline) \o q) = Append(<<Quote>> \o Doubled(p), Newline) \o z
  <1> DEFINE c == Newline
             one == <<Quote>>
             w == Append(p, c)
             t == w \o q
             d == Doubled(p)
             dw == Append(d, c)
             dq == Doubled(q)
             u == one \o d
             z == dq \o one
  <1>0. Quote \in T /\ c \in T /\ c # Quote
    BY DEF Special, Newline, Quote, Char
  <1>1. Escape(t) = (one \o Doubled(t)) \o one
    BY DEF Escape, Doubled, Special
  <1>2. one \in Seq(T) /\ w \in Seq(T) /\ d \in Seq(T) /\ dq \in Seq(T)
    <2>1. w \in Seq(T)
      BY <1>0, AppendProperties
    <2> QED
      BY <1>0, <2>1, OneChar, DoubledAppend
  <1>3. dw \in Seq(T) /\ dw = d \o <<c>>
    <2> HIDE DEF d, c
    <2> QED
      BY <1>0, <1>2, AppendProperties, AppendIsConcat
  <1>4. Doubled(w) = dw
    <2>1. Doubled(w) = d \o Twice(c)
      <3> HIDE DEF c
      <3> QED
        BY <1>0, DoubledAppend
    <2> QED
      BY <1>0, <1>3, <2>1 DEF Twice
  <1>5. Doubled(t) = dw \o dq
    <2> HIDE DEF w
    <2> QED
      BY <1>0, <1>2, <1>4, DoubledConcat
  <1>6. (one \o (dw \o dq)) \o one = one \o (dw \o z)
    <2> HIDE DEF one, dw, dq
    <2>1. dw \o dq \in Seq(T)
      BY <1>2, <1>3, ConcatProperties
    <2> DEFINE x == dw \o dq
    <2>2. x \in Seq(T)
      BY <2>1
    <2> HIDE DEF x
    <2>3. Regrouped(one, x, one)
      BY <1>2, <2>2, RegroupedIs
    <2>4. Regrouped(dw, dq, one)
      BY <1>2, <1>3, RegroupedIs
    <2> QED
      BY <2>3, <2>4 DEF Regrouped, x
  <1>7. z \in Seq(T)
    <2> HIDE DEF dq, one
    <2> QED
      BY <1>2, ConcatProperties
  <1>8. one \o (dw \o z) = (one \o dw) \o z
    <2> HIDE DEF one, dw, z
    <2>1. Regrouped(one, dw, z)
      BY <1>2, <1>3, <1>7, RegroupedIs
    <2> QED
      BY <2>1 DEF Regrouped
  <1>9. one \o dw = Append(u, c)
    <2> HIDE DEF one, d, c
    <2> QED
      BY <1>0, <1>2, ConcatAppend
  <1>10. Escape(t) = Append(u, c) \o z
    BY <1>1, <1>5, <1>6, <1>8, <1>9
  <1> HIDE DEF z
  <1> QED
    BY <1>7, <1>10

\* Texts of fewer characters.
LEMMA TextsMonotonic ==
  ASSUME NEW T, NEW W, W \subseteq T
  PROVE  Seq(W) \subseteq Seq(T) /\ Seq(Seq(W)) \subseteq Seq(Seq(T))
  <1> DEFINE V == Seq(W)
             X == Seq(T)
  <1>1. V \subseteq X
    BY SeqMonotonic
  <1> HIDE DEF V, X
  <1>2. Seq(V) \subseteq Seq(X)
    BY <1>1, SeqMonotonic
  <1> QED
    BY <1>1, <1>2 DEF V, X

\* The column x of a row begins behind s, which has been split into the columns
\* before it and leaves no quotes open.
BeginsAt(s, texts, x) ==
  /\ ScanOf(s) = [columns |-> Append(texts, <<>>), mode |-> "outside"]
  /\ Joined(EscapedAll(Append(texts, x))) = s \o Escape(x)

\* Every column begins somewhere.
LEMMA ColumnBegins ==
  ASSUME NEW T, Special \subseteq T, NEW W, Quote \in W, Comma \in W, W \subseteq T,
         NEW texts \in Seq(Seq(W)), texts = <<>> \/ ReadsAll(texts), NEW x \in Seq(T)
  PROVE  \E s \in Seq(W) : BeginsAt(s, texts, x)
  <1> DEFINE es == EscapedAll(texts)
             y == Escape(x)
             j == Joined(es)
             jc == Append(j, Comma)
             none == <<>>
  <1>0. Quote \in T /\ Comma \in T /\ Seq(W) \subseteq Seq(T) /\ texts \in Seq(Seq(T))
    BY TextsMonotonic
  <1>1. EscapedAll(Append(texts, x)) = Append(es, y) /\ es \in Seq(Seq(T)) /\ y \in Seq(T)
        /\ Len(es) = Len(texts)
    BY <1>0, EscapedAppend
  <1>2. j \in Seq(W) /\ j \in Seq(T)
    <2>1. es \in Seq(Seq(W))
      BY EscapedAppend, EmptySeq
    <2> HIDE DEF es
    <2>2. Joined(es) \in Seq(W)
      BY <2>1, JoinedAppend, EmptySeq
    <2> QED
      BY <1>0, <2>2
  <1>3. Joined(Append(es, y)) = j \o Behind(es, y)
    <2> HIDE DEF es, y
    <2> QED
      BY <1>0, <1>1, JoinedAppend
  <1>4. CASE texts = <<>>
    <2>1. none \in Seq(W) /\ none \in Seq(T)
      BY EmptySeq
    <2>2. ScanOf(none) = [columns |-> << none >>, mode |-> "outside"]
      BY <1>0, <2>1, ScanAppend DEF Outside
    <2>3. Append(texts, none) = << none >>
      BY <1>4
    <2>4. Len(texts) = 0
      BY <1>4
    <2>5. es = <<>>
      BY <1>1, <2>4, EmptySeq
    <2>6. j = <<>>
      BY <1>0, <2>5, JoinedAppend, EmptySeq
    <2> HIDE DEF es, j, y
    <2>7. Joined(Append(es, y)) = none \o y
      BY <1>3, <2>5, <2>6, <1>1, ConcatEmptySeq DEF Behind
    <2> QED
      BY <1>1, <2>1, <2>2, <2>3, <2>7 DEF y, BeginsAt
  <1>5. CASE texts # <<>>
    <2>1. es # <<>>
      BY <1>0, <1>1, <1>5, EmptySeq
    <2>2. jc \in Seq(W) /\ jc \in Seq(T) /\ j \o (<<Comma>> \o y) = jc \o y
      <3> HIDE DEF j, y
      <3> DEFINE one == <<Comma>>
      <3>1. one \in Seq(T) /\ j \o one = jc /\ jc \in Seq(T) /\ jc \in Seq(W)
        BY <1>0, <1>2, OneChar, AppendIsConcat, AppendProperties
      <3> HIDE DEF one, jc
      <3>2. Regrouped(j, one, y)
        BY <1>1, <1>2, <3>1, RegroupedIs DEF y
      <3> QED
        BY <3>1, <3>2 DEF Regrouped, one
    <2>3. ScanOf(j).columns = texts /\ ScanOf(j).mode \in {"outside", "quote"}
      BY <1>5 DEF ReadsAll
    <2>4. ScanOf(jc) = Scanned(ScanOf(j), Comma)
      <3> HIDE DEF j
      <3> QED
        BY <1>0, <1>2, ScanAppend
    <2>5. ScanOf(jc) = [columns |-> Append(texts, <<>>), mode |-> "outside"]
      BY <2>3, <2>4 DEF Scanned, Comma, Quote, Char
    <2>6. Joined(Append(es, y)) = jc \o y
      <3> HIDE DEF es, j, y, jc
      <3> QED
        BY <1>3, <2>1, <2>2 DEF Behind
    <2> HIDE DEF jc, es
    <2> QED
      BY <1>1, <2>2, <2>5, <2>6 DEF y, BeginsAt
  <1> QED
    BY <1>4, <1>5

\* The columns of a row are read back, and no quotes stay open.
LEMMA JoinedScan ==
  ASSUME NEW T, Special \subseteq T, NEW texts \in Seq(Seq(T)), texts # <<>>
  PROVE  ReadsAll(texts)
  <1> DEFINE V == Seq(T)
             S == {cs \in Seq(V) : cs # <<>> => ReadsAll(cs)}
  <1>1. <<>> \in S
    BY EmptySeq
  <1>2. ASSUME NEW cs \in Seq(V), NEW x \in V, cs \in S PROVE Append(cs, x) \in S
    <2> DEFINE more == Append(cs, x)
    <2>1. more \in Seq(V)
      BY AppendProperties
    <2>2. Quote \in T /\ Comma \in T /\ T \subseteq T
      BY DEF Special
    <2>3. cs = <<>> \/ ReadsAll(cs)
      BY <1>2
    <2>4. PICK s \in V : BeginsAt(s, cs, x)
      BY <2>2, <2>3, ColumnBegins
    <2>5. ReadsInto(s, x)
      <3>1. ScanOf(s).mode = "outside"
        BY <2>4 DEF BeginsAt
      <3> QED
        BY <3>1, EscapeScan
    <2>6. GrownBy(Append(cs, <<>>), x) = more
      BY GrownAppended
    <2>7. ReadsAll(more)
      BY <2>4, <2>5, <2>6 DEF ReadsAll, ReadsInto, BeginsAt
    <2> QED
      BY <2>1, <2>7
  <1>3. Seq(V) \subseteq S
    <2> HIDE DEF S, V
    <2> QED
      BY <1>1, <1>2, SeqSetInduction
  <1> QED
    BY <1>3

\* The text of a row: of the same characters, and its columns are read back.
LEMMA RowText ==
  ASSUME NEW T, Quote \in T, Comma \in T, NEW texts \in Seq(Seq(T))
  PROVE  Joined(EscapedAll(texts)) \in Seq(T)
  <1>1. <<>> \in Seq(T)
    BY EmptySeq
  <1>2. EscapedAll(texts) \in Seq(Seq(T))
    BY <1>1, EscapedAppend
  <1> DEFINE es == EscapedAll(texts)
  <1>3. es \in Seq(Seq(T))
    BY <1>2
  <1> HIDE DEF es
  <1>4. Joined(es) \in Seq(T)
    BY <1>1, <1>3, JoinedAppend
  <1> QED
    BY <1>4 DEF es

\* split_csv_line gives the columns back.
LEMMA RowReads ==
  ASSUME NEW T, Special \subseteq T, NEW texts \in Seq(Seq(T)), Len(texts) > 1
  PROVE  SplitLine(Joined(EscapedAll(texts))) = texts /\ Joined(EscapedAll(texts)) # <<>>
  <1> DEFINE row == Joined(EscapedAll(texts))
  <1>1. texts # <<>>
    BY EmptySeq
  <1>2. ScanOf(row).columns = texts
    BY <1>1, JoinedScan DEF ReadsAll
  <1>3. ASSUME row = <<>> PROVE FALSE
    <2>1. ScanOf(row) = Outside
      BY <1>3, ScanAppend, EmptySeq DEF Special
    <2>2. Len(Outside.columns) = 1
      BY DEF Outside
    <2> HIDE DEF row
    <2>3. Outside.columns = texts
      BY <1>2, <2>1
    <2> DEFINE n == Len(texts)
    <2>4. n = 1
      BY <2>2, <2>3
    <2>5. n > 1
      OBVIOUS
    <2> HIDE DEF n
    <2> QED
      BY <2>4, <2>5
  <1> QED
    BY <1>2, <1>3 DEF SplitLine, ScanOf, Outside

-----------------------------------------------------------------------------
(* Rows with a line break in quotes *)

\* A row in which a column has a line break has a line of fewer columns there:
\* as many as there are up to the first such column.
LEMMA RowBroken ==
  ASSUME NEW T, Special \subseteq T, NEW texts \in Seq(Seq(T)),
         \E i \in 1..Len(texts) : Newline \in ToSet(texts[i])
  PROVE  \E i \in 1..Len(texts), a \in Seq(T \ {Newline}), b \in Seq(T) :
           /\ Newline \in ToSet(texts[i])
           /\ Joined(EscapedAll(texts)) = Append(a, Newline) \o b
           /\ a # <<>>
           /\ Len(SplitLine(a)) = i
  <1> DEFINE V == Seq(T)
             U == T \ {Newline}
             Broken(cs) == \E i \in 1..Len(cs) : Newline \in ToSet(cs[i])
             Splits(cs, i, a, b) ==
               /\ Newline \in ToSet(cs[i])
               /\ Joined(EscapedAll(cs)) = Append(a, Newline) \o b
               /\ a # <<>>
               /\ Len(SplitLine(a)) = i
             Breaks(cs) == \E i \in 1..Len(cs), a \in Seq(U), b \in V : Splits(cs, i, a, b)
             S == {cs \in Seq(V) : Broken(cs) => Breaks(cs)}
  <1>0. Quote \in U /\ Comma \in U /\ Newline \in T /\ U \subseteq T /\ Seq(U) \subseteq V
    BY TextsMonotonic DEF Special, Comma, Quote, Newline, Char
  <1>1. <<>> \in S
    BY EmptySeq
  <1>2. ASSUME NEW cs \in Seq(V), NEW x \in V, cs \in S PROVE Append(cs, x) \in S
    <2> DEFINE more == Append(cs, x)
               n == Len(cs)
               m == n + 1
    <2>1. /\ n \in Nat /\ more \in Seq(V) /\ Len(more) = m /\ more[m] = x
          /\ \A i \in 1..n : i \in 1..m /\ more[i] = cs[i]
      BY AppendProperties, LenProperties
    <2> SUFFICES ASSUME Broken(more) PROVE Breaks(more)
      BY <2>1
    <2> HIDE DEF more
    <2>2. CASE Broken(cs)
      <3>1. PICK i \in 1..n, a \in Seq(U), b \in V : Splits(cs, i, a, b)
        BY <1>2, <2>2
      <3> DEFINE es == EscapedAll(cs)
                 y == Behind(es, Escape(x))
                 c == Append(a, Newline)
      <3>2. es \in Seq(V) /\ Escape(x) \in V /\ EscapedAll(more) = Append(es, Escape(x))
        BY <1>0, EscapedAppend DEF more
      <3>3. y \in V
        BY <1>0, <3>2, OneChar, ConcatProperties DEF Behind
      <3>4. Joined(EscapedAll(more)) = Joined(es) \o y
        <4> HIDE DEF es
        <4> QED
          BY <1>0, <3>2, JoinedAppend
      <3>5. c \in V
        BY <1>0, AppendProperties
      <3> HIDE DEF y, c, es
      <3>6. Joined(es) = c \o b
        BY <3>1 DEF c, es
      <3>7. Joined(EscapedAll(more)) = c \o (b \o y)
        <4>1. Regrouped(c, b, y)
          BY <3>3, <3>5, RegroupedIs
        <4> QED
          BY <3>4, <3>6, <4>1 DEF Regrouped
      <3>8. b \o y \in V
        BY <3>3, ConcatProperties
      <3>9. Splits(more, i, a, b \o y)
        BY <2>1, <3>1, <3>7 DEF c
      <3> HIDE DEF Splits
      <3> QED
        BY <2>1, <3>8, <3>9
    <2>3. CASE ~Broken(cs)
      <3>1. cs \in Seq(Seq(U))
        <4>1. ASSUME NEW i \in 1..n PROVE cs[i] \in Seq(U)
          <5> DEFINE t == cs[i]
          <5>1. t \in Seq(T) /\ Newline \notin ToSet(t)
            BY <2>3, ElementOfSeq
          <5> HIDE DEF t
          <5>2. \A k \in 1..Len(t) : t[k] \in U
            BY <5>1, LenProperties, ElementOfSeq DEF ToSet
          <5>3. t \in [1..Len(t) -> U] /\ Len(t) \in Nat
            BY <5>1, <5>2, LenProperties
          <5>4. t \in Seq(U)
            BY <5>3, FunctionIsSeq
          <5> QED
            BY <5>4 DEF t
        <4> DEFINE W == Seq(U)
        <4> HIDE DEF W
        <4>2. cs \in [1..n -> W]
          BY <4>1, LenProperties DEF W
        <4>3. cs \in Seq(W)
          BY <2>1, <4>2, FunctionIsSeq
        <4> QED
          BY <4>3 DEF W
      <3>2. Newline \in ToSet(x)
        <4>1. PICK i \in 1..m : Newline \in ToSet(more[i])
          BY <2>1
        <4>2. i = m \/ i \in 1..n
          BY <2>1
        <4> HIDE DEF n, m
        <4> QED
          BY <2>1, <2>3, <4>1, <4>2 DEF n
      <3>3. PICK p \in Seq(U), q \in V : x = Append(p, Newline) \o q
        BY <1>0, <3>2, FirstBreak
      <3>4. PICK z \in V : Escape(x) = Append(<<Quote>> \o Doubled(p), Newline) \o z
        <4>1. p \in V /\ Newline \in ToSet(Append(p, Newline) \o q)
          BY <1>0, <3>2, <3>3
        <4>2. \E z \in V :
                Escape(Append(p, Newline) \o q) = Append(<<Quote>> \o Doubled(p), Newline) \o z
          BY <4>1, BrokenName
        <4> QED
          BY <3>3, <4>2
      <3>5. PICK s \in Seq(U) :
              /\ ScanOf(s) = [columns |-> Append(cs, <<>>), mode |-> "outside"]
              /\ Joined(EscapedAll(more)) = s \o Escape(x)
        <4>1. cs = <<>> \/ ReadsAll(cs)
          BY JoinedScan
        <4> HIDE DEF U, V
        <4>2. x \in Seq(T)
          BY DEF V
        <4>3. \E s \in Seq(U) : BeginsAt(s, cs, x)
          BY <1>0, <3>1, <4>1, <4>2, ColumnBegins
        <4> QED
          BY <4>3 DEF more, BeginsAt
      <3> DEFINE d == Doubled(p)
                 sq == Append(s, Quote)
                 a == sq \o d
                 one == <<Quote>>
                 u == one \o d
      <3>6. s \in V /\ p \in V /\ d \in V /\ d \in Seq(U)
        <4>1. d \in Seq(U)
          <5> HIDE DEF U
          <5> QED
            BY <1>0, DoubledAppend
        <4> QED
          BY <1>0, <4>1
      <3>7. sq \in Seq(U) /\ sq \in V /\ a \in Seq(U) /\ a \in V
        <4>1. sq \in Seq(U)
          BY <1>0, AppendProperties
        <4>2. a \in Seq(U)
          <5> HIDE DEF sq, d, U
          <5> QED
            BY <3>6, <4>1, ConcatProperties
        <4> QED
          BY <1>0, <4>1, <4>2
      <3>8. s \o Escape(x) = Append(a, Newline) \o z
        <4>1. one \in V /\ s \o one = sq
          BY <1>0, <3>6, OneChar, AppendIsConcat
        <4> HIDE DEF d, one, sq
        <4>2. u \in V /\ s \o u = a
          <5>1. Regrouped(s, one, d)
            BY <3>6, <4>1, RegroupedIs
          <5> QED
            BY <3>6, <4>1, <5>1, ConcatProperties DEF Regrouped
        <4> HIDE DEF u, a
        <4> DEFINE c == Newline
                   uc == Append(u, c)
        <4> HIDE DEF c
        <4>3. c \in T
          BY <1>0 DEF c
        <4>4. s \o uc = Append(a, c) /\ uc \in V
          <5>0. s \in Seq(T) /\ u \in Seq(T)
            BY <3>6, <4>2
          <5>1. s \o Append(u, c) = Append(s \o u, c)
            <6> HIDE DEF V, U, S, n, m, Broken, Breaks, Splits, uc
            <6> QED
              BY <4>3, <5>0, ConcatAppend
          <5>2. Append(u, c) \in V
            BY <4>2, <4>3, AppendProperties
          <5> QED
            BY <4>2, <5>1, <5>2 DEF uc
        <4> HIDE DEF uc
        <4>5. Regrouped(s, uc, z)
          BY <3>6, <4>4, RegroupedIs
        <4>6. Escape(x) = uc \o z
          BY <3>4 DEF uc, u, one, d, c
        <4> QED
          BY <4>4, <4>5, <4>6 DEF Regrouped, c
      <3>9. ScanOf(a).columns = Append(cs, p)
        <4>1. ScanOf(sq) = Scanned(ScanOf(s), Quote)
          BY <1>0, <3>6, ScanAppend
        <4>2. ScanOf(sq) = [columns |-> Append(cs, <<>>), mode |-> "inside"]
          BY <3>5, <4>1 DEF Scanned
        <4>3. ScanOf(sq).mode = "inside"
          BY <4>2
        <4> HIDE DEF sq
        <4>4. ScanOf(sq \o Doubled(p)) = Into(ScanOf(sq), p, "inside")
          BY <3>6, <3>7, <4>3, QuotedText
        <4>5. GrownBy(Append(cs, <<>>), p) = Append(cs, p)
          BY <3>6, GrownAppended
        <4> QED
          BY <4>2, <4>4, <4>5 DEF Into
      <3>10. Len(Append(cs, p)) = m
        BY <2>1, <3>6, AppendProperties
      <3>11. Len(SplitLine(a)) = m
        <4> HIDE DEF a
        <4> QED
          BY <3>9, <3>10 DEF SplitLine, ScanOf, Outside
      <3>12. a # <<>>
        <4> SUFFICES ASSUME a = <<>> PROVE FALSE
          OBVIOUS
        <4>1. Len(sq) > 0
          BY <3>6, AppendProperties, LenProperties
        <4> HIDE DEF sq, d
        <4>2. Len(a) = Len(sq) + Len(d) /\ Len(d) \in Nat /\ Len(sq) \in Nat
          BY <3>6, <3>7, ConcatProperties, LenProperties
        <4> QED
          BY <4>1, <4>2
      <3> HIDE DEF a
      <3>13. Splits(more, m, a, z)
        BY <2>1, <3>2, <3>5, <3>8, <3>11, <3>12
      <3>14. m \in 1..Len(more)
        BY <2>1
      <3> HIDE DEF Splits, m
      <3> QED
        BY <3>7, <3>13, <3>14
    <2> QED
      BY <2>2, <2>3
  <1>3. Seq(V) \subseteq S
    <2> HIDE DEF S, V
    <2> QED
      BY <1>1, <1>2, SeqSetInduction
  <1> QED
    BY <1>3

-----------------------------------------------------------------------------
(* The rows of a file *)

\* The rows that are written of these columns.
RowsMade(table) == [i \in DOMAIN table |-> Joined(EscapedAll(table[i]))]

\* The characters of such rows.
CharactersOf(rows) == Special \cup UNION {ToSet(t) : t \in UNION {ToSet(row) : row \in rows}}

\* A row of texts is one of texts of these characters.
LEMMA RowTyped ==
  ASSUME NEW T, NEW n \in Nat, NEW row, row = [i \in 1..n |-> row[i]],
         \A i \in 1..n : row[i] \in Seq(ToSet(row[i])) /\ ToSet(row[i]) \subseteq T
  PROVE  row \in Seq(Seq(T)) /\ Len(row) = n
  <1>1. ASSUME NEW i \in 1..n PROVE row[i] \in Seq(T)
    <2> DEFINE t == row[i]
               S == ToSet(t)
    <2>1. t \in Seq(S) /\ S \subseteq T
      OBVIOUS
    <2> HIDE DEF t, S
    <2>2. t \in Seq(T)
      BY <2>1, SeqMonotonic
    <2> QED
      BY <2>2 DEF t
  <1> DEFINE V == Seq(T)
  <1> HIDE DEF V
  <1>2. row \in [1..n -> V]
    BY <1>1 DEF V
  <1>3. row \in Seq(V) /\ Len(row) = n
    BY <1>2, FunctionIsSeq
  <1> QED
    BY <1>3 DEF V

\* Each row is of the same characters and is read as its columns.
LEMMA RowsAre ==
  ASSUME NEW T, Special \subseteq T, NEW W, Quote \in W, Comma \in W, W \subseteq T,
         NEW table \in Seq(Seq(Seq(W))), \A i \in 1..Len(table) : Len(table[i]) > 1
  PROVE  /\ RowsMade(table) \in Seq(Seq(W))
         /\ Len(RowsMade(table)) = Len(table)
         /\ \A i \in 1..Len(table) : /\ RowsMade(table)[i] = Joined(EscapedAll(table[i]))
                                     /\ RowsMade(table)[i] # <<>>
                                     /\ SplitLine(RowsMade(table)[i]) = table[i]
  <1> DEFINE n == Len(table)
             rows == RowsMade(table)
             V == Seq(W)
  <1>1. n \in Nat /\ DOMAIN table = 1..n /\ \A i \in 1..n : table[i] \in Seq(V)
    BY LenProperties, ElementOfSeq
  <1>2. \A i \in 1..n : rows[i] = Joined(EscapedAll(table[i]))
    BY <1>1 DEF RowsMade
  <1>3. ASSUME NEW i \in 1..n
        PROVE  rows[i] \in V /\ rows[i] # <<>> /\ SplitLine(rows[i]) = table[i]
    <2> DEFINE texts == table[i]
    <2>1. texts \in Seq(Seq(W)) /\ Len(texts) > 1
      BY <1>1
    <2> HIDE DEF texts
    <2>2. texts \in Seq(Seq(T))
      BY <2>1, TextsMonotonic
    <2>3. Joined(EscapedAll(texts)) \in Seq(W)
      BY <2>1, RowText
    <2>4. SplitLine(Joined(EscapedAll(texts))) = texts /\ Joined(EscapedAll(texts)) # <<>>
      BY <2>1, <2>2, RowReads
    <2> HIDE DEF rows
    <2> QED
      BY <1>2, <2>3, <2>4 DEF texts
  <1>4. rows \in [1..n -> V]
    <2>1. rows = [i \in 1..n |-> Joined(EscapedAll(table[i]))]
      BY <1>1 DEF RowsMade
    <2> HIDE DEF rows, V
    <2> QED
      BY <1>2, <1>3, <2>1
  <1>5. rows \in Seq(V) /\ Len(rows) = n
    <2> HIDE DEF rows, V, n
    <2> QED
      BY <1>1, <1>4, FunctionIsSeq
  <1> QED
    BY <1>2, <1>3, <1>5

\* A file without a line break in a column has its rows as its lines.
LEMMA WholeFile ==
  ASSUME NEW T, Special \subseteq T, NEW table \in Seq(Seq(Seq(T \ {Newline}))),
         \A i \in 1..Len(table) : Len(table[i]) > 1
  PROVE  FileLines(FileText(RowsMade(table))) = RowsMade(table)
  <1> DEFINE U == T \ {Newline}
             rows == RowsMade(table)
             text == FileText(rows)
  <1>1. Quote \in U /\ Comma \in U /\ U \subseteq T
    BY DEF Special, Comma, Quote, Newline, Char
  <1>2. rows \in Seq(Seq(U)) /\ Len(rows) = Len(table)
        /\ \A i \in 1..Len(table) : rows[i] # <<>>
    <2> HIDE DEF U
    <2>1. table \in Seq(Seq(Seq(U)))
      BY DEF U
    <2> QED
      BY <1>1, <2>1, RowsAre
  <1>3. rows \in Seq(Seq(T))
    <2> HIDE DEF rows, U
    <2> QED
      BY <1>1, <1>2, TextsMonotonic
  <1>4. LinesOf(text) = Append(rows, <<>>)
    <2> HIDE DEF rows
    <2> QED
      BY <1>2, FileOfLines
  <1> HIDE DEF rows, text
  <1>5. FileLines(text) = rows
    BY <1>2, <1>3, <1>4, RowsKept
  <1> QED
    BY <1>5 DEF rows, text

\* One with a line break has a line that is split into fewer columns than its
\* row has: as many as there are up to a column with a line break.
LEMMA BrokenFile ==
  ASSUME NEW T, Special \subseteq T, NEW table \in Seq(Seq(Seq(T))),
         \A i \in 1..Len(table) : Len(table[i]) > 1,
         NEW i \in 1..Len(table), \E j \in 1..Len(table[i]) : Newline \in ToSet(table[i][j])
  PROVE  \E k \in 1..Len(FileLines(FileText(RowsMade(table)))), j \in 1..Len(table[i]) :
           /\ Newline \in ToSet(table[i][j])
           /\ Len(SplitLine(FileLines(FileText(RowsMade(table)))[k])) = j
  <1> DEFINE n == Len(table)
             rows == RowsMade(table)
             text == FileText(rows)
             lines == FileLines(text)
             texts == table[i]
  <1>1. rows \in Seq(Seq(T)) /\ Len(rows) = n /\ rows[i] = Joined(EscapedAll(texts))
    <2>1. Quote \in T /\ Comma \in T /\ T \subseteq T
      BY DEF Special
    <2> QED
      BY <2>1, RowsAre
  <1>2. texts \in Seq(Seq(T)) /\ \E j \in 1..Len(texts) : Newline \in ToSet(texts[j])
    BY ElementOfSeq
  <1> HIDE DEF rows, texts
  <1>3. PICK j \in 1..Len(texts), a \in Seq(T \ {Newline}), b \in Seq(T) :
          /\ Newline \in ToSet(texts[j])
          /\ Joined(EscapedAll(texts)) = Append(a, Newline) \o b
          /\ a # <<>>
          /\ Len(SplitLine(a)) = j
    BY <1>2, RowBroken
  <1>4. a \in EndedLines(text)
    <2>1. rows[i] = Append(a, Newline) \o b /\ i \in 1..Len(rows)
      BY <1>1, <1>3
    <2> QED
      BY <1>1, <2>1, RowBreaks
  <1>5. LinesOf(text) \in Texts(T)
    BY <1>1, FileOpen
  <1> HIDE DEF text
  <1>6. LinesOf(text) \in Seq(Seq(T)) /\ a \in ToSet(LinesOf(text))
    <2> DEFINE l == LinesOf(text)
    <2>1. l \in Seq(Seq(T)) /\ l # <<>> /\ a \in ToSet(Front(l))
      BY <1>4, <1>5 DEF Texts, EndedLines
    <2> HIDE DEF l
    <2>2. ToSet(Front(l)) \subseteq ToSet(l)
      BY <2>1, FrontInside
    <2> QED
      BY <2>1, <2>2 DEF l
  <1>7. lines \in Seq(Seq(T)) /\ a \in ToSet(lines)
    BY <1>3, <1>6, LineKept
  <1> HIDE DEF lines
  <1>8. PICK k \in 1..Len(lines) : lines[k] = a
    BY <1>7, LenProperties DEF ToSet
  <1> QED
    BY <1>3, <1>8 DEF texts, lines, text, rows

\* A text is one of its own characters.
LEMMA OwnCharacters ==
  ASSUME NEW S, NEW t \in Seq(S)
  PROVE  t \in Seq(ToSet(t)) /\ ToSet(t) \subseteq S
  <1>1. Len(t) \in Nat /\ t \in [1..Len(t) -> S] /\ DOMAIN t = 1..Len(t)
    BY LenProperties
  <1>2. t \in [1..Len(t) -> ToSet(t)] /\ ToSet(t) \subseteq S
    BY <1>1 DEF ToSet
  <1> QED
    BY <1>1, <1>2, FunctionIsSeq

\* The text of a value has no character that csv_escape looks for.
LEMMA FieldIs ==
  ASSUME NEW v
  PROVE  /\ Escape(Field(v)) = Field(v)
         /\ IsField(Field(v)) /\ FieldOf(Field(v)) = v
         /\ Field(v) \in Seq(ToSet(Field(v)) \ Special)
         /\ Newline \notin ToSet(Field(v))
  <1> DEFINE c == <<"value", v>>
  <1>1. c[1] = "value" /\ c[2] = v
    OBVIOUS
  <1>2. c \notin Special
    <2>1. \A x : Char(x)[1] = "char"
      BY DEF Char
    <2>2. \A x \in Special : x[1] = "char"
      BY <2>1 DEF Special, Comma, Quote, Newline
    <2> QED
      BY <1>1, <2>2
  <1>3. Newline \in Special
    BY DEF Special
  <1> HIDE DEF c
  <1>4. <<c>> \in Seq({c}) /\ Len(<<c>>) = 1 /\ <<c>>[1] = c
    BY OneChar
  <1>5. ToSet(<<c>>) = {c}
    <2>1. DOMAIN <<c>> = 1..1
      BY <1>4, LenProperties
    <2> QED
      BY <1>4, <2>1 DEF ToSet
  <1>6. Escape(<<c>>) = <<c>>
    BY <1>2, <1>5 DEF Escape
  <1>7. IsField(<<c>>) /\ FieldOf(<<c>>) = v
    BY <1>1, <1>4 DEF IsField, FieldOf
  <1>8. <<c>> \in Seq(ToSet(<<c>>) \ Special)
    <2>1. ToSet(<<c>>) \ Special = {c}
      BY <1>2, <1>5
    <2> QED
      BY <1>4, <2>1
  <1>9. Field(v) = <<c>>
    BY DEF Field, c
  <1> QED
    BY <1>2, <1>3, <1>5, <1>6, <1>7, <1>8, <1>9

\* Rows of so many texts.
RowsOfTexts(rows, n) ==
  \A row \in rows : /\ row = [i \in 1..n |-> row[i]]
                    /\ \A i \in 1..n : row[i] \in Seq(ToSet(row[i]))

\* Such rows are of their own characters, and of no line break if they have none.
LEMMA TableTyped ==
  ASSUME NEW n \in Nat, NEW R, RowsOfTexts(R, n), NEW table \in Seq(R)
  PROVE  /\ table \in Seq(Seq(Seq(CharactersOf(R))))
         /\ \A k \in 1..Len(table) : Len(table[k]) = n
         /\ (\A k \in 1..Len(table), i \in 1..n : Newline \notin ToSet(table[k][i]))
              => table \in Seq(Seq(Seq(CharactersOf(R) \ {Newline})))
  <1> DEFINE T == CharactersOf(R)
             m == Len(table)
  <1>1. m \in Nat /\ table \in [1..m -> R] /\ \A k \in 1..m : table[k] \in R
    BY LenProperties, ElementOfSeq
  <1>2. ASSUME NEW row \in R, NEW W, \A i \in 1..n : ToSet(row[i]) \subseteq W
        PROVE  row \in Seq(Seq(W)) /\ Len(row) = n
    BY <1>2, RowTyped DEF RowsOfTexts
  <1>3. ASSUME NEW row \in R, NEW i \in 1..n PROVE ToSet(row[i]) \subseteq T
    <2>1. row[i] \in ToSet(row)
      <3>1. row = [k \in 1..n |-> row[k]]
        BY DEF RowsOfTexts
      <3>2. DOMAIN row = 1..n
        BY <3>1
      <3> QED
        BY <3>2 DEF ToSet
    <2> QED
      BY <2>1 DEF CharactersOf
  <1>4. ASSUME NEW W, \A k \in 1..m, i \in 1..n : ToSet(table[k][i]) \subseteq W
        PROVE  table \in Seq(Seq(Seq(W)))
    <2> DEFINE V == Seq(Seq(W))
    <2>1. \A k \in 1..m : table[k] \in V
      BY <1>1, <1>2, <1>4
    <2> HIDE DEF V, m
    <2>2. table \in [1..m -> V]
      BY <1>1, <2>1
    <2>3. table \in Seq(V)
      BY <1>1, <2>2, FunctionIsSeq
    <2> QED
      BY <2>3 DEF V
  <1>5. \A k \in 1..m, i \in 1..n : ToSet(table[k][i]) \subseteq T
    BY <1>1, <1>3
  <1>6. \A k \in 1..m : Len(table[k]) = n
    BY <1>1, <1>2, <1>3
  <1>7. ASSUME \A k \in 1..m, i \in 1..n : Newline \notin ToSet(table[k][i])
        PROVE  table \in Seq(Seq(Seq(T \ {Newline})))
    <2> DEFINE U == T \ {Newline}
    <2>1. \A k \in 1..m, i \in 1..n : ToSet(table[k][i]) \subseteq U
      BY <1>5, <1>7
    <2> HIDE DEF U
    <2>2. table \in Seq(Seq(Seq(U)))
      BY <1>4, <2>1
    <2> QED
      BY <2>2 DEF U
  <1> QED
    BY <1>4, <1>5, <1>6, <1>7

\* The lines of a file of such rows, split into columns: the rows if none has a
\* line break, and otherwise one that is too short.
LEMMA FileReads ==
  ASSUME NEW n \in Nat, n > 1, NEW R, RowsOfTexts(R, n), NEW table \in Seq(R)
  PROVE  LET lines == FileLines(FileText(RowsMade(table)))
         IN  \/ /\ \A k \in 1..Len(table), i \in 1..n : Newline \notin ToSet(table[k][i])
                /\ lines = RowsMade(table)
                /\ Len(lines) = Len(table)
                /\ \A k \in 1..Len(table) : SplitLine(lines[k]) = table[k]
             \/ \E k \in 1..Len(table), i \in 1..n :
                  /\ Newline \in ToSet(table[k][i])
                  /\ \E l \in 1..Len(lines) : Len(SplitLine(lines[l])) = i
  <1> DEFINE T == CharactersOf(R)
             U == T \ {Newline}
             lines == FileLines(FileText(RowsMade(table)))
             m == Len(table)
  <1>1. Special \subseteq T
    BY DEF CharactersOf
  <1>2. table \in Seq(Seq(Seq(T))) /\ \A k \in 1..m : Len(table[k]) = n
    BY TableTyped
  <1>3. CASE \A k \in 1..m, i \in 1..n : Newline \notin ToSet(table[k][i])
    <2>1. table \in Seq(Seq(Seq(U)))
      BY <1>3, TableTyped
    <2>2. Quote \in U /\ Comma \in U /\ U \subseteq T
      BY <1>1 DEF Special, Comma, Quote, Newline, Char
    <2>3. \A k \in 1..m : Len(table[k]) > 1
      BY <1>2
    <2> HIDE DEF T
    <2>4. lines = RowsMade(table)
      BY <1>1, <2>1, <2>3, WholeFile
    <2> HIDE DEF U, lines
    <2>5. /\ Len(RowsMade(table)) = m
          /\ \A k \in 1..m : SplitLine(RowsMade(table)[k]) = table[k]
      BY <1>1, <2>1, <2>2, <2>3, RowsAre
    <2> QED
      BY <1>3, <2>4, <2>5 DEF lines
  <1>4. ASSUME NEW k \in 1..m, NEW i \in 1..n, Newline \in ToSet(table[k][i])
        PROVE  \E j \in 1..n : /\ Newline \in ToSet(table[k][j])
                               /\ \E l \in 1..Len(lines) : Len(SplitLine(lines[l])) = j
    <2>1. \A h \in 1..m : Len(table[h]) > 1
      BY <1>2
    <2>2. Len(table[k]) = n
      BY <1>2
    <2>3. \E j \in 1..Len(table[k]) : Newline \in ToSet(table[k][j])
      BY <1>4, <2>2
    <2> HIDE DEF T
    <2>4. \E l \in 1..Len(lines), j \in 1..Len(table[k]) :
            /\ Newline \in ToSet(table[k][j])
            /\ Len(SplitLine(lines[l])) = j
      BY <1>1, <1>2, <2>1, <2>3, BrokenFile
    <2> QED
      BY <2>2, <2>4
  <1> QED
    BY <1>3, <1>4

-----------------------------------------------------------------------------
(* The capture read back *)

\* The columns of the row of a frame, before csv_escape.
RowTexts(f) ==
  <<Field(FormatTimestamp(f.timestamp_host)), f.bus, Field(f.direction),
    Field(PrefixedHex(f.id)), Field(f.id_format), Field(f.frame_format), Field(f.frame_type),
    Field(UpperHex(f.dlc)), Field(Decimal(f.data_length)), Field(Flags(f)),
    Field(DataHex(f.data))>>

\* The row of a frame is made of these texts, its name the only one that
\* csv_escape may change.
LEMMA RowIs ==
  ASSUME NEW f
  PROVE  /\ CaptureRow(f) = Joined(EscapedAll(RowTexts(f)))
         /\ Len(RowTexts(f)) = 11
  <1>1. CaptureRow(f) =
          Joined(<<Field(FormatTimestamp(f.timestamp_host)), Escape(f.bus), Field(f.direction),
                   Field(PrefixedHex(f.id)), Field(f.id_format), Field(f.frame_format),
                   Field(f.frame_type), Field(UpperHex(f.dlc)), Field(Decimal(f.data_length)),
                   Escape(Field(Flags(f))), Field(DataHex(f.data))>>)
    BY Zenon DEF CaptureRow
  <1>2. EscapedAll(RowTexts(f)) =
          <<Escape(Field(FormatTimestamp(f.timestamp_host))), Escape(f.bus),
            Escape(Field(f.direction)), Escape(Field(PrefixedHex(f.id))),
            Escape(Field(f.id_format)), Escape(Field(f.frame_format)),
            Escape(Field(f.frame_type)), Escape(Field(UpperHex(f.dlc))),
            Escape(Field(Decimal(f.data_length))), Escape(Field(Flags(f))),
            Escape(Field(DataHex(f.data)))>>
    BY DEF EscapedAll, RowTexts
  <1>3. \A v : Escape(Field(v)) = Field(v)
    BY FieldIs
  <1>4. /\ Escape(Field(FormatTimestamp(f.timestamp_host))) = Field(FormatTimestamp(f.timestamp_host))
        /\ Escape(Field(f.direction)) = Field(f.direction)
        /\ Escape(Field(PrefixedHex(f.id))) = Field(PrefixedHex(f.id))
        /\ Escape(Field(f.id_format)) = Field(f.id_format)
        /\ Escape(Field(f.frame_format)) = Field(f.frame_format)
        /\ Escape(Field(f.frame_type)) = Field(f.frame_type)
        /\ Escape(Field(UpperHex(f.dlc))) = Field(UpperHex(f.dlc))
        /\ Escape(Field(Decimal(f.data_length))) = Field(Decimal(f.data_length))
        /\ Escape(Field(DataHex(f.data))) = Field(DataHex(f.data))
    BY <1>3, Zenon
  <1>5. CaptureRow(f) = Joined(EscapedAll(RowTexts(f)))
    BY <1>1, <1>2, <1>4, Zenon
  <1>6. Len(RowTexts(f)) = 11
    BY DEF RowTexts
  <1> QED
    BY <1>5, <1>6

\* A column is the text of a value or the name of the bus.
LEMMA ColumnIs ==
  ASSUME NEW f, NEW i \in 1..11
  PROVE  \/ i # 2 /\ \E v : RowTexts(f)[i] = Field(v)
         \/ i = 2 /\ RowTexts(f)[i] = f.bus
  <1>1. \/ i = 1 \/ i = 2 \/ i = 3 \/ i = 4 \/ i = 5 \/ i = 6 \/ i = 7 \/ i = 8 \/ i = 9
        \/ i = 10 \/ i = 11
    OBVIOUS
  <1> QED
    BY <1>1 DEF RowTexts

\* A time to the millisecond.
ToMillis(time) == [time EXCEPT !.nanos = 1000000 * (@ \div 1000000)]

\* A row gives back the time to the millisecond.
LEMMA TimeBack ==
  ASSUME NEW time \in HostTimes
  PROVE  ParseCsvTimestamp(FormatTimestamp(time)) = ToMillis(time)
  <1>1. time = [secs |-> time.secs, nanos |-> time.nanos]
    BY DEF HostTimes
  <1>2. \A s, m, n : [[secs |-> s, nanos |-> m] EXCEPT !.nanos = n] = [secs |-> s, nanos |-> n]
    OBVIOUS
  <1>3. ToMillis(time) = [secs |-> time.secs, nanos |-> 1000000 * (time.nanos \div 1000000)]
    BY <1>1, <1>2, SMT DEF ToMillis
  <1> QED
    BY <1>3, SMT DEF ParseCsvTimestamp, FormatTimestamp

\* A frame as a row gives it back.
LEMMA CapturedIs ==
  ASSUME NEW f \in CanFrames
  PROVE  AsCaptured(f) = Anew(f, ToMillis(f.timestamp_host), "capture-csv", {CaptureRow(f)})
  <1>1. AsCaptured(f) = AnewOf(f, ToMillis(f.timestamp_host), "capture-csv", {CaptureRow(f)})
    BY SMT DEF AsCaptured, AnewOf, ToMillis
  <1> HIDE DEF ToMillis
  <1> QED
    BY <1>1, AnewIs

\* The number of a text.
LEMMA NumbersBack ==
  ASSUME NEW n
  PROVE  ReadHex(UpperHex(n)) = {n} /\ ReadDecimal(Decimal(n)) = {n}
  BY DEF ReadHex, ReadDecimal, ReadAs, UpperHex, Decimal

\* These texts make the frame again, its time to the millisecond.
LEMMA RowBack ==
  ASSUME NEW f \in CanFrames, NEW line, SplitLine(line) = RowTexts(f), line = CaptureRow(f)
  PROVE  ReadCaptureRow(line) = {AsCaptured(f)}
  <1> DEFINE t == SplitLine(line)
             time == ParseCsvTimestamp(FormatTimestamp(f.timestamp_host))
  <1>1. /\ Len(t) = 11
        /\ t[1] = Field(FormatTimestamp(f.timestamp_host)) /\ t[2] = f.bus
        /\ t[3] = Field(f.direction)
        /\ t[4] = Field(PrefixedHex(f.id)) /\ t[5] = Field(f.id_format)
        /\ t[6] = Field(f.frame_format) /\ t[7] = Field(f.frame_type)
        /\ t[8] = Field(UpperHex(f.dlc)) /\ t[9] = Field(Decimal(f.data_length))
        /\ t[10] = Field(Flags(f)) /\ t[11] = Field(DataHex(f.data))
    BY DEF RowTexts
  <1>2. \A i \in 1..11 \ {2} : IsField(t[i])
    <2> TAKE i \in 1..11 \ {2}
    <2>1. PICK v : t[i] = Field(v)
      BY ColumnIs
    <2> HIDE DEF t
    <2> QED
      BY <2>1, FieldIs
  <1> HIDE DEF t
  <1>3. t = RowTexts(f)
    BY DEF t
  <1>4. \A v : FieldOf(Field(v)) = v
    BY FieldIs
  <1> DEFINE Read(id, dlc, length) ==
               FrameOf(CaptureFields(t, id, dlc, length), ParseCsvTimestamp(FieldOf(t[1])),
                       "capture-csv", {line})
             Ids == ReadCanId(FieldOf(t[4]))
             Dlcs == ReadHex(FieldOf(t[8]))
             Lengths == ReadDecimal(FieldOf(t[9]))
  <1>5. ReadCaptureRow(line) =
          UNION {Read(id, dlc, length) : id \in Ids, dlc \in Dlcs, length \in Lengths}
    <2> DEFINE all == UNION {Read(id, dlc, length) : id \in Ids, dlc \in Dlcs, length \in Lengths}
    <2>1. ReadCaptureRow(line) =
            IF Len(t) # 11 \/ \E i \in 1..11 \ {2} : ~IsField(t[i]) THEN {} ELSE all
      BY DEF ReadCaptureRow, t
    <2> HIDE DEF all
    <2>2. ReadCaptureRow(line) = all
      BY <1>1, <1>2, <2>1
    <2> QED
      BY <2>2 DEF all
  <1>6. Ids = {f.id} /\ Dlcs = {f.dlc} /\ Lengths = {f.data_length}
    BY <1>1, <1>4, IdReadBack, NumbersBack
  <1>7. Read(f.id, f.dlc, f.data_length) =
          FrameOf(CaptureFields(t, f.id, f.dlc, f.data_length), time, "capture-csv", {line})
    BY <1>1, <1>4
  <1> HIDE DEF Ids, Dlcs, Lengths
  <1>8. ReadCaptureRow(line) = Read(f.id, f.dlc, f.data_length)
    <2> HIDE DEF Read
    <2> QED
      BY <1>5, <1>6
  <1> DEFINE e == CaptureFields(t, f.id, f.dlc, f.data_length)
  <1>9. /\ e.bus = f.bus /\ e.direction = f.direction /\ e.id = f.id
        /\ e.id_format = f.id_format
        /\ e.frame_format = f.frame_format /\ e.frame_type = f.frame_type /\ e.dlc = f.dlc
        /\ e.data_length = f.data_length /\ e.flags = Flags(f) /\ e.data_hex = DataHex(f.data)
    BY <1>1, <1>4 DEF CaptureFields
  <1> HIDE DEF Read, e
  <1>10. FrameOf(e, time, "capture-csv", {line}) = {Anew(f, time, "capture-csv", {line})}
    BY <1>9, FrameMade
  <1>11. Anew(f, time, "capture-csv", {line}) = AsCaptured(f)
    <2>1. time = ToMillis(f.timestamp_host)
      BY ReceivedIs, TimeBack
    <2> HIDE DEF time, ToMillis
    <2> QED
      BY <2>1, CapturedIs
  <1> QED
    BY <1>7, <1>8, <1>10, <1>11 DEF e

\* The rows of these frames, as a file has them.
RowsOf(kept) == [i \in DOMAIN kept |-> CaptureRow(kept[i])]

\* Their columns.
TableOf(kept) == [i \in DOMAIN kept |-> RowTexts(kept[i])]

\* They are rows of texts, in which only the name may have a line break.
LEMMA CaptureTable ==
  ASSUME NEW kept \in Seq(CanFrames)
  PROVE  /\ RowsOfTexts({RowTexts(f) : f \in CanFrames}, 11)
         /\ TableOf(kept) \in Seq({RowTexts(f) : f \in CanFrames})
         /\ RowsOf(kept) = RowsMade(TableOf(kept))
         /\ Len(TableOf(kept)) = Len(kept)
         /\ \A k \in 1..Len(kept) :
              /\ TableOf(kept)[k] = RowTexts(kept[k])
              /\ TableOf(kept)[k][2] = kept[k].bus
              /\ \A i \in 1..11 : Newline \in ToSet(TableOf(kept)[k][i]) => i = 2
  <1> DEFINE R == {RowTexts(f) : f \in CanFrames}
             table == TableOf(kept)
             n == Len(kept)
  <1>1. n \in Nat /\ DOMAIN kept = 1..n /\ \A i \in 1..n : kept[i] \in CanFrames
    BY LenProperties, ElementOfSeq
  <1>2. ASSUME NEW f \in CanFrames
        PROVE  /\ RowTexts(f) = [i \in 1..11 |-> RowTexts(f)[i]]
               /\ \A i \in 1..11 : RowTexts(f)[i] \in Seq(ToSet(RowTexts(f)[i]))
               /\ \A i \in 1..11 : Newline \in ToSet(RowTexts(f)[i]) => i = 2
               /\ RowTexts(f)[2] = f.bus
    <2>1. f.bus \in Text
      BY ReceivedIs, InputAssumption
    <2>2. f.bus \in Seq(ToSet(f.bus))
      BY <2>1, OwnCharacters DEF Text
    <2>3. RowTexts(f) = [i \in 1..11 |-> RowTexts(f)[i]] /\ RowTexts(f)[2] = f.bus
      BY DEF RowTexts
    <2>4. ASSUME NEW i \in 1..11
          PROVE  /\ RowTexts(f)[i] \in Seq(ToSet(RowTexts(f)[i]))
                 /\ Newline \in ToSet(RowTexts(f)[i]) => i = 2
      <3>1. CASE i = 2
        BY <2>2, <2>3, <3>1
      <3>2. CASE i # 2
        <4>1. PICK v : RowTexts(f)[i] = Field(v)
          BY <3>2, ColumnIs
        <4>2. Field(v) \in Seq(ToSet(Field(v))) /\ Newline \notin ToSet(Field(v))
          BY FieldIs, OwnCharacters
        <4> QED
          BY <4>1, <4>2
      <3> QED
        BY <3>1, <3>2
    <2> QED
      BY <2>3, <2>4
  <1>3. RowsOfTexts(R, 11)
    BY <1>2 DEF RowsOfTexts
  <1>4. \A k \in 1..n : table[k] = RowTexts(kept[k]) /\ table[k] \in R
    BY <1>1 DEF TableOf
  <1>5. table \in Seq(R) /\ Len(table) = n
    <2>1. table = [k \in 1..n |-> RowTexts(kept[k])]
      BY <1>1 DEF TableOf
    <2> HIDE DEF table, R
    <2>2. table \in [1..n -> R]
      BY <1>4, <2>1
    <2> QED
      BY <1>1, <2>2, FunctionIsSeq
  <1>6. RowsOf(kept) = RowsMade(table)
    <2>1. DOMAIN table = 1..n
      BY <1>1 DEF TableOf
    <2>2. RowsOf(kept) = [k \in 1..n |-> CaptureRow(kept[k])]
      BY <1>1 DEF RowsOf
    <2> HIDE DEF table
    <2>3. RowsMade(table) = [k \in 1..n |-> Joined(EscapedAll(table[k]))]
      BY <2>1 DEF RowsMade
    <2>4. \A k \in 1..n : CaptureRow(kept[k]) = Joined(EscapedAll(table[k]))
      BY <1>4, RowIs
    <2> QED
      BY <2>2, <2>3, <2>4
  <1> QED
    BY <1>1, <1>2, <1>3, <1>4, <1>5, <1>6

\* A capture without a line break in a name is read back frame by frame, and
\* one with a line break is refused.
LEMMA CaptureRead ==
  ASSUME NEW kept \in Seq(CanFrames)
  PROVE  ReadCapture(FileText(RowsOf(kept))) =
           IF \E k \in 1..Len(kept) : Newline \in ToSet(kept[k].bus) THEN {}
           ELSE {[k \in DOMAIN kept |-> AsCaptured(kept[k])]}
  <1> DEFINE n == Len(kept)
             table == TableOf(kept)
             text == FileText(RowsOf(kept))
             lines == FileLines(text)
             R == {RowTexts(f) : f \in CanFrames}
             read == [k \in 1..Len(lines) |-> ReadCaptureRow(lines[k])]
  <1>1. n \in Nat /\ DOMAIN kept = 1..n /\ \A k \in 1..n : kept[k] \in CanFrames
    BY LenProperties, ElementOfSeq
  <1>2. /\ RowsOfTexts(R, 11) /\ table \in Seq(R) /\ RowsOf(kept) = RowsMade(table)
        /\ Len(table) = n
        /\ \A k \in 1..n : /\ table[k] = RowTexts(kept[k]) /\ table[k][2] = kept[k].bus
                           /\ \A i \in 1..11 : Newline \in ToSet(table[k][i]) => i = 2
    BY CaptureTable
  <1>3. ReadCapture(text) =
          IF \E k \in DOMAIN read : read[k] = {} THEN {}
          ELSE {[k \in DOMAIN read |-> CHOOSE row \in read[k] : TRUE]}
    BY DEF ReadCapture, ReadRows
  <1>4. DOMAIN read = 1..Len(lines) /\ \A k \in 1..Len(lines) : read[k] = ReadCaptureRow(lines[k])
    OBVIOUS
  <1>5. \/ /\ \A k \in 1..n, i \in 1..11 : Newline \notin ToSet(table[k][i])
           /\ lines = RowsOf(kept)
           /\ Len(lines) = n
           /\ \A k \in 1..n : SplitLine(lines[k]) = table[k]
        \/ \E k \in 1..n, i \in 1..11 :
             /\ Newline \in ToSet(table[k][i])
             /\ \E l \in 1..Len(lines) : Len(SplitLine(lines[l])) = i
    <2> DEFINE w == 11
    <2>0. w \in Nat /\ w > 1
      OBVIOUS
    <2> HIDE DEF w, R, table
    <2>1. RowsOfTexts(R, w)
      BY <1>2 DEF w
    <2>2. LET ls == FileLines(FileText(RowsMade(table)))
          IN  \/ /\ \A k \in 1..Len(table), i \in 1..w : Newline \notin ToSet(table[k][i])
                 /\ ls = RowsMade(table)
                 /\ Len(ls) = Len(table)
                 /\ \A k \in 1..Len(table) : SplitLine(ls[k]) = table[k]
              \/ \E k \in 1..Len(table), i \in 1..w :
                   /\ Newline \in ToSet(table[k][i])
                   /\ \E l \in 1..Len(ls) : Len(SplitLine(ls[l])) = i
      BY <1>2, <2>0, <2>1, FileReads
    <2> QED
      BY <1>2, <2>2 DEF w
  <1> HIDE DEF read, text, lines, table, R
  <1>6. CASE /\ \A k \in 1..n, i \in 1..11 : Newline \notin ToSet(table[k][i])
             /\ lines = RowsOf(kept)
             /\ Len(lines) = n
             /\ \A k \in 1..n : SplitLine(lines[k]) = table[k]
    <2>0. \A k \in 1..n : lines[k] = CaptureRow(kept[k])
      BY <1>1, <1>6 DEF RowsOf
    <2>1. \A k \in 1..n : read[k] = {AsCaptured(kept[k])}
      BY <1>1, <1>2, <1>4, <1>6, <2>0, RowBack
    <2>2. [k \in DOMAIN read |-> CHOOSE row \in read[k] : TRUE] = [k \in DOMAIN kept |-> AsCaptured(kept[k])]
      <3>1. \A x : (CHOOSE row \in {x} : TRUE) = x
        OBVIOUS
      <3> QED
        BY <1>1, <1>4, <1>6, <2>1, <3>1
    <2>3. ~ \E k \in DOMAIN read : read[k] = {}
      BY <1>4, <1>6, <2>1
    <2>4. \A k \in 1..n : Newline \notin ToSet(kept[k].bus)
      BY <1>2, <1>6
    <2> QED
      BY <1>3, <2>2, <2>3, <2>4 DEF text
  <1>7. ASSUME NEW k \in 1..n, NEW i \in 1..11, Newline \in ToSet(table[k][i]),
               NEW l \in 1..Len(lines), Len(SplitLine(lines[l])) = i
        PROVE  ReadCapture(FileText(RowsOf(kept))) =
                 IF \E h \in 1..n : Newline \in ToSet(kept[h].bus) THEN {}
                 ELSE {[h \in DOMAIN kept |-> AsCaptured(kept[h])]}
    <2>1. i = 2 /\ Newline \in ToSet(kept[k].bus)
      BY <1>2, <1>7
    <2>2. ReadCaptureRow(lines[l]) = {}
      BY <1>7, <2>1 DEF ReadCaptureRow
    <2>3. ReadCapture(text) = {}
      BY <1>3, <1>4, <2>2
    <2> QED
      BY <2>1, <2>3 DEF text
  <1> QED
    BY <1>5, <1>6, <1>7

-----------------------------------------------------------------------------
(* The file of signals read back *)

\* Values and samples as the parser makes them.
Values == [nan : BOOLEAN, steps : Int]

PrefixedTexts == {PrefixedHex(n) : n \in Nat}

Samples ==
  [timestamp_host : [secs : Nat, millis : Nat], bus : Text, frame_id : PrefixedTexts,
   signal_id : Text, name : Text,
   value : Values, unit : Text, quality : {"ok", "parse-error"}, source_sequence : Nat]

\* The columns of the row of a sample, before csv_escape.
SampleTexts(s) ==
  <<Field(s.timestamp_host), s.bus, Field(s.frame_id), s.signal_id, s.name,
    Field(Printed(s.value)), s.unit, Field(s.quality), Field(s.source_sequence)>>

\* A sample as a row gives it back.
AsPrinted(s) ==
  [timestamp_host |-> s.timestamp_host, bus |-> s.bus, frame_id |-> s.frame_id,
   signal_id |-> s.signal_id, name |-> s.name, value |-> Printed(s.value), unit |-> s.unit,
   quality |-> s.quality, source_sequence |-> s.source_sequence]

\* The row of a sample is made of these texts.
LEMMA SampleRowIs ==
  ASSUME NEW s
  PROVE  SampleRow(s) = Joined(EscapedAll(SampleTexts(s)))
  <1>1. EscapedAll(SampleTexts(s)) =
          <<Escape(Field(s.timestamp_host)), Escape(s.bus), Escape(Field(s.frame_id)),
            Escape(s.signal_id), Escape(s.name), Escape(Field(Printed(s.value))),
            Escape(s.unit), Escape(Field(s.quality)), Escape(Field(s.source_sequence))>>
    BY DEF EscapedAll, SampleTexts
  <1>2. \A v : Escape(Field(v)) = Field(v)
    BY FieldIs
  <1>3. SampleRow(s) =
          Joined(<<Field(s.timestamp_host), Escape(s.bus), Field(s.frame_id),
                   Escape(s.signal_id), Escape(s.name), Field(Printed(s.value)),
                   Escape(s.unit), Field(s.quality), Field(s.source_sequence)>>)
    BY DEF SampleRow
  <1>4. /\ Escape(Field(s.timestamp_host)) = Field(s.timestamp_host)
        /\ Escape(Field(s.frame_id)) = Field(s.frame_id)
        /\ Escape(Field(Printed(s.value))) = Field(Printed(s.value))
        /\ Escape(Field(s.quality)) = Field(s.quality)
        /\ Escape(Field(s.source_sequence)) = Field(s.source_sequence)
    BY <1>2
  <1> QED
    BY <1>1, <1>3, <1>4

\* Its columns are texts of a user, of which there are four, or those of values.
LEMMA SampleColumns ==
  ASSUME NEW s \in Samples
  PROVE  /\ SampleTexts(s) = [i \in 1..9 |-> SampleTexts(s)[i]]
         /\ \A i \in 1..9 : /\ SampleTexts(s)[i] \in Seq(ToSet(SampleTexts(s)[i]))
                            /\ Newline \in ToSet(SampleTexts(s)[i]) => i \in {2, 4, 5, 7}
  <1> DEFINE t == SampleTexts(s)
  <1>1. s.bus \in Text /\ s.signal_id \in Text /\ s.name \in Text /\ s.unit \in Text
    BY DEF Samples
  <1>2. t = [i \in 1..9 |-> t[i]]
    BY DEF SampleTexts
  <1>3. /\ t[1] = Field(s.timestamp_host) /\ t[2] = s.bus /\ t[3] = Field(s.frame_id)
        /\ t[4] = s.signal_id /\ t[5] = s.name /\ t[6] = Field(Printed(s.value))
        /\ t[7] = s.unit /\ t[8] = Field(s.quality) /\ t[9] = Field(s.source_sequence)
    BY DEF SampleTexts
  <1>4. \A v : Field(v) \in Seq(ToSet(Field(v))) /\ Newline \notin ToSet(Field(v))
    BY FieldIs, OwnCharacters
  <1>5. \A x \in Text : x \in Seq(ToSet(x))
    BY OwnCharacters DEF Text
  <1> HIDE DEF t
  <1>6. ASSUME NEW i \in 1..9
        PROVE  t[i] \in Seq(ToSet(t[i])) /\ (Newline \in ToSet(t[i]) => i \in {2, 4, 5, 7})
    <2>1. \/ i = 1 \/ i = 2 \/ i = 3 \/ i = 4 \/ i = 5 \/ i = 6 \/ i = 7 \/ i = 8 \/ i = 9
      OBVIOUS
    <2>2. CASE i \in {2, 4, 5, 7}
      BY <1>1, <1>3, <1>5, <2>2
    <2>3. CASE i \in {1, 3, 6, 8, 9}
      BY <1>3, <1>4, <2>3
    <2> QED
      BY <2>1, <2>2, <2>3
  <1> QED
    BY <1>2, <1>6 DEF t

\* These texts make the sample again, its value as it is printed.
LEMMA SampleBack ==
  ASSUME NEW s, NEW line, SplitLine(line) = SampleTexts(s)
  PROVE  ReadSampleRow(line) = {AsPrinted(s)}
  <1> DEFINE t == SplitLine(line)
  <1>1. /\ Len(t) = 9
        /\ t[1] = Field(s.timestamp_host) /\ t[2] = s.bus /\ t[3] = Field(s.frame_id)
        /\ t[4] = s.signal_id /\ t[5] = s.name /\ t[6] = Field(Printed(s.value))
        /\ t[7] = s.unit /\ t[8] = Field(s.quality) /\ t[9] = Field(s.source_sequence)
    BY DEF SampleTexts
  <1> HIDE DEF t
  <1>2. \A v : IsField(Field(v)) /\ FieldOf(Field(v)) = v
    BY FieldIs
  <1>3. \A i \in {1, 3, 6, 8, 9} : IsField(t[i])
    BY <1>1, <1>2
  <1>4. ReadSampleRow(line) =
         {[timestamp_host |-> FieldOf(t[1]), bus |-> t[2],
         frame_id |-> FieldOf(t[3]), signal_id |-> t[4], name |-> t[5],
         value |-> FieldOf(t[6]), unit |-> t[7], quality |-> FieldOf(t[8]),
         source_sequence |-> FieldOf(t[9])]}
    BY <1>1, <1>3, Zenon DEF ReadSampleRow, t
  <1>5. /\ FieldOf(t[1]) = s.timestamp_host /\ FieldOf(t[3]) = s.frame_id
        /\ FieldOf(t[6]) = Printed(s.value) /\ FieldOf(t[8]) = s.quality
        /\ FieldOf(t[9]) = s.source_sequence
    BY <1>1, <1>2, Zenon
  <1> QED
    BY <1>1, <1>4, <1>5, Zenon DEF AsPrinted

\* What is read of a file of samples, if anything, are these samples with their
\* values as they are printed.
LEMMA SamplesRead ==
  ASSUME NEW samples \in Seq(Samples)
  PROVE  ReadSignals(FileText([k \in DOMAIN samples |-> SampleRow(samples[k])]))
           \subseteq {[k \in DOMAIN samples |-> AsPrinted(samples[k])]}
  <1> DEFINE n == Len(samples)
             table == [k \in DOMAIN samples |-> SampleTexts(samples[k])]
             text == FileText([k \in DOMAIN samples |-> SampleRow(samples[k])])
             lines == FileLines(text)
             R == {SampleTexts(s) : s \in Samples}
             read == [k \in 1..Len(lines) |-> ReadSampleRow(lines[k])]
             w == 9
  <1>1. n \in Nat /\ DOMAIN samples = 1..n /\ \A k \in 1..n : samples[k] \in Samples
    BY LenProperties, ElementOfSeq
  <1>2. RowsOfTexts(R, w)
    BY SampleColumns DEF RowsOfTexts
  <1>3. \A k \in 1..n : table[k] = SampleTexts(samples[k]) /\ table[k] \in R
    BY <1>1
  <1>4. DOMAIN table = 1..n /\ table = [k \in 1..n |-> SampleTexts(samples[k])]
    BY <1>1
  <1>5. \A k \in 1..n, i \in 1..w : Newline \in ToSet(table[k][i]) => i \in {2, 4, 5, 7}
    BY <1>1, <1>3, SampleColumns
  <1>6. w \in Nat /\ w > 1 /\ w = 9
    OBVIOUS
  <1>7. ReadSignals(text) =
          IF \E k \in DOMAIN read : read[k] = {} THEN {}
          ELSE {[k \in DOMAIN read |-> CHOOSE row \in read[k] : TRUE]}
    BY DEF ReadSignals, ReadRows
  <1>8. DOMAIN read = 1..Len(lines) /\ \A k \in 1..Len(lines) : read[k] = ReadSampleRow(lines[k])
    OBVIOUS
  <1>9. [k \in DOMAIN samples |-> SampleRow(samples[k])] = [k \in 1..n |-> SampleRow(samples[k])]
    BY <1>1
  <1> HIDE DEF table, R, w
  <1>10. table \in Seq(R) /\ Len(table) = n
    <2>1. table \in [1..n -> R]
      BY <1>3, <1>4
    <2> QED
      BY <1>1, <2>1, FunctionIsSeq
  <1>11. text = FileText(RowsMade(table))
    <2>1. RowsMade(table) = [k \in 1..n |-> Joined(EscapedAll(table[k]))]
      BY <1>4 DEF RowsMade
    <2>2. \A k \in 1..n : SampleRow(samples[k]) = Joined(EscapedAll(table[k]))
      BY <1>3, SampleRowIs
    <2>3. RowsMade(table) = [k \in 1..n |-> SampleRow(samples[k])]
      BY <2>1, <2>2
    <2> QED
      BY <1>9, <2>3
  <1> HIDE DEF text
  <1>12. \/ /\ Len(lines) = n
            /\ \A k \in 1..n : SplitLine(lines[k]) = table[k]
         \/ \E k \in 1..n, i \in 1..w :
              /\ Newline \in ToSet(table[k][i])
              /\ \E l \in 1..Len(lines) : Len(SplitLine(lines[l])) = i
    <2>1. LET ls == FileLines(FileText(RowsMade(table)))
          IN  \/ /\ \A k \in 1..Len(table), i \in 1..w : Newline \notin ToSet(table[k][i])
                 /\ ls = RowsMade(table)
                 /\ Len(ls) = Len(table)
                 /\ \A k \in 1..Len(table) : SplitLine(ls[k]) = table[k]
              \/ \E k \in 1..Len(table), i \in 1..w :
                   /\ Newline \in ToSet(table[k][i])
                   /\ \E l \in 1..Len(ls) : Len(SplitLine(ls[l])) = i
      BY <1>2, <1>6, <1>10, FileReads
    <2> QED
      BY <1>10, <1>11, <2>1
  <1> HIDE DEF read, lines
  <1>13. CASE Len(lines) = n /\ \A k \in 1..n : SplitLine(lines[k]) = table[k]
    <2>1. \A k \in 1..n : read[k] = {AsPrinted(samples[k])}
      BY <1>1, <1>3, <1>8, <1>13, SampleBack
    <2>2. [k \in DOMAIN read |-> CHOOSE row \in read[k] : TRUE] = [k \in DOMAIN samples |-> AsPrinted(samples[k])]
      <3>1. \A x : (CHOOSE row \in {x} : TRUE) = x
        OBVIOUS
      <3> QED
        BY <1>1, <1>8, <1>13, <2>1, <3>1
    <2> QED
      BY <1>7, <2>2 DEF text
  <1>14. ASSUME NEW k \in 1..n, NEW i \in 1..w, Newline \in ToSet(table[k][i]),
                NEW l \in 1..Len(lines), Len(SplitLine(lines[l])) = i
         PROVE  ReadSignals(text) = {}
    <2>1. Len(SplitLine(lines[l])) # 9
      BY <1>5, <1>14
    <2>2. ReadSampleRow(lines[l]) = {}
      BY <2>1 DEF ReadSampleRow
    <2> QED
      BY <1>7, <1>8, <2>2
  <1> QED
    BY <1>12, <1>13, <1>14 DEF text

-----------------------------------------------------------------------------
(* What the parser and the plots keep *)

\* The signals of a configuration that match a frame.
MatchingOf(items, frame) == KeptOf(items, LAMBDA signal : Matches(signal.selector, frame))

\* They are those in a set.
LEMMA MatchingIs ==
  ASSUME NEW T, NEW items \in Seq(T), NEW frame
  PROVE  MatchingOf(items, frame) = KeptIn(items, {x \in T : Matches(x.selector, frame)})
  <1> DEFINE n == Len(items)
             Equation(iter) ==
               [s \in SUBSET (DOMAIN items) |->
                  IF s = {} THEN <<>>
                  ELSE LET k == Max(s)
                       IN  IF Matches(items[k].selector, frame) THEN Append(iter[s \ {k}], items[k])
                           ELSE iter[s \ {k}]]
             fold == CHOOSE iter : iter = Equation(iter)
             K == {i \in DOMAIN items : items[i] \in {x \in T : Matches(x.selector, frame)}}
  <1>1. MatchingOf(items, frame) = fold[DOMAIN items]
    BY DEF MatchingOf, KeptOf, FoldLeft, MapThenFoldSet
  <1>2. DOMAIN items = 1..n /\ n \in Nat /\ \A i \in 1..n : items[i] \in T
    BY LenProperties, ElementOfSeq
  <1>3. \A s \in SUBSET (1..n) : s # {} => (Matches(items[Max(s)].selector, frame) <=> Max(s) \in K)
    BY <1>2, MaxOfInterval
  <1> HIDE DEF K
  <1>4. ASSUME NEW iter PROVE Equation(iter) = KeptEquation(items, K, iter)
    BY <1>2, <1>3 DEF KeptEquation
  <1> HIDE DEF Equation
  <1>5. fold = KeptFold(items, K)
    BY <1>4 DEF KeptFold
  <1> QED
    BY <1>1, <1>2, <1>5 DEF KeptIn, K

\* The samples of one signal.
OfSignal(items, id) == KeptOf(items, LAMBDA sample : sample.signal_id = id)

\* They are those in a set.
LEMMA OfSignalIs ==
  ASSUME NEW T, NEW items \in Seq(T), NEW id
  PROVE  OfSignal(items, id) = KeptIn(items, {x \in T : x.signal_id = id})
  <1> DEFINE n == Len(items)
             Equation(iter) ==
               [s \in SUBSET (DOMAIN items) |->
                  IF s = {} THEN <<>>
                  ELSE LET k == Max(s)
                       IN  IF items[k].signal_id = id THEN Append(iter[s \ {k}], items[k])
                           ELSE iter[s \ {k}]]
             fold == CHOOSE iter : iter = Equation(iter)
             K == {i \in DOMAIN items : items[i] \in {x \in T : x.signal_id = id}}
  <1>1. OfSignal(items, id) = fold[DOMAIN items]
    BY DEF OfSignal, KeptOf, FoldLeft, MapThenFoldSet
  <1>2. DOMAIN items = 1..n /\ n \in Nat /\ \A i \in 1..n : items[i] \in T
    BY LenProperties, ElementOfSeq
  <1>3. \A s \in SUBSET (1..n) : s # {} => (items[Max(s)].signal_id = id <=> Max(s) \in K)
    BY <1>2, MaxOfInterval
  <1> HIDE DEF K
  <1>4. ASSUME NEW iter PROVE Equation(iter) = KeptEquation(items, K, iter)
    BY <1>2, <1>3 DEF KeptEquation
  <1> HIDE DEF Equation
  <1>5. fold = KeptFold(items, K)
    BY <1>4 DEF KeptFold
  <1> QED
    BY <1>1, <1>2, <1>5 DEF KeptIn, K

\* The samples of some signals.
OfSignals(items, ids) == KeptOf(items, LAMBDA s : s.signal_id \in ids)

\* They are those in a set.
LEMMA OfSignalsIs ==
  ASSUME NEW T, NEW items \in Seq(T), NEW ids
  PROVE  OfSignals(items, ids) = KeptIn(items, {x \in T : x.signal_id \in ids})
  <1> DEFINE n == Len(items)
             Equation(iter) ==
               [s \in SUBSET (DOMAIN items) |->
                  IF s = {} THEN <<>>
                  ELSE LET k == Max(s)
                       IN  IF items[k].signal_id \in ids THEN Append(iter[s \ {k}], items[k])
                           ELSE iter[s \ {k}]]
             fold == CHOOSE iter : iter = Equation(iter)
             K == {i \in DOMAIN items : items[i] \in {x \in T : x.signal_id \in ids}}
  <1>1. OfSignals(items, ids) = fold[DOMAIN items]
    BY DEF OfSignals, KeptOf, FoldLeft, MapThenFoldSet
  <1>2. DOMAIN items = 1..n /\ n \in Nat /\ \A i \in 1..n : items[i] \in T
    BY LenProperties, ElementOfSeq
  <1>3. \A s \in SUBSET (1..n) : s # {} => (items[Max(s)].signal_id \in ids <=> Max(s) \in K)
    BY <1>2, MaxOfInterval
  <1> HIDE DEF K
  <1>4. ASSUME NEW iter PROVE Equation(iter) = KeptEquation(items, K, iter)
    BY <1>2, <1>3 DEF KeptEquation
  <1> HIDE DEF Equation
  <1>5. fold = KeptFold(items, K)
    BY <1>4 DEF KeptFold
  <1> QED
    BY <1>1, <1>2, <1>5 DEF KeptIn, K

\* The chosen series of a panel.
ChosenSeries(items, selected) == KeptOf(items, LAMBDA series : series.id \in selected)

\* They are those in a set.
LEMMA ChosenSeriesIs ==
  ASSUME NEW T, NEW items \in Seq(T), NEW selected
  PROVE  ChosenSeries(items, selected) = KeptIn(items, {x \in T : x.id \in selected})
  <1> DEFINE n == Len(items)
             Equation(iter) ==
               [s \in SUBSET (DOMAIN items) |->
                  IF s = {} THEN <<>>
                  ELSE LET k == Max(s)
                       IN  IF items[k].id \in selected THEN Append(iter[s \ {k}], items[k])
                           ELSE iter[s \ {k}]]
             fold == CHOOSE iter : iter = Equation(iter)
             K == {i \in DOMAIN items : items[i] \in {x \in T : x.id \in selected}}
  <1>1. ChosenSeries(items, selected) = fold[DOMAIN items]
    BY DEF ChosenSeries, KeptOf, FoldLeft, MapThenFoldSet
  <1>2. DOMAIN items = 1..n /\ n \in Nat /\ \A i \in 1..n : items[i] \in T
    BY LenProperties, ElementOfSeq
  <1>3. \A s \in SUBSET (1..n) : s # {} => (items[Max(s)].id \in selected <=> Max(s) \in K)
    BY <1>2, MaxOfInterval
  <1> HIDE DEF K
  <1>4. ASSUME NEW iter PROVE Equation(iter) = KeptEquation(items, K, iter)
    BY <1>2, <1>3 DEF KeptEquation
  <1> HIDE DEF Equation
  <1>5. fold = KeptFold(items, K)
    BY <1>4 DEF KeptFold
  <1> QED
    BY <1>1, <1>2, <1>5 DEF KeptIn, K

\* The panels that have a series.
NotEmpty(items) == KeptOf(items, LAMBDA panel : panel.series # <<>>)

\* They are those in a set.
LEMMA NotEmptyIs ==
  ASSUME NEW T, NEW items \in Seq(T)
  PROVE  NotEmpty(items) = KeptIn(items, {x \in T : x.series # <<>>})
  <1> DEFINE n == Len(items)
             Equation(iter) ==
               [s \in SUBSET (DOMAIN items) |->
                  IF s = {} THEN <<>>
                  ELSE LET k == Max(s)
                       IN  IF items[k].series # <<>> THEN Append(iter[s \ {k}], items[k])
                           ELSE iter[s \ {k}]]
             fold == CHOOSE iter : iter = Equation(iter)
             K == {i \in DOMAIN items : items[i] \in {x \in T : x.series # <<>>}}
  <1>1. NotEmpty(items) = fold[DOMAIN items]
    BY DEF NotEmpty, KeptOf, FoldLeft, MapThenFoldSet
  <1>2. DOMAIN items = 1..n /\ n \in Nat /\ \A i \in 1..n : items[i] \in T
    BY LenProperties, ElementOfSeq
  <1>3. \A s \in SUBSET (1..n) : s # {} => (items[Max(s)].series # <<>> <=> Max(s) \in K)
    BY <1>2, MaxOfInterval
  <1> HIDE DEF K
  <1>4. ASSUME NEW iter PROVE Equation(iter) = KeptEquation(items, K, iter)
    BY <1>2, <1>3 DEF KeptEquation
  <1> HIDE DEF Equation
  <1>5. fold = KeptFold(items, K)
    BY <1>4 DEF KeptFold
  <1> QED
    BY <1>1, <1>2, <1>5 DEF KeptIn, K

\* The points of the chosen series.
OfSeries(items, selected) == KeptOf(items, LAMBDA point : point.series_id \in selected)

\* They are those in a set.
LEMMA OfSeriesIs ==
  ASSUME NEW T, NEW items \in Seq(T), NEW selected
  PROVE  OfSeries(items, selected) = KeptIn(items, {x \in T : x.series_id \in selected})
  <1> DEFINE n == Len(items)
             Equation(iter) ==
               [s \in SUBSET (DOMAIN items) |->
                  IF s = {} THEN <<>>
                  ELSE LET k == Max(s)
                       IN  IF items[k].series_id \in selected THEN Append(iter[s \ {k}], items[k])
                           ELSE iter[s \ {k}]]
             fold == CHOOSE iter : iter = Equation(iter)
             K == {i \in DOMAIN items : items[i] \in {x \in T : x.series_id \in selected}}
  <1>1. OfSeries(items, selected) = fold[DOMAIN items]
    BY DEF OfSeries, KeptOf, FoldLeft, MapThenFoldSet
  <1>2. DOMAIN items = 1..n /\ n \in Nat /\ \A i \in 1..n : items[i] \in T
    BY LenProperties, ElementOfSeq
  <1>3. \A s \in SUBSET (1..n) : s # {} => (items[Max(s)].series_id \in selected <=> Max(s) \in K)
    BY <1>2, MaxOfInterval
  <1> HIDE DEF K
  <1>4. ASSUME NEW iter PROVE Equation(iter) = KeptEquation(items, K, iter)
    BY <1>2, <1>3 DEF KeptEquation
  <1> HIDE DEF Equation
  <1>5. fold = KeptFold(items, K)
    BY <1>4 DEF KeptFold
  <1> QED
    BY <1>1, <1>2, <1>5 DEF KeptIn, K

\* The points of some frames.
OfNumbers(items, numbers) == KeptOf(items, LAMBDA point : point.source_sequence \in numbers)

\* They are those in a set.
LEMMA OfNumbersIs ==
  ASSUME NEW T, NEW items \in Seq(T), NEW numbers
  PROVE  OfNumbers(items, numbers) = KeptIn(items, {x \in T : x.source_sequence \in numbers})
  <1> DEFINE n == Len(items)
             Equation(iter) ==
               [s \in SUBSET (DOMAIN items) |->
                  IF s = {} THEN <<>>
                  ELSE LET k == Max(s)
                       IN  IF items[k].source_sequence \in numbers THEN Append(iter[s \ {k}], items[k])
                           ELSE iter[s \ {k}]]
             fold == CHOOSE iter : iter = Equation(iter)
             K == {i \in DOMAIN items : items[i] \in {x \in T : x.source_sequence \in numbers}}
  <1>1. OfNumbers(items, numbers) = fold[DOMAIN items]
    BY DEF OfNumbers, KeptOf, FoldLeft, MapThenFoldSet
  <1>2. DOMAIN items = 1..n /\ n \in Nat /\ \A i \in 1..n : items[i] \in T
    BY LenProperties, ElementOfSeq
  <1>3. \A s \in SUBSET (1..n) : s # {} => (items[Max(s)].source_sequence \in numbers <=> Max(s) \in K)
    BY <1>2, MaxOfInterval
  <1> HIDE DEF K
  <1>4. ASSUME NEW iter PROVE Equation(iter) = KeptEquation(items, K, iter)
    BY <1>2, <1>3 DEF KeptEquation
  <1> HIDE DEF Equation
  <1>5. fold = KeptFold(items, K)
    BY <1>4 DEF KeptFold
  <1> QED
    BY <1>1, <1>2, <1>5 DEF KeptIn, K

\* The text of a standalone capture that sees these of the frames received.
TextOf(received, chosen, seen) ==
  LET held == Limited(chosen, KeptOf(seen, LAMBDA n : CaptureAccepts(chosen, received[n])))
  IN  FileText([i \in DOMAIN held |-> CaptureRow(received[held[i]])])

\* Once there is a capture, it is the text that a standalone capture writes of
\* the frames that arrived.
CaptureInv ==
  stage \notin {"receiving", "failed"} =>
    /\ OneLimit(args)
    /\ window \in Seq(DOMAIN frames) /\ Follow(window)
    /\ capture = TextOf(frames, args, window)

\* There is no capture at first.
LEMMA CaptureInvInit == PipelineInit => CaptureInv
  BY DEF PipelineInit, CaptureInv

\* What the server finds in the query of a capture has the limit of its arguments.
LEMMA QueriedLimit ==
  ASSUME NEW chosen \in Arguments, NEW queried \in Queried(chosen)
  PROVE  OneLimit(queried)
  <1>1. OneLimit(chosen) /\ chosen \in CaptureArguments
    BY LimitIs, InputAssumption
  <1>2. PICK bus : queried = [chosen EXCEPT !.bus = bus]
    BY DEF Queried
  <1>3. queried.max_frames = chosen.max_frames
    BY <1>1, <1>2 DEF CaptureArguments
  <1> QED
    BY <1>1, <1>3 DEF OneLimit

\* A capture is written once, by either mode, and no frame comes after it.
LEMMA CaptureInvStep ==
  PipelineInv /\ CaptureInv /\ [PipelineNext]_pipelineVars => CaptureInv'
  <1> SUFFICES ASSUME PipelineInv, CaptureInv, [PipelineNext]_pipelineVars PROVE CaptureInv'
    OBVIOUS
  <1>1. ASSUME NEW sent, NEW damage, NEW bus, NEW time, ReceiveLine(sent, damage, bus, time)
        PROVE  CaptureInv'
    <2>1. stage' \in {"receiving", "failed"}
      BY <1>1 DEF ReceiveLine
    <2> QED
      BY <2>1 DEF CaptureInv
  <1>2. ASSUME NEW chosen, OneLimit(chosen), NEW seen \in Windows,
               RunCapture(chosen, seen, StandaloneText(chosen, seen))
        PROVE  CaptureInv'
    <2>1. /\ frames' = frames /\ args' = chosen /\ window' = seen
          /\ capture' = StandaloneText(chosen, seen)
      BY <1>2 DEF RunCapture
    <2>2. OneLimit(args)'
      BY <1>2, <2>1 DEF OneLimit
    <2>4. seen \in Seq(DOMAIN frames) /\ Follow(seen)
      <3> DEFINE T == CanFrames
      <3>1. frames \in Seq(T)
        BY DEF PipelineInv
      <3> HIDE DEF T
      <3> QED
        BY <3>1, WindowIs
    <2>5. (window \in Seq(DOMAIN frames) /\ Follow(window))'
      BY <2>1, <2>4 DEF Follow
    <2>3. StandaloneText(chosen, seen) = TextOf(frames, chosen, seen)
      BY Zenon DEF StandaloneText, Held, TextOf
    <2>6. (capture = TextOf(frames, args, window))'
      BY <2>1, <2>3
    <2> QED
      BY <2>2, <2>5, <2>6 DEF CaptureInv
  <1>3. ASSUME NEW chosen \in Arguments, NEW seen \in Windows, RunStandalone(chosen, seen)
        PROVE  CaptureInv'
    BY <1>2, <1>3, LimitIs DEF RunStandalone
  <1>4. ASSUME NEW chosen \in Arguments, NEW seen \in Windows, RunClient(chosen, seen)
        PROVE  CaptureInv'
    <2>1. PICK queried \in Queried(chosen) : RunCapture(queried, seen, ClientText(queried, seen))
      BY <1>4 DEF RunClient
    <2>2. OneLimit(queried)
      BY QueriedLimit
    <2>3. ClientText(queried, seen) = StandaloneText(queried, seen)
      BY <2>2, TextsAlike DEF PipelineInv
    <2> QED
      BY <1>2, <2>1, <2>2, <2>3
  <1>5. ASSUME UNCHANGED <<frames, args, window, capture>>, stage \notin {"receiving", "failed"}
        PROVE  CaptureInv'
    <2>1. OneLimit(args) /\ window \in Seq(DOMAIN frames) /\ Follow(window)
          /\ capture = TextOf(frames, args, window)
      BY <1>5 DEF CaptureInv
    <2>2. (OneLimit(args) /\ window \in Seq(DOMAIN frames) /\ Follow(window))'
      BY <1>5, <2>1 DEF OneLimit, Follow
    <2>3. (capture = TextOf(frames, args, window))'
      BY <1>5, <2>1
    <2> QED
      BY <2>2, <2>3 DEF CaptureInv
  <1>6. ASSUME NEW chosen, RunParse(chosen) PROVE CaptureInv'
    BY <1>5, <1>6 DEF RunParse
  <1>7. ASSUME NEW chosen, RunPlot(chosen) PROVE CaptureInv'
    BY <1>5, <1>7 DEF RunPlot
  <1>8. CASE UNCHANGED pipelineVars
    <2>1. stage' = stage /\ UNCHANGED <<frames, args, window, capture>>
      BY <1>8 DEF pipelineVars
    <2> QED
      BY <1>5, <2>1 DEF CaptureInv
  <1> QED
    BY <1>1, <1>3, <1>4, <1>6, <1>7, <1>8 DEF PipelineNext

\* What a capture holds are frames as the adapter hands them on, and its text is
\* that of their rows.
LEMMA KeptIs ==
  ASSUME PipelineInv, CaptureInv, stage \notin {"receiving", "failed"}
  PROVE  /\ Numbers \in Seq(DOMAIN frames)
         /\ Kept \in Seq(CanFrames) /\ Len(Kept) = Len(Numbers)
         /\ \A i \in 1..Len(Numbers) : Kept[i] = frames[Numbers[i]]
         /\ capture = FileText(RowsOf(Kept))
  <1> DEFINE n == Len(Numbers)
             T == CanFrames
  <1>1. frames \in Seq(T) /\ OneLimit(args) /\ window \in Seq(DOMAIN frames)
    BY DEF PipelineInv, CaptureInv
  <1> HIDE DEF T
  <1>2. Numbers \in Seq(DOMAIN frames)
    BY <1>1, HeldTyped DEF Numbers
  <1>3. n \in Nat /\ DOMAIN Numbers = 1..n /\ \A i \in 1..n : Numbers[i] \in DOMAIN frames
    BY <1>2, LenProperties, ElementOfSeq
  <1>4. Kept = [i \in 1..n |-> frames[Numbers[i]]]
    BY <1>3, Zenon DEF Kept
  <1>5. \A k \in DOMAIN frames : frames[k] \in T
    BY <1>1, LenProperties, ElementOfSeq
  <1>6. Kept \in [1..n -> T]
    BY <1>3, <1>4, <1>5
  <1>7. Kept \in Seq(T) /\ Len(Kept) = n
    BY <1>3, <1>6, FunctionIsSeq
  <1>8. capture = FileText([i \in 1..n |-> CaptureRow(frames[Numbers[i]])])
    BY <1>3, Zenon DEF CaptureInv, TextOf, Numbers, Held
  <1>9. RowsOf(Kept) = [i \in 1..n |-> CaptureRow(frames[Numbers[i]])]
    BY <1>4 DEF RowsOf
  <1> QED
    BY <1>2, <1>4, <1>7, <1>8, <1>9 DEF T

\* A capture is read back frame by frame, its times to the millisecond, and is
\* refused as a whole when the name of a bus has a line break: write_csv_file,
\* csv_escape, split_csv_line and read_capture_csv_file.
THEOREM CapturesReadBack == PipelineSpec => []CaptureReadsBack
  <1>1. PipelineInv /\ CaptureInv => CaptureReadsBack
    <2> SUFFICES ASSUME PipelineInv, CaptureInv, stage = "captured"
                 PROVE  ReadCapture(capture) =
                          IF \E i \in DOMAIN Kept : HasNewline(Kept[i].bus) THEN {}
                          ELSE {[i \in DOMAIN Kept |-> AsCaptured(Kept[i])]}
      BY DEF CaptureReadsBack
    <2>1. Kept \in Seq(CanFrames) /\ capture = FileText(RowsOf(Kept))
      BY KeptIs
    <2> DEFINE kept == Kept
    <2> HIDE DEF kept
    <2>2. kept \in Seq(CanFrames) /\ capture = FileText(RowsOf(kept))
      BY <2>1 DEF kept
    <2>3. DOMAIN kept = 1..Len(kept)
      BY <2>2, LenProperties
    <2>4. \A i \in DOMAIN kept : HasNewline(kept[i].bus) <=> Newline \in ToSet(kept[i].bus)
      BY DEF HasNewline
    <2>5. ReadCapture(FileText(RowsOf(kept))) =
            IF \E k \in 1..Len(kept) : Newline \in ToSet(kept[k].bus) THEN {}
            ELSE {[k \in DOMAIN kept |-> AsCaptured(kept[k])]}
      BY <2>2, CaptureRead
    <2>6. ReadCapture(capture) =
            IF \E k \in DOMAIN kept : HasNewline(kept[k].bus) THEN {}
            ELSE {[k \in DOMAIN kept |-> AsCaptured(kept[k])]}
      BY <2>2, <2>3, <2>4, <2>5
    <2> QED
      BY <2>6 DEF kept
  <1>2. PipelineInit => PipelineInv /\ CaptureInv
    BY PipelineInvInit, CaptureInvInit
  <1>3. PipelineInv /\ CaptureInv /\ [PipelineNext]_pipelineVars => (PipelineInv /\ CaptureInv)'
    BY PipelineInvStep, CaptureInvStep
  <1> QED
    BY <1>1, <1>2, <1>3, PTL DEF PipelineSpec

-----------------------------------------------------------------------------
(* Powers of two *)

\* The first powers of two.
Powers(f, n) ==
  /\ f \in [0..n -> Nat \ {0}]
  /\ f[0] = 1
  /\ \A k \in 1..n : f[k] = 2 * f[k - 1]

\* There are so many powers of two as one likes.
LEMMA PowersExist ==
  ASSUME NEW n \in Nat
  PROVE  \E f : Powers(f, n)
  <1> DEFINE S == {k \in Nat : \E f : Powers(f, k)}
  <1>1. 0 \in S
    <2>1. Powers([k \in 0..0 |-> 1], 0)
      BY DEF Powers
    <2> QED
      BY <2>1
  <1>2. ASSUME NEW k \in Nat, k \in S PROVE k + 1 \in S
    <2>1. PICK f : Powers(f, k)
      BY <1>2
    <2> DEFINE g == [j \in 0..k + 1 |-> IF j = k + 1 THEN 2 * f[k] ELSE f[j]]
    <2>2. \A j \in 0..k : f[j] \in Nat \ {0} /\ g[j] = f[j]
      BY <2>1 DEF Powers
    <2>3. g[k + 1] = 2 * f[k] /\ g[k + 1] \in Nat \ {0}
      BY <2>2
    <2>4. \A j \in 1..k + 1 : j - 1 \in 0..k /\ (j \in 1..k \/ j = k + 1)
      OBVIOUS
    <2>5. \A j \in 1..k + 1 : g[j] = 2 * g[j - 1]
      BY <2>1, <2>2, <2>3, <2>4 DEF Powers
    <2>6. g \in [0..k + 1 -> Nat \ {0}]
      BY <2>2, <2>3
    <2>7. g[0] = 1
      BY <2>1, <2>2 DEF Powers
    <2>8. Powers(g, k + 1)
      <3> HIDE DEF g
      <3> QED
        BY <2>5, <2>6, <2>7 DEF Powers
    <2> QED
      BY <2>8
  <1> HIDE DEF S
  <1>3. Nat \subseteq S
    BY <1>1, <1>2, NatSetInduction
  <1> QED
    BY <1>3 DEF S

\* They are the same, however many.
LEMMA PowersSame ==
  ASSUME NEW m \in Nat, NEW n \in Nat, m <= n, NEW f, Powers(f, m), NEW g, Powers(g, n)
  PROVE  f[m] = g[m]
  <1> DEFINE S == {k \in Nat : k <= m => f[k] = g[k]}
  <1>1. 0 \in S
    BY DEF Powers
  <1>2. ASSUME NEW k \in Nat, k \in S PROVE k + 1 \in S
    <2>1. k + 1 <= m => k + 1 \in 1..m /\ k + 1 \in 1..n /\ (k + 1) - 1 = k
      OBVIOUS
    <2> QED
      BY <1>2, <2>1 DEF Powers
  <1> HIDE DEF S
  <1>3. Nat \subseteq S
    BY <1>1, <1>2, NatSetInduction
  <1> QED
    BY <1>3 DEF S

\* Each power of two is twice the one before.
LEMMA PowersOfTwo ==
  /\ TwoTo[0] = 1
  /\ \A n \in Nat : TwoTo[n] \in Nat \ {0} /\ TwoTo[n + 1] = 2 * TwoTo[n]
  <1> DEFINE Doubles(p) == p = [n \in Nat |-> IF n = 0 THEN 1 ELSE 2 * p[n - 1]]
             F == [n \in Nat |-> (CHOOSE f : Powers(f, n))[n]]
  <1>1. \A n \in Nat : Powers(CHOOSE f : Powers(f, n), n)
    BY PowersExist
  <1>2. F[0] = 1
    BY <1>1 DEF Powers
  <1>3. ASSUME NEW n \in Nat PROVE F[n + 1] = 2 * F[n]
    <2> DEFINE f == CHOOSE h : Powers(h, n)
               g == CHOOSE h : Powers(h, n + 1)
    <2>1. Powers(f, n) /\ Powers(g, n + 1)
      BY <1>1
    <2>2. F[n] = f[n] /\ F[n + 1] = g[n + 1]
      OBVIOUS
    <2> HIDE DEF f, g
    <2>3. f[n] = g[n]
      BY <2>1, PowersSame
    <2>4. g[n + 1] = 2 * g[n]
      BY <2>1 DEF Powers
    <2> QED
      BY <2>2, <2>3, <2>4
  <1>4. Doubles(F)
    <2>1. \A n \in Nat : n = 0 \/ (n - 1 \in Nat /\ n = (n - 1) + 1)
      OBVIOUS
    <2>2. \A n \in Nat : F[n] = IF n = 0 THEN 1 ELSE 2 * F[n - 1]
      BY <1>2, <1>3, <2>1
    <2>3. F = [n \in Nat |-> F[n]]
      OBVIOUS
    <2> HIDE DEF F
    <2> QED
      BY <2>2, <2>3
  <1>5. TwoTo = CHOOSE p : Doubles(p)
    BY DEF TwoTo
  <1> HIDE DEF F
  <1>6. Doubles(TwoTo)
    <2> HIDE DEF Doubles
    <2> QED
      BY <1>4, <1>5
  <1>7. TwoTo[0] = 1
    BY <1>6
  <1>8. \A n \in Nat : TwoTo[n + 1] = 2 * TwoTo[n]
    <2>1. \A n \in Nat : n + 1 \in Nat /\ n + 1 # 0 /\ (n + 1) - 1 = n
      OBVIOUS
    <2> QED
      BY <1>6, <2>1
  <1> DEFINE S == {n \in Nat : TwoTo[n] \in Nat \ {0}}
  <1>9. Nat \subseteq S
    <2>1. 0 \in S
      BY <1>7
    <2>2. \A n \in Nat : n \in S => n + 1 \in S
      BY <1>8
    <2> HIDE DEF S
    <2> QED
      BY <2>1, <2>2, NatSetInduction
  <1> QED
    BY <1>7, <1>8, <1>9

\* The powers of two up to a byte.
LEMMA FirstPowers ==
  /\ TwoTo[0] = 1 /\ TwoTo[1] = 2 /\ TwoTo[2] = 4 /\ TwoTo[3] = 8 /\ TwoTo[4] = 16
  /\ TwoTo[5] = 32 /\ TwoTo[6] = 64 /\ TwoTo[7] = 128 /\ TwoTo[8] = 256
  <1>1. TwoTo[0 + 1] = 2 /\ TwoTo[1 + 1] = 2 * TwoTo[1] /\ TwoTo[2 + 1] = 2 * TwoTo[2]
        /\ TwoTo[3 + 1] = 2 * TwoTo[3] /\ TwoTo[4 + 1] = 2 * TwoTo[4] /\ TwoTo[5 + 1] = 2 * TwoTo[5]
        /\ TwoTo[6 + 1] = 2 * TwoTo[6] /\ TwoTo[7 + 1] = 2 * TwoTo[7] /\ TwoTo[0] = 1
    BY PowersOfTwo
  <1> QED
    BY <1>1

\* A power of two of a sum.
LEMMA PowerOfSum ==
  ASSUME NEW m \in Nat, NEW n \in Nat
  PROVE  TwoTo[m + n] = TwoTo[m] * TwoTo[n]
  <1> DEFINE S == {k \in Nat : TwoTo[m + k] = TwoTo[m] * TwoTo[k]}
  <1>1. 0 \in S
    BY PowersOfTwo
  <1>2. ASSUME NEW k \in Nat, k \in S PROVE k + 1 \in S
    <2>1. m + (k + 1) = (m + k) + 1 /\ m + k \in Nat
      OBVIOUS
    <2>2. TwoTo[m + (k + 1)] = 2 * TwoTo[m + k] /\ TwoTo[k + 1] = 2 * TwoTo[k]
      BY <2>1, PowersOfTwo
    <2>3. TwoTo[m] \in Nat /\ TwoTo[k] \in Nat /\ TwoTo[m + k] = TwoTo[m] * TwoTo[k]
      BY <1>2, PowersOfTwo
    <2>4. 2 * (TwoTo[m] * TwoTo[k]) = TwoTo[m] * (2 * TwoTo[k])
      BY <2>3
    <2> QED
      BY <2>2, <2>3, <2>4
  <1> HIDE DEF S
  <1>3. Nat \subseteq S
    BY <1>1, <1>2, NatSetInduction
  <1> QED
    BY <1>3 DEF S

-----------------------------------------------------------------------------
(* Bits of a number *)

\* One bit more of a number, at its upper end.
LEMMA BitAbove ==
  ASSUME NEW a \in Nat, NEW p \in Nat \ {0}
  PROVE  a % (2 * p) = (a % p) + ((a \div p) % 2) * p
  <1> DEFINE q == a \div p
             r == a % p
             s == q \div 2
             b == q % 2
  <1>1. q \in Nat /\ r \in 0..(p - 1) /\ a = p * q + r
    BY QuotientMakes
  <1>2. s \in Nat /\ b \in 0..1 /\ q = 2 * s + b
    BY <1>1
  <1> HIDE DEF q, r, s, b
  <1>3. a = (2 * p) * s + (r + b * p)
    BY <1>1, <1>2
  <1>4. r + b * p \in 0..(2 * p - 1) /\ 2 * p \in Nat \ {0}
    BY <1>1, <1>2
  <1>5. a % (2 * p) = r + b * p
    <2> DEFINE w == 2 * p
               t == r + b * p
    <2>1. w \in Nat \ {0} /\ t \in 0..(w - 1) /\ a = w * s + t
      BY <1>3, <1>4
    <2> HIDE DEF w, t
    <2>2. a % w = t
      BY <1>2, <2>1, QuotientIs
    <2> QED
      BY <2>2 DEF w, t
  <1> QED
    BY <1>5 DEF q, r, b

\* One bit more of a number, at its lower end.
LEMMA BitBelow ==
  ASSUME NEW a \in Nat, NEW p \in Nat \ {0}
  PROVE  a % (2 * p) = 2 * ((a \div 2) % p) + (a % 2)
  <1> DEFINE h == a \div 2
             b == a % 2
             q == h \div p
             r == h % p
  <1>1. h \in Nat /\ b \in 0..1 /\ a = 2 * h + b
    OBVIOUS
  <1>2. q \in Nat /\ r \in 0..(p - 1) /\ h = p * q + r
    BY <1>1, QuotientMakes
  <1> HIDE DEF h, b, q, r
  <1>3. a = (2 * p) * q + (2 * r + b)
    BY <1>1, <1>2
  <1>4. 2 * r + b \in 0..(2 * p - 1) /\ 2 * p \in Nat \ {0}
    BY <1>1, <1>2
  <1>5. a % (2 * p) = 2 * r + b
    <2> DEFINE w == 2 * p
               t == 2 * r + b
    <2>1. w \in Nat \ {0} /\ t \in 0..(w - 1) /\ a = w * q + t
      BY <1>3, <1>4
    <2> HIDE DEF w, t
    <2>2. a % w = t
      BY <1>2, <2>1, QuotientIs
    <2> QED
      BY <2>2 DEF w, t
  <1> QED
    BY <1>5 DEF h, r, b

\* A number without its lowest bits is a natural number.
LEMMA ShiftedIs ==
  ASSUME NEW a \in Nat, NEW n \in Nat
  PROVE  a \div TwoTo[n] \in Nat
  <1>1. TwoTo[n] \in Nat \ {0}
    BY PowersOfTwo
  <1> QED
    BY <1>1, QuotientMakes

\* A quotient of a quotient.
LEMMA QuotientTwice ==
  ASSUME NEW a \in Nat, NEW m \in Nat, NEW n \in Nat
  PROVE  a \div TwoTo[m + n] = (a \div TwoTo[m]) \div TwoTo[n]
  <1> DEFINE p == TwoTo[m]
             q == TwoTo[n]
             d == a \div p
             r == a % p
             e == d \div q
             s == d % q
  <1>1. TwoTo[m + n] = p * q
    BY PowerOfSum
  <1>2. p \in Nat \ {0} /\ q \in Nat \ {0}
    BY PowersOfTwo
  <1> HIDE DEF p, q
  <1>3. d \in Nat /\ r \in 0..(p - 1) /\ a = p * d + r
    BY <1>2, QuotientMakes
  <1> HIDE DEF d, r
  <1>4. e \in Nat /\ s \in 0..(q - 1) /\ d = q * e + s
    BY <1>2, <1>3, QuotientMakes
  <1> HIDE DEF e, s
  <1>5. a = (p * q) * e + (p * s + r)
    BY <1>2, <1>3, <1>4
  <1>6. p * s + r \in 0..(p * q - 1) /\ p * q \in Nat \ {0}
    <2>1. p * s \in Nat /\ p * s + r \in Nat
      BY <1>2, <1>3, <1>4
    <2>2. p * s <= p * (q - 1)
      BY <1>2, <1>4
    <2>3. p * (q - 1) + p = p * q
      BY <1>2
    <2> QED
      BY <1>2, <1>3, <2>1, <2>2, <2>3
  <1>7. a \div (p * q) = e
    BY <1>4, <1>5, <1>6, QuotientIs
  <1> QED
    BY <1>1, <1>7 DEF d, e, p, q

-----------------------------------------------------------------------------
(* Numbers read in a base *)

\* The recursion that reads the n digits c in this base.
BaseEquation(base, c, n, iter) ==
  [s \in SUBSET (1..n) |-> IF s = {} THEN 0 ELSE base * iter[s \ {Max(s)}] + c[Max(s)]]

InBase(base, c, n) == (CHOOSE iter : iter = BaseEquation(base, c, n, iter))[1..n]

\* Each digit multiplies what was read by the base and adds itself.
Reads(f, base, c, n) ==
  /\ f[0] = 0
  /\ f[n] = InBase(base, c, n)
  /\ \A k \in 1..n : f[k] = base * f[k - 1] + c[k]

\* What is read after each digit.
LEMMA BaseSteps ==
  ASSUME NEW base \in Nat, NEW n \in Nat, NEW c \in [1..n -> Nat]
  PROVE  \E f \in [0..n -> Nat] : Reads(f, base, c, n)
  <1> DEFINE g == [i \in 1..n |-> [v \in Nat |-> base * v + c[i]]]
             I == CHOOSE iter : iter = BaseEquation(base, c, n, iter)
  <1>1. g \in [1..n -> [Nat -> Nat]]
    OBVIOUS
  <1>2. \A i \in 1..n, v \in Nat : g[i][v] = base * v + c[i]
    OBVIOUS
  <1> HIDE DEF g
  <1>3. PICK h \in [SUBSET (1..n) -> Nat] : FoldSolves(h, n, 0, g)
    BY <1>1, FoldExists
  <1>4. h = BaseEquation(base, c, n, h)
    <2>1. ASSUME NEW s \in SUBSET (1..n), s # {}
          PROVE  h[s] = base * h[s \ {Max(s)}] + c[Max(s)]
      <3>1. Max(s) \in 1..n
        BY <2>1, MaxOfInterval
      <3>2. h[s \ {Max(s)}] \in Nat
        OBVIOUS
      <3> QED
        BY <1>2, <1>3, <2>1, <3>1, <3>2 DEF FoldSolves
    <2>2. h = [s \in SUBSET (1..n) |-> h[s]]
      OBVIOUS
    <2>3. \A s \in SUBSET (1..n) :
             h[s] = IF s = {} THEN 0 ELSE base * h[s \ {Max(s)}] + c[Max(s)]
      BY <1>3, <2>1 DEF FoldSolves
    <2> QED
      BY <2>2, <2>3 DEF BaseEquation
  <1>5. I = BaseEquation(base, c, n, I)
    BY <1>4
  <1>6. InBase(base, c, n) = I[1..n]
    BY DEF InBase
  <1> HIDE DEF I
  <1>7. \A s \in SUBSET (1..n) :
          I[s] = IF s = {} THEN 0 ELSE base * I[s \ {Max(s)}] + c[Max(s)]
    BY <1>5 DEF BaseEquation
  <1>8. FoldMeets(I, n, Nat, 0, g)
    <2>1. ASSUME NEW s \in SUBSET (1..n), s # {}, I[s \ {Max(s)}] \in Nat
          PROVE  I[s] = g[Max(s)][I[s \ {Max(s)}]]
      <3>1. Max(s) \in 1..n
        BY <2>1, MaxOfInterval
      <3> QED
        BY <1>2, <1>7, <2>1, <3>1
    <2>2. I[{}] = 0
      BY <1>7
    <2> QED
      BY <2>1, <2>2 DEF FoldMeets
  <1>9. PICK f \in [0..n -> Nat] : FoldRuns(f, n, 0, g, I)
    BY <1>1, <1>8, FoldSteps
  <1>10. ASSUME NEW k \in 1..n PROVE f[k] = base * f[k - 1] + c[k]
    <2>1. k - 1 \in 0..n
      OBVIOUS
    <2>2. f[k - 1] \in Nat /\ f[k] = g[k][f[k - 1]]
      BY <1>9, <2>1 DEF FoldRuns
    <2> QED
      BY <1>2, <2>2
  <1>11. f[0] = 0 /\ f[n] = InBase(base, c, n)
    BY <1>6, <1>9 DEF FoldRuns
  <1> QED
    BY <1>10, <1>11 DEF Reads

\* What is read is a natural number.
LEMMA BaseNumber ==
  ASSUME NEW base \in Nat, NEW n \in Nat, NEW c \in [1..n -> Nat]
  PROVE  InBase(base, c, n) \in Nat
  <1>1. PICK f \in [0..n -> Nat] : Reads(f, base, c, n)
    BY BaseSteps
  <1> QED
    BY <1>1 DEF Reads

\* The recursion that adds the n numbers c.
SumEquation(c, n, iter) ==
  [s \in SUBSET (1..n) |-> IF s = {} THEN 0 ELSE iter[s \ {Max(s)}] + c[Max(s)]]

SumOf(c, n) == (CHOOSE iter : iter = SumEquation(c, n, iter))[1..n]

\* Each number is added to those before.
Sums(f, c, n) ==
  /\ f[0] = 0
  /\ f[n] = SumOf(c, n)
  /\ \A k \in 1..n : f[k] = f[k - 1] + c[k]

\* What the sum is after each number.
LEMMA SumSteps ==
  ASSUME NEW n \in Nat, NEW c \in [1..n -> Nat]
  PROVE  \E f \in [0..n -> Nat] : Sums(f, c, n)
  <1> DEFINE g == [i \in 1..n |-> [v \in Nat |-> v + c[i]]]
             I == CHOOSE iter : iter = SumEquation(c, n, iter)
  <1>1. g \in [1..n -> [Nat -> Nat]]
    OBVIOUS
  <1>2. \A i \in 1..n, v \in Nat : g[i][v] = v + c[i]
    OBVIOUS
  <1> HIDE DEF g
  <1>3. PICK h \in [SUBSET (1..n) -> Nat] : FoldSolves(h, n, 0, g)
    BY <1>1, FoldExists
  <1>4. h = SumEquation(c, n, h)
    <2>1. ASSUME NEW s \in SUBSET (1..n), s # {}
          PROVE  h[s] = h[s \ {Max(s)}] + c[Max(s)]
      <3>1. Max(s) \in 1..n
        BY <2>1, MaxOfInterval
      <3>2. h[s \ {Max(s)}] \in Nat
        OBVIOUS
      <3> QED
        BY <1>2, <1>3, <2>1, <3>1, <3>2 DEF FoldSolves
    <2>2. h = [s \in SUBSET (1..n) |-> h[s]]
      OBVIOUS
    <2>3. \A s \in SUBSET (1..n) :
             h[s] = IF s = {} THEN 0 ELSE h[s \ {Max(s)}] + c[Max(s)]
      BY <1>3, <2>1 DEF FoldSolves
    <2> QED
      BY <2>2, <2>3 DEF SumEquation
  <1>5. I = SumEquation(c, n, I)
    BY <1>4
  <1>6. SumOf(c, n) = I[1..n]
    BY DEF SumOf
  <1> HIDE DEF I
  <1>7. \A s \in SUBSET (1..n) :
          I[s] = IF s = {} THEN 0 ELSE I[s \ {Max(s)}] + c[Max(s)]
    BY <1>5 DEF SumEquation
  <1>8. FoldMeets(I, n, Nat, 0, g)
    <2>1. ASSUME NEW s \in SUBSET (1..n), s # {}, I[s \ {Max(s)}] \in Nat
          PROVE  I[s] = g[Max(s)][I[s \ {Max(s)}]]
      <3>1. Max(s) \in 1..n
        BY <2>1, MaxOfInterval
      <3> QED
        BY <1>2, <1>7, <2>1, <3>1
    <2>2. I[{}] = 0
      BY <1>7
    <2> QED
      BY <2>1, <2>2 DEF FoldMeets
  <1>9. PICK f \in [0..n -> Nat] : FoldRuns(f, n, 0, g, I)
    BY <1>1, <1>8, FoldSteps
  <1>10. ASSUME NEW k \in 1..n PROVE f[k] = f[k - 1] + c[k]
    <2>1. k - 1 \in 0..n
      OBVIOUS
    <2>2. f[k - 1] \in Nat /\ f[k] = g[k][f[k - 1]]
      BY <1>9, <2>1 DEF FoldRuns
    <2> QED
      BY <1>2, <2>2
  <1>11. f[0] = 0 /\ f[n] = SumOf(c, n)
    BY <1>6, <1>9 DEF FoldRuns
  <1> QED
    BY <1>10, <1>11 DEF Sums

\* A bit of a byte behind others.
LEMMA BitOfByte ==
  ASSUME NEW x \in Nat, NEW y \in Bytes, NEW b \in 0..7
  PROVE  ((256 * x + y) \div TwoTo[b]) % 2 = LowBit(y, b)
  <1>1. b = 0 \/ b = 1 \/ b = 2 \/ b = 3 \/ b = 4 \/ b = 5 \/ b = 6 \/ b = 7
    OBVIOUS
  <1>2. y \in 0..255
    BY DEF Bytes
  <1>3. /\ ((256 * x + y) \div 1) % 2 = (y \div 1) % 2
        /\ ((256 * x + y) \div 2) % 2 = (y \div 2) % 2
        /\ ((256 * x + y) \div 4) % 2 = (y \div 4) % 2
        /\ ((256 * x + y) \div 8) % 2 = (y \div 8) % 2
    BY <1>2
  <1>4. /\ ((256 * x + y) \div 16) % 2 = (y \div 16) % 2
        /\ ((256 * x + y) \div 32) % 2 = (y \div 32) % 2
        /\ ((256 * x + y) \div 64) % 2 = (y \div 64) % 2
        /\ ((256 * x + y) \div 128) % 2 = (y \div 128) % 2
    BY <1>2
  <1> QED
    BY <1>1, <1>3, <1>4, FirstPowers DEF LowBit

\* The bytes of a number in base 256, the first one highest, hold its bits.
LEMMA BitOfBytes ==
  ASSUME NEW n \in Nat, NEW d \in [1..n -> Bytes], NEW m \in 0..(8 * n - 1)
  PROVE  (InBase(256, d, n) \div TwoTo[m]) % 2 = LowBit(d[n - m \div 8], m % 8)
  <1> DEFINE N == InBase(256, d, n)
  <1>1. d \in [1..n -> Nat]
    <2>1. Bytes \subseteq Nat
      BY DEF Bytes
    <2> QED
      BY <2>1
  <1>0. 256 \in Nat
    OBVIOUS
  <1>2. PICK f \in [0..n -> Nat] : Reads(f, 256, d, n)
    BY <1>0, <1>1, BaseSteps, Zenon
  <1>3. N \in Nat
    BY <1>0, <1>1, BaseNumber, Zenon
  <1>4. f[n] = N /\ \A k \in 1..n : f[k] = 256 * f[k - 1] + d[k]
    BY <1>2 DEF Reads
  <1> HIDE DEF N
  <1> DEFINE S == {j \in Nat : j <= n => N \div TwoTo[8 * j] = f[n - j]}
  <1>5. Nat \subseteq S
    <2>1. 0 \in S
      BY <1>3, <1>4, FirstPowers
    <2>2. ASSUME NEW j \in Nat, j \in S, j + 1 <= n
          PROVE  N \div TwoTo[8 * (j + 1)] = f[n - (j + 1)]
      <3> DEFINE k == n - j
                 x == f[k - 1]
                 y == d[k]
      <3>1. k \in 1..n /\ k - 1 = n - (j + 1) /\ 8 * (j + 1) = 8 * j + 8 /\ 8 * j \in Nat
        BY <2>2
      <3>2. N \div TwoTo[8 * j] = f[k]
        BY <2>2
      <3> HIDE DEF k
      <3>3. x \in Nat /\ y \in 0..255 /\ f[k] = 256 * x + y
        BY <1>4, <3>1 DEF Bytes
      <3>4. N \div TwoTo[8 * (j + 1)] = (N \div TwoTo[8 * j]) \div TwoTo[8]
        BY <1>3, <3>1, QuotientTwice
      <3> HIDE DEF x, y
      <3>5. (256 * x + y) \div 256 = x
        BY <3>3
      <3>6. f[k] \div TwoTo[8] = x
        BY <3>3, <3>5, FirstPowers
      <3>7. x = f[n - (j + 1)]
        BY <3>1 DEF x
      <3> HIDE DEF N
      <3> QED
        BY <3>2, <3>4, <3>6, <3>7
    <2>3. \A j \in Nat : j \in S => j + 1 \in S
      BY <2>2
    <2> HIDE DEF S
    <2> QED
      BY <2>1, <2>3, NatSetInduction
  <1> DEFINE j == m \div 8
             b == m % 8
             k == n - j
  <1>6. j \in 0..(n - 1) /\ b \in 0..7 /\ m = 8 * j + b
    OBVIOUS
  <1>7. N \div TwoTo[8 * j] = f[k]
    BY <1>5, <1>6
  <1> HIDE DEF j, b, S
  <1>8. k \in 1..n /\ 8 * j \in Nat /\ b \in Nat
    BY <1>6
  <1> HIDE DEF k
  <1>9. N \div TwoTo[m] = (N \div TwoTo[8 * j]) \div TwoTo[b]
    BY <1>3, <1>6, <1>8, QuotientTwice
  <1>10. f[k - 1] \in Nat /\ d[k] \in Bytes /\ f[k] = 256 * f[k - 1] + d[k]
    BY <1>4, <1>8
  <1>11. (f[k] \div TwoTo[b]) % 2 = LowBit(d[k], b)
    BY <1>6, <1>10, BitOfByte
  <1> QED
    BY <1>7, <1>9, <1>11 DEF N, k, j, b

-----------------------------------------------------------------------------
(* Extraction *)

\* The bytes of the data, the highest of the number first.
Ordered(data, endian) == IF endian = "little" THEN Reverse(data) ELSE data

\* These are as many bytes.
LEMMA OrderedIs ==
  ASSUME NEW data \in Seq(Bytes), NEW endian
  PROVE  /\ Len(data) \in Nat /\ data \in [1..Len(data) -> Bytes]
         /\ Ordered(data, endian) \in [1..Len(data) -> Bytes]
         /\ DOMAIN Ordered(data, endian) = 1..Len(data)
         /\ \A i \in 1..Len(data) :
              Ordered(data, endian)[i] = IF endian = "little" THEN data[Len(data) - i + 1] ELSE data[i]
  <1>1. Len(data) \in Nat /\ data \in [1..Len(data) -> Bytes]
    BY LenProperties
  <1>2. Reverse(data) = [i \in 1..Len(data) |-> data[(Len(data) - i) + 1]]
    BY DEF Reverse
  <1>3. \A i \in 1..Len(data) : (Len(data) - i) + 1 \in 1..Len(data)
    BY <1>1
  <1> QED
    BY <1>1, <1>2, <1>3 DEF Ordered

\* The data as one number are these bytes in base 256.
LEMMA AsNumberIs ==
  ASSUME NEW data \in Seq(Bytes), NEW endian
  PROVE  AsNumber(data, endian) = InBase(256, Ordered(data, endian), Len(data))
  <1> DEFINE d == Ordered(data, endian)
             n == Len(data)
  <1>1. AsNumber(data, endian) =
          (CHOOSE iter : iter = [s \in SUBSET (DOMAIN d) |->
                                   IF s = {} THEN 0
                                   ELSE LET x == Max(s) IN 256 * iter[s \ {x}] + d[x]])[DOMAIN d]
    BY DEF AsNumber, FoldLeft, MapThenFoldSet, Ordered
  <1>2. DOMAIN d = 1..n
    BY OrderedIs
  <1> HIDE DEF d, n
  <1> QED
    BY <1>1, <1>2 DEF InBase, BaseEquation, d, n

\* It is a natural number.
LEMMA AsNumberNat ==
  ASSUME NEW data \in Seq(Bytes), NEW endian
  PROVE  AsNumber(data, endian) \in Nat
  <1> DEFINE d == Ordered(data, endian)
             n == Len(data)
  <1>1. Bytes \subseteq Nat
    BY DEF Bytes
  <1>2. n \in Nat /\ d \in [1..n -> Bytes]
    BY OrderedIs
  <1>3. AsNumber(data, endian) = InBase(256, d, n)
    BY AsNumberIs
  <1> HIDE DEF d, n
  <1>4. d \in [1..n -> Nat]
    BY <1>1, <1>2
  <1> QED
    BY <1>2, <1>3, <1>4, BaseNumber

\* The bits of a signal from the first, and what each of them stands for.
LowBits(data, start, length) ==
  [i \in 1..length |-> LowBit(data[1 + (start + (i - 1)) \div 8], (start + (i - 1)) % 8) * TwoTo[i - 1]]
HighBits(data, start, length) ==
  [i \in 1..length |-> HighBit(data[1 + (start + (i - 1)) \div 8], (start + (i - 1)) % 8)]

\* A little endian field is the sum of its bits, each times its power of two.
LEMMA LittleIs ==
  ASSUME NEW data, NEW start, NEW length \in Nat
  PROVE  ExtractLittleEndian(data, start, length) = SumOf(LowBits(data, start, length), length)
  <1> DEFINE c == LowBits(data, start, length)
             items == [i \in 1..length |-> i - 1]
             Equation(iter) ==
               [s \in SUBSET (1..length) |->
                  IF s = {} THEN 0
                  ELSE LET x == Max(s)
                       IN  iter[s \ {x}]
                             + LowBit(data[1 + (start + items[x]) \div 8], (start + items[x]) % 8) * TwoTo[items[x]]]
  <1>1. ExtractLittleEndian(data, start, length) = (CHOOSE iter : iter = Equation(iter))[1..length]
    BY DEF ExtractLittleEndian, FoldLeft, MapThenFoldSet
  <1>2. ASSUME NEW iter PROVE Equation(iter) = SumEquation(c, length, iter)
    <2>1. ASSUME NEW s \in SUBSET (1..length), s # {}
          PROVE  c[Max(s)] = LowBit(data[1 + (start + items[Max(s)]) \div 8], (start + items[Max(s)]) % 8)
                               * TwoTo[items[Max(s)]]
      <3>1. Max(s) \in 1..length
        BY <2>1, MaxOfInterval
      <3> QED
        BY <3>1 DEF LowBits
    <2> HIDE DEF c, items
    <2> QED
      BY <2>1 DEF SumEquation
  <1> HIDE DEF Equation
  <1> QED
    BY <1>1, <1>2 DEF SumOf

\* A big endian field is its bits read in base two.
LEMMA BigIs ==
  ASSUME NEW data, NEW start, NEW length \in Nat
  PROVE  ExtractBigEndian(data, start, length) = InBase(2, HighBits(data, start, length), length)
  <1> DEFINE c == HighBits(data, start, length)
             items == [i \in 1..length |-> i - 1]
             Equation(iter) ==
               [s \in SUBSET (1..length) |->
                  IF s = {} THEN 0
                  ELSE LET x == Max(s)
                       IN  2 * iter[s \ {x}]
                             + HighBit(data[1 + (start + items[x]) \div 8], (start + items[x]) % 8)]
  <1>1. ExtractBigEndian(data, start, length) = (CHOOSE iter : iter = Equation(iter))[1..length]
    BY DEF ExtractBigEndian, FoldLeft, MapThenFoldSet
  <1>2. ASSUME NEW iter PROVE Equation(iter) = BaseEquation(2, c, length, iter)
    <2>1. ASSUME NEW s \in SUBSET (1..length), s # {}
          PROVE  c[Max(s)] = HighBit(data[1 + (start + items[Max(s)]) \div 8], (start + items[Max(s)]) % 8)
      <3>1. Max(s) \in 1..length
        BY <2>1, MaxOfInterval
      <3> QED
        BY <3>1 DEF HighBits
    <2> HIDE DEF c, items
    <2> QED
      BY <2>1 DEF BaseEquation
  <1> HIDE DEF Equation
  <1> QED
    BY <1>1, <1>2 DEF InBase

\* A bit of the data, counted from the lowest, is that bit of the number.
LEMMA LowBitIs ==
  ASSUME NEW data \in Seq(Bytes), NEW m \in 0..(8 * Len(data) - 1)
  PROVE  LowBit(data[1 + m \div 8], m % 8) = (AsNumber(data, "little") \div TwoTo[m]) % 2
  <1> DEFINE n == Len(data)
             d == Ordered(data, "little")
             j == m \div 8
  <1>1. n \in Nat /\ d \in [1..n -> Bytes] /\ \A i \in 1..n : d[i] = data[n - i + 1]
    BY OrderedIs
  <1>2. AsNumber(data, "little") = InBase(256, d, n)
    BY AsNumberIs
  <1> HIDE DEF n, d
  <1>3. m \in 0..(8 * n - 1)
    BY DEF n
  <1>4. j \in 0..(n - 1)
    BY <1>1, <1>3
  <1> HIDE DEF j
  <1>5. n - j \in 1..n /\ n - (n - j) + 1 = 1 + j
    BY <1>1, <1>4
  <1>6. d[n - j] = data[1 + j]
    BY <1>1, <1>5
  <1>7. (InBase(256, d, n) \div TwoTo[m]) % 2 = LowBit(d[n - j], m % 8)
    BY <1>1, <1>3, BitOfBytes DEF j
  <1> QED
    BY <1>2, <1>6, <1>7 DEF j

\* A bit of the data, counted from the highest, is one counted from the lowest.
LEMMA HighBitIs ==
  ASSUME NEW data \in Seq(Bytes), NEW m \in 0..(8 * Len(data) - 1)
  PROVE  HighBit(data[1 + m \div 8], m % 8) =
           (AsNumber(data, "big") \div TwoTo[8 * Len(data) - 1 - m]) % 2
  <1> DEFINE n == Len(data)
             d == Ordered(data, "big")
             j == m \div 8
             b == m % 8
             w == 8 * n - 1 - m
  <1>1. n \in Nat /\ d \in [1..n -> Bytes] /\ \A i \in 1..n : d[i] = data[i]
    BY OrderedIs
  <1>2. AsNumber(data, "big") = InBase(256, d, n)
    BY AsNumberIs
  <1> HIDE DEF n, d
  <1>3. m \in 0..(8 * n - 1)
    BY DEF n
  <1>4. j \in 0..(n - 1) /\ b \in 0..7 /\ m = 8 * j + b
    BY <1>1, <1>3
  <1> HIDE DEF j, b
  <1>5. w \in 0..(8 * n - 1) /\ w = 8 * (n - 1 - j) + (7 - b)
    BY <1>1, <1>3, <1>4
  <1>6. w \div 8 = n - 1 - j /\ w % 8 = 7 - b
    BY <1>1, <1>4, <1>5
  <1> HIDE DEF w
  <1>7. 1 + j \in 1..n /\ n - (n - 1 - j) = 1 + j
    BY <1>1, <1>4
  <1>8. (InBase(256, d, n) \div TwoTo[w]) % 2 = LowBit(d[n - w \div 8], w % 8)
    BY <1>1, <1>5, BitOfBytes
  <1>9. LowBit(d[n - w \div 8], w % 8) = LowBit(data[1 + j], 7 - b)
    BY <1>1, <1>6, <1>7
  <1> QED
    BY <1>2, <1>8, <1>9 DEF HighBit, j, b, w, n

\* A field of bits counted from the lowest is a quotient of the number that
\* the data are, without what is above it.
LEMMA LittleField ==
  ASSUME NEW data \in Seq(Bytes), NEW start \in Nat, NEW length \in Nat,
         start + length <= 8 * Len(data)
  PROVE  ExtractLittleEndian(data, start, length) =
           (AsNumber(data, "little") \div TwoTo[start]) % TwoTo[length]
  <1> DEFINE N == AsNumber(data, "little")
             M == N \div TwoTo[start]
             c == LowBits(data, start, length)
             n == Len(data)
  <1>1. N \in Nat /\ n \in Nat
    BY AsNumberNat, LenProperties
  <1>2. M \in Nat
    BY <1>1, ShiftedIs
  <1>3. ASSUME NEW k \in 1..length
        PROVE  c[k] = ((M \div TwoTo[k - 1]) % 2) * TwoTo[k - 1]
    <2> DEFINE m == start + (k - 1)
    <2>1. m \in 0..(8 * n - 1) /\ k - 1 \in Nat
      BY <1>1
    <2>2. c[k] = LowBit(data[1 + m \div 8], m % 8) * TwoTo[k - 1]
      BY DEF LowBits
    <2>3. N \div TwoTo[m] = M \div TwoTo[k - 1]
      BY <1>1, <2>1, QuotientTwice
    <2> HIDE DEF m, c, N
    <2>4. LowBit(data[1 + m \div 8], m % 8) = (N \div TwoTo[m]) % 2
      BY <2>1, LowBitIs DEF N
    <2> QED
      BY <2>2, <2>3, <2>4
  <1>4. \A k \in 1..length : TwoTo[k - 1] \in Nat \ {0} /\ TwoTo[k] = 2 * TwoTo[k - 1]
    <2>1. \A k \in 1..length : k - 1 \in Nat /\ (k - 1) + 1 = k
      OBVIOUS
    <2> QED
      BY <2>1, PowersOfTwo
  <1>5. c \in [1..length -> Nat]
    <2>1. \A k \in 1..length : c[k] \in Nat
      <3> HIDE DEF c, M
      <3>1. ASSUME NEW k \in 1..length PROVE c[k] \in Nat
        <4>1. M \div TwoTo[k - 1] \in Nat
          <5>1. k - 1 \in Nat
            OBVIOUS
          <5> QED
            BY <1>2, <5>1, ShiftedIs
        <4>2. (M \div TwoTo[k - 1]) % 2 \in Nat
          BY <4>1
        <4> QED
          BY <1>3, <1>4, <4>2
      <3> QED
        BY <3>1
    <2>2. c = [k \in 1..length |-> c[k]]
      BY DEF LowBits
    <2> HIDE DEF c
    <2> QED
      BY <2>1, <2>2
  <1> HIDE DEF N, M, c
  <1>6. PICK f \in [0..length -> Nat] : Sums(f, c, length)
    BY <1>5, SumSteps
  <1> DEFINE S == {k \in Nat : k <= length => f[k] = M % TwoTo[k]}
  <1>7. 0 \in S
    <2>1. M % 1 = 0
      BY <1>2
    <2> QED
      BY <1>6, <2>1, PowersOfTwo DEF Sums
  <1>8. ASSUME NEW k \in Nat, k \in S, k + 1 <= length PROVE f[k + 1] = M % TwoTo[k + 1]
    <2>1. k + 1 \in 1..length /\ (k + 1) - 1 = k
      BY <1>8
    <2>2. f[k + 1] = f[k] + c[k + 1] /\ f[k] = M % TwoTo[k]
      BY <1>6, <1>8, <2>1 DEF Sums
    <2>3. c[k + 1] = ((M \div TwoTo[k]) % 2) * TwoTo[k]
      BY <1>3, <2>1
    <2>4. TwoTo[k] \in Nat \ {0} /\ TwoTo[k + 1] = 2 * TwoTo[k]
      BY PowersOfTwo
    <2>5. M % (2 * TwoTo[k]) = (M % TwoTo[k]) + ((M \div TwoTo[k]) % 2) * TwoTo[k]
      BY <1>2, <2>4, BitAbove
    <2> QED
      BY <2>2, <2>3, <2>4, <2>5
  <1>9. \A k \in Nat : k \in S => k + 1 \in S
    BY <1>8
  <1> HIDE DEF S
  <1>10. Nat \subseteq S
    BY <1>7, <1>9, NatSetInduction
  <1>11. f[length] = M % TwoTo[length]
    BY <1>10 DEF S
  <1>12. ExtractLittleEndian(data, start, length) = SumOf(c, length)
    BY LittleIs DEF c
  <1>13. f[length] = SumOf(c, length)
    BY <1>6 DEF Sums
  <1> QED
    BY <1>11, <1>12, <1>13 DEF M, N

\* And so is a field counted from the highest.
LEMMA BigField ==
  ASSUME NEW data \in Seq(Bytes), NEW start \in Nat, NEW length \in Nat,
         start + length <= 8 * Len(data)
  PROVE  ExtractBigEndian(data, start, length) =
           (AsNumber(data, "big") \div TwoTo[8 * Len(data) - start - length]) % TwoTo[length]
  <1> DEFINE N == AsNumber(data, "big")
             c == HighBits(data, start, length)
             n == Len(data)
             w == 8 * n - start
  <1>1. N \in Nat /\ n \in Nat
    BY AsNumberNat, LenProperties
  <1>2. w \in Nat /\ length <= w
    BY <1>1
  <1>3. ASSUME NEW k \in 1..length PROVE c[k] = (N \div TwoTo[w - k]) % 2
    <2> DEFINE m == start + (k - 1)
    <2>1. m \in 0..(8 * n - 1) /\ 8 * n - 1 - m = w - k
      BY <1>1
    <2>2. c[k] = HighBit(data[1 + m \div 8], m % 8)
      BY DEF HighBits
    <2> HIDE DEF m, c, N, w
    <2>3. HighBit(data[1 + m \div 8], m % 8) = (N \div TwoTo[8 * n - 1 - m]) % 2
      BY <2>1, HighBitIs DEF N
    <2> QED
      BY <2>1, <2>2, <2>3
  <1>4. \A k \in 0..length : w - k \in Nat /\ TwoTo[w - k] \in Nat \ {0} /\ N \div TwoTo[w - k] \in Nat
    <2>1. \A k \in 0..length : w - k \in Nat
      BY <1>2
    <2> HIDE DEF w, N
    <2> QED
      BY <1>1, <2>1, PowersOfTwo, ShiftedIs
  <1>5. c \in [1..length -> Nat]
    <2>1. \A k \in 1..length : c[k] \in Nat
      <3> HIDE DEF c, N, w
      <3> QED
        BY <1>3, <1>4
    <2>2. c = [k \in 1..length |-> c[k]]
      BY DEF HighBits
    <2> HIDE DEF c
    <2> QED
      BY <2>1, <2>2
  <1> HIDE DEF N, c, w
  <1>6. PICK f \in [0..length -> Nat] : Reads(f, 2, c, length)
    BY <1>5, BaseSteps
  <1> DEFINE S == {k \in Nat : k <= length => f[k] = (N \div TwoTo[w - k]) % TwoTo[k]}
  <1>7. 0 \in S
    <2>1. N \div TwoTo[w - 0] \in Nat
      BY <1>4
    <2>2. (N \div TwoTo[w - 0]) % 1 = 0
      BY <2>1
    <2> QED
      BY <1>6, <2>2, PowersOfTwo DEF Reads
  <1>8. ASSUME NEW k \in Nat, k \in S, k + 1 <= length
        PROVE  f[k + 1] = (N \div TwoTo[w - (k + 1)]) % TwoTo[k + 1]
    <2> DEFINE v == w - (k + 1)
               a == N \div TwoTo[v]
               p == TwoTo[k]
    <2>1. k + 1 \in 1..length /\ (k + 1) - 1 = k /\ v \in Nat /\ w - k = v + 1
      BY <1>2, <1>8
    <2>2. f[k + 1] = 2 * f[k] + c[k + 1] /\ f[k] = (N \div TwoTo[w - k]) % p
      BY <1>6, <1>8, <2>1 DEF Reads
    <2>3. c[k + 1] = a % 2
      BY <1>3, <2>1
    <2>4. p \in Nat \ {0} /\ TwoTo[k + 1] = 2 * p
      BY PowersOfTwo
    <2>6. a \in Nat
      <3> HIDE DEF v
      <3> QED
        BY <1>1, <2>1, ShiftedIs
    <2> HIDE DEF v, p
    <2>5. N \div TwoTo[w - k] = a \div 2
      <3>1. N \div TwoTo[v + 1] = (N \div TwoTo[v]) \div TwoTo[1]
        BY <1>1, <2>1, QuotientTwice
      <3> QED
        BY <2>1, <3>1, FirstPowers
    <2> HIDE DEF a
    <2>7. a % (2 * p) = 2 * ((a \div 2) % p) + (a % 2)
      BY <2>4, <2>6, BitBelow
    <2>8. f[k] = (a \div 2) % p
      BY <2>2, <2>5
    <2>9. f[k + 1] = a % (2 * p)
      BY <2>2, <2>3, <2>7, <2>8
    <2> QED
      BY <2>4, <2>9 DEF a, v
  <1>9. \A k \in Nat : k \in S => k + 1 \in S
    BY <1>8
  <1> HIDE DEF S
  <1>10. Nat \subseteq S
    BY <1>7, <1>9, NatSetInduction
  <1>11. f[length] = (N \div TwoTo[w - length]) % TwoTo[length]
    BY <1>10 DEF S
  <1>12. ExtractBigEndian(data, start, length) = InBase(2, c, length)
    BY BigIs DEF c
  <1> QED
    BY <1>6, <1>11, <1>12 DEF Reads, N, w, n

\* Powers of two grow.
LEMMA PowersGrow ==
  ASSUME NEW m \in Nat, NEW n \in Nat, m <= n
  PROVE  TwoTo[m] <= TwoTo[n]
  <1> DEFINE d == n - m
             p == TwoTo[m]
             q == TwoTo[d]
  <1>1. d \in Nat /\ n = m + d
    OBVIOUS
  <1> HIDE DEF d
  <1>2. TwoTo[n] = p * q
    BY <1>1, PowerOfSum
  <1>3. p \in Nat \ {0} /\ q \in Nat \ {0}
    BY <1>1, PowersOfTwo
  <1> HIDE DEF p, q
  <1>4. p <= p * q
    BY <1>3
  <1> QED
    BY <1>2, <1>4 DEF p

\* Filled with its sign, a number of so many bits is the one that it is in
\* two's complement.
LEMMA SignExtended ==
  ASSUME NEW length \in 1..WordBits, NEW v \in 0..(TwoTo[length] - 1)
  PROVE  SignExtend(v, length) = IF 2 * v >= TwoTo[length] THEN v - TwoTo[length] ELSE v
  <1> DEFINE p == TwoTo[length]
             h == TwoTo[length - 1]
             w == TwoTo[WordBits]
             x == TwoTo[WordBits - 1]
  <1>1. WordBits \in Nat \ {0} /\ length - 1 \in Nat /\ WordBits - 1 \in Nat /\ length - 1 <= WordBits - 1
        /\ (length - 1) + 1 = length /\ (WordBits - 1) + 1 = WordBits
    BY WordAssumption
  <1>2. h \in Nat \ {0} /\ p = 2 * h /\ x \in Nat \ {0} /\ w = 2 * x /\ h <= x
    BY <1>1, PowersOfTwo, PowersGrow
  <1>3. v \in 0..(p - 1)
    OBVIOUS
  <1> HIDE DEF p, h, w, x
  <1>4. CASE length = WordBits
    <2>1. SignExtend(v, length) = IF v >= x THEN v - w ELSE v
      BY <1>4 DEF SignExtend, AsSigned, x, w
    <2>2. p = w /\ h = x
      BY <1>4 DEF p, w, h, x
    <2> QED
      BY <1>2, <1>3, <2>1, <2>2 DEF p
  <1>5. CASE length # WordBits
    <2>1. SignExtend(v, length) =
            IF (v \div h) % 2 = 0 THEN v
            ELSE IF (v + w) - p >= x THEN ((v + w) - p) - w ELSE (v + w) - p
      <3> DEFINE y == v + TwoTo[WordBits] - TwoTo[length]
      <3>1. SignExtend(v, length) = IF (v \div TwoTo[length - 1]) % 2 = 0 THEN v ELSE AsSigned(y)
        BY <1>5, Zenon DEF SignExtend
      <3>2. AsSigned(y) = IF y >= TwoTo[WordBits - 1] THEN y - TwoTo[WordBits] ELSE y
        BY DEF AsSigned
      <3>3. y = (v + w) - p
        BY <1>2, <1>3 DEF w, p
      <3> HIDE DEF y
      <3> QED
        BY <3>1, <3>2, <3>3 DEF h, x, w
    <2>2. CASE v < h
      <3>1. v \div h = 0
        <4>1. v = h * 0 + v /\ v \in 0..(h - 1)
          BY <1>2, <1>3, <2>2
        <4> QED
          BY <1>2, <4>1, QuotientIs
      <3> QED
        BY <1>2, <1>3, <2>1, <2>2, <3>1 DEF p
    <2>3. CASE v >= h
      <3>1. v \div h = 1
        <4>1. v = h * 1 + (v - h) /\ v - h \in 0..(h - 1)
          BY <1>2, <1>3, <2>3
        <4> QED
          BY <1>2, <4>1, QuotientIs
      <3>2. (v + w) - p >= x /\ ((v + w) - p) - w = v - p
        BY <1>2, <1>3, <2>3
      <3>3. SignExtend(v, length) = v - p
        BY <2>1, <3>1, <3>2
      <3> QED
        BY <1>2, <1>3, <2>3, <3>3 DEF p
    <2> QED
      BY <1>2, <1>3, <2>2, <2>3
  <1> QED
    BY <1>4, <1>5

\* The raw bits of a signal that is within the data.
LEMMA RawIs ==
  ASSUME NEW data \in Seq(Bytes), NEW source \in SignalSources, HasBits(data, source)
  PROVE  /\ ExtractRaw(data, source) = {ReferenceBits(data, source)}
         /\ ReferenceBits(data, source) \in 0..(TwoTo[source.bit_length] - 1)
  <1> DEFINE start == StartBit(source)
             length == source.bit_length
             n == Len(data)
             N == AsNumber(data, source.endian)
             below == BitsBelow(data, source)
  <1>1. start \in Nat /\ length \in Nat /\ n \in Nat /\ start + length <= 8 * n
        /\ source.endian \in {"little", "big"}
    <2>1. n \in Nat
      BY LenProperties
    <2> QED
      BY <2>1 DEF StartBit, HasBits, SignalSources
  <1>2. N \in Nat
    BY AsNumberNat
  <1>3. below \in Nat
    BY <1>1 DEF BitsBelow
  <1>4. ReferenceBits(data, source) = (N \div TwoTo[below]) % TwoTo[length]
    BY DEF ReferenceBits
  <1>5. ReferenceBits(data, source) \in 0..(TwoTo[length] - 1)
    <2> HIDE DEF N, below, length
    <2>1. N \div TwoTo[below] \in Nat /\ TwoTo[length] \in Nat \ {0}
      BY <1>1, <1>2, <1>3, ShiftedIs, PowersOfTwo
    <2> QED
      BY <1>4, <2>1, QuotientMakes
  <1>6. CASE source.endian = "little"
    <2>1. below = start
      BY <1>6 DEF BitsBelow
    <2>2. ExtractRaw(data, source) = {ExtractLittleEndian(data, start, length)}
      BY <1>6 DEF ExtractRaw
    <2> HIDE DEF start, length
    <2>3. ExtractLittleEndian(data, start, length) = (AsNumber(data, "little") \div TwoTo[start]) % TwoTo[length]
      BY <1>1, LittleField
    <2> QED
      BY <1>4, <1>5, <1>6, <2>1, <2>2, <2>3 DEF length
  <1>7. CASE source.endian = "big"
    <2>1. below = 8 * n - start - length
      BY <1>7 DEF BitsBelow
    <2>2. ExtractRaw(data, source) = {ExtractBigEndian(data, start, length)}
      BY <1>7 DEF ExtractRaw
    <2> HIDE DEF start, length
    <2>3. ExtractBigEndian(data, start, length) =
            (AsNumber(data, "big") \div TwoTo[8 * n - start - length]) % TwoTo[length]
      BY <1>1, BigField
    <2> QED
      BY <1>4, <1>5, <1>7, <2>1, <2>2, <2>3 DEF length
  <1> QED
    BY <1>1, <1>6, <1>7

-----------------------------------------------------------------------------
(* Floats *)

\* A multiple, of either sign, leaves no remainder.
LEMMA MultipleIs ==
  ASSUME NEW q \in Nat \ {0}, NEW k \in Int
  PROVE  (k * q) % q = 0
  OBVIOUS

\* A greater power of two is a multiple of a smaller one.
LEMMA PowersDivide ==
  ASSUME NEW m \in Nat, NEW n \in Nat, m <= n, NEW k \in Int
  PROVE  (k * TwoTo[n]) % TwoTo[m] = 0
  <1> DEFINE d == n - m
             p == TwoTo[m]
             q == TwoTo[d]
             c == k * q
  <1>1. d \in Nat /\ n = m + d
    OBVIOUS
  <1> HIDE DEF d
  <1>2. TwoTo[n] = p * q
    BY <1>1, PowerOfSum
  <1>3. p \in Nat \ {0} /\ q \in Nat \ {0}
    BY <1>1, PowersOfTwo
  <1> HIDE DEF p, q
  <1>4. c \in Int /\ k * (p * q) = c * p
    BY <1>3
  <1> HIDE DEF c
  <1>5. (c * p) % p = 0
    BY <1>3, <1>4, MultipleIs
  <1> QED
    BY <1>2, <1>4, <1>5 DEF p

\* How far a number is from its multiple, and which multiple it is half way.
LEMMA RoundedIs ==
  ASSUME NEW a \in Nat, NEW e \in Nat
  PROVE  \E k \in Nat :
           /\ Rounded(a, e) = k * TwoTo[e]
           /\ 2 * Magnitude(Rounded(a, e) - a) <= TwoTo[e]
           /\ 2 * Magnitude(Rounded(a, e) - a) = TwoTo[e] => k % 2 = 0
  <1> DEFINE p == TwoTo[e]
             w == a \div p
             t == a % p
             r == Rounded(a, e)
  <1>1. p \in Nat \ {0}
    BY PowersOfTwo
  <1>2. r = IF 2 * t > p \/ (2 * t = p /\ w % 2 = 1) THEN (w + 1) * p ELSE w * p
    BY DEF Rounded
  <1> HIDE DEF p, r
  <1>3. w \in Nat /\ t \in 0..(p - 1) /\ a = p * w + t
    BY <1>1, QuotientMakes
  <1> HIDE DEF w, t
  <1> DEFINE b == w * p
  <1>4. b \in Nat /\ (w + 1) * p = b + p /\ a = b + t
    BY <1>1, <1>3
  <1>5. w + 1 \in Nat /\ (w % 2 = 1 => (w + 1) % 2 = 0) /\ (w % 2 # 1 => w % 2 = 0)
    BY <1>3
  <1>6. CASE 2 * t > p \/ (2 * t = p /\ w % 2 = 1)
    <2>1. r = (w + 1) * p /\ r = b + p
      BY <1>2, <1>4, <1>6
    <2> HIDE DEF b
    <2>2. Magnitude(r - a) = p - t
      BY <1>1, <1>3, <1>4, <2>1 DEF Magnitude
    <2>3. 2 * Magnitude(r - a) <= p
      BY <1>1, <1>3, <1>6, <2>2
    <2>4. 2 * Magnitude(r - a) = p => (w + 1) % 2 = 0
      BY <1>1, <1>3, <1>5, <1>6, <2>2
    <2> QED
      BY <1>5, <2>1, <2>3, <2>4 DEF p, r
  <1>7. CASE ~ (2 * t > p \/ (2 * t = p /\ w % 2 = 1))
    <2>1. r = w * p /\ r = b
      BY <1>2, <1>7
    <2> HIDE DEF b
    <2>2. Magnitude(r - a) = t
      BY <1>1, <1>3, <1>4, <2>1 DEF Magnitude
    <2>3. 2 * Magnitude(r - a) <= p
      BY <1>1, <1>3, <1>7, <2>2
    <2>4. 2 * Magnitude(r - a) = p => w % 2 = 0
      BY <1>1, <1>3, <1>5, <1>7, <2>2
    <2> QED
      BY <1>3, <2>1, <2>3, <2>4 DEF p, r
  <1> QED
    BY <1>6, <1>7

\* The least excess there is.
LEMMA ExcessIs ==
  ASSUME NEW n \in Int, Magnitude(n) < TwoTo[MantissaBits + WordBits]
  PROVE  /\ Excess(n) \in 0..WordBits
         /\ Magnitude(n) < TwoTo[MantissaBits + Excess(n)]
         /\ \A d \in 0..WordBits : Magnitude(n) < TwoTo[MantissaBits + d] => Excess(n) <= d
  <1> DEFINE S == {e \in 0..WordBits : Magnitude(n) < TwoTo[MantissaBits + e]}
  <1>1. WordBits \in S /\ S \subseteq Nat
    BY WordAssumption
  <1>2. \E e \in S : \A d \in S : e <= d
    BY <1>1, LeastElement
  <1>3. \E e \in 0..WordBits :
          /\ Magnitude(n) < TwoTo[MantissaBits + e]
          /\ \A d \in 0..WordBits : Magnitude(n) < TwoTo[MantissaBits + d] => e <= d
    BY <1>2
  <1> QED
    BY <1>3 DEF Excess

\* A number as a float is the nearest one.
LEMMA FloatIs ==
  ASSUME NEW n \in Int, Magnitude(n) < TwoTo[MantissaBits + WordBits]
  PROVE  AsFloat(n) \in Int /\ IsFloatOf(AsFloat(n), n)
  <1> DEFINE a == Magnitude(n)
             E == Excess(n)
             r == Rounded(a, E)
             p == TwoTo[E]
             v == AsFloat(n)
             off == Magnitude(r - a)
  <1>1. a \in Nat /\ MantissaBits \in Nat
    BY MantissaAssumption DEF Magnitude
  <1>2. /\ E \in 0..WordBits /\ a < TwoTo[MantissaBits + E]
        /\ \A d \in 0..WordBits : a < TwoTo[MantissaBits + d] => E <= d
    BY ExcessIs
  <1>3. E \in Nat
    BY <1>2
  <1>4. v = IF n < 0 THEN -r ELSE r
    BY DEF AsFloat, Magnitude
  <1>5. n = IF n < 0 THEN -a ELSE a
    BY DEF Magnitude
  <1> HIDE DEF a, E
  <1>6. PICK k \in Nat : r = k * p /\ 2 * off <= p /\ (2 * off = p => k % 2 = 0)
    BY <1>1, <1>3, RoundedIs
  <1>7. p \in Nat \ {0}
    BY <1>3, PowersOfTwo
  <1>8. r \in Nat
    <2> HIDE DEF p, r
    <2> QED
      BY <1>6, <1>7
  <1> HIDE DEF r, p, v
  <1>9. v \in Int /\ Magnitude(v - n) = off /\ off \in Nat
    BY <1>1, <1>4, <1>5, <1>8 DEF Magnitude
  <1> HIDE DEF off
  <1>10. PICK c \in Int : v = c * p /\ (2 * off = p => c % 2 = 0)
    <2>1. CASE n < 0
      <3>1. -k \in Int /\ -(k * p) = (-k) * p /\ (k % 2 = 0 => (-k) % 2 = 0)
        BY <1>7
      <3> QED
        BY <1>4, <1>6, <2>1, <3>1
    <2>2. CASE ~ (n < 0)
      BY <1>4, <1>6, <2>2
    <2> QED
      BY <2>1, <2>2
  <1>11. ASSUME NEW m \in Nat, m <= E PROVE v % TwoTo[m] = 0
    BY <1>3, <1>10, <1>11, PowersDivide DEF p
  <1>12. ASSUME NEW e \in 0..WordBits, a < TwoTo[MantissaBits + e]
         PROVE  2 * off <= TwoTo[e]
    <2>1. E <= e /\ e \in Nat
      BY <1>2, <1>12
    <2>2. p <= TwoTo[e] /\ TwoTo[e] \in Nat
      BY <1>3, <2>1, PowersGrow, PowersOfTwo DEF p
    <2> QED
      BY <1>6, <1>7, <1>9, <2>2
  <1>13. ASSUME NEW e \in 0..WordBits, e > 0, a >= TwoTo[MantissaBits + e - 1]
         PROVE  v % TwoTo[IF 2 * off = TwoTo[e] THEN e + 1 ELSE e] = 0
    <2>1. e \in Nat /\ e <= E
      <3>1. SUFFICES ASSUME ~ (e <= E) PROVE FALSE
        OBVIOUS
      <3>2. MantissaBits + E \in Nat /\ MantissaBits + e - 1 \in Nat
            /\ MantissaBits + E <= MantissaBits + e - 1
        BY <1>1, <1>3, <1>13, <3>1
      <3>3. TwoTo[MantissaBits + E] <= TwoTo[MantissaBits + e - 1]
        BY <3>2, PowersGrow
      <3>4. TwoTo[MantissaBits + E] \in Nat /\ TwoTo[MantissaBits + e - 1] \in Nat
        BY <3>2, PowersOfTwo
      <3> QED
        BY <1>1, <1>2, <1>13, <3>3, <3>4
    <2>2. CASE 2 * off # TwoTo[e]
      BY <1>11, <2>1, <2>2
    <2>3. CASE 2 * off = TwoTo[e] /\ e < E
      <3>1. e + 1 \in Nat /\ e + 1 <= E
        BY <1>3, <2>1, <2>3
      <3> QED
        BY <1>11, <2>3, <3>1
    <2>4. CASE 2 * off = TwoTo[e] /\ e = E
      <3>1. c % 2 = 0
        BY <1>10, <2>4 DEF p
      <3>2. PICK h \in Int : c = 2 * h
        BY <3>1
      <3>3. TwoTo[E + 1] = 2 * p /\ E + 1 \in Nat
        BY <1>3, PowersOfTwo DEF p
      <3>4. v = h * (2 * p)
        BY <1>7, <1>10, <3>2
      <3>5. (h * TwoTo[E + 1]) % TwoTo[E + 1] = 0
        BY <3>3, PowersDivide
      <3> QED
        BY <2>4, <3>3, <3>4, <3>5
    <2> QED
      BY <1>3, <2>1, <2>2, <2>3, <2>4
  <1>14. IsFloatOf(v, n)
    BY <1>9, <1>12, <1>13 DEF IsFloatOf, a
  <1> QED
    BY <1>9, <1>14 DEF v

\* A signal is missing when it ends behind the data.
LEMMA HasBitsIs ==
  ASSUME NEW data \in Seq(Bytes), NEW source \in SignalSources
  PROVE  HasBits(data, source) <=> ~ (StartBit(source) + source.bit_length > 8 * Len(data))
  <1>1. StartBit(source) \in Nat /\ source.bit_length \in Nat /\ Len(data) \in Nat
    BY LenProperties DEF StartBit, SignalSources
  <1> QED
    BY <1>1 DEF HasBits

\* An integer signal is the reference value as a float.
LEMMA ExtractedIs ==
  ASSUME NEW data \in Seq(Bytes), NEW source \in SignalSources,
         ValidSource(source), source.data_type # "float32"
  PROVE  /\ ~HasBits(data, source) => ExtractValue(data, source) = {}
         /\ HasBits(data, source) =>
              /\ ExtractValue(data, source) = {AsFloat(ReferenceValue(data, source))}
              /\ ReferenceValue(data, source) \in Int
              /\ Magnitude(ReferenceValue(data, source)) < TwoTo[MantissaBits + WordBits]
  <1> DEFINE type == EffectiveDataType(source)
             length == source.bit_length
             raw == ExtractRaw(data, source)
             bits == ReferenceBits(data, source)
             p == TwoTo[length]
             value == ReferenceValue(data, source)
  <1>1. type \in {"unsigned-int", "signed-int"} /\ length \in 1..WordBits
    BY DEF EffectiveDataType, SignalSources, DataTypes, ValidSource
  <1>2. ExtractValue(data, source) =
          IF type = "unsigned-int" THEN {AsFloat(x) : x \in raw}
          ELSE {AsFloat(SignExtend(x, length)) : x \in raw}
    BY <1>1 DEF ExtractValue
  <1>3. CASE ~HasBits(data, source)
    <2>1. raw = {}
      BY <1>3 DEF ExtractRaw
    <2> HIDE DEF raw, length, type
    <2> QED
      BY <1>2, <1>3, <2>1
  <1>4. CASE HasBits(data, source)
    <2>1. raw = {bits} /\ bits \in 0..(p - 1)
      BY <1>4, RawIs
    <2>2. value = IF type = "signed-int" /\ 2 * bits >= p THEN bits - p ELSE bits
      BY DEF ReferenceValue
    <2>3. length \in Nat /\ WordBits \in Nat /\ MantissaBits \in Nat /\ length <= MantissaBits + WordBits
      BY <1>1, WordAssumption, MantissaAssumption
    <2>4. p \in Nat \ {0} /\ TwoTo[MantissaBits + WordBits] \in Nat
          /\ p <= TwoTo[MantissaBits + WordBits]
      <3> DEFINE top == MantissaBits + WordBits
      <3>1. top \in Nat /\ length \in Nat /\ length <= top
        BY <2>3
      <3> HIDE DEF top, length
      <3>2. p \in Nat \ {0} /\ TwoTo[top] \in Nat /\ p <= TwoTo[top]
        BY <3>1, PowersOfTwo, PowersGrow
      <3> QED
        BY <3>2 DEF top
    <2> HIDE DEF raw, bits, type, p, length, value
    <2>5. SignExtend(bits, length) = IF 2 * bits >= p THEN bits - p ELSE bits
      BY <1>1, <2>1, SignExtended DEF p
    <2>6. {AsFloat(x) : x \in raw} = {AsFloat(bits)}
          /\ {AsFloat(SignExtend(x, length)) : x \in raw} = {AsFloat(SignExtend(bits, length))}
      BY <2>1
    <2>7. ExtractValue(data, source) = {AsFloat(value)}
      BY <1>1, <1>2, <2>2, <2>5, <2>6
    <2>8. value \in Int /\ Magnitude(value) < p
      BY <2>1, <2>2, <2>4 DEF Magnitude
    <2>9. Magnitude(value) < TwoTo[MantissaBits + WordBits]
      BY <2>4, <2>8 DEF Magnitude
    <2> QED
      BY <1>4, <2>7, <2>8, <2>9 DEF value
  <1> QED
    BY <1>3, <1>4

\* Whatever the data and the source, an integer signal is what the reference
\* says, rounded to a float: extract_signal_value, extract_signal_raw and
\* sign_extend.
THEOREM ExtractionIsRight ==
  \A data \in Seq(Bytes), source \in SignalSources : ExtractedAsReference(data, source)
  <1> SUFFICES ASSUME NEW data \in Seq(Bytes), NEW source \in SignalSources,
                      ValidSource(source), source.data_type # "float32"
               PROVE  IF StartBit(source) + source.bit_length > 8 * Len(data)
                      THEN ExtractValue(data, source) = {}
                      ELSE \E v \in ExtractValue(data, source) :
                             /\ ExtractValue(data, source) = {v}
                             /\ IsFloatOf(v, ReferenceValue(data, source))
    BY DEF ExtractedAsReference
  <1>1. CASE ~HasBits(data, source)
    BY <1>1, ExtractedIs, HasBitsIs
  <1>2. CASE HasBits(data, source)
    <2>1. /\ ExtractValue(data, source) = {AsFloat(ReferenceValue(data, source))}
          /\ ReferenceValue(data, source) \in Int
          /\ Magnitude(ReferenceValue(data, source)) < TwoTo[MantissaBits + WordBits]
      BY <1>2, ExtractedIs
    <2>2. IsFloatOf(AsFloat(ReferenceValue(data, source)), ReferenceValue(data, source))
      BY <2>1, FloatIs
    <2>3. ~ (StartBit(source) + source.bit_length > 8 * Len(data))
      BY <1>2, HasBitsIs
    <2> QED
      BY <2>1, <2>2, <2>3
  <1> QED
    BY <1>1, <1>2

\* The first frame that is received has the data for it, and the sources are
\* those of a configuration.
THEOREM ExtractionMatches == PipelineSpec => []ExtractionMatchesReference
  <1>1. PipelineInv => ExtractionMatchesReference
    <2> SUFFICES ASSUME PipelineInv, Len(frames) = 1, NEW source \in Sources,
                        Len(frames[1].data) <= 3
                 PROVE  ExtractedAsReference(frames[1].data, source)
      BY DEF ExtractionMatchesReference
    <2>1. frames[1] \in CanFrames
      BY LenProperties DEF PipelineInv
    <2>2. frames[1].data \in Seq(Bytes)
      BY <2>1, ReceivedIs
    <2>3. source \in SignalSources
      BY InputAssumption
    <2> QED
      BY <2>2, <2>3, ExtractionIsRight
  <1> QED
    BY <1>1, PipelineInvariant, PTL

-----------------------------------------------------------------------------
(* The samples of a capture *)

\* The value of a signal, if it has one, is a number.
LEMMA ValueTyped ==
  ASSUME NEW data \in Seq(Bytes), NEW source \in SignalSources, ValidSource(source)
  PROVE  ExtractValue(data, source) = {} \/ \E v \in Int : ExtractValue(data, source) = {v}
  <1>1. CASE source.data_type # "float32"
    <2> DEFINE value == ReferenceValue(data, source)
    <2>1. CASE HasBits(data, source)
      <3>1. /\ ExtractValue(data, source) = {AsFloat(value)} /\ value \in Int
            /\ Magnitude(value) < TwoTo[MantissaBits + WordBits]
        BY <1>1, <2>1, ExtractedIs
      <3>2. AsFloat(value) \in Int
        BY <3>1, FloatIs
      <3> QED
        BY <3>1, <3>2
    <2>2. CASE ~HasBits(data, source)
      BY <1>1, <2>2, ExtractedIs
    <2> QED
      BY <2>1, <2>2
  <1>2. CASE source.data_type = "float32"
    <2> DEFINE bytes == SubSeq(data, source.byte_offset + 1, source.byte_offset + 4)
               n == AsNumber(bytes, source.endian)
    <2>1. ExtractValue(data, source) = ExtractFloat32(data, source)
      BY <1>2 DEF ExtractValue, EffectiveDataType
    <2>2. CASE source.byte_offset + 4 > Len(data)
      BY <2>1, <2>2 DEF ExtractFloat32
    <2>3. CASE ~ (source.byte_offset + 4 > Len(data))
      <3>1. ExtractFloat32(data, source) = {n}
        BY <2>3 DEF ExtractFloat32, AsNumber
      <3>2. source.byte_offset \in Nat /\ Len(data) \in Nat
        BY LenProperties DEF SignalSources
      <3>3. bytes \in Seq(Bytes)
        <4>1. \A i \in source.byte_offset + 1 .. source.byte_offset + 4 : data[i] \in Bytes
          BY <2>3, <3>2, ElementOfSeq
        <4> QED
          BY <3>2, <4>1, SubSeqProperties
      <3>4. n \in Nat
        BY <3>3, AsNumberNat
      <3> QED
        BY <2>1, <3>1, <3>4
    <2> QED
      BY <2>2, <2>3
  <1> QED
    BY <1>1, <1>2

\* What a signal and its samples need of a frame.
LEMMA FrameFields ==
  ASSUME NEW f \in CanFrames
  PROVE  /\ f.bus \in Text /\ f.id \in Nat /\ f.data \in Seq(Bytes)
         /\ FormatTimestamp(f.timestamp_host) \in [secs : Nat, millis : Nat]
  <1>1. f.bus \in Text /\ f.id \in Nat /\ f.data \in Seq(Bytes)
    BY ReceivedIs, InputAssumption
  <1>2. f.timestamp_host.secs \in Nat /\ f.timestamp_host.nanos \in Nat
    <2>1. f.timestamp_host \in HostTimes
      BY ReceivedIs
    <2> QED
      BY <2>1 DEF HostTimes
  <1>3. f.timestamp_host.nanos \div 1000000 \in Nat
    BY <1>2, SMT
  <1> QED
    BY <1>1, <1>2, <1>3 DEF FormatTimestamp

\* All of it is on the stream and in the capture.
LEMMA SameFields ==
  ASSUME NEW f \in CanFrames, NEW g \in {AsStreamed(f), AsCaptured(f)}
  PROVE  /\ g.bus = f.bus /\ g.id = f.id /\ g.data = f.data
         /\ g.id_format = f.id_format /\ g.frame_format = f.frame_format
         /\ g.frame_type = f.frame_type
         /\ FormatTimestamp(g.timestamp_host) = FormatTimestamp(f.timestamp_host)
  <1> DEFINE time == f.timestamp_host
  <1>1. FormatTimestamp(ToMillis(time)) = FormatTimestamp(time)
    <2>1. time \in HostTimes
      BY ReceivedIs
    <2>2. time.nanos \in Nat
      BY <2>1 DEF HostTimes
    <2>3. (1000000 * (time.nanos \div 1000000)) \div 1000000 = time.nanos \div 1000000
      BY <2>2, SMT
    <2>4. ToMillis(time) = [secs |-> time.secs, nanos |-> 1000000 * (time.nanos \div 1000000)]
      BY <2>1, TimeBack DEF ParseCsvTimestamp, FormatTimestamp
    <2> QED
      BY <2>3, <2>4 DEF FormatTimestamp
  <1> HIDE DEF time
  <1>2. PICK at, adapter, raw :
          (at = time \/ at = ToMillis(time)) /\ g = Anew(f, at, adapter, raw)
    <2>1. CASE g = AsStreamed(f)
      <3>1. g = Anew(f, time, "server", {})
        BY <2>1, StreamedIs DEF time
      <3> QED
        BY <3>1, Zenon
    <2>2. CASE g = AsCaptured(f)
      <3>1. g = Anew(f, ToMillis(time), "capture-csv", {CaptureRow(f)})
        BY <2>2, CapturedIs DEF time
      <3> QED
        BY <3>1, Zenon
    <2> QED
      BY <2>1, <2>2, Zenon
  <1>3. FormatTimestamp(at) = FormatTimestamp(time)
    BY <1>1, <1>2, Zenon
  <1>4. /\ g.bus = f.bus /\ g.id = f.id /\ g.data = f.data
        /\ g.id_format = f.id_format /\ g.frame_format = f.frame_format
        /\ g.frame_type = f.frame_type /\ g.timestamp_host = at
    BY <1>2 DEF Anew
  <1> QED
    BY <1>3, <1>4 DEF time

\* Signals that a configuration may hold.
ValidSignals == {s \in SignalDefinitions : ValidSource(s.source)}

\* A signal and a frame make a sample.
LEMMA SampleTyped ==
  ASSUME NEW s \in ValidSignals, NEW f \in CanFrames, NEW k \in Nat
  PROVE  Sample(s, f, k) \in Samples
  <1> DEFINE raw == ExtractValue(f.data, s.source)
             value == IF raw = {} THEN NaN
                      ELSE Affine(Number(CHOOSE r \in raw : TRUE), s.scale, s.offset)
             quality == IF raw = {} THEN "parse-error" ELSE "ok"
  <1>1. /\ s.source \in SignalSources /\ ValidSource(s.source) /\ s.scale \in Int
        /\ s.offset \in Int /\ s.id \in Text /\ s.name \in Text /\ s.unit \in Text
    BY DEF ValidSignals, SignalDefinitions
  <1>2. raw = {} \/ \E v \in Int : raw = {v}
    BY <1>1, FrameFields, ValueTyped
  <1> HIDE DEF raw
  <1>3. value \in Values
    <2>1. CASE raw = {}
      BY <2>1 DEF NaN, Values
    <2>2. CASE raw # {}
      <3>1. PICK v \in Int : raw = {v}
        BY <1>2, <2>2
      <3>2. (CHOOSE r \in raw : TRUE) = v
        BY <3>1
      <3>3. value = Number(v * s.scale + s.offset)
        BY <2>2, <3>2 DEF Affine, Number
      <3>4. v * s.scale + s.offset \in Int
        BY <1>1
      <3> HIDE DEF value
      <3> QED
        BY <3>3, <3>4 DEF Number, Values
    <2> QED
      BY <2>1, <2>2
  <1>4. quality \in {"ok", "parse-error"}
    OBVIOUS
  <1>5. Sample(s, f, k) =
          [timestamp_host |-> FormatTimestamp(f.timestamp_host), bus |-> f.bus,
           frame_id |-> PrefixedHex(f.id), signal_id |-> s.id, name |-> s.name, value |-> value, unit |-> s.unit,
           quality |-> quality, source_sequence |-> k]
    BY DEF Sample, raw
  <1> HIDE DEF value, quality
  <1>6. PrefixedHex(f.id) \in PrefixedTexts
    BY FrameFields DEF PrefixedTexts
  <1> QED
    BY <1>1, <1>3, <1>4, <1>5, <1>6, FrameFields DEF Samples

\* The samples of a frame, also of one that went over the stream or through a
\* capture.
LEMMA FrameParsed ==
  ASSUME NEW c, c.signals \in Seq(ValidSignals), NEW f \in CanFrames, NEW k \in Nat,
         NEW g \in {AsStreamed(f), AsCaptured(f)}
  PROVE  /\ ParseFrame(c, f, k) \in Seq(Samples)
         /\ ParseFrame(c, g, k) = ParseFrame(c, f, k)
  <1> DEFINE own == MatchingOf(c.signals, f)
             A(h) == {x \in ValidSignals : Matches(x.selector, h)}
             sigs == c.signals
  <1>0. \A h : MatchingOf(sigs, h) = KeptIn(sigs, A(h))
    BY MatchingIs
  <1>1. own \in Seq(ValidSignals)
    <2> HIDE DEF A
    <2>1. own = KeptIn(sigs, A(f)) /\ sigs \in Seq(ValidSignals)
      BY <1>0
    <2> HIDE DEF own, sigs
    <2> QED
      BY <2>1, KeptTyped
  <1>2. MatchingOf(c.signals, g) = own
    <2>1. \A x \in ValidSignals : Matches(x.selector, g) <=> Matches(x.selector, f)
      BY SameFields DEF Matches
    <2>2. A(g) = A(f)
      BY <2>1
    <2> HIDE DEF A
    <2> QED
      BY <1>0, <2>2
  <1>3. /\ ParseFrame(c, f, k) = [i \in DOMAIN own |-> Sample(own[i], f, k)]
        /\ ParseFrame(c, g, k) = [i \in DOMAIN MatchingOf(c.signals, g) |->
                                    Sample(MatchingOf(c.signals, g)[i], g, k)]
    BY DEF ParseFrame, MatchingOf
  <1> HIDE DEF own
  <1>4. \A s : Sample(s, g, k) = Sample(s, f, k)
    BY SameFields DEF Sample
  <1>5. DOMAIN own = 1..Len(own) /\ Len(own) \in Nat /\ \A i \in 1..Len(own) : own[i] \in ValidSignals
    BY <1>1, LenProperties, ElementOfSeq
  <1>6. [i \in DOMAIN own |-> Sample(own[i], f, k)] \in [1..Len(own) -> Samples]
    BY <1>5, SampleTyped
  <1>7. ParseFrame(c, f, k) \in Seq(Samples)
    BY <1>3, <1>5, <1>6, FunctionIsSeq
  <1>8. ParseFrame(c, g, k) = [i \in DOMAIN own |-> Sample(own[i], g, k)]
    BY <1>2, <1>3
  <1>9. [i \in DOMAIN own |-> Sample(own[i], g, k)] = [i \in DOMAIN own |-> Sample(own[i], f, k)]
    BY <1>4
  <1> QED
    BY <1>3, <1>7, <1>8, <1>9

\* The samples of all frames, also of those that went there.
LEMMA FramesParsed ==
  ASSUME NEW c, c.signals \in Seq(ValidSignals), NEW kept \in Seq(CanFrames), NEW read,
         DOMAIN read = DOMAIN kept,
         \A i \in DOMAIN kept : read[i] \in {AsStreamed(kept[i]), AsCaptured(kept[i])}
  PROVE  /\ ParseFrames(c, kept) \in Seq(Samples)
         /\ ParseFrames(c, read) = ParseFrames(c, kept)
  <1> DEFINE n == Len(kept)
             parsed == [i \in DOMAIN kept |-> ParseFrame(c, kept[i], i)]
  <1>1. n \in Nat /\ DOMAIN kept = 1..n /\ \A i \in 1..n : kept[i] \in CanFrames
    BY LenProperties, ElementOfSeq
  <1>2. \A i \in 1..n : /\ ParseFrame(c, kept[i], i) \in Seq(Samples)
                        /\ ParseFrame(c, read[i], i) = ParseFrame(c, kept[i], i)
    <2> SUFFICES ASSUME NEW i \in 1..n
                 PROVE  /\ ParseFrame(c, kept[i], i) \in Seq(Samples)
                        /\ ParseFrame(c, read[i], i) = ParseFrame(c, kept[i], i)
      OBVIOUS
    <2>1. kept[i] \in CanFrames /\ i \in Nat /\ read[i] \in {AsStreamed(kept[i]), AsCaptured(kept[i])}
      BY <1>1
    <2> QED
      BY <2>1, FrameParsed
  <1>3. parsed \in [1..n -> Seq(Samples)]
    BY <1>1, <1>2
  <1>4. parsed \in Seq(Seq(Samples)) /\ <<>> \in Seq(Samples)
    BY <1>1, <1>3, FunctionIsSeq, EmptySeq
  <1>5. ParseFrames(c, kept) = FlattenSeq(parsed)
    BY DEF ParseFrames
  <1>6. [i \in DOMAIN read |-> ParseFrame(c, read[i], i)] = parsed
    BY <1>1, <1>2
  <1>7. ParseFrames(c, read) = FlattenSeq(parsed)
    BY <1>6 DEF ParseFrames
  <1> HIDE DEF parsed
  <1>8. FlattenSeq(parsed) \in Seq(Samples)
    BY <1>4, FlattenAppend
  <1> QED
    BY <1>5, <1>7, <1>8

-----------------------------------------------------------------------------
(* Points that differ by the digits a file leaves out, and by their numbers *)

\* The number of a frame whose row in a capture is k.
NumberOf(k) == IF k \in DOMAIN Numbers /\ Numbers[k] \in Nat THEN Numbers[k] ELSE 0

\* Two points, and the points of two plots, one by one.
AlikePoint(p, q) ==
  /\ p.source_sequence = NumberOf(q.source_sequence)
  /\ Near(p.value, q.value)
  /\ [[p EXCEPT !.value = NaN] EXCEPT !.source_sequence = 0] =
       [[q EXCEPT !.value = NaN] EXCEPT !.source_sequence = 0]

AlikePoints(v, w) == Len(v) = Len(w) /\ \A i \in DOMAIN v : AlikePoint(v[i], w[i])

\* A value and what a file says of it, both scaled.
LEMMA NearValues ==
  ASSUME NEW v \in Values, NEW scale \in Int, NEW offset \in Int, scale \in Scales
  PROVE  Near(Affine(v, scale, offset), Affine(Printed(v), scale, offset))
  <1>1. CASE v.nan
    BY <1>1 DEF Affine, Printed, NaN, Near
  <1>2. CASE ~v.nan
    <2> DEFINE a == v.steps
               q == (a + 5) \div 10
               m == 10 * q
               rest == a - m
    <2>1. a \in Int
      BY DEF Values
    <2>2. m \in Int /\ rest \in -5 .. 5
      <3>1. q \in Int /\ a + 5 = (10 * q) + ((a + 5) % 10) /\ (a + 5) % 10 \in 0..9
        BY <2>1
      <3> HIDE DEF q
      <3> QED
        BY <2>1, <3>1
    <2>3. /\ Affine(v, scale, offset) = Number(a * scale + offset)
          /\ Affine(Printed(v), scale, offset) = Number(m * scale + offset)
      BY <1>2 DEF Affine, Printed, Number
    <2> HIDE DEF a, m
    <2>4. (a * scale + offset) - (m * scale + offset) = scale * rest
      BY <2>1, <2>2
    <2> HIDE DEF rest
    <2>5. Near(Number(a * scale + offset), Number(m * scale + offset))
      BY <2>2, <2>4 DEF Near, Number
    <2> QED
      BY <2>3, <2>5
  <1>3. v.nan \in BOOLEAN
    BY DEF Values
  <1> QED
    BY <1>1, <1>2, <1>3

\* A sample with the number of the frame of its row.
AsNumbered(s) ==
  [timestamp_host |-> s.timestamp_host, bus |-> s.bus, frame_id |-> s.frame_id,
   signal_id |-> s.signal_id, name |-> s.name, value |-> s.value, unit |-> s.unit,
   quality |-> s.quality, source_sequence |-> NumberOf(s.source_sequence)]

\* The points of a sample with that number and of what a file says of it.
LEMMA NearPoints ==
  ASSUME NEW p, NEW q, p.id = q.id, NEW s \in SeriesConfigs, s.scale \in Scales, NEW x \in Samples
  PROVE  AlikePoint(Point(p, s, AsNumbered(x)), Point(q, s, AsPrinted(x)))
  <1> DEFINE y == AsPrinted(x)
             z == AsNumbered(x)
             k == x.source_sequence
             name == IF s.label = <<>> THEN x.name ELSE s.label
             unit == IF s.unit_override = {} THEN x.unit ELSE CHOOSE unit \in s.unit_override : TRUE
             made(value, number) ==
               [timestamp_host |-> x.timestamp_host, panel_id |-> p.id, series_id |-> s.id,
                source_signal_id |-> x.signal_id, name |-> name, value |-> value, unit |-> unit,
                quality |-> x.quality, source_sequence |-> number]
             v == Affine(x.value, s.scale, s.offset)
             w == Affine(Printed(x.value), s.scale, s.offset)
  <1>1. Point(p, s, z) = made(v, NumberOf(k))
    <2>1. /\ z.timestamp_host = x.timestamp_host /\ z.signal_id = x.signal_id /\ z.name = x.name
          /\ z.value = x.value /\ z.unit = x.unit /\ z.quality = x.quality
          /\ z.source_sequence = NumberOf(k)
      BY DEF AsNumbered
    <2> HIDE DEF z
    <2> QED
      BY <2>1 DEF Point
  <1>2. /\ y.timestamp_host = x.timestamp_host /\ y.signal_id = x.signal_id /\ y.name = x.name
        /\ y.value = Printed(x.value) /\ y.unit = x.unit /\ y.quality = x.quality
        /\ y.source_sequence = k
    BY DEF AsPrinted
  <1> HIDE DEF y, z
  <1>3. Point(q, s, y) = made(w, k)
    BY <1>2 DEF Point
  <1>4. Near(v, w)
    BY NearValues DEF Samples, SeriesConfigs
  <1> HIDE DEF v, w, k, name, unit
  <1>5. /\ \A u, n : made(u, n).value = u /\ made(u, n).source_sequence = n
        /\ \A u, n, a : [made(u, n) EXCEPT !.value = a] = made(a, n)
        /\ \A u, n, a : [made(u, n) EXCEPT !.source_sequence = a] = made(u, a)
    OBVIOUS
  <1> HIDE DEF made
  <1>6. ASSUME NEW u, NEW n
        PROVE  [[made(u, n) EXCEPT !.value = NaN] EXCEPT !.source_sequence = 0] = made(NaN, 0)
    <2> DEFINE g == [made(u, n) EXCEPT !.value = NaN]
    <2>1. g = made(NaN, n)
      BY <1>5
    <2> HIDE DEF g
    <2>2. [g EXCEPT !.source_sequence = 0] = made(NaN, 0)
      BY <1>5, <2>1
    <2> QED
      BY <2>2 DEF g
  <1>7. AlikePoint(made(v, NumberOf(k)), made(w, k))
    <2> DEFINE a == made(v, NumberOf(k))
               b == made(w, k)
    <2>1. /\ a.value = v /\ a.source_sequence = NumberOf(k) /\ b.value = w /\ b.source_sequence = k
          /\ [[a EXCEPT !.value = NaN] EXCEPT !.source_sequence = 0] = made(NaN, 0)
          /\ [[b EXCEPT !.value = NaN] EXCEPT !.source_sequence = 0] = made(NaN, 0)
      BY <1>5, <1>6
    <2> HIDE DEF a, b
    <2>2. AlikePoint(a, b)
      BY <1>4, <2>1 DEF AlikePoint
    <2> QED
      BY <2>2 DEF a, b
  <1> QED
    BY <1>1, <1>3, <1>7 DEF y, z

\* Plots that are alike are alike joined.
LEMMA AlikeConcat ==
  ASSUME NEW V, NEW v \in Seq(V), NEW w \in Seq(V), NEW x \in Seq(V), NEW y \in Seq(V),
         AlikePoints(v, w), AlikePoints(x, y)
  PROVE  AlikePoints(v \o x, w \o y)
  <1> DEFINE n == Len(v)
             m == Len(x)
             l == v \o x
             r == w \o y
  <1>1. /\ n \in Nat /\ m \in Nat /\ Len(w) = n /\ Len(y) = m
        /\ DOMAIN v = 1..n /\ DOMAIN x = 1..m
    BY LenProperties DEF AlikePoints
  <1>2. /\ Len(l) = n + m /\ DOMAIN l = 1..(n + m)
        /\ \A i \in 1..(n + m) : l[i] = IF i <= n THEN v[i] ELSE x[i - n]
    <2>1. l \in Seq(V) /\ Len(l) = n + m
      BY ConcatProperties
    <2> QED
      BY <2>1, ConcatProperties, LenProperties
  <1>3. /\ Len(r) = n + m
        /\ \A i \in 1..(n + m) : r[i] = IF i <= n THEN w[i] ELSE y[i - n]
    <2>1. r \in Seq(V) /\ Len(r) = Len(w) + Len(y)
      BY ConcatProperties
    <2> QED
      BY <1>1, <2>1, ConcatProperties, LenProperties
  <1>4. \A i \in 1..n : AlikePoint(v[i], w[i])
    BY <1>1 DEF AlikePoints
  <1>5. \A i \in 1..m : AlikePoint(x[i], y[i])
    BY <1>1 DEF AlikePoints
  <1> HIDE DEF l, r, n, m
  <1>6. ASSUME NEW i \in 1..(n + m) PROVE AlikePoint(l[i], r[i])
    <2>1. CASE i <= n
      BY <1>1, <1>2, <1>3, <1>4, <2>1
    <2>2. CASE ~ (i <= n)
      <3>1. i - n \in 1..m
        BY <1>1, <2>2
      <3> QED
        BY <1>2, <1>3, <1>5, <2>2, <3>1
    <2> QED
      BY <2>1, <2>2
  <1> QED
    BY <1>2, <1>3, <1>6 DEF AlikePoints, l, r

\* Plots of each element that are alike.
AlikeEach(h, k, T) == \A x \in T : AlikePoints(h[x], k[x])

\* Elements that make plots that are alike, one by one, make such plots together.
LEMMA AlikeFlatMap ==
  ASSUME NEW T, NEW V, NEW h \in [T -> Seq(V)], NEW k \in [T -> Seq(V)],
         AlikeEach(h, k, T), NEW s \in Seq(T)
  PROVE  AlikePoints(FlatMap(h, s), FlatMap(k, s))
  <1> DEFINE S == {r \in Seq(T) : AlikePoints(FlatMap(h, r), FlatMap(k, r))}
  <1>0. FlatsOn(h, T) /\ FlatsOn(k, T)
    BY FlatsEach, Zenon
  <1>1. <<>> \in S
    BY FlatMapNone, EmptySeq DEF AlikePoints
  <1>2. ASSUME NEW r \in Seq(T), NEW x \in T, r \in S PROVE Append(r, x) \in S
    <2> DEFINE more == Append(r, x)
               a == FlatMap(h, r)
               b == FlatMap(k, r)
               c == h[x]
               d == k[x]
    <2>1. FlatMap(h, more) = a \o c /\ FlatMap(k, more) = b \o d
      BY <1>0 DEF FlatsOn
    <2>2. a \in Seq(V) /\ b \in Seq(V) /\ c \in Seq(V) /\ d \in Seq(V)
      <3> HIDE DEF S
      <3> QED
        BY FlatMapTyped
    <2>3. AlikePoints(a, b) /\ AlikePoints(c, d)
      BY <1>2 DEF AlikeEach
    <2>4. more \in Seq(T)
      BY AppendProperties
    <2> HIDE DEF a, b, c, d, more
    <2>5. AlikePoints(a \o c, b \o d)
      BY <2>2, <2>3, AlikeConcat
    <2> QED
      BY <2>1, <2>4, <2>5 DEF more
  <1>3. Seq(T) \subseteq S
    <2> HIDE DEF S
    <2> QED
      BY <1>1, <1>2, SeqSetInduction
  <1> QED
    BY <1>3

-----------------------------------------------------------------------------
(* The points of a plot *)

\* The points of a series, of a panel and of a layout.
SeriesPoints(panel, series, samples) ==
  LET own == OfSignal(samples, series.signal_id)
  IN  [i \in DOMAIN own |-> Point(panel, series, own[i])]

PanelPoints(panel, list, samples) ==
  FlattenSeq([s \in DOMAIN list |-> SeriesPoints(panel, list[s], samples)])

LayoutPoints(panels, samples) ==
  FlattenSeq([p \in DOMAIN panels |-> PanelPoints(panels[p], panels[p].series, samples)])

AllPoints == {Point(p, s, x) : p \in PlotPanels, s \in SeriesConfigs, x \in Samples}

\* These are the points that build_plot_points makes.
LEMMA PointsAre ==
  ASSUME NEW chosen, NEW samples
  PROVE  BuildPlotPoints(chosen, samples) = LayoutPoints(chosen.panels, samples)
  BY DEF BuildPlotPoints, LayoutPoints, PanelPoints, SeriesPoints, OfSignal

\* The points of a series are points.
LEMMA SeriesTyped ==
  ASSUME NEW panel \in PlotPanels, NEW s \in SeriesConfigs, NEW samples \in Seq(Samples)
  PROVE  /\ SeriesPoints(panel, s, samples) \in Seq({Point(panel, s, x) : x \in Samples})
         /\ SeriesPoints(panel, s, samples) \in Seq(AllPoints)
  <1> DEFINE own == OfSignal(samples, s.signal_id)
             A == {x \in Samples : x.signal_id = s.signal_id}
             n == Len(own)
             points_ == [i \in DOMAIN own |-> Point(panel, s, own[i])]
  <1>1. own = KeptIn(samples, A)
    BY OfSignalIs
  <1>2. own \in Seq(Samples)
    <2> HIDE DEF own, A
    <2> QED
      BY <1>1, KeptTyped
  <1>3. SeriesPoints(panel, s, samples) = points_
    BY DEF SeriesPoints
  <1> HIDE DEF own
  <1>4. n \in Nat /\ DOMAIN own = 1..n /\ \A i \in 1..n : own[i] \in Samples
    BY <1>2, LenProperties, ElementOfSeq
  <1>5. points_ \in [1..n -> {Point(panel, s, x) : x \in Samples}]
    BY <1>4
  <1>6. points_ \in [1..n -> AllPoints]
    BY <1>4 DEF AllPoints
  <1> HIDE DEF points_
  <1> QED
    BY <1>3, <1>4, <1>5, <1>6, FunctionIsSeq

\* The points of a panel and of a layout are made of each series and panel.
PanelMade(U, panel, list, samples) ==
  LET h == [s \in U |-> SeriesPoints(panel, s, samples)]
  IN  /\ PanelPoints(panel, list, samples) = FlatMap(h, list)
      /\ h \in [U -> Seq(AllPoints)]
      /\ PanelPoints(panel, list, samples) \in Seq(AllPoints)

LayoutMade(W, panels, samples) ==
  LET h == [p \in W |-> PanelPoints(p, p.series, samples)]
  IN  /\ LayoutPoints(panels, samples) = FlatMap(h, panels)
      /\ h \in [W -> Seq(AllPoints)]

\* The points of a panel are made so.
LEMMA PanelIs ==
  ASSUME NEW U, U \subseteq SeriesConfigs, NEW panel \in PlotPanels, NEW list \in Seq(U),
         NEW samples \in Seq(Samples)
  PROVE  PanelMade(U, panel, list, samples)
  <1> DEFINE h == [s \in U |-> SeriesPoints(panel, s, samples)]
             n == Len(list)
  <1>1. n \in Nat /\ DOMAIN list = 1..n /\ \A i \in 1..n : list[i] \in U
    BY LenProperties, ElementOfSeq
  <1>2. [s \in DOMAIN list |-> SeriesPoints(panel, list[s], samples)] = Mapped(h, list)
    BY <1>1 DEF Mapped
  <1>3. PanelPoints(panel, list, samples) = FlatMap(h, list)
    BY <1>2 DEF PanelPoints, FlatMap
  <1>4. \A s \in U : SeriesPoints(panel, s, samples) \in Seq(AllPoints)
    BY SeriesTyped
  <1>5. h \in [U -> Seq(AllPoints)]
    BY <1>4
  <1> HIDE DEF h
  <1>6. FlatMap(h, list) \in Seq(AllPoints)
    BY <1>5, FlatMapTyped
  <1> QED
    BY <1>3, <1>5, <1>6 DEF h, PanelMade

\* So are those of a layout.
LEMMA LayoutIs ==
  ASSUME NEW W, W \subseteq PlotPanels, NEW panels \in Seq(W), NEW samples \in Seq(Samples)
  PROVE  LayoutMade(W, panels, samples)
  <1> DEFINE h == [p \in W |-> PanelPoints(p, p.series, samples)]
             n == Len(panels)
  <1>1. n \in Nat /\ DOMAIN panels = 1..n /\ \A i \in 1..n : panels[i] \in W
    BY LenProperties, ElementOfSeq
  <1>2. [p \in DOMAIN panels |-> PanelPoints(panels[p], panels[p].series, samples)] = Mapped(h, panels)
    BY <1>1 DEF Mapped
  <1>3. LayoutPoints(panels, samples) = FlatMap(h, panels)
    BY <1>2 DEF LayoutPoints, FlatMap
  <1>4. ASSUME NEW p \in W PROVE PanelPoints(p, p.series, samples) \in Seq(AllPoints)
    <2>1. p \in PlotPanels /\ p.series \in Seq(SeriesConfigs)
      BY DEF PlotPanels
    <2>2. PanelMade(SeriesConfigs, p, p.series, samples)
      BY <2>1, PanelIs
    <2> QED
      BY <2>2 DEF PanelMade
  <1> QED
    BY <1>3, <1>4 DEF LayoutMade

\* Samples as a file says of them.
PrintedOf(samples) == [k \in DOMAIN samples |-> AsPrinted(samples[k])]

\* They are samples.
LEMMA PrintedTyped ==
  ASSUME NEW samples \in Seq(Samples)
  PROVE  /\ PrintedOf(samples) = Mapped([x \in Samples |-> AsPrinted(x)], samples)
         /\ [x \in Samples |-> AsPrinted(x)] \in [Samples -> Samples]
         /\ PrintedOf(samples) \in Seq(Samples)
  <1> DEFINE h == [x \in Samples |-> AsPrinted(x)]
             n == Len(samples)
  <1>1. n \in Nat /\ DOMAIN samples = 1..n /\ \A i \in 1..n : samples[i] \in Samples
    BY LenProperties, ElementOfSeq
  <1>2. PrintedOf(samples) = Mapped(h, samples)
    BY <1>1 DEF PrintedOf, Mapped
  <1>3. ASSUME NEW v \in Values PROVE Printed(v) \in Values
    <2>1. v.steps \in Int /\ v.nan \in BOOLEAN
      BY DEF Values
    <2>2. 10 * ((v.steps + 5) \div 10) \in Int
      BY <2>1
    <2>3. NaN \in Values /\ Number(10 * ((v.steps + 5) \div 10)) \in Values
      BY <2>2 DEF NaN, Number, Values
    <2> QED
      BY <2>3 DEF Printed
  <1>4. \A x \in Samples : AsPrinted(x) \in Samples
    BY <1>3 DEF AsPrinted, Samples
  <1>5. h \in [Samples -> Samples]
    BY <1>4
  <1> HIDE DEF h
  <1>6. Mapped(h, samples) \in Seq(Samples)
    BY <1>5, MappedTyped
  <1> QED
    BY <1>2, <1>5, <1>6 DEF h

\* Samples with the numbers of the frames of their rows.
NumberedOf(samples) == [k \in DOMAIN samples |-> AsNumbered(samples[k])]

\* They are samples.
LEMMA NumberedTyped ==
  ASSUME NEW samples \in Seq(Samples)
  PROVE  /\ NumberedOf(samples) = Mapped([x \in Samples |-> AsNumbered(x)], samples)
         /\ [x \in Samples |-> AsNumbered(x)] \in [Samples -> Samples]
         /\ NumberedOf(samples) \in Seq(Samples)
  <1> DEFINE h == [x \in Samples |-> AsNumbered(x)]
             n == Len(samples)
  <1>1. n \in Nat /\ DOMAIN samples = 1..n /\ \A i \in 1..n : samples[i] \in Samples
    BY LenProperties, ElementOfSeq
  <1>2. NumberedOf(samples) = Mapped(h, samples)
    BY <1>1 DEF NumberedOf, Mapped
  <1>3. \A k : NumberOf(k) \in Nat
    BY DEF NumberOf
  <1>4. \A x \in Samples : AsNumbered(x) \in Samples
    BY <1>3 DEF AsNumbered, Samples
  <1>5. h \in [Samples -> Samples]
    BY <1>4
  <1> HIDE DEF h
  <1>6. Mapped(h, samples) \in Seq(Samples)
    BY <1>5, MappedTyped
  <1> QED
    BY <1>2, <1>5, <1>6 DEF h

\* A series has the same points live, of those samples only that any series
\* needs, and of the file, but for the digits and the numbers.
LEMMA SeriesAlike ==
  ASSUME NEW p, NEW q, p.id = q.id, NEW s \in SeriesConfigs, s.scale \in Scales,
         NEW ids, s.signal_id \in ids, NEW samples \in Seq(Samples)
  PROVE  AlikePoints(SeriesPoints(p, s, OfSignals(NumberedOf(samples), ids)),
                     SeriesPoints(q, s, PrintedOf(samples)))
  <1> DEFINE id == s.signal_id
             A == {x \in Samples : x.signal_id \in ids}
             B == {x \in Samples : x.signal_id = id}
             g == [x \in Samples |-> AsNumbered(x)]
             h == [x \in Samples |-> AsPrinted(x)]
             numbered == NumberedOf(samples)
             live == OfSignals(numbered, ids)
             printed == PrintedOf(samples)
             own == KeptIn(samples, B)
             n == Len(own)
  <1>1. /\ g \in [Samples -> Samples] /\ numbered = Mapped(g, samples) /\ numbered \in Seq(Samples)
        /\ h \in [Samples -> Samples] /\ printed = Mapped(h, samples) /\ printed \in Seq(Samples)
    BY NumberedTyped, PrintedTyped
  <1>2. \A x \in Samples : x \in B => x \in A
    OBVIOUS
  <1>3. \A x \in Samples : /\ g[x] = AsNumbered(x) /\ (x \in B <=> g[x] \in B)
                           /\ h[x] = AsPrinted(x) /\ (x \in B <=> h[x] \in B)
    BY <1>1 DEF AsNumbered, AsPrinted
  <1> HIDE DEF A, B, g, h, printed, numbered
  <1>4. live = KeptIn(numbered, A)
    BY <1>1, OfSignalsIs DEF A
  <1> HIDE DEF live
  <1>5. own \in Seq(Samples) /\ live \in Seq(Samples)
    BY <1>1, <1>4, KeptTyped
  <1>6. ASSUME NEW f, f \in {g, h}
        PROVE  KeptIn(Mapped(f, samples), B) = Mapped(f, own)
    <2>1. MappedInto(f, Samples, B, B)
      BY <1>3, <1>6 DEF MappedInto
    <2>2. f \in [Samples -> Samples]
      BY <1>1, <1>6
    <2>3. KeptMapped(f, samples, B, B)
      BY <2>1, <2>2, MappedKept, Zenon
    <2> QED
      BY <2>3 DEF KeptMapped
  <1> HIDE DEF own
  <1>7. OfSignal(live, id) = Mapped(g, own)
    <2>1. OfSignal(live, id) = KeptIn(live, B)
      BY <1>5, OfSignalIs DEF B
    <2>2. KeptIn(KeptIn(numbered, A), B) = KeptIn(numbered, B)
      BY <1>1, <1>2, KeptTwice
    <2> QED
      BY <1>1, <1>4, <1>6, <2>1, <2>2
  <1>8. OfSignal(printed, id) = Mapped(h, own)
    <2>1. OfSignal(printed, id) = KeptIn(printed, B)
      BY <1>1, OfSignalIs DEF B
    <2> QED
      BY <1>1, <1>6, <2>1
  <1>9. n \in Nat /\ DOMAIN own = 1..n /\ \A i \in 1..n : own[i] \in Samples
    BY <1>5, LenProperties, ElementOfSeq
  <1>10. SeriesPoints(p, s, live) = [i \in 1..n |-> Point(p, s, AsNumbered(own[i]))]
    <2>1. DOMAIN Mapped(g, own) = 1..n /\ \A i \in 1..n : Mapped(g, own)[i] = AsNumbered(own[i])
      BY <1>3, <1>9 DEF Mapped
    <2> QED
      BY <1>7, <2>1 DEF SeriesPoints
  <1>11. SeriesPoints(q, s, printed) = [i \in 1..n |-> Point(q, s, AsPrinted(own[i]))]
    <2>1. DOMAIN Mapped(h, own) = 1..n /\ \A i \in 1..n : Mapped(h, own)[i] = AsPrinted(own[i])
      BY <1>3, <1>9 DEF Mapped
    <2> QED
      BY <1>8, <2>1 DEF SeriesPoints
  <1>12. \A i \in 1..n : AlikePoint(Point(p, s, AsNumbered(own[i])), Point(q, s, AsPrinted(own[i])))
    BY <1>9, NearPoints
  <1>13. /\ Len([i \in 1..n |-> Point(p, s, AsNumbered(own[i]))]) = n
         /\ Len([i \in 1..n |-> Point(q, s, AsPrinted(own[i]))]) = n
    BY <1>9
  <1>14. AlikePoints([i \in 1..n |-> Point(p, s, AsNumbered(own[i]))],
                     [i \in 1..n |-> Point(q, s, AsPrinted(own[i]))])
    BY <1>12, <1>13 DEF AlikePoints
  <1> QED
    BY <1>10, <1>11, <1>14 DEF live, numbered, printed

\* The panel of the chosen series.
ChosenPanel(panel, selected) == [panel EXCEPT !.series = ChosenSeries(@, selected)]

\* Series whose values may differ by the digits that a file leaves out, and
\* whose signals are among these if they are chosen.
FittingSeries(selected, ids) ==
  {s \in SeriesConfigs : s.scale \in Scales /\ (s.id \in selected => s.signal_id \in ids)}

\* The points of the chosen series of a panel.
PointsChosen(selected) == {x \in AllPoints : x.series_id \in selected}

\* A panel has the same points of the chosen series live and of the file.
LEMMA PanelAlike ==
  ASSUME NEW selected, NEW ids, NEW panel \in PlotPanels,
         panel.series \in Seq(FittingSeries(selected, ids)), NEW samples \in Seq(Samples)
  PROVE  LET chosen == ChosenPanel(panel, selected)
             live == PanelPoints(chosen, chosen.series, OfSignals(NumberedOf(samples), ids))
             made == PanelPoints(panel, panel.series, PrintedOf(samples))
         IN  /\ chosen \in PlotPanels
             /\ chosen.series \in Seq(FittingSeries(selected, ids))
             /\ AlikePoints(live, KeptIn(made, PointsChosen(selected)))
  <1> DEFINE U == FittingSeries(selected, ids)
             chosen == ChosenPanel(panel, selected)
             list == panel.series
             A == {s \in U : s.id \in selected}
             P == PointsChosen(selected)
             L == OfSignals(NumberedOf(samples), ids)
             D == PrintedOf(samples)
             h == [s \in U |-> SeriesPoints(chosen, s, L)]
             g == [s \in U |-> IF s \in A THEN h[s] ELSE <<>>]
             k == [s \in U |-> SeriesPoints(panel, s, D)]
             e == [s \in U |-> KeptIn(k[s], P)]
             V == AllPoints
  <1>1. L \in Seq(Samples) /\ D \in Seq(Samples)
    <2> DEFINE B == {x \in Samples : x.signal_id \in ids}
               numbered == NumberedOf(samples)
    <2>1. numbered \in Seq(Samples)
      BY NumberedTyped
    <2>2. L = KeptIn(numbered, B)
      BY <2>1, OfSignalsIs
    <2> HIDE DEF B, L, numbered
    <2>3. L \in Seq(Samples)
      BY <2>1, <2>2, KeptTyped
    <2> QED
      BY <2>3, PrintedTyped
  <1>2. U \subseteq SeriesConfigs /\ list \in Seq(U)
    BY DEF FittingSeries
  <1>3. chosen.series = KeptIn(list, A) /\ chosen.id = panel.id /\ chosen \in PlotPanels
        /\ chosen.series \in Seq(U)
    <2>1. ChosenSeries(list, selected) = KeptIn(list, A)
      <3> HIDE DEF U, list
      <3> QED
        BY <1>2, ChosenSeriesIs
    <2>2. KeptIn(list, A) \in Seq(U)
      <3> HIDE DEF U, list, A
      <3> QED
        BY <1>2, KeptTyped
    <2> HIDE DEF A, U
    <2>3. KeptIn(list, A) \in Seq(SeriesConfigs)
      BY <1>2, <2>2
    <2>4. chosen = [id |-> panel.id, series |-> KeptIn(list, A)]
      BY <2>1 DEF ChosenPanel, PlotPanels
    <2> HIDE DEF chosen, list
    <2> QED
      BY <2>2, <2>3, <2>4 DEF PlotPanels
  <1> HIDE DEF chosen, L, D
  <1>4. h \in [U -> Seq(V)] /\ PanelPoints(chosen, chosen.series, L) = FlatMap(h, chosen.series)
    <2> DEFINE own == chosen.series
    <2>1. own \in Seq(U)
      BY <1>3
    <2> HIDE DEF U, own, list, A, g, k, e, P
    <2>2. PanelMade(U, chosen, own, L)
      BY <1>1, <1>2, <1>3, <2>1, PanelIs
    <2> QED
      BY <2>2 DEF own, PanelMade
  <1>5. k \in [U -> Seq(V)] /\ PanelPoints(panel, list, D) = FlatMap(k, list)
    <2> HIDE DEF U, list
    <2>1. PanelMade(U, panel, list, D)
      BY <1>1, <1>2, PanelIs
    <2> QED
      BY <2>1 DEF PanelMade
  <1>6. ASSUME NEW s \in U
        PROVE  /\ KeptIn(k[s], P) \in Seq(V)
               /\ s \in A => KeptIn(k[s], P) = k[s] /\ AlikePoints(h[s], k[s])
               /\ s \notin A => KeptIn(k[s], P) = <<>>
    <2> DEFINE T == {Point(panel, s, x) : x \in Samples}
               t == k[s]
    <2>1. s \in SeriesConfigs
      BY <1>2
    <2>2. t = SeriesPoints(panel, s, D) /\ h[s] = SeriesPoints(chosen, s, L)
      OBVIOUS
    <2>3. t \in Seq(T) /\ t \in Seq(V)
      BY <1>1, <2>1, <2>2, SeriesTyped
    <2>4. \A y \in T : y.series_id = s.id /\ y \in V
      BY <2>1 DEF Point, AllPoints
    <2>5. KeptIn(t, P) \in Seq(V)
      <3> HIDE DEF t, P, V
      <3> QED
        BY <2>3, KeptTyped
    <2>6. s \in A => T \subseteq P
      BY <2>4 DEF PointsChosen
    <2>7. s \notin A => T \cap P = {}
      BY <2>4 DEF PointsChosen
    <2>8. (T \subseteq P => KeptIn(t, P) = t) /\ (T \cap P = {} => KeptIn(t, P) = <<>>)
      <3> HIDE DEF T, P, t
      <3> QED
        BY <2>3, KeptAllOrNone
    <2>9. s \in A => AlikePoints(h[s], t)
      <3> SUFFICES ASSUME s \in A PROVE AlikePoints(h[s], t)
        OBVIOUS
      <3>1. s.scale \in Scales /\ s.signal_id \in ids
        BY DEF FittingSeries
      <3>2. AlikePoints(SeriesPoints(chosen, s, L), SeriesPoints(panel, s, D))
        BY <1>3, <2>1, <3>1, SeriesAlike DEF L, D
      <3> QED
        BY <2>2, <3>2
    <2> HIDE DEF T, P
    <2> QED
      BY <2>5, <2>6, <2>7, <2>8, <2>9
  <1> HIDE DEF U, list, P, V, h, k, A
  <1>7. g \in [U -> Seq(V)] /\ e \in [U -> Seq(V)]
    <2>1. <<>> \in Seq(V)
      BY EmptySeq
    <2> QED
      BY <1>4, <1>6, <2>1
  <1>8. OnlyOf(g, h, U, A) /\ KeptOfEach(e, k, U, P)
    BY DEF OnlyOf, KeptOfEach
  <1>9. AlikeEach(g, e, U)
    <2>1. AlikePoints(<<>>, <<>>)
      BY DEF AlikePoints
    <2>2. ASSUME NEW s \in U PROVE AlikePoints(g[s], e[s])
      <3>1. CASE s \in A
        BY <1>6, <3>1
      <3>2. CASE s \notin A
        BY <1>6, <2>1, <3>2
      <3> QED
        BY <3>1, <3>2
    <2> QED
      BY <2>2 DEF AlikeEach
  <1> HIDE DEF g, e
  <1>10. FlatMap(h, KeptIn(list, A)) = FlatMap(g, list)
    <2>1. FlatKept(h, g, list, A)
      BY <1>2, <1>4, <1>7, <1>8, FlatMapKept, Zenon
    <2> QED
      BY <2>1 DEF FlatKept
  <1>11. KeptIn(FlatMap(k, list), P) = FlatMap(e, list)
    <2>1. KeptFlat(k, e, list, P)
      BY <1>2, <1>5, <1>7, <1>8, KeptFlatMap, Zenon
    <2> QED
      BY <2>1 DEF KeptFlat
  <1>12. AlikePoints(FlatMap(g, list), FlatMap(e, list))
    BY <1>2, <1>7, <1>9, AlikeFlatMap
  <1>13. AlikePoints(PanelPoints(chosen, chosen.series, L), KeptIn(PanelPoints(panel, list, D), P))
    BY <1>3, <1>4, <1>5, <1>10, <1>11, <1>12
  <1> QED
    BY <1>3, <1>13 DEF chosen, U, list, L, D, P

\* Panels of such series.
FittingPanels(selected, ids) == {p \in PlotPanels : p.series \in Seq(FittingSeries(selected, ids))}

\* The panels of the chosen series.
ChosenPanels(panels, selected) ==
  NotEmpty([p \in DOMAIN panels |-> ChosenPanel(panels[p], selected)])

\* These are the panels that select_plot_layout chooses.
LEMMA ChosenAre ==
  ASSUME NEW selected, NEW chosen \in PlotLayouts
  PROVE  SelectPlotLayout(chosen, selected).panels = ChosenPanels(chosen.panels, selected)
  <1> DEFINE list == [p \in DOMAIN chosen.panels |->
                        [chosen.panels[p] EXCEPT !.series =
                           KeptOf(@, LAMBDA series : series.id \in selected)]]
  <1>1. list = [p \in DOMAIN chosen.panels |-> ChosenPanel(chosen.panels[p], selected)]
    BY DEF ChosenPanel, ChosenSeries
  <1>2. SelectPlotLayout(chosen, selected) = [chosen EXCEPT !.panels = NotEmpty(list)]
    BY DEF SelectPlotLayout, NotEmpty
  <1> HIDE DEF list
  <1>3. SelectPlotLayout(chosen, selected).panels = NotEmpty(list)
    BY <1>2 DEF PlotLayouts
  <1> QED
    BY <1>1, <1>3 DEF ChosenPanels

\* They are kept of the panels, each with its chosen series.
LEMMA ChosenKept ==
  ASSUME NEW W, NEW e \in [W -> PlotPanels], NEW selected,
         \A p \in W : e[p] = ChosenPanel(p, selected), NEW panels \in Seq(W)
  PROVE  ChosenPanels(panels, selected) =
           KeptIn(Mapped(e, panels), {p \in PlotPanels : p.series # <<>>})
  <1> DEFINE list == Mapped(e, panels)
  <1>1. \A i \in DOMAIN panels : panels[i] \in W
    BY LenProperties, ElementOfSeq
  <1>2. list = [p \in DOMAIN panels |-> ChosenPanel(panels[p], selected)]
    BY <1>1 DEF Mapped
  <1>3. list \in Seq(PlotPanels)
    BY MappedTyped
  <1> HIDE DEF list
  <1>4. NotEmpty(list) = KeptIn(list, {p \in PlotPanels : p.series # <<>>})
    BY <1>3, NotEmptyIs
  <1> QED
    BY <1>2, <1>4 DEF ChosenPanels, list

\* A layout has the same points of the chosen series live and of the file.
LEMMA LayoutAlike ==
  ASSUME NEW selected, NEW ids, NEW panels \in Seq(FittingPanels(selected, ids)),
         NEW samples \in Seq(Samples)
  PROVE  AlikePoints(LayoutPoints(ChosenPanels(panels, selected), OfSignals(NumberedOf(samples), ids)),
                     KeptIn(LayoutPoints(panels, PrintedOf(samples)), PointsChosen(selected)))
  <1> DEFINE W == FittingPanels(selected, ids)
             Q == PlotPanels
             V == AllPoints
             L == OfSignals(NumberedOf(samples), ids)
             D == PrintedOf(samples)
             P == PointsChosen(selected)
             N == {p \in Q : p.series # <<>>}
             c == [p \in W |-> ChosenPanel(p, selected)]
             h == [p \in Q |-> PanelPoints(p, p.series, L)]
             k == [p \in W |-> PanelPoints(p, p.series, D)]
             g == [p \in W |-> h[c[p]]]
             e == [p \in W |-> KeptIn(k[p], P)]
  <1>1. L \in Seq(Samples) /\ D \in Seq(Samples)
    <2> DEFINE B == {x \in Samples : x.signal_id \in ids}
               numbered == NumberedOf(samples)
    <2>1. numbered \in Seq(Samples)
      BY NumberedTyped
    <2>2. L = KeptIn(numbered, B)
      BY <2>1, OfSignalsIs
    <2> HIDE DEF B, L, numbered
    <2>3. L \in Seq(Samples)
      BY <2>1, <2>2, KeptTyped
    <2> QED
      BY <2>3, PrintedTyped
  <1>2. W \subseteq Q /\ panels \in Seq(W)
    BY DEF FittingPanels
  <1>3. ASSUME NEW p \in W
        PROVE  /\ c[p] \in Q
               /\ AlikePoints(PanelPoints(c[p], c[p].series, L), KeptIn(PanelPoints(p, p.series, D), P))
    <2>1. p \in PlotPanels /\ p.series \in Seq(FittingSeries(selected, ids))
      BY DEF FittingPanels
    <2>2. c[p] = ChosenPanel(p, selected)
      OBVIOUS
    <2> QED
      BY <2>1, <2>2, PanelAlike
  <1>4. ASSUME NEW list \in Seq(Q)
        PROVE  h \in [Q -> Seq(V)] /\ LayoutPoints(list, L) = FlatMap(h, list)
    <2>1. LayoutMade(Q, list, L)
      <3> HIDE DEF L
      <3>1. Q \subseteq PlotPanels /\ list \in Seq(Q)
        OBVIOUS
      <3> HIDE DEF Q
      <3> QED
        BY <1>1, <3>1, LayoutIs
    <2> QED
      BY <2>1 DEF LayoutMade
  <1>5. k \in [W -> Seq(V)] /\ LayoutPoints(panels, D) = FlatMap(k, panels)
    <2>1. LayoutMade(W, panels, D)
      <3> HIDE DEF W, D
      <3> QED
        BY <1>1, <1>2, LayoutIs
    <2> QED
      BY <2>1 DEF LayoutMade
  <1>6. c \in [W -> Q]
    BY <1>3
  <1>7. OnlyOf(h, h, Q, N)
    <2>1. ASSUME NEW p \in Q, p \notin N PROVE h[p] = <<>>
      <3>1. p.series = <<>>
        BY <2>1
      <3>2. PanelPoints(p, <<>>, L) = <<>>
        <4> DEFINE none == <<>>
        <4>1. none \in Seq(SeriesConfigs) /\ SeriesConfigs \subseteq SeriesConfigs
          BY EmptySeq
        <4> HIDE DEF none, L
        <4>2. PanelMade(SeriesConfigs, p, none, L)
          BY <1>1, <4>1, PanelIs
        <4> QED
          BY <4>2, FlatMapNone DEF PanelMade, none
      <3> QED
        BY <3>1, <3>2
    <2> HIDE DEF h, N
    <2> QED
      BY <2>1 DEF OnlyOf
  <1>8. h \in [Q -> Seq(V)]
    <2>1. <<>> \in Seq(Q)
      BY EmptySeq
    <2> QED
      BY <1>4, <2>1
  <1>9. ASSUME NEW p \in W
        PROVE  h[c[p]] \in Seq(V) /\ KeptIn(k[p], P) \in Seq(V) /\ AlikePoints(h[c[p]], KeptIn(k[p], P))
    <2>1. c[p] \in Q /\ h[c[p]] \in Seq(V)
      BY <1>3, <1>8
    <2>2. h[c[p]] = PanelPoints(c[p], c[p].series, L) /\ k[p] = PanelPoints(p, p.series, D)
      BY <2>1
    <2>3. KeptIn(k[p], P) \in Seq(V)
      <3> DEFINE t == k[p]
      <3>1. t \in Seq(V)
        BY <1>5
      <3> HIDE DEF t, P, V
      <3>2. KeptIn(t, P) \in Seq(V)
        BY <3>1, KeptTyped
      <3> QED
        BY <3>2 DEF t
    <2> QED
      BY <1>3, <2>1, <2>2, <2>3
  <1> HIDE DEF h, k, c
  <1>10. g \in [W -> Seq(V)] /\ e \in [W -> Seq(V)]
    BY <1>9
  <1>11. Composed(g, h, c, W) /\ KeptOfEach(e, k, W, P) /\ AlikeEach(g, e, W)
    BY <1>9 DEF Composed, KeptOfEach, AlikeEach
  <1> DEFINE mapped == Mapped(c, panels)
             live == ChosenPanels(panels, selected)
  <1> HIDE DEF g, e, W, V, P, L, D
  <1>12. mapped \in Seq(Q) /\ live = KeptIn(mapped, N)
    <2>1. \A p \in W : c[p] = ChosenPanel(p, selected)
      BY DEF c
    <2>2. c \in [W -> PlotPanels]
      BY <1>6
    <2>3. live = KeptIn(mapped, N)
      BY <1>2, <2>1, <2>2, ChosenKept
    <2> HIDE DEF Q
    <2> QED
      BY <1>2, <1>6, <2>3, MappedTyped
  <1> HIDE DEF N, live, mapped
  <1>13. live \in Seq(Q)
    <2> HIDE DEF Q
    <2> QED
      BY <1>12, KeptTyped
  <1>14. LayoutPoints(live, L) = FlatMap(h, live)
    BY <1>4, <1>13
  <1>15. FlatMap(h, live) = FlatMap(h, mapped)
    <2> HIDE DEF Q
    <2>1. FlatKept(h, h, mapped, N)
      BY <1>7, <1>8, <1>12, FlatMapKept, Zenon
    <2> QED
      BY <1>12, <2>1 DEF FlatKept
  <1>16. FlatMap(h, mapped) = FlatMap(g, panels)
    <2> HIDE DEF Q
    <2>1. FlatMapped(h, c, g, panels)
      BY <1>2, <1>6, <1>8, <1>10, <1>11, FlatMapMapped, Zenon
    <2> QED
      BY <2>1 DEF FlatMapped, mapped
  <1>17. KeptIn(FlatMap(k, panels), P) = FlatMap(e, panels)
    <2>1. KeptFlat(k, e, panels, P)
      BY <1>2, <1>5, <1>10, <1>11, KeptFlatMap, Zenon
    <2> QED
      BY <2>1 DEF KeptFlat
  <1>18. AlikePoints(FlatMap(g, panels), FlatMap(e, panels))
    BY <1>2, <1>10, <1>11, AlikeFlatMap
  <1>19. AlikePoints(LayoutPoints(live, L), KeptIn(LayoutPoints(panels, D), P))
    BY <1>5, <1>14, <1>15, <1>16, <1>17, <1>18
  <1> QED
    BY <1>19 DEF live, L, D, P

\* The signals of the panels of the chosen series.
SignalIds(panels) == UNION {{s.signal_id : s \in ToSet(p.series)} : p \in ToSet(panels)}

\* The elements of a sequence.
LEMMA ElementsAre ==
  ASSUME NEW T, NEW s \in Seq(T)
  PROVE  /\ DOMAIN s = 1..Len(s) /\ Len(s) \in Nat
         /\ \A i \in 1..Len(s) : s[i] \in T /\ s[i] \in ToSet(s)
  BY LenProperties, ElementOfSeq DEF ToSet

\* A series that is chosen is in a panel of the chosen series.
LEMMA SeriesShown ==
  ASSUME NEW selected, NEW panels \in Seq(PlotPanels), NEW i \in 1..Len(panels),
         NEW j \in 1..Len(panels[i].series), panels[i].series[j].id \in selected
  PROVE  panels[i].series[j].signal_id \in SignalIds(ChosenPanels(panels, selected))
  <1> DEFINE Q == PlotPanels
             A == {s \in SeriesConfigs : s.id \in selected}
             N == {p \in Q : p.series # <<>>}
             e == [p \in Q |-> ChosenPanel(p, selected)]
             p == panels[i]
             list == p.series
             s == list[j]
             c == ChosenPanel(p, selected)
             own == KeptIn(list, A)
             mapped == Mapped(e, panels)
             live == ChosenPanels(panels, selected)
  <1>1. /\ DOMAIN panels = 1..Len(panels) /\ p \in PlotPanels
        /\ list \in Seq(SeriesConfigs) /\ s \in SeriesConfigs
    <2>1. DOMAIN panels = 1..Len(panels) /\ p \in PlotPanels
      BY ElementsAre
    <2>2. list \in Seq(SeriesConfigs)
      BY <2>1 DEF PlotPanels
    <2> HIDE DEF list
    <2>3. s \in SeriesConfigs
      BY <2>2, ElementsAre DEF list
    <2> QED
      BY <2>1, <2>2, <2>3
  <1>2. ASSUME NEW q \in PlotPanels
        PROVE  /\ ChosenPanel(q, selected).series = KeptIn(q.series, A)
               /\ ChosenPanel(q, selected) \in PlotPanels
    <2> DEFINE all == q.series
    <2>1. all \in Seq(SeriesConfigs) /\ q = [id |-> q.id, series |-> all] /\ q.id \in Text
      BY DEF PlotPanels
    <2>2. ChosenPanel(q, selected) = [id |-> q.id, series |-> ChosenSeries(all, selected)]
      BY <2>1 DEF ChosenPanel
    <2> HIDE DEF all
    <2>3. ChosenSeries(all, selected) = KeptIn(all, A)
      BY <2>1, ChosenSeriesIs
    <2> HIDE DEF A
    <2>4. KeptIn(all, A) \in Seq(SeriesConfigs)
      BY <2>1, KeptTyped
    <2> QED
      BY <2>1, <2>2, <2>3, <2>4 DEF PlotPanels, all
  <1>3. c.series = own /\ c \in Q
    BY <1>1, <1>2
  <1>4. PICK m \in 1..Len(own) : own[m] = s
    <2>1. s \in A
      BY <1>1
    <2>2. \E k \in 1..Len(list) : list[k] = s
      OBVIOUS
    <2> HIDE DEF s, list, A
    <2> QED
      BY <1>1, <2>1, <2>2, KeptHolds
  <1>5. own \in Seq(SeriesConfigs)
    <2> HIDE DEF list, A
    <2> QED
      BY <1>1, KeptTyped
  <1> HIDE DEF own, c, s
  <1>6. s \in ToSet(c.series) /\ c \in N
    <2>1. own # <<>>
      BY <1>4, EmptySeq
    <2>2. s \in ToSet(own)
      BY <1>4, <1>5, ElementsAre
    <2> QED
      BY <1>3, <2>1, <2>2
  <1>7. live = KeptIn(mapped, N) /\ mapped \in Seq(Q)
    <2>1. e \in [Q -> PlotPanels] /\ \A q \in Q : e[q] = ChosenPanel(q, selected)
      BY <1>2
    <2> HIDE DEF e, Q
    <2>2. panels \in Seq(Q)
      BY DEF Q
    <2>3. live = KeptIn(mapped, {q \in PlotPanels : q.series # <<>>})
      BY <2>1, <2>2, ChosenKept
    <2>4. mapped \in Seq(PlotPanels)
      BY <2>1, <2>2, MappedTyped
    <2> QED
      BY <2>3, <2>4 DEF Q
  <1>8. DOMAIN mapped = 1..Len(panels) /\ mapped[i] = c
    BY <1>1 DEF Mapped, c
  <1>9. \E k \in 1..Len(mapped) : mapped[k] = c
    <2>1. DOMAIN mapped = 1..Len(mapped)
      <3> HIDE DEF mapped, Q
      <3> QED
        BY <1>7, ElementsAre
    <2> QED
      BY <1>8, <2>1
  <1> HIDE DEF mapped, N, live, Q
  <1>10. PICK l \in 1..Len(live) : live[l] = c
    BY <1>6, <1>7, <1>9, KeptHolds
  <1>11. live \in Seq(Q)
    BY <1>7, KeptTyped
  <1>12. c \in ToSet(live)
    BY <1>10, <1>11, ElementsAre
  <1>13. s.signal_id \in SignalIds(live)
    BY <1>6, <1>12 DEF SignalIds
  <1> QED
    BY <1>13 DEF s, live

\* The panels of a layout are such panels.
LEMMA LayoutFits ==
  ASSUME NEW selected, layout \in PlotLayouts
  PROVE  layout.panels \in
           Seq(FittingPanels(selected, SignalIds(ChosenPanels(layout.panels, selected))))
  <1> DEFINE panels == layout.panels
             ids == SignalIds(ChosenPanels(panels, selected))
             U == FittingSeries(selected, ids)
             n == Len(panels)
  <1>1. panels \in Seq(PlotPanels)
    BY DEF PlotLayouts
  <1> HIDE DEF panels, ids
  <1>2. n \in Nat /\ panels \in [1..n -> PlotPanels]
    BY <1>1, LenProperties
  <1>3. ASSUME NEW i \in 1..n PROVE panels[i].series \in Seq(U)
    <2> DEFINE p == panels[i]
               list == p.series
               m == Len(list)
    <2>1. p \in PlotPanels /\ p \in ToSet(panels)
      BY <1>1, ElementsAre
    <2>2. list \in Seq(SeriesConfigs)
      BY <2>1 DEF PlotPanels
    <2>3. m \in Nat /\ list \in [1..m -> SeriesConfigs]
      BY <2>2, LenProperties
    <2>4. ASSUME NEW j \in 1..m PROVE list[j] \in U
      <3>1. list[j] \in SeriesConfigs
        BY <2>3
      <3>2. list[j] \in ToSet(list)
        <4> HIDE DEF list
        <4> QED
          BY <2>2, ElementsAre
      <3>3. list[j].scale \in Scales
        BY <2>1, <3>2 DEF Scales, panels
      <3>4. list[j].id \in selected => list[j].signal_id \in ids
        BY <1>1, SeriesShown DEF ids
      <3> QED
        BY <3>1, <3>3, <3>4 DEF FittingSeries
    <2>5. list \in [1..m -> U]
      BY <2>3, <2>4
    <2> HIDE DEF list, m, U
    <2>6. list \in Seq(U)
      BY <2>3, <2>5, FunctionIsSeq
    <2> QED
      BY <2>6 DEF list
  <1>4. \A i \in 1..n : panels[i] \in FittingPanels(selected, ids)
    BY <1>2, <1>3 DEF FittingPanels
  <1>5. panels \in [1..n -> FittingPanels(selected, ids)]
    BY <1>2, <1>4
  <1>6. panels \in Seq(FittingPanels(selected, ids))
    <2> HIDE DEF n
    <2> QED
      BY <1>2, <1>5, FunctionIsSeq
  <1> QED
    BY <1>6 DEF panels, ids

\* The live points of a choice of series and those made of the file of signals.
LEMMA PlotsAlike ==
  ASSUME NEW selected, layout \in PlotLayouts, NEW samples \in Seq(Samples)
  PROVE  LET chosen == SelectPlotLayout(layout, selected)
             live == BuildPlotPoints(chosen, OfSignals(NumberedOf(samples), SignalIds(chosen.panels)))
             made == BuildPlotPoints(layout, PrintedOf(samples))
         IN  AlikePoints(live, OfSeries(made, selected))
  <1> DEFINE chosen == SelectPlotLayout(layout, selected)
             panels == layout.panels
             ids == SignalIds(chosen.panels)
             D == PrintedOf(samples)
             made == LayoutPoints(panels, D)
  <1>1. chosen.panels = ChosenPanels(panels, selected)
    BY ChosenAre
  <1>2. panels \in Seq(FittingPanels(selected, ids))
    BY <1>1, LayoutFits
  <1>3. panels \in Seq(PlotPanels) /\ D \in Seq(Samples)
    BY PrintedTyped DEF PlotLayouts
  <1> HIDE DEF chosen, panels, ids, D
  <1>4. AlikePoints(LayoutPoints(ChosenPanels(panels, selected), OfSignals(NumberedOf(samples), ids)),
                    KeptIn(LayoutPoints(panels, PrintedOf(samples)), PointsChosen(selected)))
    BY <1>2, LayoutAlike
  <1>5. made \in Seq(AllPoints)
    <2> DEFINE h == [p \in PlotPanels |-> PanelPoints(p, p.series, D)]
    <2>1. LayoutMade(PlotPanels, panels, D)
      BY <1>3, LayoutIs
    <2>2. made = FlatMap(h, panels) /\ h \in [PlotPanels -> Seq(AllPoints)]
      BY <2>1 DEF LayoutMade
    <2> HIDE DEF h, made
    <2>3. FlatMap(h, panels) \in Seq(AllPoints)
      BY <1>3, <2>2, FlatMapTyped
    <2> QED
      BY <2>2, <2>3
  <1>6. OfSeries(made, selected) = KeptIn(made, PointsChosen(selected))
    <2> HIDE DEF made
    <2> QED
      BY <1>5, OfSeriesIs DEF PointsChosen
  <1>7. /\ BuildPlotPoints(chosen, OfSignals(NumberedOf(samples), ids)) =
             LayoutPoints(chosen.panels, OfSignals(NumberedOf(samples), ids))
        /\ BuildPlotPoints(layout, D) = made
    BY PointsAre DEF panels
  <1>8. AlikePoints(BuildPlotPoints(chosen, OfSignals(NumberedOf(samples), ids)),
                    OfSeries(BuildPlotPoints(layout, D), selected))
    BY <1>1, <1>4, <1>6, <1>7 DEF D
  <1> QED
    BY <1>8 DEF chosen, ids, D

-----------------------------------------------------------------------------
(* The points of some frames *)

PointsNumbered(A)  == {x \in AllPoints : x.source_sequence \in A}
SamplesNumbered(A) == {x \in Samples : x.source_sequence \in A}

\* The points of some frames are those of their samples, of a series.
LEMMA SeriesOfSome ==
  ASSUME NEW A, NEW panel \in PlotPanels, NEW s \in SeriesConfigs, NEW samples \in Seq(Samples)
  PROVE  KeptIn(SeriesPoints(panel, s, samples), PointsNumbered(A)) =
           SeriesPoints(panel, s, KeptIn(samples, SamplesNumbered(A)))
  <1> DEFINE B == {x \in Samples : x.signal_id = s.signal_id}
             D == SamplesNumbered(A)
             P == PointsNumbered(A)
             h == [x \in Samples |-> Point(panel, s, x)]
             own == KeptIn(samples, B)
             some == KeptIn(samples, D)
  <1>1. own \in Seq(Samples) /\ some \in Seq(Samples) /\ KeptIn(own, D) \in Seq(Samples)
    <2> HIDE DEF B, D
    <2> QED
      BY KeptTyped
  <1>2. OfSignal(samples, s.signal_id) = own /\ OfSignal(some, s.signal_id) = KeptIn(own, D)
    <2>1. OfSignal(samples, s.signal_id) = own
      BY OfSignalIs
    <2> HIDE DEF some
    <2>2. OfSignal(some, s.signal_id) = KeptIn(some, B)
      BY <1>1, OfSignalIs
    <2>3. KeptIn(some, B) = KeptIn(own, D)
      <3> HIDE DEF B, D
      <3> QED
        BY KeptCommutes DEF some
    <2> QED
      BY <2>1, <2>2, <2>3
  <1>3. ASSUME NEW t \in Seq(Samples)
        PROVE  [i \in DOMAIN t |-> Point(panel, s, t[i])] = Mapped(h, t)
    <2>1. \A i \in DOMAIN t : t[i] \in Samples
      BY LenProperties, ElementOfSeq
    <2> QED
      BY <2>1 DEF Mapped
  <1>4. h \in [Samples -> AllPoints]
    BY DEF AllPoints
  <1>5. MappedInto(h, Samples, P, D)
    <2>1. \A x \in Samples : h[x] \in AllPoints /\ h[x].source_sequence = x.source_sequence
      BY <1>4 DEF Point
    <2> HIDE DEF h
    <2> QED
      BY <2>1 DEF MappedInto, PointsNumbered, SamplesNumbered
  <1> HIDE DEF own, h, D, P
  <1>6. KeptIn(Mapped(h, own), P) = Mapped(h, KeptIn(own, D))
    <2>1. KeptMapped(h, own, P, D)
      BY <1>1, <1>4, <1>5, MappedKept, Zenon
    <2> QED
      BY <2>1 DEF KeptMapped
  <1>7. SeriesPoints(panel, s, samples) = Mapped(h, own)
    BY <1>1, <1>2, <1>3 DEF SeriesPoints
  <1>8. SeriesPoints(panel, s, some) = Mapped(h, KeptIn(own, D))
    BY <1>1, <1>2, <1>3 DEF SeriesPoints
  <1> QED
    BY <1>6, <1>7, <1>8 DEF D, P

\* The same of a panel.
LEMMA PanelOfSome ==
  ASSUME NEW A, NEW panel \in PlotPanels, NEW list \in Seq(SeriesConfigs),
         NEW samples \in Seq(Samples)
  PROVE  KeptIn(PanelPoints(panel, list, samples), PointsNumbered(A)) =
           PanelPoints(panel, list, KeptIn(samples, SamplesNumbered(A)))
  <1> DEFINE U == SeriesConfigs
             P == PointsNumbered(A)
             some == KeptIn(samples, SamplesNumbered(A))
             h == [s \in U |-> SeriesPoints(panel, s, samples)]
             g == [s \in U |-> SeriesPoints(panel, s, some)]
  <1>1. some \in Seq(Samples)
    BY KeptTyped
  <1> HIDE DEF some
  <1>2. PanelMade(U, panel, list, samples) /\ PanelMade(U, panel, list, some)
    BY <1>1, PanelIs
  <1>3. /\ PanelPoints(panel, list, samples) = FlatMap(h, list) /\ h \in [U -> Seq(AllPoints)]
        /\ PanelPoints(panel, list, some) = FlatMap(g, list) /\ g \in [U -> Seq(AllPoints)]
    BY <1>2 DEF PanelMade
  <1>4. KeptOfEach(g, h, U, P)
    <2>1. \A s \in U : SeriesPoints(panel, s, some) = KeptIn(SeriesPoints(panel, s, samples), P)
      BY SeriesOfSome DEF some
    <2> HIDE DEF P, U
    <2> QED
      BY <2>1 DEF KeptOfEach
  <1> HIDE DEF g, h, P, U
  <1>5. KeptFlat(h, g, list, P)
    <2>1. list \in Seq(U)
      BY DEF U
    <2> QED
      BY <1>3, <1>4, <2>1, KeptFlatMap, Zenon
  <1> QED
    BY <1>3, <1>5 DEF KeptFlat, P, some

\* And of a layout.
LEMMA LayoutOfSome ==
  ASSUME NEW A, NEW panels \in Seq(PlotPanels), NEW samples \in Seq(Samples)
  PROVE  /\ KeptIn(LayoutPoints(panels, samples), PointsNumbered(A)) =
              LayoutPoints(panels, KeptIn(samples, SamplesNumbered(A)))
         /\ LayoutPoints(panels, samples) \in Seq(AllPoints)
  <1> DEFINE W == PlotPanels
             P == PointsNumbered(A)
             some == KeptIn(samples, SamplesNumbered(A))
             h == [p \in W |-> PanelPoints(p, p.series, samples)]
             g == [p \in W |-> PanelPoints(p, p.series, some)]
  <1>1. some \in Seq(Samples)
    BY KeptTyped
  <1> HIDE DEF some
  <1>2. LayoutMade(W, panels, samples) /\ LayoutMade(W, panels, some)
    BY <1>1, LayoutIs
  <1>3. /\ LayoutPoints(panels, samples) = FlatMap(h, panels) /\ h \in [W -> Seq(AllPoints)]
        /\ LayoutPoints(panels, some) = FlatMap(g, panels) /\ g \in [W -> Seq(AllPoints)]
    BY <1>2 DEF LayoutMade
  <1>4. KeptOfEach(g, h, W, P)
    <2>1. ASSUME NEW p \in W
          PROVE  PanelPoints(p, p.series, some) = KeptIn(PanelPoints(p, p.series, samples), P)
      <3>1. p \in PlotPanels /\ p.series \in Seq(SeriesConfigs)
        BY DEF PlotPanels
      <3> QED
        BY <3>1, PanelOfSome DEF some
    <2> HIDE DEF P, W
    <2> QED
      BY <2>1 DEF KeptOfEach
  <1> HIDE DEF g, h, P, W
  <1>5. KeptFlat(h, g, panels, P) /\ FlatMap(h, panels) \in Seq(AllPoints)
    <2>1. panels \in Seq(W)
      BY DEF W
    <2> QED
      BY <1>3, <1>4, <2>1, KeptFlatMap, FlatMapTyped, Zenon
  <1> QED
    BY <1>3, <1>5 DEF KeptFlat, P, some

\* The panels of the chosen series are panels.
LEMMA ChosenTyped ==
  ASSUME NEW selected, NEW panels \in Seq(PlotPanels)
  PROVE  ChosenPanels(panels, selected) \in Seq(PlotPanels)
  <1> DEFINE Q == PlotPanels
             A == {s \in SeriesConfigs : s.id \in selected}
             N == {p \in Q : p.series # <<>>}
             e == [p \in Q |-> ChosenPanel(p, selected)]
             mapped == Mapped(e, panels)
             live == ChosenPanels(panels, selected)
  <1>1. ASSUME NEW q \in PlotPanels PROVE ChosenPanel(q, selected) \in PlotPanels
    <2> DEFINE all == q.series
    <2>1. all \in Seq(SeriesConfigs) /\ q = [id |-> q.id, series |-> all] /\ q.id \in Text
      BY DEF PlotPanels
    <2>2. ChosenPanel(q, selected) = [id |-> q.id, series |-> ChosenSeries(all, selected)]
      BY <2>1 DEF ChosenPanel
    <2> HIDE DEF all
    <2>3. ChosenSeries(all, selected) = KeptIn(all, A)
      BY <2>1, ChosenSeriesIs
    <2> HIDE DEF A
    <2>4. KeptIn(all, A) \in Seq(SeriesConfigs)
      BY <2>1, KeptTyped
    <2> QED
      BY <2>2, <2>1, <2>3, <2>4 DEF PlotPanels
  <1>2. e \in [Q -> PlotPanels] /\ \A q \in Q : e[q] = ChosenPanel(q, selected)
    BY <1>1
  <1> HIDE DEF e, Q
  <1>3. panels \in Seq(Q)
    BY DEF Q
  <1>4. live = KeptIn(mapped, {q \in PlotPanels : q.series # <<>>})
    BY <1>2, <1>3, ChosenKept
  <1>5. mapped \in Seq(PlotPanels)
    BY <1>2, <1>3, MappedTyped
  <1> QED
    BY <1>4, <1>5, KeptTyped

\* The samples of a frame have its number, and with another they are the same
\* but for it.
LEMMA SamplesOfOne ==
  ASSUME NEW c, c.signals \in Seq(ValidSignals), NEW f \in CanFrames, NEW k \in Nat
  PROVE  /\ ParseFrame(c, f, k) \in Seq({x \in Samples : x.source_sequence = k})
         /\ Mapped([x \in Samples |-> AsNumbered(x)], ParseFrame(c, f, k)) =
              ParseFrame(c, f, NumberOf(k))
  <1> DEFINE own == MatchingOf(c.signals, f)
             A == {x \in ValidSignals : Matches(x.selector, f)}
             sigs == c.signals
             h == [x \in Samples |-> AsNumbered(x)]
  <1>1. own \in Seq(ValidSignals)
    <2>1. own = KeptIn(sigs, A) /\ sigs \in Seq(ValidSignals)
      BY MatchingIs
    <2> HIDE DEF own, sigs, A
    <2> QED
      BY <2>1, KeptTyped
  <1>2. \A n : ParseFrame(c, f, n) = [i \in DOMAIN own |-> Sample(own[i], f, n)]
    BY DEF ParseFrame, MatchingOf
  <1> HIDE DEF own
  <1>3. DOMAIN own = 1..Len(own) /\ Len(own) \in Nat /\ \A i \in 1..Len(own) : own[i] \in ValidSignals
    BY <1>1, LenProperties, ElementOfSeq
  <1>4. ASSUME NEW s \in ValidSignals
        PROVE  /\ Sample(s, f, k) \in {x \in Samples : x.source_sequence = k}
               /\ AsNumbered(Sample(s, f, k)) = Sample(s, f, NumberOf(k))
    <2>1. Sample(s, f, k) \in Samples
      BY SampleTyped
    <2>2. Sample(s, f, k).source_sequence = k
      BY DEF Sample
    <2>3. AsNumbered(Sample(s, f, k)) = Sample(s, f, NumberOf(k))
      BY DEF Sample, AsNumbered
    <2> QED
      BY <2>1, <2>2, <2>3
  <1>5. [i \in DOMAIN own |-> Sample(own[i], f, k)] \in
          [1..Len(own) -> {x \in Samples : x.source_sequence = k}]
    BY <1>3, <1>4
  <1>6. ParseFrame(c, f, k) \in Seq({x \in Samples : x.source_sequence = k})
    <2> DEFINE T == {x \in Samples : x.source_sequence = k}
    <2> HIDE DEF T
    <2>1. ParseFrame(c, f, k) \in [1..Len(own) -> T]
      BY <1>2, <1>5 DEF T
    <2>2. ParseFrame(c, f, k) \in Seq(T)
      BY <1>3, <2>1, FunctionIsSeq
    <2> QED
      BY <2>2 DEF T
  <1>7. \A i \in 1..Len(own) : h[Sample(own[i], f, k)] = Sample(own[i], f, NumberOf(k))
    BY <1>3, <1>4
  <1> HIDE DEF h
  <1>8. Mapped(h, ParseFrame(c, f, k)) = ParseFrame(c, f, NumberOf(k))
    BY <1>2, <1>3, <1>7 DEF Mapped
  <1> QED
    BY <1>6, <1>8 DEF h

\* The samples of some frames of all are those of these frames alone, but for
\* their numbers.
LEMMA SamplesOfSome ==
  ASSUME NEW c, c.signals \in Seq(ValidSignals), NEW all \in Seq(CanFrames),
         Numbers \in Seq(1..Len(all)), Rises(Numbers), NEW some \in Seq(CanFrames),
         Len(some) = Len(Numbers), \A r \in 1..Len(Numbers) : some[r] = all[Numbers[r]]
  PROVE  KeptIn(ParseFrames(c, all), SamplesNumbered(ToSet(Numbers))) =
           NumberedOf(ParseFrames(c, some))
  <1> DEFINE numbers == Numbers
             n == Len(all)
             m == Len(numbers)
             T == 1..n
             M == 1..m
             A == ToSet(numbers)
             D == SamplesNumbered(A)
             h == [i \in T |-> ParseFrame(c, all[i], i)]
             g == [i \in T |-> IF i \in A THEN h[i] ELSE <<>>]
             e == [r \in M |-> numbers[r]]
             k == [r \in M |-> ParseFrame(c, some[r], r)]
             q == [r \in M |-> h[numbers[r]]]
             z == [x \in Samples |-> AsNumbered(x)]
  <1>1. /\ n \in Nat /\ DOMAIN all = 1..n /\ \A i \in 1..n : all[i] \in CanFrames
        /\ m \in Nat /\ DOMAIN numbers = 1..m /\ \A r \in 1..m : numbers[r] \in T
        /\ DOMAIN some = 1..m /\ \A r \in 1..m : some[r] \in CanFrames
    BY LenProperties, ElementOfSeq
  <1>2. \A r \in M : NumberOf(r) = numbers[r]
    BY <1>1 DEF NumberOf
  <1>3. \A r \in M : some[r] = all[numbers[r]]
    OBVIOUS
  <1>4. numbers \in Seq(T) /\ Rises(numbers)
    OBVIOUS
  <1> HIDE DEF numbers, n, m
  <1>5. ASSUME NEW i \in T
        PROVE  /\ ParseFrame(c, all[i], i) \in Seq({x \in Samples : x.source_sequence = i})
               /\ ParseFrame(c, all[i], i) \in Seq(Samples)
    <2>1. all[i] \in CanFrames /\ i \in Nat
      BY <1>1
    <2> QED
      BY <2>1, SamplesOfOne, FrameParsed
  <1>6. ASSUME NEW r \in M
        PROVE  /\ ParseFrame(c, some[r], r) \in Seq(Samples)
               /\ Mapped(z, ParseFrame(c, some[r], r)) = ParseFrame(c, some[r], NumberOf(r))
    <2>1. some[r] \in CanFrames /\ r \in Nat
      BY <1>1
    <2>2. Mapped([x \in Samples |-> AsNumbered(x)], ParseFrame(c, some[r], r)) =
            ParseFrame(c, some[r], NumberOf(r))
      BY <2>1, SamplesOfOne
    <2> QED
      BY <2>1, <2>2, FrameParsed
  <1>7. h \in [T -> Seq(Samples)] /\ g \in [T -> Seq(Samples)]
    <2>1. <<>> \in Seq(Samples)
      BY EmptySeq
    <2> QED
      BY <1>5, <2>1
  <1>8. FirstOf(n) \in Seq(T) /\ FirstOf(m) \in Seq(M)
        /\ (\A i \in 1..n : FirstOf(n)[i] = i) /\ (\A i \in 1..m : FirstOf(m)[i] = i)
        /\ DOMAIN FirstOf(n) = 1..n /\ DOMAIN FirstOf(m) = 1..m
    BY <1>1, FunctionIsSeq DEF FirstOf
  <1>9. ParseFrames(c, all) = FlatMap(h, FirstOf(n))
    <2>1. Mapped(h, FirstOf(n)) = [i \in DOMAIN all |-> ParseFrame(c, all[i], i)]
      BY <1>1, <1>8 DEF Mapped
    <2> HIDE DEF h
    <2> QED
      BY <2>1 DEF ParseFrames, FlatMap
  <1>10. ParseFrames(c, some) = FlatMap(k, FirstOf(m))
    <2>1. Mapped(k, FirstOf(m)) = [r \in DOMAIN some |-> ParseFrame(c, some[r], r)]
      BY <1>1, <1>8 DEF Mapped
    <2> HIDE DEF k
    <2> QED
      BY <2>1 DEF ParseFrames, FlatMap
  <1>11. k \in [M -> Seq(Samples)] /\ q \in [M -> Seq(Samples)]
    BY <1>1, <1>6, <1>7
  <1>12. KeptOfEach(g, h, T, D)
    <2> SUFFICES ASSUME NEW i \in T PROVE g[i] = KeptIn(h[i], D)
      BY DEF KeptOfEach
    <2> DEFINE R == {x \in Samples : x.source_sequence = i}
               t == h[i]
    <2>1. t \in Seq(R)
      BY <1>5
    <2>2. (i \in A => R \subseteq D) /\ (i \notin A => R \cap D = {})
      BY DEF SamplesNumbered
    <2>3. g[i] = IF i \in A THEN t ELSE <<>>
      OBVIOUS
    <2> HIDE DEF R, D, t, A, g
    <2>4. (R \subseteq D => KeptIn(t, D) = t) /\ (R \cap D = {} => KeptIn(t, D) = <<>>)
      BY <2>1, KeptAllOrNone
    <2> QED
      BY <2>2, <2>3, <2>4 DEF t
  <1>13. OnlyOf(g, h, T, A)
    BY DEF OnlyOf
  <1>14. MappedOfEach(q, k, z, M)
    <2> SUFFICES ASSUME NEW r \in M PROVE q[r] = Mapped(z, k[r])
      BY DEF MappedOfEach
    <2>1. q[r] = ParseFrame(c, all[numbers[r]], numbers[r])
      BY <1>1
    <2>2. Mapped(z, ParseFrame(c, some[r], r)) = ParseFrame(c, some[r], NumberOf(r))
      BY <1>6
    <2> HIDE DEF z, q
    <2> QED
      BY <1>2, <1>3, <2>1, <2>2
  <1>15. e \in [M -> T] /\ numbers = Mapped(e, FirstOf(m)) /\ Composed(q, h, e, M)
    <2>1. e \in [M -> T] /\ Composed(q, h, e, M)
      BY <1>1 DEF Composed
    <2>2. numbers = [r \in 1..m |-> numbers[r]]
      BY <1>1, <1>4, LenProperties
    <2>3. Mapped(e, FirstOf(m)) = [r \in 1..m |-> numbers[r]]
      BY <1>8 DEF Mapped
    <2> QED
      BY <2>1, <2>2, <2>3
  <1>16. z \in [Samples -> Samples]
    <2>1. \A x : NumberOf(x) \in Nat
      BY DEF NumberOf
    <2>2. \A x \in Samples : AsNumbered(x) \in Samples
      BY <2>1 DEF AsNumbered, Samples
    <2> QED
      BY <2>2
  <1> HIDE DEF D, h, g, e, k, q, z, A, T, M
  <1>17. KeptIn(FlatMap(h, FirstOf(n)), D) = FlatMap(g, FirstOf(n))
    <2>1. KeptFlat(h, g, FirstOf(n), D)
      BY <1>7, <1>8, <1>12, KeptFlatMap, Zenon
    <2> QED
      BY <2>1 DEF KeptFlat
  <1>18. FlatMap(g, FirstOf(n)) = FlatMap(h, numbers)
    <2>1. FlatKept(h, g, FirstOf(n), A)
      BY <1>7, <1>8, <1>13, FlatMapKept, Zenon
    <2>2. KeptIn(FirstOf(n), A) = numbers
      BY <1>1, <1>4, RisingKept DEF A, T
    <2> QED
      BY <2>1, <2>2 DEF FlatKept
  <1>19. FlatMap(h, numbers) = FlatMap(q, FirstOf(m))
    <2>1. FlatMapped(h, e, q, FirstOf(m))
      BY <1>7, <1>8, <1>11, <1>15, FlatMapMapped, Zenon
    <2> QED
      BY <1>15, <2>1 DEF FlatMapped
  <1>20. FlatMap(q, FirstOf(m)) = Mapped(z, FlatMap(k, FirstOf(m)))
    <2>1. MappedFlat(z, k, q, FirstOf(m))
      BY <1>8, <1>11, <1>14, <1>16, MappedFlatMap, Zenon
    <2> QED
      BY <2>1 DEF MappedFlat
  <1>21. NumberedOf(ParseFrames(c, some)) = Mapped(z, ParseFrames(c, some))
    <2>1. FlatMap(k, FirstOf(m)) \in Seq(Samples)
      BY <1>8, <1>11, FlatMapTyped, Zenon
    <2>2. ParseFrames(c, some) \in Seq(Samples)
      BY <1>10, <2>1
    <2> QED
      BY <2>2, NumberedTyped DEF z
  <1> QED
    BY <1>9, <1>10, <1>17, <1>18, <1>19, <1>20, <1>21 DEF A, D, numbers

-----------------------------------------------------------------------------
(* The live plot and the plot of the files *)

\* The files of signals that the parser makes of a capture, if it can read it,
\* and the plots made of these files.
SignalsOf(text, chosen) ==
  {LET samples == ParseFrames(chosen, read)
   IN  FileText([i \in DOMAIN samples |-> SampleRow(samples[i])]) : read \in ReadCapture(text)}

PlotsOf(texts, chosen) ==
  {BuildPlotPoints(chosen, samples) : samples \in UNION {ReadSignals(text) : text \in texts}}

\* The file of signals and the plot are made of what was there before, with a
\* configuration and a layout that are valid.
PlotInv ==
  /\ stage \in {"parsed", "plotted"} =>
       /\ config \in Configs /\ ValidConfig(config)
       /\ signals = SignalsOf(capture, config)
  /\ IF stage = "plotted" THEN layout \in Layouts /\ points = PlotsOf(signals, layout)
     ELSE points = {}

\* There is no plot at first.
LEMMA PlotInvInit == PipelineInit => PlotInv
  BY DEF PipelineInit, PlotInv

\* Each file is written once, of the one before it.
LEMMA PlotInvStep == PlotInv /\ [PipelineNext]_pipelineVars => PlotInv'
  <1> SUFFICES ASSUME PlotInv, [PipelineNext]_pipelineVars PROVE PlotInv'
    OBVIOUS
  <1>1. ASSUME NEW sent, NEW damage, NEW bus, NEW time, ReceiveLine(sent, damage, bus, time)
        PROVE  PlotInv'
    <2>1. stage = "receiving" /\ stage' \in {"receiving", "failed"} /\ points' = points
      BY <1>1 DEF ReceiveLine
    <2> QED
      BY <2>1 DEF PlotInv
  <1>2. ASSUME NEW chosen, NEW seen, NEW text, RunCapture(chosen, seen, text),
               stage \in {"receiving", "failed"}
        PROVE  PlotInv'
    <2>1. stage' = "captured" /\ points' = points
      BY <1>2 DEF RunCapture
    <2> QED
      BY <1>2, <2>1 DEF PlotInv
  <1>3. ASSUME NEW chosen, NEW seen, RunStandalone(chosen, seen) PROVE PlotInv'
    BY <1>2, <1>3 DEF RunStandalone
  <1>4. ASSUME NEW chosen, NEW seen, RunClient(chosen, seen) PROVE PlotInv'
    BY <1>2, <1>4 DEF RunClient
  <1>5. ASSUME NEW chosen \in Configs, RunParse(chosen) PROVE PlotInv'
    <2>1. /\ stage = "captured" /\ stage' = "parsed" /\ ValidConfig(chosen) /\ config' = chosen
          /\ capture' = capture /\ points' = points
      BY <1>5 DEF RunParse
    <2>2. signals' = SignalsOf(capture, chosen)
      BY <1>5 DEF RunParse, SignalsOf
    <2>3. signals' = SignalsOf(capture', config')
      BY <2>1, <2>2
    <2>4. points' = {}
      BY <2>1 DEF PlotInv
    <2> QED
      BY <2>1, <2>3, <2>4 DEF PlotInv
  <1>6. ASSUME NEW chosen \in Layouts, RunPlot(chosen) PROVE PlotInv'
    <2>1. /\ stage = "parsed" /\ stage' = "plotted" /\ layout' = chosen
          /\ capture' = capture /\ config' = config /\ signals' = signals
      BY <1>6 DEF RunPlot
    <2>2. points' = PlotsOf(signals, chosen)
      BY <1>6 DEF RunPlot, PlotsOf
    <2>3. points' = PlotsOf(signals', layout')
      BY <2>1, <2>2
    <2>4. config \in Configs /\ ValidConfig(config) /\ signals = SignalsOf(capture, config)
      BY <2>1 DEF PlotInv
    <2>5. signals' = SignalsOf(capture', config') /\ ValidConfig(config')
      BY <2>1, <2>4
    <2> QED
      BY <2>1, <2>3, <2>4, <2>5 DEF PlotInv
  <1>7. CASE UNCHANGED pipelineVars
    BY <1>7 DEF pipelineVars, PlotInv
  <1> QED
    BY <1>1, <1>3, <1>4, <1>5, <1>6, <1>7 DEF PipelineNext

\* The numbers of the frames that a capture keeps rise.
LEMMA NumbersRise ==
  ASSUME PipelineInv, CaptureInv, stage \notin {"receiving", "failed"}
  PROVE  Numbers \in Seq(1..Len(frames)) /\ Rises(Numbers)
  <1> DEFINE kept == KeptIn(window, FramesChosen(args))
  <1>1. /\ OneLimit(args) /\ window \in Seq(DOMAIN frames) /\ Follow(window)
        /\ Len(frames) \in Nat /\ DOMAIN frames = 1..Len(frames)
    <2>1. OneLimit(args) /\ window \in Seq(DOMAIN frames) /\ Follow(window)
      BY DEF CaptureInv
    <2>2. frames \in Seq(CanFrames)
      BY DEF PipelineInv
    <2> QED
      BY <2>1, <2>2, LenProperties
  <1>2. /\ Numbers = Limited(args, kept)
        /\ Numbers \in Seq(DOMAIN frames)
    BY <1>1, HeldTyped DEF Numbers
  <1>3. window \in Seq(Nat) /\ Rises(window)
    <2>1. /\ Len(window) \in Nat /\ DOMAIN window = 1..Len(window)
          /\ \A i \in 1..Len(window) : window[i] \in Nat
      BY <1>1, LenProperties, ElementOfSeq
    <2>2. window \in [1..Len(window) -> Nat]
      BY <1>1, <2>1, LenProperties
    <2>3. window \in Seq(Nat)
      BY <2>1, <2>2, FunctionIsSeq
    <2>4. ASSUME NEW i \in 1..Len(window), NEW j \in 1..Len(window), i < j
          PROVE  window[i] < window[j]
      <3>1. 1 \in 1..Len(window)
        BY <2>1
      <3>2. window[1] \in Nat
        BY <2>1, <3>1
      <3>3. window[i] = window[1] + (i - 1) /\ window[j] = window[1] + (j - 1)
        BY <1>1, <2>1 DEF Follow
      <3> QED
        BY <2>4, <3>2, <3>3
    <2> QED
      BY <2>3, <2>4 DEF Rises
  <1>4. kept \in Seq(Nat) /\ Rises(kept)
    BY <1>3, KeptRises
  <1> HIDE DEF kept
  <1>5. PICK k \in 0..Len(kept) : Numbers = SubSeq(kept, 1, k)
    BY <1>1, <1>2, <1>4, LimitedIs
  <1>6. /\ Len(kept) \in Nat /\ Len(Numbers) = k /\ \A i \in 1..k : Numbers[i] = kept[i]
    <2>1. Len(kept) \in Nat /\ \A i \in 1..k : kept[i] \in Nat
      BY <1>4, LenProperties, ElementOfSeq
    <2>2. /\ Len(SubSeq(kept, 1, k)) = IF 1 <= k THEN k - 1 + 1 ELSE 0
          /\ \A i \in 1..k - 1 + 1 : SubSeq(kept, 1, k)[i] = kept[1 + i - 1]
      BY <2>1, SubSeqProperties
    <2> QED
      BY <1>5, <2>1, <2>2
  <1>7. Rises(Numbers)
    <2> SUFFICES ASSUME NEW i \in 1..k, NEW j \in 1..k, i < j PROVE Numbers[i] < Numbers[j]
      BY <1>6 DEF Rises
    <2>1. i \in 1..Len(kept) /\ j \in 1..Len(kept)
      BY <1>6
    <2> QED
      BY <1>4, <1>6, <2>1 DEF Rises
  <1> QED
    BY <1>1, <1>2, <1>7

\* The frames that came over the stream one by one, as it carries them.
LEMMA HistoryIs ==
  ASSUME NEW all \in Seq(CanFrames)
  PROVE  FlattenSeq([i \in DOMAIN all |-> SetToSeq(FrameFromEvent(FrameEvent(i - 1, all[i])))]) =
           [i \in DOMAIN all |-> AsStreamed(all[i])]
  <1> DEFINE T == {AsStreamed(f) : f \in CanFrames}
             h == [f \in T |-> <<f>>]
             streamed == [i \in DOMAIN all |-> AsStreamed(all[i])]
             n == Len(all)
  <1>1. n \in Nat /\ DOMAIN all = 1..n /\ \A i \in 1..n : all[i] \in CanFrames
    BY LenProperties, ElementOfSeq
  <1>2. ASSUME NEW i \in 1..n
        PROVE  /\ SetToSeq(FrameFromEvent(FrameEvent(i - 1, all[i]))) = <<AsStreamed(all[i])>>
               /\ AsStreamed(all[i]) \in T
    <2>1. FrameFromEvent(FrameEvent(i - 1, all[i])) = {AsStreamed(all[i])}
      BY <1>1, EventBack
    <2> HIDE DEF AsStreamed
    <2> QED
      BY <1>1, <2>1, SingleSeq
  <1> HIDE DEF T
  <1>3. streamed \in [1..n -> T] /\ \A i \in 1..n : streamed[i] = AsStreamed(all[i])
    BY <1>1, <1>2
  <1>4. streamed \in Seq(T) /\ DOMAIN streamed = 1..n
    BY <1>1, <1>3, FunctionIsSeq
  <1> HIDE DEF streamed, n
  <1>5. [i \in DOMAIN all |-> SetToSeq(FrameFromEvent(FrameEvent(i - 1, all[i])))] = Mapped(h, streamed)
    BY <1>1, <1>2, <1>3, <1>4 DEF Mapped
  <1>6. FlatMap(h, streamed) = streamed
    BY <1>4, FlatMapOnes
  <1> QED
    BY <1>5, <1>6 DEF FlatMap, streamed

\* The signals of a valid configuration.
LEMMA SignalsValid ==
  ASSUME NEW chosen \in ParseConfigs, ValidConfig(chosen)
  PROVE  chosen.signals \in Seq(ValidSignals)
  <1> DEFINE list == chosen.signals
             n == Len(list)
  <1>1. list \in Seq(SignalDefinitions)
    BY DEF ParseConfigs
  <1> HIDE DEF list
  <1>2. n \in Nat /\ DOMAIN list = 1..n /\ list \in [1..n -> SignalDefinitions]
    BY <1>1, LenProperties
  <1>3. \A i \in 1..n : ValidSource(list[i].source)
    BY <1>2 DEF ValidConfig, list
  <1>4. list \in [1..n -> ValidSignals]
    BY <1>2, <1>3 DEF ValidSignals
  <1>5. list \in Seq(ValidSignals)
    <2> HIDE DEF n
    <2> QED
      BY <1>2, <1>4, FunctionIsSeq
  <1> QED
    BY <1>5 DEF list

\* A file of signals is that of the samples of the frames captured, and gives
\* back these samples, their values with six decimals.
LEMMA SignalsBack ==
  ASSUME NEW kept \in Seq(CanFrames), NEW chosen \in ParseConfigs, ValidConfig(chosen),
         NEW text \in SignalsOf(FileText(RowsOf(kept)), chosen), NEW samples \in ReadSignals(text)
  PROVE  /\ ParseFrames(chosen, kept) \in Seq(Samples)
         /\ samples = PrintedOf(ParseFrames(chosen, kept))
  <1> DEFINE S == ParseFrames(chosen, kept)
             read == [k \in DOMAIN kept |-> AsCaptured(kept[k])]
  <1>1. chosen.signals \in Seq(ValidSignals)
    BY SignalsValid
  <1>2. S \in Seq(Samples) /\ ParseFrames(chosen, read) = S
    <2> DEFINE made == [k \in DOMAIN kept |-> AsCaptured(kept[k])]
    <2>1. /\ DOMAIN made = DOMAIN kept
          /\ \A i \in DOMAIN kept : made[i] \in {AsStreamed(kept[i]), AsCaptured(kept[i])}
      BY Zenon
    <2> HIDE DEF made
    <2>2. S \in Seq(Samples) /\ ParseFrames(chosen, made) = S
      BY <1>1, <2>1, FramesParsed
    <2> QED
      BY <2>2 DEF made
  <1>3. PICK r \in ReadCapture(FileText(RowsOf(kept))) :
          text = LET made == ParseFrames(chosen, r)
                 IN  FileText([i \in DOMAIN made |-> SampleRow(made[i])])
    BY DEF SignalsOf
  <1>4. r = read
    <2>1. ReadCapture(FileText(RowsOf(kept))) \subseteq {read}
      BY CaptureRead
    <2> QED
      BY <2>1
  <1> HIDE DEF S, read
  <1>5. text = FileText([i \in DOMAIN S |-> SampleRow(S[i])])
    BY <1>2, <1>3, <1>4
  <1>6. ReadSignals(text) \subseteq {[k \in DOMAIN S |-> AsPrinted(S[k])]}
    BY <1>2, <1>5, SamplesRead
  <1>7. samples = PrintedOf(S)
    BY <1>6 DEF PrintedOf
  <1> QED
    BY <1>2, <1>7 DEF S

\* The live points of the frames of a capture are those of the samples of these
\* frames alone, with the numbers of the frames.
LEMMA LiveIs ==
  ASSUME PipelineInv, CaptureInv, stage = "plotted", config \in ParseConfigs,
         ValidConfig(config), layout \in PlotLayouts, NEW selected
  PROVE  LET chosen == SelectPlotLayout(layout, selected)
             live   == OfNumbers(LivePoints(selected), ToSet(Numbers))
         IN  /\ live = BuildPlotPoints(chosen, OfSignals(NumberedOf(ParseFrames(config, Kept)),
                                                         SignalIds(chosen.panels)))
             /\ live \in Seq(PointsNumbered(ToSet(Numbers)))
  <1> DEFINE A == ToSet(Numbers)
             kept == Kept
             all == frames
             S == ParseFrames(config, all)
             F == ParseFrames(config, kept)
             chosen == SelectPlotLayout(layout, selected)
             panels == chosen.panels
             ids == SignalIds(panels)
             history == FlattenSeq([i \in DOMAIN all |->
                          SetToSeq(FrameFromEvent(FrameEvent(i - 1, all[i])))])
             streamed == [i \in DOMAIN all |-> AsStreamed(all[i])]
             I == {x \in Samples : x.signal_id \in ids}
             live == LivePoints(selected)
  <1>1. /\ all \in Seq(CanFrames) /\ kept \in Seq(CanFrames) /\ Len(kept) = Len(Numbers)
        /\ \A r \in 1..Len(Numbers) : kept[r] = all[Numbers[r]]
        /\ Numbers \in Seq(1..Len(all)) /\ Rises(Numbers)
    BY KeptIs, NumbersRise DEF PipelineInv
  <1>2. config.signals \in Seq(ValidSignals)
    BY SignalsValid
  <1>3. live = BuildPlotPoints(chosen, OfSignals(ParseFrames(config, history), ids))
    BY DEF LivePoints, OfSignals, SignalIds
  <1> HIDE DEF kept
  <1>4. history = streamed
    BY <1>1, HistoryIs
  <1>5. S \in Seq(Samples) /\ ParseFrames(config, streamed) = S
    <2>1. /\ DOMAIN streamed = DOMAIN all
          /\ \A i \in DOMAIN all : streamed[i] \in {AsStreamed(all[i]), AsCaptured(all[i])}
      BY Zenon
    <2> HIDE DEF streamed
    <2> QED
      BY <1>1, <1>2, <2>1, FramesParsed
  <1>6. F \in Seq(Samples)
    <2> DEFINE made == [k \in DOMAIN kept |-> AsStreamed(kept[k])]
    <2>1. /\ DOMAIN made = DOMAIN kept
          /\ \A i \in DOMAIN kept : made[i] \in {AsStreamed(kept[i]), AsCaptured(kept[i])}
      BY Zenon
    <2> HIDE DEF made
    <2> QED
      BY <1>1, <1>2, <2>1, FramesParsed
  <1> HIDE DEF history, streamed
  <1>7. KeptIn(S, SamplesNumbered(A)) = NumberedOf(F)
    BY <1>1, <1>2, SamplesOfSome
  <1>8. panels \in Seq(PlotPanels)
    <2>1. layout.panels \in Seq(PlotPanels)
      BY DEF PlotLayouts
    <2>2. panels = ChosenPanels(layout.panels, selected)
      BY ChosenAre
    <2> HIDE DEF panels
    <2> QED
      BY <2>1, <2>2, ChosenTyped
  <1> HIDE DEF S, F, live, chosen, A
  <1>9. live = LayoutPoints(panels, OfSignals(S, ids))
    BY <1>3, <1>4, <1>5, PointsAre
  <1> HIDE DEF panels
  <1> HIDE DEF ids
  <1>10. OfSignals(S, ids) = KeptIn(S, I) /\ KeptIn(S, I) \in Seq(Samples)
    <2>1. OfSignals(S, ids) = KeptIn(S, I)
      BY <1>5, OfSignalsIs
    <2> QED
      BY <1>5, <2>1, KeptTyped
  <1>11. /\ live \in Seq(AllPoints)
         /\ KeptIn(live, PointsNumbered(A)) =
              LayoutPoints(panels, KeptIn(KeptIn(S, I), SamplesNumbered(A)))
    BY <1>8, <1>9, <1>10, LayoutOfSome
  <1>12. OfNumbers(live, A) = KeptIn(live, PointsNumbered(A))
    BY <1>11, OfNumbersIs DEF PointsNumbered
  <1>13. KeptIn(KeptIn(S, I), SamplesNumbered(A)) = KeptIn(NumberedOf(F), I)
    <2>1. KeptIn(KeptIn(S, I), SamplesNumbered(A)) = KeptIn(KeptIn(S, SamplesNumbered(A)), I)
      BY <1>5, KeptCommutes, Zenon
    <2> QED
      BY <1>7, <2>1
  <1>14. OfSignals(NumberedOf(F), ids) = KeptIn(NumberedOf(F), I)
    BY <1>6, NumberedTyped, OfSignalsIs
  <1>15. OfNumbers(live, A) = LayoutPoints(panels, OfSignals(NumberedOf(F), ids))
    BY <1>11, <1>12, <1>13, <1>14
  <1>16. OfNumbers(live, A) \in Seq(PointsNumbered(A))
    <2>1. KeptIn(live, PointsNumbered(A)) \in Seq({x \in AllPoints : x \in PointsNumbered(A)})
      BY <1>11, KeptWithin, Zenon
    <2>2. {x \in AllPoints : x \in PointsNumbered(A)} = PointsNumbered(A)
      BY DEF PointsNumbered
    <2> QED
      BY <1>12, <2>1, <2>2
  <1>17. BuildPlotPoints(chosen, OfSignals(NumberedOf(F), ids)) =
           LayoutPoints(panels, OfSignals(NumberedOf(F), ids))
    BY PointsAre DEF panels
  <1> QED
    BY <1>15, <1>16, <1>17 DEF live, A, F, kept, ids, panels, chosen

\* Points that are alike are told apart by nothing else.
LEMMA PointsAgree ==
  ASSUME NEW p, NEW q, AlikePoint(p, q), p.source_sequence # 0
  PROVE  /\ p.source_sequence = Numbers[q.source_sequence]
         /\ Near(p.value, q.value)
         /\ [p EXCEPT !.value = NaN, !.source_sequence = 0] =
              [q EXCEPT !.value = NaN, !.source_sequence = 0]
  <1>1. p.source_sequence = Numbers[q.source_sequence]
    BY DEF AlikePoint, NumberOf
  <1> QED
    BY <1>1, SMT DEF AlikePoint

\* The live plot of any choice of series shows of the frames of a capture the
\* points that the files make of it, whatever the frames, the window and the
\* arguments of the capture, the configuration and the layout: stream.rs and
\* parse_plot_live_since against capture, parse and plot.
THEOREM PlotsAreAlike == PipelineSpec => []PlotsAgree
  <1>1. PipelineInv /\ CaptureInv /\ PlotInv => PlotsAgree
    <2> SUFFICES ASSUME PipelineInv, CaptureInv, PlotInv, NEW made \in points,
                        NEW selected \in SUBSET AllSeries
                 PROVE  LET live == OfNumbers(LivePoints(selected), ToSet(Numbers))
                            own  == OfSeries(made, selected)
                        IN  /\ Len(live) = Len(own)
                            /\ \A i \in DOMAIN live :
                                 /\ live[i].source_sequence = Numbers[own[i].source_sequence]
                                 /\ Near(live[i].value, own[i].value)
                                 /\ [live[i] EXCEPT !.value = NaN, !.source_sequence = 0] =
                                      [own[i] EXCEPT !.value = NaN, !.source_sequence = 0]
      BY DEF PlotsAgree, OfNumbers, OfSeries
    <2> DEFINE kept == Kept
               F == ParseFrames(config, kept)
               live == OfNumbers(LivePoints(selected), ToSet(Numbers))
               own == OfSeries(made, selected)
    <2>1. /\ stage = "plotted" /\ config \in ParseConfigs /\ ValidConfig(config)
          /\ signals = SignalsOf(capture, config)
          /\ layout \in PlotLayouts /\ points = PlotsOf(signals, layout)
      BY InputAssumption DEF PlotInv
    <2>2. /\ kept \in Seq(CanFrames) /\ capture = FileText(RowsOf(kept))
          /\ Numbers \in Seq(1..Len(frames))
      BY <2>1, KeptIs, NumbersRise
    <2>3. PICK samples \in UNION {ReadSignals(text) : text \in signals} :
            made = BuildPlotPoints(layout, samples)
      BY <2>1 DEF PlotsOf
    <2>4. F \in Seq(Samples) /\ samples = PrintedOf(F)
      <3> HIDE DEF kept
      <3>1. PICK file \in signals : samples \in ReadSignals(file)
        BY <2>3
      <3>2. file \in SignalsOf(FileText(RowsOf(kept)), config)
        BY <2>1, <2>2, <3>1
      <3> QED
        BY <2>1, <2>2, <3>1, <3>2, SignalsBack
    <2>5. /\ live = BuildPlotPoints(SelectPlotLayout(layout, selected),
                      OfSignals(NumberedOf(F), SignalIds(SelectPlotLayout(layout, selected).panels)))
          /\ live \in Seq(PointsNumbered(ToSet(Numbers)))
      BY <2>1, LiveIs
    <2> HIDE DEF F, live
    <2>6. AlikePoints(live, own)
      BY <2>1, <2>3, <2>4, <2>5, PlotsAlike
    <2> HIDE DEF own
    <2>7. ASSUME NEW i \in DOMAIN live
          PROVE  AlikePoint(live[i], own[i]) /\ live[i].source_sequence # 0
      <3>1. live[i].source_sequence \in ToSet(Numbers)
        BY <2>5, <2>7, LenProperties, ElementOfSeq DEF PointsNumbered
      <3>2. Len(frames) \in Nat
        BY LenProperties DEF PipelineInv
      <3>3. \A n \in ToSet(Numbers) : n \in 1..Len(frames)
        BY <2>2, LenProperties, ElementOfSeq DEF ToSet
      <3> QED
        BY <2>6, <2>7, <3>1, <3>2, <3>3 DEF AlikePoints
    <2>8. Len(live) = Len(own)
      BY <2>6 DEF AlikePoints
    <2> QED
      BY <2>7, <2>8, PointsAgree DEF live, own
  <1>2. PipelineInit => PipelineInv /\ CaptureInv /\ PlotInv
    BY PipelineInvInit, CaptureInvInit, PlotInvInit
  <1>3. PipelineInv /\ CaptureInv /\ PlotInv /\ [PipelineNext]_pipelineVars
          => (PipelineInv /\ CaptureInv /\ PlotInv)'
    BY PipelineInvStep, CaptureInvStep, PlotInvStep
  <1> QED
    BY <1>1, <1>2, <1>3, PTL DEF PipelineSpec
=============================================================================
