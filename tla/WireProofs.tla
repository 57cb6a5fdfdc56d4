----------------------------- MODULE WireProofs -----------------------------
(***************************************************************************)
(* Proofs about Wire for a byte of any size, any keys, packets of any length *)
(* and any number of them.  From the bytes up: the two ciphers undo each     *)
(* other; a number and a text are read as they were written, wherever they   *)
(* lie in a packet; the writer, however often its array doubles, keeps what  *)
(* was written; a stream is a row of whole packets, of which a read that does*)
(* not tear them brings the first ones; and one thing at a time is asked,    *)
(* due or given out.  From that: TypeCorrect, ReadsRight and NobodyThrows.   *)
(***************************************************************************)
EXTENDS Wire, SequenceTheorems, FiniteSetTheorems, WellFoundedInduction, TLAPS

(* ---- arithmetic of a byte ---- *)

(* Division with remainder by a positive number. *)
LEMMA DivMod ==
  ASSUME NEW n \in Int, NEW N \in Nat \ {0}
  PROVE  /\ n = N * (n \div N) + (n % N)
         /\ n % N \in 0..(N - 1)
         /\ n \div N \in Int
  OBVIOUS

(* A remainder is its own, also after one turn. *)
LEMMA ModOnce ==
  ASSUME NEW N \in Nat \ {0}, NEW r \in 0..(N - 1)
  PROVE  r % N = r /\ (r + N) % N = r
  OBVIOUS

(* The quotient and the remainder are the only ones. *)
LEMMA DivModUnique ==
  ASSUME NEW N \in Nat \ {0}, NEW q \in Int, NEW r \in 0..(N - 1)
  PROVE  (N * q + r) % N = r /\ (N * q + r) \div N = q
  OBVIOUS

(* Plus and Minus stay inside a byte and undo each other. *)
LEMMA ByteShift ==
  ASSUME NEW b \in Bytes
  PROVE  /\ Plus(b) \in Bytes /\ Minus(b) \in Bytes
         /\ Minus(Plus(b)) = b /\ Plus(Minus(b)) = b
  <1> DEFINE k == OperationKey
  <1>0. Byte \in Nat \ {0} /\ k \in 0..(Byte - 1) /\ b \in 0..(Byte - 1)
    BY WireAssumption DEF Bytes
  <1>1. Plus(b) = IF b + k < Byte THEN b + k ELSE b + k - Byte
    <2>1. CASE b + k < Byte
      BY <1>0, <2>1, ModOnce DEF Plus
    <2>2. CASE b + k >= Byte
      <3>1. b + k - Byte \in 0..(Byte - 1)
        BY <1>0, <2>2
      <3>2. b + k = (b + k - Byte) + Byte
        BY <1>0
      <3> QED BY <1>0, <2>2, <3>1, <3>2, ModOnce DEF Plus
    <2> QED BY <1>0, <2>1, <2>2
  <1>2. Minus(b) = IF b < k THEN b + Byte - k ELSE b - k
    <2>1. CASE b < k
      <3>1. b + Byte - k \in 0..(Byte - 1)
        BY <1>0, <2>1
      <3> QED BY <1>0, <2>1, <3>1, ModOnce DEF Minus
    <2>2. CASE b >= k
      <3>1. b - k \in 0..(Byte - 1) /\ b + Byte - k = (b - k) + Byte
        BY <1>0, <2>2
      <3> QED BY <1>0, <2>2, <3>1, ModOnce DEF Minus
    <2> QED BY <1>0, <2>1, <2>2
  <1>3. Plus(b) \in Bytes /\ Minus(b) \in Bytes
    BY <1>0, <1>1, <1>2 DEF Bytes
  <1>4. Minus(Plus(b)) = b
    <2>1. CASE b + k < Byte
      <3>1. Plus(b) = b + k
        BY <1>1, <2>1
      <3>2. (b + k) + Byte - k = b + Byte
        BY <1>0
      <3> QED BY <1>0, <3>1, <3>2, ModOnce DEF Minus
    <2>2. CASE b + k >= Byte
      <3>1. Plus(b) = b + k - Byte
        BY <1>0, <1>1, <2>2
      <3>2. (b + k - Byte) + Byte - k = b
        BY <1>0
      <3> QED BY <1>0, <3>1, <3>2, ModOnce DEF Minus
    <2> QED BY <1>0, <2>1, <2>2
  <1>5. Plus(Minus(b)) = b
    <2>1. CASE b < k
      <3>1. Minus(b) = b + Byte - k
        BY <1>2, <2>1
      <3>2. (b + Byte - k) + k = b + Byte
        BY <1>0
      <3> QED BY <1>0, <3>1, <3>2, ModOnce DEF Plus
    <2>2. CASE b >= k
      <3>1. Minus(b) = b - k
        BY <1>0, <1>2, <2>2
      <3>2. (b - k) + k = b
        BY <1>0
      <3> QED BY <1>0, <3>1, <3>2, ModOnce DEF Plus
    <2> QED BY <1>0, <2>1, <2>2
  <1> QED BY <1>3, <1>4, <1>5

LEMMA XorByte ==
  ASSUME NEW b \in Bytes
  PROVE  Xor[b] \in Bytes /\ Xor[Xor[b]] = b
  BY WireAssumption

-----------------------------------------------------------------------------
(* ---- the ciphers ---- *)

(* Both ciphers keep a packet's length and its bytes bytes. *)
LEMMA CipherTypes ==
  ASSUME NEW n \in Nat, NEW b \in [1..n -> Bytes]
  PROVE  CipherData(b) \in [1..n -> Bytes] /\ Cipher(b) \in [1..n -> Bytes]
  <1>1. DOMAIN b = 1..n
    OBVIOUS
  <1>2. \A i \in 1..n : b[i] \in Bytes
    OBVIOUS
  <1>3. \A i \in 1..n : /\ Plus(Xor[b[i]]) \in Bytes /\ Minus(Xor[b[i]]) \in Bytes
                        /\ Xor[Minus(b[i])] \in Bytes /\ Xor[Plus(b[i])] \in Bytes
    BY <1>2, ByteShift, XorByte
  <1> QED BY <1>1, <1>3 DEF CipherData, Cipher

(* Cipher of Server.cs gives back what CipherData of NetClient.cpp was given. *)
THEOREM ServerReadsClient ==
  ASSUME NEW n \in Nat, NEW b \in [1..n -> Bytes]
  PROVE  Cipher(CipherData(b)) = b
  <1> DEFINE c == CipherData(b)
  <1>1. c \in [1..n -> Bytes] /\ Cipher(c) \in [1..n -> Bytes]
    BY CipherTypes
  <1>2. ASSUME NEW i \in 1..n PROVE Cipher(c)[i] = b[i]
    <2>1. b[i] \in Bytes /\ Xor[b[i]] \in Bytes
      BY XorByte
    <2>2. CASE i % 2 = 1
      <3>1. c[i] = Plus(Xor[b[i]])
        BY <2>2 DEF CipherData
      <3>2. Cipher(c)[i] = Xor[Minus(c[i])]
        BY <1>1, <2>2 DEF Cipher
      <3> QED BY <2>1, <3>1, <3>2, ByteShift, XorByte
    <2>3. CASE i % 2 # 1
      <3>1. c[i] = Minus(Xor[b[i]])
        BY <2>3 DEF CipherData
      <3>2. Cipher(c)[i] = Xor[Plus(c[i])]
        BY <1>1, <2>3 DEF Cipher
      <3> QED BY <2>1, <3>1, <3>2, ByteShift, XorByte
    <2> QED BY <2>2, <2>3
  <1> QED BY <1>1, <1>2

(* CipherData of NetClient.cpp, used on what is received too, gives back what *)
(* Cipher of Server.cs was given.                                             *)
THEOREM ClientReadsServer ==
  ASSUME NEW n \in Nat, NEW b \in [1..n -> Bytes]
  PROVE  CipherData(Cipher(b)) = b
  <1> DEFINE c == Cipher(b)
  <1>1. c \in [1..n -> Bytes] /\ CipherData(c) \in [1..n -> Bytes]
    BY CipherTypes
  <1>2. ASSUME NEW i \in 1..n PROVE CipherData(c)[i] = b[i]
    <2>1. b[i] \in Bytes /\ Plus(b[i]) \in Bytes /\ Minus(b[i]) \in Bytes
      BY ByteShift
    <2>2. CASE i % 2 = 1
      <3>1. c[i] = Xor[Minus(b[i])]
        BY <2>2 DEF Cipher
      <3>2. CipherData(c)[i] = Plus(Xor[c[i]])
        BY <1>1, <2>2 DEF CipherData
      <3> QED BY <2>1, <3>1, <3>2, ByteShift, XorByte
    <2>3. CASE i % 2 # 1
      <3>1. c[i] = Xor[Plus(b[i])]
        BY <2>3 DEF Cipher
      <3>2. CipherData(c)[i] = Minus(Xor[c[i]])
        BY <1>1, <2>3 DEF CipherData
      <3> QED BY <2>1, <3>1, <3>2, ByteShift, XorByte
    <2> QED BY <2>2, <2>3
  <1> QED BY <1>1, <1>2

-----------------------------------------------------------------------------
(* ---- numbers and texts ---- *)

(* A 16-bit number is two bytes.  *)
LEMMA UShortBytes ==
  ASSUME NEW n \in Numbers
  PROVE  /\ UShort(n) \in Seq(Bytes) /\ Len(UShort(n)) = 2
         /\ n = (n % Byte) + Byte * ((n \div Byte) % Byte)
  <1> DEFINE q == n \div Byte
             r == n % Byte
  <1>0. Byte \in Nat \ {0, 1} /\ n \in Nat /\ n < Byte * Byte
    BY WireAssumption DEF Numbers
  <1>1. q \in Int /\ r \in 0..(Byte - 1) /\ n = Byte * q + r
    BY <1>0, DivMod
  <1>2. q \in 0..(Byte - 1)
    <2>1. q >= 0
      <3>1. CASE q <= -1
        <4>1. Byte * q <= -Byte
          BY <1>0, <1>1, <3>1
        <4> QED BY <1>0, <1>1, <4>1
      <3> QED BY <1>1, <3>1
    <2>2. q < Byte
      <3>1. CASE q >= Byte
        <4>1. Byte * q >= Byte * Byte
          BY <1>0, <1>1, <3>1
        <4> QED BY <1>0, <1>1, <4>1
      <3> QED BY <1>0, <1>1, <3>1
    <2> QED BY <1>0, <1>1, <2>1, <2>2
  <1>3. q % Byte = q
    BY <1>0, <1>2, ModOnce
  <1>4. \A x, y \in Bytes : <<x, y>> \in Seq(Bytes) /\ Len(<<x, y>>) = 2
    OBVIOUS
  <1>5. r \in Bytes /\ q % Byte \in Bytes /\ UShort(n) = <<r, q % Byte>>
    BY <1>1, <1>2, <1>3 DEF UShort, Bytes
  <1>6. n = r + Byte * (q % Byte)
    BY <1>0, <1>1, <1>2, <1>3
  <1> QED BY <1>4, <1>5, <1>6

(* What lies where when three sequences are put one behind the other. *)
LEMMA ThreeJoined ==
  ASSUME NEW S, NEW a \in Seq(S), NEW b \in Seq(S), NEW c \in Seq(S)
  PROVE  /\ a \o b \o c \in Seq(S) /\ a \o b \in Seq(S) /\ b \o c \in Seq(S)
         /\ Len(a \o b \o c) = Len(a) + Len(b) + Len(c)
         /\ \A i \in 1..Len(b) : (a \o b \o c)[Len(a) + i] = b[i]
  <1>1. /\ a \o b \in Seq(S) /\ Len(a \o b) = Len(a) + Len(b)
        /\ b \o c \in Seq(S) /\ Len(b \o c) = Len(b) + Len(c)
    OBVIOUS
  <1>2. a \o b \o c \in Seq(S) /\ Len(a \o b \o c) = Len(a) + Len(b) + Len(c)
    BY <1>1
  <1>3. ASSUME NEW i \in 1..Len(b) PROVE (a \o b \o c)[Len(a) + i] = b[i]
    <2>1. Len(a) + i \in 1..Len(a \o b)
      BY <1>1
    <2>2. (a \o b \o c)[Len(a) + i] = (a \o b)[Len(a) + i]
      BY <1>1, <2>1
    <2>3. (a \o b)[Len(a) + i] = b[i]
      BY <2>1
    <2> QED BY <2>2, <2>3
  <1> QED BY <1>1, <1>2, <1>3

LEMMA FourJoined ==
  ASSUME NEW S, NEW a \in Seq(S), NEW b \in Seq(S), NEW c \in Seq(S), NEW d \in Seq(S)
  PROVE  /\ c \o d \in Seq(S)
         /\ Len(a \o b \o c) = Len(a) + Len(b) + Len(c)
         /\ Len(a \o b \o c \o d) = Len(a) + Len(b) + Len(c) + Len(d)
         /\ SubSeq(a \o b \o c \o d, Len(a) + Len(b) + 1, Len(a) + Len(b) + Len(c)) = c
  <1>1. a \o b \in Seq(S) /\ Len(a \o b) = Len(a) + Len(b)
    OBVIOUS
  <1>2. /\ c \o d \in Seq(S)
        /\ Len(a \o b \o c \o d) = Len(a \o b) + Len(c) + Len(d)
        /\ a \o b \o c \o d \in Seq(S)
        /\ \A i \in 1..Len(c) : (a \o b \o c \o d)[Len(a \o b) + i] = c[i]
    <2>1. PICK p \in Seq(S) : p = a \o b
      BY <1>1
    <2>2. c \o d \in Seq(S) /\ p \o c \o d \in Seq(S)
      BY ThreeJoined
    <2>3. Len(p \o c \o d) = Len(p) + Len(c) + Len(d)
      BY ThreeJoined
    <2>4. \A i \in 1..Len(c) : (p \o c \o d)[Len(p) + i] = c[i]
      BY ThreeJoined
    <2> QED BY <2>1, <2>2, <2>3, <2>4
  <1>3. Len(a \o b \o c) = Len(a) + Len(b) + Len(c)
    BY ThreeJoined
  <1>4. SubSeq(a \o b \o c \o d, Len(a \o b) + 1, Len(a \o b) + Len(c)) = c
    <2>1. PICK t : t = SubSeq(a \o b \o c \o d, Len(a \o b) + 1, Len(a \o b) + Len(c))
      OBVIOUS
    <2>2. \A i \in (Len(a \o b) + 1)..(Len(a \o b) + Len(c)) : (a \o b \o c \o d)[i] \in S
      BY <1>1, <1>2
    <2>3. t \in Seq(S) /\ Len(t) = Len(c) /\ \A i \in 1..Len(c) : t[i] = c[i]
      BY <1>1, <1>2, <2>1, <2>2, SubSeqProperties
    <2> QED BY <2>1, <2>3, SeqEqual
  <1> QED BY <1>1, <1>2, <1>3, <1>4

-----------------------------------------------------------------------------
(* A length, a flag or an opcode is read as it was written, wherever it lies. *)
THEOREM NumberReadBack ==
  ASSUME NEW n \in Numbers, NEW pre \in Seq(Bytes), NEW post \in Seq(Bytes)
  PROVE  Short(pre \o UShort(n) \o post, Len(pre) + 1) = n
  <1>1. PICK u : u = UShort(n)
    OBVIOUS
  <1>2. u \in Seq(Bytes)
    BY <1>1, UShortBytes
  <1>3. \A i \in 1..Len(u) : (pre \o u \o post)[Len(pre) + i] = u[i]
    BY <1>2, ThreeJoined
  <1>4. Len(u) = 2 /\ u[1] = n % Byte /\ u[2] = (n \div Byte) % Byte
    BY <1>1, UShortBytes DEF UShort
  <1>5. 1 \in 1..Len(u) /\ 2 \in 1..Len(u) /\ Len(pre) + 1 + 1 = Len(pre) + 2
    BY <1>4
  <1>6. Short(pre \o u \o post, Len(pre) + 1) = u[1] + Byte * u[2]
    BY <1>3, <1>5 DEF Short
  <1> QED BY <1>1, <1>4, <1>6, UShortBytes

(* A text shorter than a 16-bit number counts is read as it was written, and   *)
(* the next field is looked for where it begins.                              *)
THEOREM TextReadBack ==
  ASSUME NEW s \in Seq(Bytes), Len(s) \in Numbers,
         NEW pre \in Seq(Bytes), NEW post \in Seq(Bytes)
  PROVE  LET b == pre \o UShort(Len(s)) \o s \o post
             at == Len(pre) + 1
         IN /\ Readable(b, at)
            /\ StringAt(b, at) = s
            /\ After(b, at) = Len(pre \o UShort(Len(s)) \o s) + 1
  <1>1. PICK u : u = UShort(Len(s))
    OBVIOUS
  <1>2. u \in Seq(Bytes)
    BY <1>1, UShortBytes
  <1>3. PICK b : b = pre \o u \o s \o post
    OBVIOUS
  <1>4. /\ s \o post \in Seq(Bytes) /\ b = pre \o u \o (s \o post)
        /\ Len(pre \o u \o s) = Len(pre) + Len(u) + Len(s)
        /\ Len(b) = Len(pre) + Len(u) + Len(s) + Len(post)
        /\ SubSeq(b, Len(pre) + Len(u) + 1, Len(pre) + Len(u) + Len(s)) = s
    <2>1. s \o post \in Seq(Bytes)
      BY <1>2, FourJoined
    <2>2. pre \o u \o s \o post = pre \o u \o (s \o post)
      <3>1. pre \o u \in Seq(Bytes)
        BY <1>2
      <3> QED BY <3>1, ConcatAssociative
    <2>3. Len(pre \o u \o s) = Len(pre) + Len(u) + Len(s)
      BY <1>2, FourJoined
    <2>4. Len(pre \o u \o s \o post) = Len(pre) + Len(u) + Len(s) + Len(post)
      BY <1>2, FourJoined
    <2>5. SubSeq(pre \o u \o s \o post, Len(pre) + Len(u) + 1, Len(pre) + Len(u) + Len(s)) = s
      BY <1>2, FourJoined
    <2> QED BY <1>3, <2>1, <2>2, <2>3, <2>4, <2>5
  <1>5. Short(b, Len(pre) + 1) = Len(s)
    <2>1. Short(pre \o u \o (s \o post), Len(pre) + 1) = Len(s)
      BY <1>1, <1>4, NumberReadBack
    <2> QED BY <1>4, <2>1
  <1>6. /\ Len(u) = 2 /\ Len(pre) \in Nat /\ Len(s) \in Nat /\ Len(post) \in Nat
    BY <1>1, UShortBytes
  <1>7. After(b, Len(pre) + 1) = Len(pre) + Len(u) + Len(s) + 1
    <2>1. Len(pre) + 1 + 2 + Len(s) = Len(pre) + Len(u) + Len(s) + 1
      BY <1>6
    <2> QED BY <1>5, <2>1 DEF After
  <1>8. StringAt(b, Len(pre) + 1) = s
    <2>1. /\ Len(pre) + 1 + 2 = Len(pre) + Len(u) + 1
          /\ Len(pre) + 1 + 1 + Len(s) = Len(pre) + Len(u) + Len(s)
      BY <1>6
    <2> QED BY <1>4, <1>5, <2>1 DEF StringAt
  <1>9. Readable(b, Len(pre) + 1)
    BY <1>4, <1>6, <1>7 DEF Readable
  <1> QED BY <1>1, <1>3, <1>4, <1>7, <1>8, <1>9

-----------------------------------------------------------------------------
(* ---- doubling ---- *)

(* A non-empty set of numbers has a least one: the intervals 0..n are finite  *)
(* sets, whose strict inclusion is well-founded.                              *)
LEMMA LeastNat ==
  ASSUME NEW T \in SUBSET Nat, T # {}
  PROVE  \E m \in T : \A n \in T : m <= n
  <1> DEFINE I == {0..n : n \in T}
             R == StrictSubsetOrdering(Nat)
             F == FiniteSubsetsOf(Nat)
  <1>1. IsWellFoundedOn(R, F)
    BY FS_StrictSubsetOrderingWellFounded
  <1>2. \A n \in T : 0..n \in SUBSET Nat /\ IsFiniteSet(0..n)
    BY FS_Interval
  <1>3. I \subseteq F /\ I # {}
    BY <1>2 DEF FiniteSubsetsOf
  <1> HIDE DEF F
  <1>4. PICK x \in I : \A y \in I : ~ (<<y, x>> \in R)
    <2> HIDE DEF I, R
    <2> QED BY <1>1, <1>3, WFMin
  <1>5. PICK m \in T : x = 0..m
    OBVIOUS
  <1>6. ASSUME NEW n \in T, n < m PROVE FALSE
    <2>1. 0..n \in I /\ 0..n \in SUBSET Nat /\ 0..m \in SUBSET Nat
      OBVIOUS
    <2>2. m \in 0..m /\ m \notin 0..n
      BY <1>6
    <2>3. 0..n \subseteq 0..m /\ 0..n # 0..m
      BY <1>6, <2>2
    <2>4. <<0..n, 0..m>> \in (SUBSET Nat) \X (SUBSET Nat)
      BY <2>1
    <2>5. <<0..n, 0..m>> \in R
      BY <2>3, <2>4 DEF StrictSubsetOrdering
    <2> QED BY <1>4, <1>5, <2>1, <2>5
  <1> QED BY <1>6

(* A power of two is larger than its exponent: a set of k elements has 2^k    *)
(* subsets, among them one for each element.                                  *)
LEMMA PowerOfTwo ==
  ASSUME NEW k \in Nat
  PROVE  2^k \in Nat /\ 2^k >= k
  <1> DEFINE S == 1..k
             f == [x \in S |-> {x}]
  <1>1. IsFiniteSet(S) /\ Cardinality(S) = k
    BY FS_Interval
  <1>2. IsFiniteSet(SUBSET S) /\ Cardinality(SUBSET S) = 2^k
    BY <1>1, FS_SUBSET
  <1>3. f \in Injection(S, SUBSET S)
    BY DEF Injection, IsInjective
  <1>4. Cardinality(S) <= Cardinality(SUBSET S)
    BY <1>2, <1>3, FS_Injection
  <1>5. Cardinality(SUBSET S) \in Nat
    BY <1>2, FS_CardinalityType
  <1> QED BY <1>1, <1>2, <1>4, <1>5

(* An array that is doubled often enough has room. *)
LEMMA DoubledHasRoom ==
  ASSUME NEW length \in Nat \ {0}, NEW need \in Nat
  PROVE  Doubled(length, need) \in Nat /\ Doubled(length, need) >= need
  <1> DEFINE T == {k \in Nat : length * 2^k >= need}
  <1>1. \A k \in Nat : 2^k \in Nat /\ length * 2^k \in Nat
    BY PowerOfTwo
  <1>2. need \in T
    <2>1. 2^need \in Nat /\ 2^need >= need
      BY PowerOfTwo
    <2>2. \A a \in Nat \ {0}, b \in Nat : a * b >= b
      OBVIOUS
    <2>3. length * 2^need >= 2^need
      BY <2>1, <2>2
    <2>4. length * 2^need >= need
      BY <1>1, <2>1, <2>3
    <2> QED BY <2>4
  <1>3. PICK m \in T : \A n \in T : m <= n
    <2>1. T \in SUBSET Nat /\ T # {}
      BY <1>2
    <2> HIDE DEF T
    <2> QED BY <2>1, LeastNat
  <1> DEFINE Q(k) == /\ length * 2^k >= need
                     /\ (k > 0 => length * 2^(k - 1) < need)
  <1>4. m \in 0..need /\ Q(m)
    <2>1. m \in 0..need
      BY <1>2, <1>3
    <2>2. ASSUME m > 0 PROVE length * 2^(m - 1) < need
      <3>1. m - 1 \in Nat /\ ~ (m <= m - 1)
        BY <1>3, <2>2
      <3>2. ~ (length * 2^(m - 1) >= need)
        BY <1>3, <3>1
      <3>3. length * 2^(m - 1) \in Nat
        BY <1>1, <3>1
      <3> QED BY <3>2, <3>3
    <2> QED BY <1>3, <2>1, <2>2
  <1> DEFINE k0 == CHOOSE k \in 0..need : Q(k)
  <1>5. k0 \in 0..need /\ Q(k0)
    <2> HIDE DEF Q
    <2> QED BY <1>4
  <1>6. Doubled(length, need) = length * 2^k0
    BY DEF Doubled
  <1>7. k0 \in Nat /\ length * 2^k0 >= need
    BY <1>5
  <1> HIDE DEF k0
  <1>8. length * 2^k0 \in Nat
    BY <1>1, <1>7
  <1> QED BY <1>6, <1>7, <1>8

-----------------------------------------------------------------------------
(* ---- the writers ---- *)

LEMMA ByteFacts ==
  /\ Byte \in Nat \ {0} /\ 0 \in Bytes /\ \A b \in Bytes : b \in Nat
  /\ \A n \in Nat : n % Byte \in Bytes /\ n \div Byte \in Nat
  <1>1. Byte \in Nat \ {0}
    BY WireAssumption
  <1>2. 0 \in Bytes /\ \A b \in Bytes : b \in Nat
    BY <1>1 DEF Bytes
  <1>3. ASSUME NEW n \in Nat PROVE n % Byte \in Bytes /\ n \div Byte \in Nat
    BY <1>1 DEF Bytes
  <1> QED BY <1>1, <1>2, <1>3

LEMMA Joined ==
  ASSUME NEW a \in Seq(Bytes), NEW b \in Seq(Bytes)
  PROVE  a \o b \in Seq(Bytes) /\ Len(a \o b) = Len(a) + Len(b)
  BY ConcatProperties

LEMMA Grouped ==
  ASSUME NEW a \in Seq(Bytes), NEW b \in Seq(Bytes), NEW c \in Seq(Bytes)
  PROVE  (a \o b) \o c = a \o (b \o c)
  BY ConcatAssociative

(* Two bytes, whatever the number. *)
LEMMA UShortType ==
  ASSUME NEW n \in Nat
  PROVE  UShort(n) \in Seq(Bytes) /\ Len(UShort(n)) = 2
  <1>1. n % Byte \in Bytes /\ (n \div Byte) % Byte \in Bytes
    BY ByteFacts
  <1> QED BY <1>1 DEF UShort

LEMMA UIntType ==
  ASSUME NEW n \in Nat
  PROVE  \E m \in Nat : /\ UInt(n) = UShort(n) \o UShort(m)
                        /\ UInt(n) \in Seq(Bytes) /\ Len(UInt(n)) = 4
  <1>1. \A N \in Nat \ {0} : n \div N \in Nat
    OBVIOUS
  <1>2. Byte * Byte \in Nat \ {0}
    BY ByteFacts
  <1>3. PICK m \in Nat : m = n \div (Byte * Byte)
    BY <1>1, <1>2
  <1>4. UInt(n) = UShort(n) \o UShort(m)
    BY <1>3 DEF UInt
  <1>5. UShort(n) \in Seq(Bytes) /\ Len(UShort(n)) = 2
    BY UShortType
  <1>6. UShort(m) \in Seq(Bytes) /\ Len(UShort(m)) = 2
    BY UShortType
  <1>7. UInt(n) \in Seq(Bytes) /\ Len(UInt(n)) = 4
    <2>1. PICK a \in Seq(Bytes) : a = UShort(n) /\ Len(a) = 2
      BY <1>5
    <2>2. PICK b \in Seq(Bytes) : b = UShort(m) /\ Len(b) = 2
      BY <1>6
    <2>3. a \o b \in Seq(Bytes) /\ Len(a \o b) = Len(a) + Len(b)
      BY Joined
    <2>4. UInt(n) = a \o b
      BY <1>4, <2>1, <2>2
    <2> QED BY <2>1, <2>2, <2>3, <2>4
  <1> QED BY <1>4, <1>7

(* A writer that has written the bytes p. *)
Wrote(w, p) ==
  /\ w.pos = Len(p)
  /\ w.buf \in Seq(Bytes \cup {Uninitialized})
  /\ Len(w.buf) >= Len(p) /\ Len(w.buf) >= 1
  /\ \A i \in 1..Len(p) : w.buf[i] = p[i]

(* What a writer sends is what was written, in order. *)
LEMMA ContentsAre ==
  ASSUME NEW w, NEW p \in Seq(Bytes), Wrote(w, p)
  PROVE  Contents(w) = p
  <1>1. PICK c : c = Contents(w)
    OBVIOUS
  <1>2. \A i \in 1..Len(p) : w.buf[i] \in Bytes /\ w.buf[i] = p[i]
    BY ElementOfSeq DEF Wrote
  <1>3. Len(p) \in Nat /\ c = SubSeq(w.buf, 1, Len(p))
    BY <1>1 DEF Contents, Wrote
  <1>4. c \in Seq(Bytes) /\ Len(c) = Len(p) /\ \A i \in 1..Len(p) : c[i] = w.buf[1 + i - 1]
    BY <1>2, <1>3, SubSeqProperties
  <1>5. \A i \in 1..Len(p) : c[i] = p[i]
    BY <1>2, <1>4
  <1> QED BY <1>1, <1>4, <1>5, SeqEqual

(* What is already written survives the doubling of the array. *)
LEMMA BufferKept ==
  ASSUME NEW w, NEW p \in Seq(Bytes), Wrote(w, p), NEW length \in Nat
  PROVE  LET buf == GetBuffer(w, length)
         IN /\ buf \in Seq(Bytes \cup {Uninitialized})
            /\ Len(buf) >= Len(p) + length /\ Len(buf) >= 1
            /\ \A i \in 1..Len(p) : buf[i] = p[i]
  <1> DEFINE need == w.pos + length
  <1>1. Len(p) \in Nat /\ w.pos = Len(p) /\ Len(w.buf) \in Nat \ {0} /\ need \in Nat
    BY DEF Wrote
  <1>2. CASE Len(w.buf) >= need
    <2>1. GetBuffer(w, length) = w.buf
      BY <1>2 DEF GetBuffer
    <2> QED BY <1>1, <1>2, <2>1 DEF Wrote
  <1>3. CASE ~ (Len(w.buf) >= need)
    <2>1. PICK D \in Nat : D = Doubled(Len(w.buf), need) /\ D >= need
      BY <1>1, DoubledHasRoom
    <2>2. GetBuffer(w, length) = [i \in 1..D |-> IF i <= w.pos THEN w.buf[i] ELSE Uninitialized]
      BY <1>3, <2>1 DEF GetBuffer
    <2>3. \A i \in 1..D : (IF i <= w.pos THEN w.buf[i] ELSE Uninitialized) \in Bytes \cup {Uninitialized}
      BY <1>1, ElementOfSeq DEF Wrote
    <2>4. GetBuffer(w, length) \in [1..D -> Bytes \cup {Uninitialized}]
      BY <2>2, <2>3
    <2>5. GetBuffer(w, length) \in Seq(Bytes \cup {Uninitialized}) /\ Len(GetBuffer(w, length)) = D
      BY <2>4
    <2>6. D >= Len(p) + length /\ D >= 1
      BY <1>1, <1>3, <2>1
    <2>7. \A i \in 1..Len(p) : GetBuffer(w, length)[i] = p[i]
      BY <1>1, <2>1, <2>2, <2>6 DEF Wrote
    <2> QED BY <2>5, <2>6, <2>7
  <1> QED BY <1>2, <1>3

LEMMA WriteMore ==
  ASSUME NEW w, NEW p \in Seq(Bytes), Wrote(w, p), NEW b \in Seq(Bytes)
  PROVE  Wrote(Write(w, b), p \o b)
  <1>1. Len(b) \in Nat /\ Len(p) \in Nat /\ w.pos = Len(p) /\ DOMAIN b = 1..Len(b)
    BY DEF Wrote
  <1>2. PICK buf : buf = GetBuffer(w, Len(b))
    OBVIOUS
  <1>3. /\ buf \in Seq(Bytes \cup {Uninitialized})
        /\ Len(buf) >= Len(p) + Len(b) /\ Len(buf) >= 1
        /\ \A i \in 1..Len(p) : buf[i] = p[i]
    BY <1>1, <1>2, BufferKept
  <1>4. PICK new : new = [i \in DOMAIN buf |-> IF i - w.pos \in DOMAIN b THEN b[i - w.pos] ELSE buf[i]]
    OBVIOUS
  <1>5. Write(w, b) = [buf |-> new, pos |-> w.pos + Len(b)]
    BY <1>2, <1>4 DEF Write
  <1>6. DOMAIN buf = 1..Len(buf) /\ Len(buf) \in Nat
    BY <1>3, LenProperties
  <1>7. \A i \in 1..Len(buf) : (IF i - w.pos \in DOMAIN b THEN b[i - w.pos] ELSE buf[i]) \in Bytes \cup {Uninitialized}
    BY <1>3, <1>1, ElementOfSeq
  <1>8. new \in [1..Len(buf) -> Bytes \cup {Uninitialized}]
    BY <1>4, <1>6, <1>7
  <1>9. new \in Seq(Bytes \cup {Uninitialized}) /\ Len(new) = Len(buf)
    BY <1>6, <1>8
  <1>10. /\ p \o b \in Seq(Bytes) /\ Len(p \o b) = Len(p) + Len(b)
         /\ \A i \in 1..Len(p) + Len(b) : (p \o b)[i] = IF i <= Len(p) THEN p[i] ELSE b[i - Len(p)]
    BY ConcatProperties
  <1>11. ASSUME NEW i \in 1..(Len(p) + Len(b)) PROVE new[i] = (p \o b)[i]
    <2>1. i \in DOMAIN buf
      BY <1>1, <1>3, <1>6
    <2>2. CASE i <= Len(p)
      BY <1>1, <1>3, <1>4, <1>10, <2>1, <2>2
    <2>3. CASE i > Len(p)
      BY <1>1, <1>3, <1>4, <1>10, <2>1, <2>3
    <2> QED BY <1>1, <2>2, <2>3
  <1> QED BY <1>1, <1>3, <1>5, <1>9, <1>10, <1>11 DEF Wrote

(* A text is written with its length before it. *)
Text(s) == UShort(Len(s)) \o s

LEMMA TextType ==
  ASSUME NEW s \in Seq(Bytes)
  PROVE  Text(s) \in Seq(Bytes) /\ Len(Text(s)) = 2 + Len(s)
  <1>1. PICK u \in Seq(Bytes) : u = UShort(Len(s)) /\ Len(u) = 2
    BY UShortType
  <1>2. u \o s \in Seq(Bytes) /\ Len(u \o s) = Len(u) + Len(s)
    BY Joined
  <1>3. Text(s) = u \o s
    BY <1>1 DEF Text
  <1> QED BY <1>1, <1>2, <1>3

LEMMA WriteText ==
  ASSUME NEW w, NEW p \in Seq(Bytes), Wrote(w, p), NEW s \in Seq(Bytes)
  PROVE  Wrote(WriteString(w, s), p \o Text(s))
  <1>1. PICK u \in Seq(Bytes) : u = UShort(Len(s))
    BY UShortType
  <1>2. p \o u \in Seq(Bytes) /\ Wrote(Write(w, u), p \o u)
    BY WriteMore
  <1>3. Wrote(Write(Write(w, u), s), (p \o u) \o s)
    BY <1>2, WriteMore
  <1>4. (p \o u) \o s = p \o (u \o s)
    BY ConcatAssociative
  <1> QED BY <1>1, <1>3, <1>4 DEF WriteString, Text

LEMMA WriteOpcode ==
  ASSUME NEW op \in Nat
  PROVE  Wrote(PacketWriter(op), UShort(op))
  <1>1. PICK e : e = [buf |-> [i \in 1..bufferLen |-> Uninitialized], pos |-> 0]
    OBVIOUS
  <1>2. bufferLen \in Nat \ {0}
    BY WireAssumption
  <1>3. <<>> \in Seq(Bytes) /\ Len(<<>>) = 0
    OBVIOUS
  <1>4. e.pos = 0 /\ e.buf \in [1..bufferLen -> Bytes \cup {Uninitialized}]
    BY <1>1
  <1>5. e.buf \in Seq(Bytes \cup {Uninitialized}) /\ Len(e.buf) = bufferLen
    BY <1>2, <1>4
  <1>6. Wrote(e, <<>>)
    BY <1>2, <1>3, <1>4, <1>5 DEF Wrote
  <1>7. UShort(op) \in Seq(Bytes)
    BY UShortType
  <1>8. Wrote(Write(e, UShort(op)), <<>> \o UShort(op))
    BY <1>3, <1>6, <1>7, WriteMore
  <1>9. <<>> \o UShort(op) = UShort(op)
    BY <1>7
  <1> QED BY <1>1, <1>8, <1>9 DEF PacketWriter

(* The bytes of the client's packets. *)
HelloBytes(f) == UShort(CS_HELLO) \o Text(f[1]) \o Text(f[2]) \o Text(f[3]) \o Text(f[4])

LEMMA HelloContents ==
  ASSUME NEW f \in [1..4 -> Seq(Bytes)]
  PROVE  /\ Contents(ClientHello(f)) = HelloBytes(f) /\ HelloBytes(f) \in Seq(Bytes)
         /\ Len(HelloBytes(f)) = 10 + Len(f[1]) + Len(f[2]) + Len(f[3]) + Len(f[4])
  <1>0. f[1] \in Seq(Bytes) /\ f[2] \in Seq(Bytes) /\ f[3] \in Seq(Bytes) /\ f[4] \in Seq(Bytes)
    OBVIOUS
  <1>1. PICK u \in Seq(Bytes) : u = UShort(CS_HELLO) /\ Len(u) = 2 /\ Wrote(PacketWriter(CS_HELLO), u)
    BY UShortType, WriteOpcode DEF CS_HELLO
  <1>2. PICK t1 \in Seq(Bytes) : t1 = Text(f[1]) /\ Len(t1) = 2 + Len(f[1])
    BY <1>0, TextType
  <1>3. PICK t2 \in Seq(Bytes) : t2 = Text(f[2]) /\ Len(t2) = 2 + Len(f[2])
    BY <1>0, TextType
  <1>4. PICK t3 \in Seq(Bytes) : t3 = Text(f[3]) /\ Len(t3) = 2 + Len(f[3])
    BY <1>0, TextType
  <1>5. PICK t4 \in Seq(Bytes) : t4 = Text(f[4]) /\ Len(t4) = 2 + Len(f[4])
    BY <1>0, TextType
  <1>6. PICK w1 : w1 = WriteString(PacketWriter(CS_HELLO), f[1]) /\ Wrote(w1, u \o t1)
    BY <1>0, <1>1, <1>2, WriteText
  <1>7. PICK p1 \in Seq(Bytes) : p1 = u \o t1 /\ Len(p1) = Len(u) + Len(t1)
    BY ConcatProperties
  <1>8. PICK w2 : w2 = WriteString(w1, f[2]) /\ Wrote(w2, p1 \o t2)
    BY <1>0, <1>3, <1>6, <1>7, WriteText
  <1>9. PICK p2 \in Seq(Bytes) : p2 = p1 \o t2 /\ Len(p2) = Len(p1) + Len(t2)
    BY ConcatProperties
  <1>10. PICK w3 : w3 = WriteString(w2, f[3]) /\ Wrote(w3, p2 \o t3)
    BY <1>0, <1>4, <1>8, <1>9, WriteText
  <1>11. PICK p3 \in Seq(Bytes) : p3 = p2 \o t3 /\ Len(p3) = Len(p2) + Len(t3)
    BY ConcatProperties
  <1>12. PICK w4 : w4 = WriteString(w3, f[4]) /\ Wrote(w4, p3 \o t4)
    BY <1>0, <1>5, <1>10, <1>11, WriteText
  <1>13. PICK p4 \in Seq(Bytes) : p4 = p3 \o t4 /\ Len(p4) = Len(p3) + Len(t4)
    BY ConcatProperties
  <1>14. Contents(w4) = p4
    BY <1>12, <1>13, ContentsAre
  <1>15. w4 = ClientHello(f)
    BY <1>6, <1>8, <1>10, <1>12 DEF ClientHello
  <1>16. p4 = HelloBytes(f)
    BY <1>1, <1>2, <1>3, <1>4, <1>5, <1>7, <1>9, <1>11, <1>13 DEF HelloBytes
  <1>17. Len(p4) = 10 + Len(f[1]) + Len(f[2]) + Len(f[3]) + Len(f[4])
    BY <1>0, <1>1, <1>2, <1>3, <1>4, <1>5, <1>7, <1>9, <1>11, <1>13
  <1> QED BY <1>14, <1>15, <1>16, <1>17

HeartbeatBytes(text) == UShort(CS_HEARTBEAT) \o Text(text)

LEMMA HeartbeatContents ==
  ASSUME NEW text \in Seq(Bytes)
  PROVE  /\ Contents(Heartbeat(text)) = HeartbeatBytes(text) /\ HeartbeatBytes(text) \in Seq(Bytes)
         /\ Len(HeartbeatBytes(text)) = 4 + Len(text)
  <1>1. PICK u \in Seq(Bytes) : u = UShort(CS_HEARTBEAT) /\ Len(u) = 2 /\ Wrote(PacketWriter(CS_HEARTBEAT), u)
    BY UShortType, WriteOpcode DEF CS_HEARTBEAT
  <1>2. PICK t \in Seq(Bytes) : t = Text(text) /\ Len(t) = 2 + Len(text)
    BY TextType
  <1>3. Wrote(Heartbeat(text), u \o t)
    BY <1>1, <1>2, WriteText DEF Heartbeat
  <1>4. PICK p \in Seq(Bytes) : p = u \o t /\ Len(p) = Len(u) + Len(t)
    BY ConcatProperties
  <1>5. Contents(Heartbeat(text)) = p
    BY <1>3, <1>4, ContentsAre
  <1>6. Len(p) = 4 + Len(text)
    BY <1>1, <1>2, <1>4
  <1> QED BY <1>1, <1>2, <1>4, <1>5, <1>6 DEF HeartbeatBytes

LEMMA MemoryContents ==
  ASSUME NEW bytes \in Seq(Bytes)
  PROVE  \E p \in Seq(Bytes) : Contents(MemoryBytes(bytes)) = p
  <1>1. PICK u \in Seq(Bytes) : u = UShort(CS_QUERY_MEMORY) /\ Wrote(PacketWriter(CS_QUERY_MEMORY), u)
    BY UShortType, WriteOpcode DEF CS_QUERY_MEMORY
  <1>2. PICK t \in Seq(Bytes) : t = Text(bytes)
    BY TextType
  <1>3. Wrote(MemoryBytes(bytes), u \o t)
    BY <1>1, <1>2, WriteText DEF MemoryBytes
  <1>4. PICK p \in Seq(Bytes) : p = u \o t
    BY ConcatProperties
  <1> QED BY <1>3, <1>4, ContentsAre

(* A writer that has written x and n bytes more. *)
WroteMore(w, x, n) == \E z \in Seq(Bytes) : Wrote(w, x \o z) /\ Len(z) = n

(* Its packet: x first, and length bytes in all. *)
Begins(p, x, length) == \E z \in Seq(Bytes) : p = x \o z /\ Len(x) + Len(z) = length

(* What was written first stays first. *)
LEMMA WriteBehind ==
  ASSUME NEW w, NEW x \in Seq(Bytes), NEW n \in Nat, WroteMore(w, x, n), NEW b \in Seq(Bytes)
  PROVE  WroteMore(Write(w, b), x, n + Len(b))
  <1>0. PICK y \in Seq(Bytes) : Wrote(w, x \o y) /\ Len(y) = n
    BY DEF WroteMore
  <1>1. (x \o y) \o b = x \o (y \o b)
    BY Grouped
  <1>2. x \o y \in Seq(Bytes)
    BY Joined
  <1>3. y \o b \in Seq(Bytes) /\ Len(y \o b) = Len(y) + Len(b)
    BY Joined
  <1>4. Wrote(Write(w, b), (x \o y) \o b)
    BY <1>0, <1>2, WriteMore
  <1>5. Wrote(Write(w, b), x \o (y \o b))
    BY <1>1, <1>4, Zenon
  <1>6. Len(y \o b) = n + Len(b)
    BY <1>0, <1>3
  <1> QED BY <1>3, <1>5, <1>6, Zenon DEF WroteMore

LEMMA ContentsBegin ==
  ASSUME NEW w, NEW x \in Seq(Bytes), NEW n \in Nat, WroteMore(w, x, n)
  PROVE  Begins(Contents(w), x, Len(x) + n)
  <1>1. PICK y \in Seq(Bytes) : Wrote(w, x \o y) /\ Len(y) = n
    BY DEF WroteMore
  <1>2. x \o y \in Seq(Bytes)
    BY Joined
  <1>3. Contents(w) = x \o y
    BY <1>1, <1>2, ContentsAre
  <1> QED BY <1>1, <1>3, Zenon DEF Begins

(* A flag is in the first four bytes of its packet, with data or none.  *)
FlagBytes(flag) == UShort(CS_FLAGGED_CHEATER) \o UShort(flag)

LEMMA FlagWritten ==
  ASSUME NEW flag \in Nat
  PROVE  /\ FlagBytes(flag) \in Seq(Bytes) /\ Len(FlagBytes(flag)) = 4
         /\ WroteMore(DetectedCheater(flag), FlagBytes(flag), 2)
  <1>1. PICK u \in Seq(Bytes) : /\ u = UShort(CS_FLAGGED_CHEATER) /\ Len(u) = 2
                                /\ Wrote(PacketWriter(CS_FLAGGED_CHEATER), u)
    BY UShortType, WriteOpcode DEF CS_FLAGGED_CHEATER
  <1>2. PICK m \in Nat : UInt(flag) = UShort(flag) \o UShort(m) /\ UInt(flag) \in Seq(Bytes)
    BY UIntType
  <1>3. PICK f \in Seq(Bytes) : f = UShort(flag) /\ Len(f) = 2
    BY UShortType
  <1>4. PICK z \in Seq(Bytes) : z = UShort(m) /\ Len(z) = 2
    BY UShortType
  <1>5. Wrote(DetectedCheater(flag), u \o UInt(flag))
    BY <1>1, <1>2, WriteMore DEF DetectedCheater
  <1>6. (u \o f) \o z = u \o (f \o z)
    BY Grouped
  <1>7. u \o f \in Seq(Bytes) /\ Len(u \o f) = Len(u) + Len(f)
    BY Joined
  <1>8. Len(u \o f) = 4
    BY <1>1, <1>3, <1>7
  <1>9. FlagBytes(flag) = u \o f
    BY <1>1, <1>3 DEF FlagBytes
  <1>10. Wrote(DetectedCheater(flag), FlagBytes(flag) \o z)
    BY <1>2, <1>3, <1>4, <1>5, <1>6, <1>9, Zenon
  <1>11. WroteMore(DetectedCheater(flag), FlagBytes(flag), 2)
    BY <1>4, <1>10, Zenon DEF WroteMore
  <1> QED BY <1>7, <1>8, <1>9, <1>11, Zenon

LEMMA FlagContents ==
  ASSUME NEW flag \in Nat
  PROVE  Begins(Contents(DetectedCheater(flag)), FlagBytes(flag), 6)
  <1>1. PICK x \in Seq(Bytes) : x = FlagBytes(flag) /\ Len(x) = 4
    BY FlagWritten
  <1>2. WroteMore(DetectedCheater(flag), x, 2)
    BY <1>1, FlagWritten
  <1>3. Begins(Contents(DetectedCheater(flag)), x, Len(x) + 2)
    BY <1>2, ContentsBegin
  <1> QED BY <1>1, <1>3

LEMMA FlagWithContents ==
  ASSUME NEW flag \in Nat, NEW data \in Seq(Bytes)
  PROVE  Begins(Contents(DetectedCheaterWith(flag, data)), FlagBytes(flag), 12 + Len(data))
  <1>1. PICK x \in Seq(Bytes) : x = FlagBytes(flag) /\ Len(x) = 4
    BY FlagWritten
  <1>2. PICK one \in Seq(Bytes) : one = UInt(1) /\ Len(one) = 4
    BY UIntType
  <1>3. PICK n \in Seq(Bytes) : n = UShort(Len(data)) /\ Len(n) = 2
    BY UShortType
  <1>4. PICK w0 : w0 = DetectedCheater(flag) /\ WroteMore(w0, x, 2)
    BY <1>1, FlagWritten
  <1>5. PICK w1 : w1 = Write(w0, one) /\ WroteMore(w1, x, 6)
    <2>1. WroteMore(Write(w0, one), x, 2 + Len(one))
      BY <1>4, WriteBehind
    <2>2. Len(one) = 4
      BY <1>2, Zenon
    <2>3. 2 + Len(one) = 6
      BY <2>2
    <2> QED BY <2>1, <2>3, Zenon
  <1>6. PICK w2 : w2 = Write(w1, n) /\ WroteMore(w2, x, 8)
    <2>1. WroteMore(Write(w1, n), x, 6 + Len(n))
      BY <1>5, WriteBehind
    <2>2. 6 + Len(n) = 8
      BY <1>3
    <2> QED BY <2>1, <2>2, Zenon
  <1>7. PICK w3 : w3 = Write(w2, data) /\ WroteMore(w3, x, 8 + Len(data))
    BY <1>6, WriteBehind
  <1>8. w3 = DetectedCheaterWith(flag, data)
    BY <1>2, <1>3, <1>4, <1>5, <1>6, <1>7 DEF DetectedCheaterWith, DetectedCheater, WriteString
  <1>9. Begins(Contents(w3), x, Len(x) + (8 + Len(data)))
    BY <1>7, ContentsBegin
  <1>10. Len(x) + (8 + Len(data)) = 12 + Len(data)
    BY <1>1
  <1> QED BY <1>1, <1>8, <1>9, <1>10

LEMMA GoodbyeContents ==
  ASSUME NEW reason \in Nat
  PROVE  Begins(Contents(ClientGoodbye(reason)), UShort(CS_GOODBYE), 6)
  <1>1. PICK u \in Seq(Bytes) : u = UShort(CS_GOODBYE) /\ Wrote(PacketWriter(CS_GOODBYE), u) /\ Len(u) = 2
    BY UShortType, WriteOpcode DEF CS_GOODBYE
  <1>2. PICK post \in Seq(Bytes) : post = UInt(reason) /\ Len(post) = 4
    BY UIntType
  <1>3. Wrote(ClientGoodbye(reason), u \o post)
    BY <1>1, <1>2, WriteMore DEF ClientGoodbye
  <1>4. WroteMore(ClientGoodbye(reason), u, 4)
    BY <1>2, <1>3, Zenon DEF WroteMore
  <1>5. Begins(Contents(ClientGoodbye(reason)), u, Len(u) + 4)
    BY <1>4, ContentsBegin
  <1> QED BY <1>1, <1>5

(* The server's packet is what was written, and zeros up to its capacity. *)
LEMMA PaddedIs ==
  ASSUME NEW b \in Seq(Bytes)
  PROVE  Begins(Padded(b), b, Capacity(Len(b)))
  <1>0. /\ DefaultBufferSize \in Nat \ {0} /\ Expanded \in Nat \ {0}
        /\ Len(b) \in Nat /\ DOMAIN b = 1..Len(b)
    BY WireAssumption
  <1>1. PICK n : n = Capacity(Len(b))
    OBVIOUS
  <1>2. n \in Nat /\ n >= Len(b)
    <2>1. Doubled(Expanded, Len(b)) \in Nat /\ Doubled(Expanded, Len(b)) >= Len(b)
      BY <1>0, DoubledHasRoom
    <2> QED BY <1>0, <1>1, <2>1 DEF Capacity
  <1>3. PICK post : post = [i \in 1..(n - Len(b)) |-> 0]
    OBVIOUS
  <1>4. post \in [1..(n - Len(b)) -> Bytes]
    BY <1>3, ByteFacts
  <1>5. n - Len(b) \in Nat
    BY <1>0, <1>2
  <1>6. post \in Seq(Bytes) /\ Len(post) = n - Len(b)
    BY <1>4, <1>5
  <1>7. PICK q : q = Padded(b)
    OBVIOUS
  <1>8. q = [i \in 1..n |-> IF i \in 1..Len(b) THEN b[i] ELSE 0]
    BY <1>0, <1>1, <1>7 DEF Padded
  <1>9. \A i \in 1..n : (IF i \in 1..Len(b) THEN b[i] ELSE 0) \in Bytes
    BY <1>0, ByteFacts, ElementOfSeq
  <1>10. q \in [1..n -> Bytes]
    BY <1>8, <1>9
  <1>11. q \in Seq(Bytes) /\ Len(q) = n
    BY <1>2, <1>10
  <1>12. /\ b \o post \in Seq(Bytes) /\ Len(b \o post) = Len(b) + Len(post)
         /\ \A i \in 1..Len(b) + Len(post) : (b \o post)[i] = IF i <= Len(b) THEN b[i] ELSE post[i - Len(b)]
    BY <1>6, ConcatProperties
  <1>13. Len(b \o post) = n
    BY <1>0, <1>2, <1>6, <1>12
  <1>14. ASSUME NEW i \in 1..n PROVE q[i] = (b \o post)[i]
    <2>1. CASE i <= Len(b)
      <3>1. q[i] = b[i]
        BY <1>0, <1>8, <2>1
      <3>2. (b \o post)[i] = b[i]
        BY <1>12, <1>13, <2>1
      <3> QED BY <3>1, <3>2
    <2>2. CASE i > Len(b)
      <3>1. q[i] = 0
        BY <1>0, <1>8, <2>2
      <3>2. i - Len(b) \in 1..(n - Len(b))
        BY <1>0, <1>2, <2>2
      <3>3. post[i - Len(b)] = 0
        BY <1>3, <3>2
      <3>4. (b \o post)[i] = post[i - Len(b)]
        BY <1>0, <1>6, <1>12, <1>13, <2>2
      <3> QED BY <3>1, <3>3, <3>4
    <2>3. i <= Len(b) \/ i > Len(b)
      BY <1>0, <1>2
    <2> QED BY <2>1, <2>2, <2>3
  <1>15. q = b \o post
    BY <1>11, <1>12, <1>13, <1>14, SeqEqual
  <1>16. Len(b) + Len(post) = n
    BY <1>0, <1>2, <1>6
  <1> QED BY <1>1, <1>6, <1>7, <1>15, <1>16 DEF Begins

-----------------------------------------------------------------------------
(* ---- types ---- *)

(* What a packet may say, and a byte on its way. *)
Said == [op : 0..6, arg : {0, 1, versionNum} \cup Flags \cup Hellos \cup Seq(Bytes)]
Cell == [byte : Bytes, says : Said]

TypeInv == TypeOK /\ up \in Seq(Cell) /\ down \in Seq(Cell)

LEMMA SaidIs ==
  /\ Nothing \in Said /\ Msg(CS_GOODBYE, 1) \in Said /\ Msg(SC_HELLO, versionNum) \in Said
  /\ \A f \in Hellos : Msg(CS_HELLO, f) \in Said
  /\ \A flag \in Flags : Msg(CS_FLAGGED_CHEATER, flag) \in Said
  /\ \A c \in Seq(Bytes) : /\ Msg(CS_HEARTBEAT, c) \in Said /\ Msg(SC_HEARTBEAT, c) \in Said
                          /\ Msg(CS_QUERY_MEMORY, c) \in Said
  BY DEF Said, Msg, Nothing, CS_HELLO, CS_GOODBYE, CS_HEARTBEAT, CS_FLAGGED_CHEATER, CS_QUERY_MEMORY,
         SC_HELLO, SC_HEARTBEAT

LEMMA CiphersOfSeq ==
  ASSUME NEW b \in Seq(Bytes)
  PROVE  /\ CipherData(b) \in Seq(Bytes) /\ Len(CipherData(b)) = Len(b)
         /\ Cipher(b) \in Seq(Bytes) /\ Len(Cipher(b)) = Len(b)
         /\ Cipher(CipherData(b)) = b /\ CipherData(Cipher(b)) = b
  <1>1. Len(b) \in Nat /\ b \in [1..Len(b) -> Bytes]
    BY LenProperties
  <1>2. CipherData(b) \in [1..Len(b) -> Bytes] /\ Cipher(b) \in [1..Len(b) -> Bytes]
    BY <1>1, CipherTypes
  <1>3. \A c \in [1..Len(b) -> Bytes] : c \in Seq(Bytes) /\ Len(c) = Len(b)
    BY <1>1
  <1>4. Cipher(CipherData(b)) = b
    BY <1>1, ServerReadsClient
  <1>5. CipherData(Cipher(b)) = b
    BY <1>1, ClientReadsServer
  <1> QED BY <1>2, <1>3, <1>4, <1>5

LEMMA OnWireIs ==
  ASSUME NEW b \in Seq(Bytes), NEW m \in Said
  PROVE  /\ OnWire(b, m) \in Seq(Cell) /\ Len(OnWire(b, m)) = Len(b)
         /\ \A i \in 1..Len(b) : OnWire(b, m)[i] = [byte |-> b[i], says |-> IF i = 1 THEN m ELSE Nothing]
  <1>1. DOMAIN b = 1..Len(b) /\ Len(b) \in Nat
    BY LenProperties
  <1>2. \A i \in 1..Len(b) : b[i] \in Bytes
    BY ElementOfSeq
  <1>3. \A i \in 1..Len(b) : [byte |-> b[i], says |-> IF i = 1 THEN m ELSE Nothing] \in Cell
    BY <1>2, SaidIs DEF Cell
  <1>4. OnWire(b, m) = [i \in 1..Len(b) |-> [byte |-> b[i], says |-> IF i = 1 THEN m ELSE Nothing]]
    BY <1>1 DEF OnWire
  <1>5. OnWire(b, m) \in [1..Len(b) -> Cell]
    BY <1>3, <1>4
  <1>6. OnWire(b, m) \in Seq(Cell) /\ Len(OnWire(b, m)) = Len(b)
    BY <1>1, <1>5
  <1> QED BY <1>4, <1>6

(* What is sent goes to the end of the stream, or nowhere. *)
LEMMA SendDataIs ==
  ASSUME NEW w, NEW p \in Seq(Bytes), Contents(w) = p, NEW m \in Said, SendData(w, m)
  PROVE  /\ up' = IF server \in {"new", "open"} THEN up \o OnWire(CipherData(p), m) ELSE up
         /\ up \in Seq(Cell) => up' \in Seq(Cell)
  <1>1. up' = IF server \in {"new", "open"} THEN up \o OnWire(CipherData(p), m) ELSE up
    BY DEF SendData
  <1>2. PICK k \in Seq(Cell) : k = OnWire(CipherData(p), m)
    BY CiphersOfSeq, OnWireIs
  <1>3. ASSUME up \in Seq(Cell) PROVE up \o k \in Seq(Cell)
    BY <1>3, ConcatProperties
  <1> QED BY <1>1, <1>2, <1>3

LEMMA PaddedType ==
  ASSUME NEW b \in Seq(Bytes)
  PROVE  Padded(b) \in Seq(Bytes) /\ Len(Padded(b)) = Capacity(Len(b))
  <1>1. PICK z \in Seq(Bytes) : Padded(b) = b \o z /\ Len(b) + Len(z) = Capacity(Len(b))
    BY PaddedIs DEF Begins
  <1>2. b \o z \in Seq(Bytes) /\ Len(b \o z) = Len(b) + Len(z)
    BY Joined
  <1> QED BY <1>1, <1>2

LEMMA SendBytesIs ==
  ASSUME NEW b \in Seq(Bytes), NEW m \in Said, SendBytes(b, m)
  PROVE  /\ down' = IF client = "open" THEN down \o OnWire(Cipher(Padded(b)), m) ELSE down
         /\ down \in Seq(Cell) => down' \in Seq(Cell)
  <1>1. down' = IF client = "open" THEN down \o OnWire(Cipher(Padded(b)), m) ELSE down
    BY DEF SendBytes
  <1>2. PICK q \in Seq(Bytes) : q = Padded(b)
    BY PaddedType
  <1>3. PICK k \in Seq(Cell) : k = OnWire(Cipher(Padded(b)), m)
    BY <1>2, CiphersOfSeq, OnWireIs
  <1>4. ASSUME down \in Seq(Cell) PROVE down \o k \in Seq(Cell)
    BY <1>4, ConcatProperties
  <1> QED BY <1>1, <1>3, <1>4

(* What a read brings, and what it leaves. *)
LEMMA ReadIs ==
  ASSUME NEW s \in Seq(Cell), NEW room \in Nat, NEW n \in Reads(s, room)
  PROVE  /\ n \in 1..Len(s) /\ n <= room
         /\ Data(s, n) \in Seq(Bytes) /\ Len(Data(s, n)) = n
         /\ \A i \in 1..n : Data(s, n)[i] = s[i].byte
         /\ Rest(s, n) \in Seq(Cell) /\ Len(Rest(s, n)) = Len(s) - n
         /\ \A i \in 1..(Len(s) - n) : Rest(s, n)[i] = s[n + i]
         /\ s[1] \in Cell
  <1>1. n \in 1..Len(s) /\ n <= room /\ Len(s) \in Nat
    BY LenProperties DEF Reads
  <1>2. \A i \in 1..Len(s) : s[i] \in Cell
    BY ElementOfSeq
  <1>3. \A i \in 1..n : s[i].byte \in Bytes
    BY <1>1, <1>2 DEF Cell
  <1>4. Data(s, n) = [i \in 1..n |-> s[i].byte]
    BY DEF Data
  <1>5. Data(s, n) \in [1..n -> Bytes]
    BY <1>3, <1>4
  <1>6. Data(s, n) \in Seq(Bytes) /\ Len(Data(s, n)) = n
    BY <1>1, <1>5
  <1>7. PICK r : r = SubSeq(s, n + 1, Len(s))
    OBVIOUS
  <1>8. \A i \in (n + 1)..Len(s) : s[i] \in Cell
    BY <1>1, <1>2
  <1>9. /\ r \in Seq(Cell) /\ Len(r) = IF n + 1 <= Len(s) THEN Len(s) - (n + 1) + 1 ELSE 0
        /\ \A i \in 1..(Len(s) - (n + 1) + 1) : r[i] = s[(n + 1) + i - 1]
    BY <1>1, <1>7, <1>8, SubSeqProperties
  <1>10. Len(r) = Len(s) - n
    BY <1>1, <1>9
  <1>11. \A i \in 1..(Len(s) - n) : r[i] = s[n + i]
    BY <1>1, <1>9
  <1>12. r = Rest(s, n)
    BY <1>7 DEF Rest
  <1>13. s[1] \in Cell
    BY <1>1, <1>2
  <1> QED BY <1>1, <1>4, <1>6, <1>9, <1>10, <1>11, <1>12, <1>13

(* A string that is where its length says it is. *)
LEMMA StringType ==
  ASSUME NEW b \in Seq(Bytes), NEW at \in Nat \ {0}, Readable(b, at)
  PROVE  StringAt(b, at) \in Seq(Bytes) /\ After(b, at) \in Nat \ {0}
  <1>1. at + 1 <= Len(b) /\ Len(b) \in Nat
    BY LenProperties DEF Readable
  <1>2. b[at] \in Nat /\ b[at + 1] \in Nat
    <2>1. at \in 1..Len(b) /\ at + 1 \in 1..Len(b)
      BY <1>1
    <2>2. b[at] \in Bytes /\ b[at + 1] \in Bytes
      BY <2>1, ElementOfSeq
    <2> QED BY <2>2, ByteFacts
  <1>3. PICK n \in Nat : n = Short(b, at)
    <2>0. Byte \in Nat
      BY ByteFacts
    <2>1. \A x, y \in Nat : x + Byte * y \in Nat
      BY <2>0
    <2> QED BY <1>2, <2>1 DEF Short
  <1>4. at + 2 + n <= Len(b) + 1
    BY <1>3 DEF Readable, After
  <1>5. \A i \in (at + 2)..(at + 1 + n) : b[i] \in Bytes
    BY <1>1, <1>3, <1>4, ElementOfSeq
  <1>6. SubSeq(b, at + 2, at + 1 + n) \in Seq(Bytes)
    BY <1>5, SubSeqProperties
  <1> QED BY <1>3, <1>6 DEF StringAt, After

LEMMA TransformerByte ==
  ASSUME NEW b \in Bytes
  PROVE  Transformer[b] \in Bytes /\ Transformer[Transformer[b]] = b
  BY WireAssumption

Answer(cookie) == [i \in 1..Len(cookie) |-> Transformer[cookie[i]]]

LEMMA HeartbeatMade ==
  ASSUME NEW c \in Seq(Bytes), NEW tail \in Seq(Bytes)
  PROVE  /\ Answer(c) \in Seq(Bytes) /\ Len(Answer(c)) = Len(c)
         /\ MakeHeartbeat(c, tail) = Answer(c) \o tail /\ MakeHeartbeat(c, <<>>) = Answer(c)
         /\ MakeHeartbeat(c, tail) \in Seq(Bytes) /\ Len(MakeHeartbeat(c, tail)) = Len(c) + Len(tail)
  <1>1. Len(c) \in Nat /\ DOMAIN c = 1..Len(c)
    BY LenProperties
  <1>2. \A i \in 1..Len(c) : Transformer[c[i]] \in Bytes
    BY ElementOfSeq, TransformerByte
  <1>3. PICK a : a = Answer(c)
    OBVIOUS
  <1>4. a \in [1..Len(c) -> Bytes]
    BY <1>2, <1>3 DEF Answer
  <1>5. a \in Seq(Bytes) /\ Len(a) = Len(c)
    BY <1>1, <1>4
  <1>6. MakeHeartbeat(c, tail) = a \o tail /\ MakeHeartbeat(c, <<>>) = a \o <<>>
    BY <1>1, <1>3 DEF MakeHeartbeat, Answer
  <1>7. a \o tail \in Seq(Bytes) /\ Len(a \o tail) = Len(a) + Len(tail)
    BY <1>5, Joined
  <1>8. a \o <<>> = a
    BY <1>5, ConcatEmptySeq
  <1> QED BY <1>3, <1>5, <1>6, <1>7, <1>8

LEMMA TailType ==
  ASSUME NEW tail \in Tails PROVE tail \in Seq(Bytes)
  <1>1. tail \in Seq(Bytes \ {0})
    BY WireAssumption
  <1> QED BY <1>1

LEMMA CookieType ==
  ASSUME NEW c \in Cookies
  PROVE  c \in Seq(Bytes) /\ Len(c) = CookieSize
  <1>1. c \in [1..CookieSize -> Bytes] /\ CookieSize \in Nat
    BY WireAssumption
  <1> QED BY <1>1

(* A part of what was received. *)
LEMMA PartType ==
  ASSUME NEW b \in Seq(Bytes), Len(b) >= 4 + CookieSize
  PROVE  SubSeq(b, 5, 4 + CookieSize) \in Seq(Bytes) /\ Len(SubSeq(b, 5, 4 + CookieSize)) = CookieSize
  <1>1. CookieSize \in Nat \ {0} /\ Len(b) \in Nat
    BY WireAssumption, LenProperties
  <1>2. \A i \in 5..(4 + CookieSize) : b[i] \in Bytes
    BY <1>1, ElementOfSeq
  <1>3. PICK c : c = SubSeq(b, 5, 4 + CookieSize)
    OBVIOUS
  <1>4. c \in Seq(Bytes) /\ Len(c) = IF 5 <= 4 + CookieSize THEN 4 + CookieSize - 5 + 1 ELSE 0
    BY <1>1, <1>2, <1>3, SubSeqProperties
  <1>5. Len(c) = CookieSize
    BY <1>1, <1>4
  <1> QED BY <1>3, <1>4, <1>5

(* What a read leaves in the server's buffer: what it brought, and behind it   *)
(* what was there before.                                                     *)
LEMMA OverwriteIs ==
  ASSUME NEW b \in [1..ServerBuffer -> Bytes], NEW d \in Seq(Bytes), Len(d) <= ServerBuffer
  PROVE  /\ Overwrite(b, d) \in [1..ServerBuffer -> Bytes] /\ Overwrite(b, d) \in Seq(Bytes)
         /\ Len(Overwrite(b, d)) = ServerBuffer
         /\ \A i \in 1..Len(d) : Overwrite(b, d)[i] = d[i]
  <1>1. ServerBuffer \in Nat /\ Len(d) \in Nat
    BY WireAssumption, LenProperties
  <1>2. Len(b) = ServerBuffer
    BY <1>1
  <1>3. \A i \in (Len(d) + 1)..ServerBuffer : b[i] \in Bytes
    BY <1>1
  <1>4. PICK r : r = SubSeq(b, Len(d) + 1, Len(b))
    OBVIOUS
  <1>5. r \in Seq(Bytes) /\ Len(r) = IF Len(d) + 1 <= ServerBuffer THEN ServerBuffer - (Len(d) + 1) + 1 ELSE 0
    BY <1>1, <1>2, <1>3, <1>4, SubSeqProperties
  <1>6. Len(d) + Len(r) = ServerBuffer
    BY <1>1, <1>5
  <1>7. PICK o : o = d \o r
    OBVIOUS
  <1>8. /\ o \in Seq(Bytes) /\ Len(o) = Len(d) + Len(r)
        /\ \A i \in 1..Len(d) + Len(r) : o[i] = IF i <= Len(d) THEN d[i] ELSE r[i - Len(d)]
    BY <1>5, <1>7, ConcatProperties
  <1>9. Len(o) = ServerBuffer
    BY <1>6, <1>8
  <1>10. o \in [1..ServerBuffer -> Bytes]
    BY <1>8, <1>9, LenProperties
  <1>11. \A i \in 1..Len(d) : o[i] = d[i]
    BY <1>1, <1>6, <1>8
  <1>12. o = Overwrite(b, d)
    BY <1>4, <1>7 DEF Overwrite
  <1> QED BY <1>8, <1>9, <1>10, <1>11, <1>12

LEMMA BytesOnTheWay ==
  ASSUME NEW s \in Seq(Cell)
  PROVE  \A i \in DOMAIN s : s[i].byte \in Bytes
  <1>1. \A i \in DOMAIN s : s[i] \in Cell
    BY LenProperties, ElementOfSeq
  <1> QED BY <1>1 DEF Cell

LEMMA TypeInit == Init => TypeInv
  <1> SUFFICES ASSUME Init PROVE TypeInv
    OBVIOUS
  <1>1. up \in Seq(Cell) /\ down \in Seq(Cell)
    BY DEF Init
  <1>2. buffer \in [1..ServerBuffer -> Bytes]
    BY ByteFacts DEF Init
  <1>3. info \in [1..4 -> Seq(Bytes)]
    BY DEF Init
  <1>4. /\ heartbeat_responses \in Seq(Cookies) /\ current_heartbeat_count \in 0..Len(heartbeat_responses)
    BY DEF Init
  <1>5. flagsSent \in 0..MaxFlags
    BY WireAssumption DEF Init
  <1>6. /\ \A i \in DOMAIN up : up[i].byte \in Bytes
        /\ \A i \in DOMAIN down : down[i].byte \in Bytes
    BY <1>1, BytesOnTheWay
  <1> QED BY <1>1, <1>2, <1>3, <1>4, <1>5, <1>6 DEF Init, TypeInv, TypeOK

(* The client's steps leave the server's state alone, and the server's the     *)
(* client's.                                                                  *)
LEMMA ClientTypes ==
  ASSUME TypeInv, UNCHANGED <<split, serverVars>>, up' \in Seq(Cell), down' \in Seq(Cell),
         client' \in {"new", "open", "left", "terminated"}, handshake' \in BOOLEAN,
         flagsSent' \in 0..MaxFlags
  PROVE  TypeInv'
  <1>1. /\ \A i \in DOMAIN up' : up'[i].byte \in Bytes
        /\ \A i \in DOMAIN down' : down'[i].byte \in Bytes
    BY BytesOnTheWay
  <1>2. /\ split' = split /\ server' = server /\ buffer' = buffer /\ info' = info /\ due' = due
        /\ heartbeat_responses' = heartbeat_responses
        /\ current_heartbeat_count' = current_heartbeat_count
    BY DEF serverVars
  <1>3. TypeOK'
    BY <1>1, <1>2 DEF TypeInv, TypeOK
  <1> QED BY <1>3 DEF TypeInv

LEMMA ServerTypes ==
  ASSUME TypeInv, UNCHANGED <<split, clientVars>>, up' \in Seq(Cell), down' \in Seq(Cell),
         server' \in {"new", "open", "closed", "dropped", "PacketException", "IndexOutOfRange", "KeyNotFound"},
         buffer' \in [1..ServerBuffer -> Bytes], info' \in [1..4 -> Seq(Bytes)], due' \in BOOLEAN,
         heartbeat_responses' \in Seq(Cookies),
         current_heartbeat_count' \in 0..Len(heartbeat_responses')
  PROVE  TypeInv'
  <1>1. /\ \A i \in DOMAIN up' : up'[i].byte \in Bytes
        /\ \A i \in DOMAIN down' : down'[i].byte \in Bytes
    BY BytesOnTheWay
  <1>2. split' = split /\ client' = client /\ handshake' = handshake /\ flagsSent' = flagsSent
    BY DEF clientVars
  <1>3. TypeOK'
    BY <1>1, <1>2 DEF TypeInv, TypeOK
  <1> QED BY <1>3 DEF TypeInv

LEMMA HelloSent ==
  ASSUME NEW f \in Hellos, SendData(ClientHello(f), Msg(CS_HELLO, f))
  PROVE  /\ up' = IF server \in {"new", "open"}
                  THEN up \o OnWire(CipherData(HelloBytes(f)), Msg(CS_HELLO, f)) ELSE up
         /\ up \in Seq(Cell) => up' \in Seq(Cell)
  <1>1. f \in [1..4 -> Seq(Bytes)]
    BY WireAssumption
  <1>2. HelloBytes(f) \in Seq(Bytes) /\ Contents(ClientHello(f)) = HelloBytes(f)
    BY <1>1, HelloContents
  <1>3. Msg(CS_HELLO, f) \in Said
    BY SaidIs
  <1> QED BY <1>2, <1>3, SendDataIs

LEMMA AnswerSent ==
  ASSUME NEW c \in Seq(Bytes), NEW tail \in Tails,
         SendData(Heartbeat(MakeHeartbeat(c, tail)), Msg(CS_HEARTBEAT, MakeHeartbeat(c, <<>>)))
  PROVE  /\ up' = IF server \in {"new", "open"}
                  THEN up \o OnWire(CipherData(HeartbeatBytes(MakeHeartbeat(c, tail))),
                                    Msg(CS_HEARTBEAT, MakeHeartbeat(c, <<>>)))
                  ELSE up
         /\ up \in Seq(Cell) => up' \in Seq(Cell)
  <1>1. tail \in Seq(Bytes) /\ <<>> \in Seq(Bytes)
    BY TailType
  <1>2. PICK h \in Seq(Bytes) : h = MakeHeartbeat(c, tail)
    BY <1>1, HeartbeatMade
  <1>3. MakeHeartbeat(c, <<>>) \in Seq(Bytes)
    BY <1>1, HeartbeatMade
  <1>4. HeartbeatBytes(h) \in Seq(Bytes) /\ Contents(Heartbeat(h)) = HeartbeatBytes(h)
    BY HeartbeatContents
  <1>5. Msg(CS_HEARTBEAT, MakeHeartbeat(c, <<>>)) \in Said
    BY <1>3, SaidIs
  <1> QED BY <1>2, <1>4, <1>5, SendDataIs

LEMMA MemorySent ==
  ASSUME NEW bytes \in Tails, SendData(MemoryBytes(bytes), Msg(CS_QUERY_MEMORY, bytes)), up \in Seq(Cell)
  PROVE  up' \in Seq(Cell)
  <1>1. bytes \in Seq(Bytes)
    BY TailType
  <1>2. Msg(CS_QUERY_MEMORY, bytes) \in Said
    BY <1>1, SaidIs
  <1> QED BY <1>1, <1>2, MemoryContents, SendDataIs

(* What a flag's packet, with data or none, and a goodbye begin with. *)
LEMMA FlagSent ==
  ASSUME NEW flag \in Flags, FlagCheater(flag)
  PROVE  \E p \in Seq(Bytes) :
           /\ \/ Begins(p, FlagBytes(flag), 6)
              \/ \E data \in Tails : Begins(p, FlagBytes(flag), 12 + Len(data))
           /\ up' = IF server \in {"new", "open"}
                    THEN up \o OnWire(CipherData(p), Msg(CS_FLAGGED_CHEATER, flag)) ELSE up
           /\ up \in Seq(Cell) => up' \in Seq(Cell)
  <1>1. flag \in Nat /\ Msg(CS_FLAGGED_CHEATER, flag) \in Said
    BY WireAssumption, SaidIs DEF Numbers
  <1>2. PICK x \in Seq(Bytes) : x = FlagBytes(flag)
    BY <1>1, FlagWritten
  <1>3. ASSUME NEW p, NEW n, Begins(p, x, n) PROVE p \in Seq(Bytes)
    BY <1>3, Joined DEF Begins
  <1>4. CASE SendData(DetectedCheater(flag), Msg(CS_FLAGGED_CHEATER, flag))
    <2>1. PICK p : p = Contents(DetectedCheater(flag)) /\ Begins(p, x, 6)
      BY <1>1, <1>2, FlagContents
    <2>2. p \in Seq(Bytes)
      BY <1>3, <2>1
    <2> QED BY <1>1, <1>2, <1>4, <2>1, <2>2, SendDataIs
  <1>5. ASSUME NEW data \in Tails,
               SendData(DetectedCheaterWith(flag, data), Msg(CS_FLAGGED_CHEATER, flag))
        PROVE  \E p \in Seq(Bytes) :
                 /\ Begins(p, x, 12 + Len(data))
                 /\ up' = IF server \in {"new", "open"}
                          THEN up \o OnWire(CipherData(p), Msg(CS_FLAGGED_CHEATER, flag)) ELSE up
                 /\ up \in Seq(Cell) => up' \in Seq(Cell)
    <2>0. data \in Seq(Bytes)
      BY TailType
    <2>1. PICK p : p = Contents(DetectedCheaterWith(flag, data)) /\ Begins(p, x, 12 + Len(data))
      BY <1>1, <1>2, <2>0, FlagWithContents
    <2>2. p \in Seq(Bytes)
      BY <1>3, <2>1
    <2> QED BY <1>1, <1>5, <2>1, <2>2, SendDataIs
  <1> QED BY <1>2, <1>4, <1>5 DEF FlagCheater

LEMMA GoodbyeSent ==
  ASSUME SendData(ClientGoodbye(1), Msg(CS_GOODBYE, 1))
  PROVE  \E p \in Seq(Bytes) :
           /\ Begins(p, UShort(CS_GOODBYE), 6)
           /\ up' = IF server \in {"new", "open"}
                    THEN up \o OnWire(CipherData(p), Msg(CS_GOODBYE, 1)) ELSE up
           /\ up \in Seq(Cell) => up' \in Seq(Cell)
  <1>1. PICK x \in Seq(Bytes) : x = UShort(CS_GOODBYE)
    BY UShortType DEF CS_GOODBYE
  <1>2. PICK p : p = Contents(ClientGoodbye(1)) /\ Begins(p, x, 6)
    BY <1>1, GoodbyeContents
  <1>3. p \in Seq(Bytes)
    BY <1>2, Joined DEF Begins
  <1> QED BY <1>1, <1>2, <1>3, SaidIs, SendDataIs

LEMMA ClientType ==
  ASSUME TypeInv, ClientStep
  PROVE  TypeInv'
  <1>0. /\ up \in Seq(Cell) /\ down \in Seq(Cell) /\ flagsSent \in 0..MaxFlags
        /\ client \in {"new", "open", "left", "terminated"} /\ handshake \in BOOLEAN
    BY DEF TypeInv, TypeOK
  <1>1. ASSUME NEW f \in Hellos, Initialize(f) PROVE TypeInv'
    <2>1. up' \in Seq(Cell)
      BY <1>0, <1>1, HelloSent DEF Initialize
    <2> QED BY <1>0, <1>1, <2>1, ClientTypes DEF Initialize
  <1>2. ASSUME NEW flag \in Flags, FlagCheater(flag) PROVE TypeInv'
    <2>1. up' \in Seq(Cell)
      BY <1>0, <1>2, FlagSent
    <2>2. flagsSent' \in 0..MaxFlags
      BY <1>0, <1>2, WireAssumption DEF FlagCheater
    <2> QED BY <1>0, <1>2, <2>1, <2>2, ClientTypes DEF FlagCheater
  <1>3. CASE EndConnection
    <2>1. up' \in Seq(Cell)
      BY <1>0, <1>3, GoodbyeSent DEF EndConnection
    <2>2. down' \in Seq(Cell)
      BY <1>3 DEF EndConnection
    <2> QED BY <1>0, <1>3, <2>1, <2>2, ClientTypes DEF EndConnection
  <1>4. CASE ProcessRequests
    <2>1. PICK n \in Reads(down, RecvLength) :
            /\ down' = Rest(down, n)
            /\ HandleInboundPacket(CipherData(Data(down, n)), down[1].says)
      BY <1>4 DEF ProcessRequests
    <2>2. RecvLength \in Nat
      BY WireAssumption
    <2>3. Data(down, n) \in Seq(Bytes) /\ down' \in Seq(Cell)
      BY <1>0, <2>1, <2>2, ReadIs
    <2>4. PICK b \in Seq(Bytes) : b = CipherData(Data(down, n))
      BY <2>3, CiphersOfSeq
    <2>5. HandleInboundPacket(b, down[1].says)
      BY <2>1, <2>4
    <2>6. client' \in {"new", "open", "left", "terminated"} /\ handshake' \in BOOLEAN
      BY <1>0, <2>5 DEF HandleInboundPacket, QueryMemory
    <2>7. up' \in Seq(Cell)
      <3>1. CASE up' = up
        BY <1>0, <3>1
      <3>2. ASSUME NEW bytes \in Tails, SendData(MemoryBytes(bytes), Msg(CS_QUERY_MEMORY, bytes))
            PROVE  up' \in Seq(Cell)
        BY <1>0, <3>2, MemorySent
      <3>3. CASE /\ up' # up
                 /\ ~\E bytes \in Tails : SendData(MemoryBytes(bytes), Msg(CS_QUERY_MEMORY, bytes))
        <4>1. PICK tail \in Tails :
                /\ Len(b) >= 4 + CookieSize
                /\ SendData(Heartbeat(MakeHeartbeat(SubSeq(b, 5, 4 + CookieSize), tail)),
                            Msg(CS_HEARTBEAT, MakeHeartbeat(SubSeq(b, 5, 4 + CookieSize), <<>>)))
          BY <2>5, <3>3 DEF HandleInboundPacket, QueryMemory
        <4>2. PICK c \in Seq(Bytes) : c = SubSeq(b, 5, 4 + CookieSize)
          BY <4>1, PartType
        <4> QED BY <1>0, <4>1, <4>2, AnswerSent
      <3> QED BY <3>1, <3>2, <3>3
    <2> QED BY <1>0, <1>4, <2>3, <2>6, <2>7, ClientTypes DEF ProcessRequests
  <1> QED BY <1>1, <1>2, <1>3, <1>4 DEF ClientStep

LEMMA HelloType ==
  ASSUME TypeInv, NEW b \in Seq(Bytes), NEW said, HandleClientHello(b, said)
  PROVE  /\ down' \in Seq(Cell) /\ info' \in [1..4 -> Seq(Bytes)] /\ due' \in BOOLEAN
         /\ server' \in {server, "dropped", "PacketException"}
         /\ UNCHANGED <<heartbeat_responses, current_heartbeat_count>>
  <1> DEFINE o2 == After(b, 3)
             o3 == After(b, o2)
             o4 == After(b, o3)
             at == <<3, o2, o3, o4>>
             fields == [k \in 1..4 |-> StringAt(b, at[k])]
  <1>0. down \in Seq(Cell) /\ info \in [1..4 -> Seq(Bytes)]
    BY DEF TypeInv, TypeOK
  <1>1. ASSUME NEW why \in {"dropped", "PacketException"}, Ends(why)
        PROVE  /\ down' \in Seq(Cell) /\ info' \in [1..4 -> Seq(Bytes)] /\ due' \in BOOLEAN
               /\ server' \in {server, "dropped", "PacketException"}
               /\ UNCHANGED <<heartbeat_responses, current_heartbeat_count>>
    BY <1>0, <1>1 DEF Ends
  <1>2. CASE ~(Readable(b, 3) /\ Readable(b, o2) /\ Readable(b, o3) /\ Readable(b, o4))
    BY <1>1, <1>2 DEF HandleClientHello
  <1>3. CASE Readable(b, 3) /\ Readable(b, o2) /\ Readable(b, o3) /\ Readable(b, o4)
    <2>1. StringAt(b, 3) \in Seq(Bytes) /\ o2 \in Nat \ {0}
      BY <1>3, StringType
    <2>2. StringAt(b, o2) \in Seq(Bytes) /\ o3 \in Nat \ {0}
      BY <1>3, <2>1, StringType
    <2>3. StringAt(b, o3) \in Seq(Bytes) /\ o4 \in Nat \ {0}
      BY <1>3, <2>2, StringType
    <2>4. StringAt(b, o4) \in Seq(Bytes)
      BY <1>3, <2>3, StringType
    <2> HIDE DEF o2, o3, o4
    <2>5. \A k \in 1..4 : StringAt(b, at[k]) \in Seq(Bytes)
      BY <2>1, <2>2, <2>3, <2>4
    <2>6. fields \in [1..4 -> Seq(Bytes)]
      BY <2>5
    <2> HIDE DEF at, fields
    <2>7. \/ Ends("dropped")
          \/ /\ info' = fields
             /\ SendBytes(UShort(SC_HELLO) \o UShort(versionNum), Msg(SC_HELLO, versionNum))
             /\ Handled /\ UNCHANGED current_heartbeat_count
      BY <1>3 DEF HandleClientHello, o2, o3, o4, at, fields
    <2>8. CASE Ends("dropped")
      BY <1>1, <2>8
    <2>9. CASE /\ info' = fields
               /\ SendBytes(UShort(SC_HELLO) \o UShort(versionNum), Msg(SC_HELLO, versionNum))
               /\ Handled /\ UNCHANGED current_heartbeat_count
      <3>1. UShort(SC_HELLO) \in Seq(Bytes) /\ UShort(versionNum) \in Seq(Bytes)
        BY UShortType, WireAssumption DEF SC_HELLO, Numbers
      <3>2. PICK p \in Seq(Bytes) : p = UShort(SC_HELLO) \o UShort(versionNum)
        BY <3>1, Joined
      <3>3. down' \in Seq(Cell)
        BY <1>0, <2>9, <3>2, SaidIs, SendBytesIs
      <3> QED BY <2>6, <2>9, <3>3 DEF Handled
    <2> QED BY <2>7, <2>8, <2>9
  <1> QED BY <1>2, <1>3

LEMMA ServerType ==
  ASSUME TypeInv, ServerStep
  PROVE  TypeInv'
  <1>0. /\ up \in Seq(Cell) /\ down \in Seq(Cell) /\ due \in BOOLEAN
        /\ server \in {"new", "open", "closed", "dropped", "PacketException", "IndexOutOfRange", "KeyNotFound"}
        /\ buffer \in [1..ServerBuffer -> Bytes] /\ info \in [1..4 -> Seq(Bytes)]
        /\ heartbeat_responses \in Seq(Cookies)
        /\ current_heartbeat_count \in 0..Len(heartbeat_responses)
    BY DEF TypeInv, TypeOK
  <1>1. CASE HandleClientConnected
    BY <1>0, <1>1, ServerTypes DEF HandleClientConnected
  <1>2. CASE EndReadEOF
    BY <1>0, <1>2, ServerTypes DEF EndReadEOF
  <1>3. ASSUME NEW cookie \in Cookies, SendHeartbeat(cookie) PROVE TypeInv'
    <2>1. heartbeat_responses' \in Seq(Cookies) /\ Len(heartbeat_responses') = Len(heartbeat_responses) + 1
      BY <1>0, <1>3, AppendProperties DEF SendHeartbeat, WorkerGone
    <2>2. current_heartbeat_count' \in 0..Len(heartbeat_responses')
      <3>1. Len(heartbeat_responses) \in Nat
        BY <1>0, LenProperties
      <3> QED BY <1>0, <1>3, <2>1, <3>1 DEF SendHeartbeat, WorkerGone
    <2>3. cookie \in Seq(Bytes)
      BY CookieType
    <2>4. PICK x \in Seq(Bytes) : x = UShort(SC_HEARTBEAT)
      BY UShortType DEF SC_HEARTBEAT
    <2>5. PICK y \in Seq(Bytes) : y = UShort(CookieSize)
      BY UShortType, WireAssumption
    <2>6. x \o y \in Seq(Bytes)
      BY Joined
    <2>7. PICK p \in Seq(Bytes) : p = (x \o y) \o cookie
      BY <2>3, <2>6, Joined
    <2>8. SendBytes(p, Msg(SC_HEARTBEAT, cookie))
      BY <1>3, <2>4, <2>5, <2>7 DEF SendHeartbeat, WorkerGone
    <2>9. down' \in Seq(Cell)
      BY <1>0, <2>3, <2>8, SaidIs, SendBytesIs
    <2> QED BY <1>0, <1>3, <2>1, <2>2, <2>9, ServerTypes DEF SendHeartbeat, WorkerGone
  <1>4. CASE HandleMessageReceived
    <2>1. PICK n \in Reads(up, ServerBuffer) :
            /\ up' = Rest(up, n)
            /\ buffer' = Overwrite(buffer, Cipher(Data(up, n)))
            /\ HandlePacket(buffer', up[1].says)
      BY <1>4 DEF HandleMessageReceived
    <2>2. ServerBuffer \in Nat
      BY WireAssumption
    <2>3. Data(up, n) \in Seq(Bytes) /\ Len(Data(up, n)) <= ServerBuffer /\ up' \in Seq(Cell)
      BY <1>0, <2>1, <2>2, ReadIs
    <2>4. PICK d \in Seq(Bytes) : d = Cipher(Data(up, n)) /\ Len(d) <= ServerBuffer
      BY <2>3, CiphersOfSeq
    <2>5. PICK b : /\ b = buffer' /\ b \in [1..ServerBuffer -> Bytes] /\ b \in Seq(Bytes)
      BY <1>0, <2>1, <2>4, OverwriteIs
    <2>6. PICK said : said = up[1].says
      OBVIOUS
    <2>7. HandlePacket(b, said)
      BY <2>1, <2>5, <2>6
    <2>8. /\ down' \in Seq(Cell) /\ info' \in [1..4 -> Seq(Bytes)] /\ due' \in BOOLEAN
          /\ server' \in {"new", "open", "closed", "dropped", "PacketException", "IndexOutOfRange", "KeyNotFound"}
          /\ heartbeat_responses' \in Seq(Cookies)
          /\ current_heartbeat_count' \in 0..Len(heartbeat_responses')
      <3>1. CASE HandleClientHello(b, said)
        BY <1>0, <2>5, <3>1, HelloType
      <3>2. CASE HandleClientHeartbeat(b, said)
        <4>1. Len(heartbeat_responses) \in Nat
          BY <1>0, LenProperties
        <4>2. CASE Ends("IndexOutOfRange") \/ Ends("dropped")
          BY <1>0, <4>2 DEF Ends
        <4>3. CASE /\ ~(current_heartbeat_count >= Len(heartbeat_responses))
                   /\ current_heartbeat_count' = current_heartbeat_count + 1
                   /\ Handled /\ UNCHANGED <<down, info>>
          BY <1>0, <4>1, <4>3 DEF Handled
        <4> QED BY <3>2, <4>2, <4>3 DEF HandleClientHeartbeat
      <3>3. CASE Ends("KeyNotFound") \/ Ends("dropped")
        BY <1>0, <3>3 DEF Ends
      <3>4. CASE Handled /\ UNCHANGED <<atServer, down, info, current_heartbeat_count>>
        BY <1>0, <3>4 DEF Handled
      <3> QED BY <2>7, <3>1, <3>2, <3>3, <3>4 DEF HandlePacket
    <2>9. UNCHANGED <<split, clientVars>>
      BY <1>4 DEF HandleMessageReceived
    <2> QED BY <2>3, <2>5, <2>8, <2>9, ServerTypes
  <1> QED BY <1>1, <1>2, <1>3, <1>4 DEF ServerStep

LEMMA TypeStep == TypeInv /\ [Next]_vars => TypeInv'
  <1> SUFFICES ASSUME TypeInv, [Next]_vars PROVE TypeInv'
    OBVIOUS
  <1>1. CASE UNCHANGED vars
    BY <1>1 DEF vars, clientVars, serverVars, TypeInv, TypeOK
  <1> QED BY <1>1, ClientType, ServerType DEF Next

(* TypeOK of Wire, also when reads tear packets: whatever is read as a number  *)
(* or a text, nothing that was never written is sent, and the server's         *)
(* counter stays within the cookies it has given out.                         *)
THEOREM TypeCorrect == Spec => []TypeOK
  <1>1. TypeInv => TypeOK
    BY DEF TypeInv
  <1> QED BY <1>1, TypeInit, TypeStep, PTL DEF Spec

-----------------------------------------------------------------------------
(* ---- streams of whole packets ---- *)

(* A packet on its way: its first byte carries what it says. *)
PacketCells == {k \in Seq(Cell) : /\ Len(k) >= 1 /\ k[1].says # Nothing
                                  /\ \A j \in 2..Len(k) : k[j].says = Nothing}

(* The packet k lies in the stream s at i, and the next one behind it. *)
Holds(s, i, k) ==
  /\ i + Len(k) <= Len(s) + 1
  /\ \A j \in 1..Len(k) : s[i + j - 1] = k[j]
  /\ i + Len(k) = Len(s) + 1 \/ s[i + Len(k)].says # Nothing

(* The stream consists of packets of K. *)
Stream(s, K) == \A i \in 1..Len(s) : i = 1 \/ s[i].says # Nothing => \E k \in K : Holds(s, i, k)

LEMMA PacketIs ==
  ASSUME NEW k \in PacketCells
  PROVE  /\ k \in Seq(Cell) /\ Len(k) \in Nat \ {0} /\ k[1].says # Nothing
         /\ \A j \in 2..Len(k) : k[j].says = Nothing
  <1>1. k \in Seq(Cell) /\ Len(k) >= 1 /\ k[1].says # Nothing /\ \A j \in 2..Len(k) : k[j].says = Nothing
    BY DEF PacketCells
  <1>2. Len(k) \in Nat
    BY <1>1, LenProperties
  <1> QED BY <1>1, <1>2

LEMMA StreamAppend ==
  ASSUME NEW K \in SUBSET PacketCells, NEW s \in Seq(Cell), Stream(s, K), NEW k \in K
  PROVE  Stream(s \o k, K)
  <1>1. /\ k \in Seq(Cell) /\ Len(k) \in Nat \ {0} /\ k[1].says # Nothing
        /\ \A j \in 2..Len(k) : k[j].says = Nothing
    BY PacketIs
  <1>2. Len(s) \in Nat
    BY LenProperties
  <1>3. PICK t : t = s \o k
    OBVIOUS
  <1>4. /\ Len(t) = Len(s) + Len(k)
        /\ \A i \in 1..Len(s) + Len(k) : t[i] = IF i <= Len(s) THEN s[i] ELSE k[i - Len(s)]
    BY <1>1, <1>3, ConcatProperties
  <1>5. \A i \in 1..Len(s) : t[i] = s[i]
    BY <1>1, <1>2, <1>4
  <1>6. \A i \in 1..Len(k) : t[Len(s) + i] = k[i]
    <2> TAKE i \in 1..Len(k)
    <2>1. Len(s) + i \in 1..(Len(s) + Len(k)) /\ ~(Len(s) + i <= Len(s)) /\ Len(s) + i - Len(s) = i
      BY <1>1, <1>2
    <2> QED BY <1>4, <2>1
  <1>7. t[Len(s) + 1].says # Nothing
    BY <1>1, <1>6
  <1>8. ASSUME NEW i \in 1..Len(t), i = 1 \/ t[i].says # Nothing
        PROVE  \E q \in K : Holds(t, i, q)
    <2>1. CASE i <= Len(s)
      <3>1. i \in 1..Len(s) /\ (i = 1 \/ s[i].says # Nothing)
        BY <1>2, <1>5, <1>8, <2>1
      <3>2. PICK q \in K : Holds(s, i, q)
        BY <3>1 DEF Stream
      <3>3. Len(q) \in Nat \ {0}
        BY PacketIs
      <3>4. i + Len(q) <= Len(s) + 1
        BY <3>2 DEF Holds
      <3>5. \A j \in 1..Len(q) : t[i + j - 1] = q[j]
        <4> TAKE j \in 1..Len(q)
        <4>1. i + j - 1 \in 1..Len(s)
          BY <1>2, <3>1, <3>3, <3>4
        <4> QED BY <1>5, <3>2, <4>1 DEF Holds
      <3>6. t[i + Len(q)].says # Nothing
        <4>1. CASE i + Len(q) = Len(s) + 1
          BY <1>7, <4>1
        <4>2. CASE i + Len(q) # Len(s) + 1
          <5>1. i + Len(q) \in 1..Len(s)
            BY <1>2, <3>1, <3>3, <3>4, <4>2
          <5> QED BY <1>5, <3>2, <4>2, <5>1 DEF Holds
        <4> QED BY <4>1, <4>2
      <3>7. i + Len(q) <= Len(t) + 1
        BY <1>1, <1>2, <1>4, <3>1, <3>3, <3>4
      <3> QED BY <3>5, <3>6, <3>7 DEF Holds
    <2>2. CASE ~(i <= Len(s))
      <3>1. PICK j \in 1..Len(k) : i = Len(s) + j
        <4>1. i - Len(s) \in 1..Len(k) /\ i = Len(s) + (i - Len(s))
          BY <1>1, <1>2, <1>4, <2>2
        <4> QED BY <4>1
      <3>2. j = 1
        <4>1. CASE i = 1
          BY <1>2, <3>1, <4>1
        <4>2. CASE t[i].says # Nothing
          <5>1. k[j].says # Nothing
            BY <1>6, <3>1, <4>2
          <5>2. j \notin 2..Len(k)
            BY <1>1, <5>1
          <5> QED BY <1>1, <5>2
        <4> QED BY <1>8, <4>1, <4>2
      <3>3. i = Len(s) + 1 /\ i + Len(k) = Len(t) + 1 /\ i + Len(k) <= Len(t) + 1
        BY <1>1, <1>2, <1>4, <3>1, <3>2
      <3>4. \A l \in 1..Len(k) : t[i + l - 1] = k[l]
        <4> TAKE l \in 1..Len(k)
        <4>1. i + l - 1 = Len(s) + l
          BY <1>1, <1>2, <3>3
        <4> QED BY <1>6, <4>1
      <3> QED BY <3>3, <3>4 DEF Holds
    <2> QED BY <2>1, <2>2
  <1> QED BY <1>3, <1>8 DEF Stream

(* What is left of a stream behind its first n bytes. *)
Left(r, s, n) == Len(r) = Len(s) - n /\ \A i \in 1..(Len(s) - n) : r[i] = s[n + i]

LEMMA StreamRest ==
  ASSUME NEW K \in SUBSET PacketCells, NEW s \in Seq(Cell), Stream(s, K),
         NEW n \in 1..Len(s), n = Len(s) \/ s[n + 1].says # Nothing,
         NEW r \in Seq(Cell), Left(r, s, n)
  PROVE  Stream(r, K)
  <1>1. Len(s) \in Nat /\ n \in Nat /\ n <= Len(s)
    BY LenProperties
  <1>2. ASSUME NEW i \in 1..Len(r), i = 1 \/ r[i].says # Nothing
        PROVE  \E k \in K : Holds(r, i, k)
    <2>0. Len(r) = Len(s) - n
      BY DEF Left
    <2>1. n + i \in 1..Len(s) /\ i \in 1..(Len(s) - n) /\ r[i] = s[n + i]
      <3>1. n + i \in 1..Len(s) /\ i \in 1..(Len(s) - n)
        BY <1>1, <2>0
      <3> QED BY <3>1 DEF Left
    <2>2. s[n + i].says # Nothing
      <3>1. CASE i = 1
        <4>1. n # Len(s)
          BY <1>1, <2>1, <3>1
        <4> QED BY <3>1, <4>1
      <3>2. CASE r[i].says # Nothing
        BY <2>1, <3>2
      <3> QED BY <1>2, <3>1, <3>2
    <2>3. PICK k \in K : Holds(s, n + i, k)
      BY <2>1, <2>2 DEF Stream
    <2>4. Len(k) \in Nat \ {0}
      BY PacketIs
    <2>5. n + i + Len(k) <= Len(s) + 1
      BY <2>3 DEF Holds
    <2>6. i + Len(k) <= Len(r) + 1
      BY <1>1, <2>0, <2>1, <2>4, <2>5
    <2>7. \A j \in 1..Len(k) : r[i + j - 1] = k[j]
      <3> TAKE j \in 1..Len(k)
      <3>1. s[n + i + j - 1] = k[j]
        BY <2>3 DEF Holds
      <3>2. i + j - 1 \in 1..(Len(s) - n) /\ n + (i + j - 1) = n + i + j - 1
        BY <1>1, <2>1, <2>4, <2>5
      <3> QED BY <3>1, <3>2 DEF Left
    <2>8. i + Len(k) = Len(r) + 1 \/ r[i + Len(k)].says # Nothing
      <3>1. CASE n + i + Len(k) = Len(s) + 1
        BY <1>1, <2>0, <2>1, <2>4, <3>1
      <3>2. CASE n + i + Len(k) # Len(s) + 1
        <4>1. s[n + i + Len(k)].says # Nothing
          BY <2>3, <3>2 DEF Holds
        <4>2. i + Len(k) \in 1..(Len(s) - n) /\ n + (i + Len(k)) = n + i + Len(k)
          BY <1>1, <2>1, <2>4, <2>5, <3>2
        <4> QED BY <4>1, <4>2 DEF Left
      <3> QED BY <3>1, <3>2
    <2> QED BY <2>6, <2>7, <2>8 DEF Holds
  <1> QED BY <1>2 DEF Stream

(* As long as reads do not tear packets and every packet fits, a read brings    *)
(* the whole first packet, and what it leaves is again a stream of packets.    *)
LEMMA WholeRead ==
  ASSUME NEW K \in SUBSET PacketCells, NEW s \in Seq(Cell), Stream(s, K), ~split,
         NEW room \in Nat, \A k \in K : Len(k) <= room, NEW n \in Reads(s, room)
  PROVE  /\ Stream(Rest(s, n), K)
         /\ \E k \in K : Len(k) <= n /\ \A j \in 1..Len(k) : s[j] = k[j]
  <1>1. n \in 1..Len(s) /\ n <= room /\ Len(s) \in Nat
    BY ReadIs, LenProperties
  <1>2. PICK k \in K : Holds(s, 1, k)
    BY <1>1 DEF Stream
  <1>3. Len(k) \in Nat \ {0} /\ \A j \in 2..Len(k) : k[j].says = Nothing
    BY PacketIs
  <1>4. \A j \in 1..Len(k) : s[j] = k[j]
    <2> TAKE j \in 1..Len(k)
    <2>1. 1 + j - 1 = j
      BY <1>3
    <2> QED BY <1>2, <2>1 DEF Holds
  <1>5. n = Len(s) \/ s[n + 1].says # Nothing
    <2> DEFINE fit == {m \in 1..Len(s) : m <= room}
               whole == {m \in fit : m = Len(s) \/ s[m + 1].says # Nothing}
    <2>1. Len(k) \in whole
      <3>1. Len(k) <= room /\ 1 + Len(k) <= Len(s) + 1
        BY <1>2 DEF Holds
      <3>2. Len(k) \in fit
        BY <1>1, <1>3, <3>1
      <3>3. 1 + Len(k) = Len(s) + 1 \/ s[1 + Len(k)].says # Nothing
        BY <1>2 DEF Holds
      <3>4. 1 + Len(k) = Len(k) + 1 /\ (1 + Len(k) = Len(s) + 1 => Len(k) = Len(s))
        BY <1>1, <1>3
      <3> QED BY <3>2, <3>3, <3>4
    <2>2. n \in whole
      <3>1. Reads(s, room) = IF split THEN fit ELSE IF whole # {} THEN whole ELSE {m \in fit : m = room}
        BY DEF Reads
      <3> QED BY <2>1, <3>1
    <2> QED BY <2>2
  <1>6. Len(k) <= n
    <2>1. CASE n = Len(s)
      <3>1. 1 + Len(k) <= Len(s) + 1
        BY <1>2 DEF Holds
      <3> QED BY <1>1, <1>3, <2>1, <3>1
    <2>2. CASE s[n + 1].says # Nothing
      <3>1. n + 1 \notin 2..Len(k)
        <4>1. ASSUME n + 1 \in 2..Len(k) PROVE FALSE
          <5>1. n + 1 \in 1..Len(k)
            BY <1>1, <1>3, <4>1
          <5>2. s[n + 1] = k[n + 1]
            BY <1>4, <5>1
          <5> QED BY <1>3, <2>2, <4>1, <5>2
        <4> QED BY <4>1
      <3> QED BY <1>1, <1>3, <3>1
    <2> QED BY <1>5, <2>1, <2>2
  <1>7. Rest(s, n) \in Seq(Cell) /\ Left(Rest(s, n), s, n)
    BY ReadIs DEF Left
  <1>8. Stream(Rest(s, n), K)
    BY <1>1, <1>5, <1>7, StreamRest
  <1> QED BY <1>4, <1>6, <1>8

(* A packet as it is sent. *)
LEMMA SentPacket ==
  ASSUME NEW b \in Seq(Bytes), Len(b) >= 1, NEW m \in Said, m # Nothing
  PROVE  OnWire(b, m) \in PacketCells /\ Len(OnWire(b, m)) = Len(b)
         /\ OnWire(b, m)[1].says = m /\ \A j \in 1..Len(b) : OnWire(b, m)[j].byte = b[j]
  <1>1. PICK k \in Seq(Cell) : k = OnWire(b, m) /\ Len(k) = Len(b)
    BY OnWireIs
  <1>2. \A i \in 1..Len(b) : k[i] = [byte |-> b[i], says |-> IF i = 1 THEN m ELSE Nothing]
    BY <1>1, OnWireIs
  <1>3. Len(b) \in Nat
    BY LenProperties
  <1>4. k[1].says = m
    <2>1. k[1] = [byte |-> b[1], says |-> IF 1 = 1 THEN m ELSE Nothing]
      BY <1>2, <1>3
    <2> QED BY <2>1
  <1>5. \A j \in 2..Len(b) : k[j].says = Nothing
    <2> TAKE j \in 2..Len(b)
    <2>1. j \in 1..Len(b) /\ j # 1
      BY <1>3
    <2>2. k[j] = [byte |-> b[j], says |-> IF j = 1 THEN m ELSE Nothing]
      BY <1>2, <2>1
    <2> QED BY <2>1, <2>2
  <1>6. \A j \in 1..Len(b) : k[j].byte = b[j]
    <2> TAKE j \in 1..Len(b)
    <2>1. k[j] = [byte |-> b[j], says |-> IF j = 1 THEN m ELSE Nothing]
      BY <1>2
    <2> QED BY <2>1
  <1>7. k \in PacketCells
    BY <1>1, <1>4, <1>5 DEF PacketCells
  <1> QED BY <1>1, <1>4, <1>6, <1>7

-----------------------------------------------------------------------------
(* ---- what is read of a packet ---- *)

(* b begins with the bytes p. *)
StartsWith(b, p) == Len(p) <= Len(b) /\ \A j \in 1..Len(p) : b[j] = p[j]

LEMMA PrefixIs ==
  ASSUME NEW b \in Seq(Bytes), NEW p \in Seq(Bytes), StartsWith(b, p)
  PROVE  \E r \in Seq(Bytes) : b = p \o r
  <1>1. Len(b) \in Nat /\ Len(p) \in Nat /\ Len(p) <= Len(b)
    BY LenProperties DEF StartsWith
  <1>2. \A i \in (Len(p) + 1)..Len(b) : b[i] \in Bytes
    BY <1>1, ElementOfSeq
  <1>3. PICK r : r = SubSeq(b, Len(p) + 1, Len(b))
    OBVIOUS
  <1>4. /\ r \in Seq(Bytes) /\ Len(r) = IF Len(p) + 1 <= Len(b) THEN Len(b) - (Len(p) + 1) + 1 ELSE 0
        /\ \A i \in 1..(Len(b) - (Len(p) + 1) + 1) : r[i] = b[Len(p) + 1 + i - 1]
    BY <1>1, <1>2, <1>3, SubSeqProperties
  <1>5. Len(r) = Len(b) - Len(p)
    BY <1>1, <1>4
  <1>6. /\ p \o r \in Seq(Bytes) /\ Len(p \o r) = Len(p) + Len(r)
        /\ \A i \in 1..Len(p) + Len(r) : (p \o r)[i] = IF i <= Len(p) THEN p[i] ELSE r[i - Len(p)]
    BY <1>4, ConcatProperties
  <1>7. Len(p \o r) = Len(b)
    BY <1>1, <1>5, <1>6
  <1>8. ASSUME NEW i \in 1..Len(b) PROVE b[i] = (p \o r)[i]
    <2>0. (p \o r)[i] = IF i <= Len(p) THEN p[i] ELSE r[i - Len(p)]
      BY <1>6, <1>7
    <2>1. CASE i <= Len(p)
      <3>1. i \in 1..Len(p)
        BY <1>1, <2>1
      <3> QED BY <2>0, <2>1, <3>1 DEF StartsWith
    <2>2. CASE ~(i <= Len(p))
      <3>1. /\ i - Len(p) \in 1..(Len(b) - (Len(p) + 1) + 1)
            /\ Len(p) + 1 + (i - Len(p)) - 1 = i
        BY <1>1, <2>2
      <3>2. r[i - Len(p)] = b[Len(p) + 1 + (i - Len(p)) - 1]
        BY <1>4, <3>1
      <3> QED BY <2>0, <2>2, <3>1, <3>2
    <2> QED BY <2>1, <2>2
  <1>9. b = p \o r
    BY <1>6, <1>7, <1>8, SeqEqual
  <1> QED BY <1>4, <1>9

(* The ciphers go byte by byte. *)
LEMMA CipherAt ==
  ASSUME NEW b \in Seq(Bytes), NEW c \in Seq(Bytes),
         NEW i \in 1..Len(b), i \in 1..Len(c), b[i] = c[i]
  PROVE  Cipher(b)[i] = Cipher(c)[i] /\ CipherData(b)[i] = CipherData(c)[i]
  <1>1. i \in DOMAIN b /\ i \in DOMAIN c
    BY LenProperties
  <1>2. Cipher(b)[i] = Cipher(c)[i]
    BY <1>1 DEF Cipher
  <1>3. CipherData(b)[i] = CipherData(c)[i]
    BY <1>1 DEF CipherData
  <1> QED BY <1>2, <1>3

LEMMA FirstNumber ==
  ASSUME NEW n \in Numbers, NEW q \in Seq(Bytes)
  PROVE  Short(UShort(n) \o q, 1) = n
  <1>1. PICK u \in Seq(Bytes) : u = UShort(n)
    BY UShortBytes
  <1>2. <<>> \o u = u /\ <<>> \in Seq(Bytes) /\ Len(<<>>) = 0
    OBVIOUS
  <1>3. Short(<<>> \o u \o q, Len(<<>>) + 1) = n
    BY <1>1, <1>2, NumberReadBack
  <1>4. Len(<<>>) + 1 = 1
    BY <1>2
  <1> QED BY <1>1, <1>2, <1>3, <1>4

LEMMA SecondNumber ==
  ASSUME NEW op \in Nat, NEW n \in Numbers, NEW q \in Seq(Bytes)
  PROVE  Short(UShort(op) \o UShort(n) \o q, 3) = n
  <1>1. PICK u \in Seq(Bytes) : u = UShort(op) /\ Len(u) = 2
    BY UShortType
  <1>2. Short(u \o UShort(n) \o q, Len(u) + 1) = n
    BY NumberReadBack
  <1>3. Len(u) + 1 = 3
    BY <1>1
  <1> QED BY <1>1, <1>2, <1>3

(* Byte strings, under a name of their own where it only matters how they are  *)
(* put together: the provers are then not drawn into what a sequence is.      *)
Str == Seq(Bytes)
a ++ b == a \o b

LEMMA StrJoined == ASSUME NEW a \in Str, NEW b \in Str PROVE a ++ b \in Str
  BY Joined DEF Str, ++

LEMMA StrGrouped ==
  ASSUME NEW a \in Str, NEW b \in Str, NEW c \in Str
  PROVE  (a ++ b) ++ c = a ++ (b ++ c)
  BY Grouped DEF Str, ++

LEMMA StrLen == ASSUME NEW a \in Str PROVE Len(a) \in Nat
  BY LenProperties DEF Str

LEMMA StrNumber == ASSUME NEW n \in Nat PROVE UShort(n) \in Str /\ Len(UShort(n)) = 2
  BY UShortType DEF Str

LEMMA StrText == ASSUME NEW s \in Str PROVE Text(s) \in Str
  BY TextType DEF Str

(* The text s is read at this place, and the next field is looked for there.   *)
TextAt(b, at, s, next) == Readable(b, at) /\ StringAt(b, at) = s /\ After(b, at) = next

LEMMA StrTextAt ==
  ASSUME NEW s \in Str, Len(s) \in Numbers, NEW p \in Str, NEW q \in Str
  PROVE  TextAt((p ++ Text(s)) ++ q, Len(p) + 1, s, Len(p ++ Text(s)) + 1)
  <1>0. s \in Seq(Bytes) /\ p \in Seq(Bytes) /\ q \in Seq(Bytes)
    BY DEF Str
  <1>1. PICK u \in Seq(Bytes) : u = UShort(Len(s))
    BY <1>0, UShortType, LenProperties
  <1>2. PICK t \in Str : t = Text(s) /\ t = u ++ s
    BY <1>1, StrText DEF Text, ++
  <1>3. TextAt(((p \o u) \o s) \o q, Len(p) + 1, s, Len((p \o u) \o s) + 1)
    BY <1>0, <1>1, TextReadBack DEF TextAt
  <1>4. TextAt(((p ++ u) ++ s) ++ q, Len(p) + 1, s, Len((p ++ u) ++ s) + 1)
    BY <1>3 DEF ++
  <1>5. u \in Str
    BY DEF Str
  <1>6. (p ++ u) ++ s = p ++ t
    BY <1>2, <1>5, StrGrouped
  <1> QED BY <1>2, <1>4, <1>6, Zenon

LEMMA StrPrefix ==
  ASSUME NEW b \in Str, NEW p \in Str, StartsWith(b, p)
  PROVE  \E r \in Str : b = p ++ r
  BY PrefixIs DEF Str, ++

LEMMA StrFirst == ASSUME NEW n \in Numbers, NEW q \in Str PROVE Short(UShort(n) ++ q, 1) = n
  BY FirstNumber DEF Str, ++

LEMMA StrSecond ==
  ASSUME NEW op \in Nat, NEW n \in Numbers, NEW q \in Str
  PROVE  Short(UShort(op) ++ UShort(n) ++ q, 3) = n
  BY SecondNumber DEF Str, ++

LEMMA StrThird ==
  ASSUME NEW a \in Str, NEW b \in Str, NEW c \in Str, NEW d \in Str
  PROVE  Len(a) = 2 /\ Len(b) = 2 /\ Len(c) = CookieSize => CookieOf(((a ++ b) ++ c) ++ d) = c
  <1>1. SubSeq(((a \o b) \o c) \o d, Len(a) + Len(b) + 1, Len(a) + Len(b) + Len(c)) = c
    BY FourJoined DEF Str
  <1>2. HAVE Len(a) = 2 /\ Len(b) = 2 /\ Len(c) = CookieSize
  <1>3. CookieSize \in Nat
    BY WireAssumption
  <1>4. Len(a) + Len(b) + 1 = 5 /\ Len(a) + Len(b) + Len(c) = 4 + CookieSize
    BY <1>2, <1>3
  <1>5. SubSeq(((a \o b) \o c) \o d, 5, 4 + CookieSize) = c
    BY <1>1, <1>4, Zenon
  <1> QED BY <1>5, Zenon DEF CookieOf, ++

LEMMA StrAnswer ==
  ASSUME NEW c \in Str, NEW t \in Str
  PROVE  Answer(c) \in Str /\ Len(Answer(c)) = Len(c)
         /\ MakeHeartbeat(c, t) \in Str /\ MakeHeartbeat(c, t) = Answer(c) ++ t
  BY HeartbeatMade DEF Str, ++

LEMMA StrHeartbeat == ASSUME NEW h \in Str PROVE HeartbeatBytes(h) \in Str
  BY HeartbeatContents DEF Str

(* A hello is read field by field as it was written. *)
LEMMA HelloRead ==
  ASSUME NEW f \in [1..4 -> Str], CS_HELLO \in Numbers,
         Len(f[1]) \in Numbers, Len(f[2]) \in Numbers, Len(f[3]) \in Numbers, Len(f[4]) \in Numbers,
         NEW b \in Str, StartsWith(b, HelloBytes(f))
  PROVE  LET o2 == After(b, 3)
             o3 == After(b, o2)
             o4 == After(b, o3)
         IN /\ Short(b, 1) = CS_HELLO
            /\ Readable(b, 3) /\ Readable(b, o2) /\ Readable(b, o3) /\ Readable(b, o4)
            /\ StringAt(b, 3) = f[1] /\ StringAt(b, o2) = f[2]
            /\ StringAt(b, o3) = f[3] /\ StringAt(b, o4) = f[4]
  <1>1. PICK u \in Str : u = UShort(CS_HELLO) /\ Len(u) = 2
    BY StrNumber DEF CS_HELLO
  <1>2. PICK s1 \in Str, s2 \in Str, s3 \in Str, s4 \in Str :
          s1 = f[1] /\ s2 = f[2] /\ s3 = f[3] /\ s4 = f[4]
    OBVIOUS
  <1>3. Len(s1) \in Numbers /\ Len(s2) \in Numbers /\ Len(s3) \in Numbers /\ Len(s4) \in Numbers
    BY <1>2
  <1>4. PICK t1 \in Str, t2 \in Str, t3 \in Str, t4 \in Str :
          t1 = Text(s1) /\ t2 = Text(s2) /\ t3 = Text(s3) /\ t4 = Text(s4)
    BY StrText
  <1>5. PICK p1 \in Str : p1 = u ++ t1
    BY StrJoined
  <1>6. PICK p2 \in Str : p2 = p1 ++ t2
    BY StrJoined
  <1>7. PICK p3 \in Str : p3 = p2 ++ t3
    BY StrJoined
  <1>8. PICK p4 \in Str : p4 = p3 ++ t4
    BY StrJoined
  <1>9. p4 = HelloBytes(f)
    BY <1>1, <1>2, <1>4, <1>5, <1>6, <1>7, <1>8 DEF HelloBytes, ++
  <1>10. PICK q4 \in Str : b = p4 ++ q4
    BY <1>9, StrPrefix
  <1>11. PICK q3 \in Str : b = p3 ++ q3
    <2>1. t4 ++ q4 \in Str
      BY StrJoined
    <2>2. (p3 ++ t4) ++ q4 = p3 ++ (t4 ++ q4)
      BY StrGrouped
    <2> QED BY <1>8, <1>10, <2>1, <2>2, Zenon
  <1>12. PICK q2 \in Str : b = p2 ++ q2
    <2>1. t3 ++ q3 \in Str
      BY StrJoined
    <2>2. (p2 ++ t3) ++ q3 = p2 ++ (t3 ++ q3)
      BY StrGrouped
    <2> QED BY <1>7, <1>11, <2>1, <2>2, Zenon
  <1>13. PICK q1 \in Str : b = p1 ++ q1
    <2>1. t2 ++ q2 \in Str
      BY StrJoined
    <2>2. (p1 ++ t2) ++ q2 = p1 ++ (t2 ++ q2)
      BY StrGrouped
    <2> QED BY <1>6, <1>12, <2>1, <2>2, Zenon
  <1>14. PICK q0 \in Str : b = u ++ q0
    <2>1. t1 ++ q1 \in Str
      BY StrJoined
    <2>2. (u ++ t1) ++ q1 = u ++ (t1 ++ q1)
      BY StrGrouped
    <2> QED BY <1>5, <1>13, <2>1, <2>2, Zenon
  <1>15. TextAt(b, Len(u) + 1, s1, Len(p1) + 1)
    <2>1. TextAt((u ++ Text(s1)) ++ q1, Len(u) + 1, s1, Len(u ++ Text(s1)) + 1)
      BY <1>3, StrTextAt, Zenon
    <2> QED BY <1>4, <1>5, <1>13, <2>1, Zenon
  <1>16. TextAt(b, Len(p1) + 1, s2, Len(p2) + 1)
    <2>1. TextAt((p1 ++ Text(s2)) ++ q2, Len(p1) + 1, s2, Len(p1 ++ Text(s2)) + 1)
      BY <1>3, StrTextAt, Zenon
    <2> QED BY <1>4, <1>6, <1>12, <2>1, Zenon
  <1>17. TextAt(b, Len(p2) + 1, s3, Len(p3) + 1)
    <2>1. TextAt((p2 ++ Text(s3)) ++ q3, Len(p2) + 1, s3, Len(p2 ++ Text(s3)) + 1)
      BY <1>3, StrTextAt, Zenon
    <2> QED BY <1>4, <1>7, <1>11, <2>1, Zenon
  <1>18. TextAt(b, Len(p3) + 1, s4, Len(p4) + 1)
    <2>1. TextAt((p3 ++ Text(s4)) ++ q4, Len(p3) + 1, s4, Len(p3 ++ Text(s4)) + 1)
      BY <1>3, StrTextAt, Zenon
    <2> QED BY <1>4, <1>8, <1>10, <2>1, Zenon
  <1>19. Short(b, 1) = CS_HELLO
    BY <1>1, <1>14, StrFirst
  <1>20. Len(u) + 1 = 3
    BY <1>1
  <1> QED BY <1>2, <1>15, <1>16, <1>17, <1>18, <1>19, <1>20 DEF TextAt

LEMMA BehindOpcode ==
  ASSUME NEW u \in Str, NEW v \in Str, NEW c \in Str, NEW z \in Str
  PROVE  ((u ++ v) ++ c) ++ z = u ++ ((v ++ c) ++ z)
  <1>1. (u ++ v) ++ c = u ++ (v ++ c)
    BY StrGrouped
  <1>2. PICK w \in Str : w = v ++ c
    BY StrJoined
  <1>3. (u ++ w) ++ z = u ++ (w ++ z)
    BY StrGrouped
  <1> QED BY <1>1, <1>2, <1>3

LEMMA BehindCookie ==
  ASSUME NEW u \in Str, NEW v \in Str, NEW c \in Str, NEW t \in Str,
         NEW r \in Str
  PROVE  (u ++ (v ++ (c ++ t))) ++ r = ((u ++ v) ++ c) ++ (t ++ r)
  <1>1. v ++ (c ++ t) = (v ++ c) ++ t
    BY StrGrouped
  <1>2. PICK w \in Str : w = v ++ c
    BY StrJoined
  <1>3. u ++ (w ++ t) = (u ++ w) ++ t
    BY StrGrouped
  <1>4. PICK x \in Str : x = u ++ w
    BY StrJoined
  <1>5. (x ++ t) ++ r = x ++ (t ++ r)
    BY StrGrouped
  <1>6. (u ++ v) ++ c = u ++ (v ++ c)
    BY StrGrouped
  <1> QED BY <1>1, <1>2, <1>3, <1>4, <1>5, <1>6

(* The cookie of a packet: behind an opcode and a length. *)
LEMMA CookieRead ==
  ASSUME NEW op \in Numbers, NEW n \in Nat, NEW c \in Str, Len(c) = CookieSize,
         NEW z \in Str, NEW b, b = ((UShort(op) ++ UShort(n)) ++ c) ++ z
  PROVE  Short(b, 1) = op /\ CookieOf(b) = c
  <1>1. op \in Nat /\ CookieSize \in Nat
    BY WireAssumption DEF Numbers
  <1>2. PICK u \in Str : u = UShort(op) /\ Len(u) = 2
    BY <1>1, StrNumber
  <1>3. PICK v \in Str : v = UShort(n) /\ Len(v) = 2
    BY StrNumber
  <1>6. CookieOf(((u ++ v) ++ c) ++ z) = c
    BY <1>2, <1>3, StrThird
  <1>7. PICK y \in Str : y = (v ++ c) ++ z
    BY StrJoined
  <1>8. ((u ++ v) ++ c) ++ z = u ++ y
    BY <1>7, BehindOpcode
  <1>9. Short(u ++ y, 1) = op
    BY <1>2, StrFirst
  <1> QED BY <1>2, <1>3, <1>6, <1>8, <1>9

(* A heartbeat's answer, whatever lies behind it. *)
LEMMA HeartbeatRead ==
  ASSUME NEW c \in Str, Len(c) = CookieSize, NEW tail \in Str,
         CS_HEARTBEAT \in Numbers,
         NEW b \in Str, StartsWith(b, HeartbeatBytes(MakeHeartbeat(c, tail)))
  PROVE  Short(b, 1) = CS_HEARTBEAT /\ CookieOf(b) = Answer(c)
  <1>1. PICK a \in Str : a = Answer(c) /\ Len(a) = CookieSize
    BY StrAnswer
  <1>2. PICK h \in Str : h = MakeHeartbeat(c, tail) /\ h = a ++ tail
    BY <1>1, StrAnswer
  <1>3. HeartbeatBytes(h) \in Str
    BY StrHeartbeat
  <1>4. PICK r \in Str : b = HeartbeatBytes(h) ++ r
    BY <1>2, <1>3, StrPrefix
  <1>5. Len(h) \in Nat
    BY StrLen
  <1>6. PICK u \in Str : u = UShort(CS_HEARTBEAT)
    BY StrNumber DEF CS_HEARTBEAT
  <1>7. PICK v \in Str : v = UShort(Len(h))
    BY <1>5, StrNumber
  <1>8. b = (u ++ (v ++ (a ++ tail))) ++ r
    BY <1>2, <1>4, <1>6, <1>7 DEF HeartbeatBytes, Text, ++
  <1>9. PICK z \in Str : z = tail ++ r
    BY StrJoined
  <1>10. (u ++ (v ++ (a ++ tail))) ++ r = ((u ++ v) ++ a) ++ z
    BY <1>9, BehindCookie
  <1>11. b = ((UShort(CS_HEARTBEAT) ++ UShort(Len(h))) ++ a) ++ z
    BY <1>6, <1>7, <1>8, <1>10
  <1>12. Short(b, 1) = CS_HEARTBEAT /\ CookieOf(b) = a
    BY <1>1, <1>5, <1>11, CookieRead
  <1> QED BY <1>1, <1>12

LEMMA FlagRead ==
  ASSUME NEW flag \in Numbers, CS_FLAGGED_CHEATER \in Numbers, NEW p \in Str,
         NEW n, Begins(p, FlagBytes(flag), n), NEW b \in Str, StartsWith(b, p)
  PROVE  Short(b, 1) = CS_FLAGGED_CHEATER /\ Short(b, 3) = flag
  <1>1. flag \in Nat
    BY DEF Numbers
  <1>2. PICK u \in Str : u = UShort(CS_FLAGGED_CHEATER)
    BY StrNumber DEF CS_FLAGGED_CHEATER
  <1>3. PICK v \in Str : v = UShort(flag)
    BY <1>1, StrNumber
  <1>4. PICK z \in Str : p = (u ++ v) ++ z
    BY <1>2, <1>3 DEF Begins, FlagBytes, Str, ++
  <1>5. PICK r \in Str : b = p ++ r
    BY StrPrefix
  <1>6. PICK y \in Str : y = z ++ r
    BY StrJoined
  <1>7. u ++ v \in Str
    BY StrJoined
  <1>8. b = (u ++ v) ++ y
    <2>1. ((u ++ v) ++ z) ++ r = (u ++ v) ++ (z ++ r)
      BY <1>7, StrGrouped
    <2> QED BY <1>4, <1>5, <1>6, <2>1
  <1>9. PICK x \in Str : x = v ++ y
    BY StrJoined
  <1>10. (u ++ v) ++ y = u ++ x
    BY <1>9, StrGrouped
  <1>11. Short(u ++ x, 1) = CS_FLAGGED_CHEATER
    BY <1>2, StrFirst
  <1>12. Short((u ++ v) ++ y, 3) = flag
    BY <1>2, <1>3, StrSecond DEF CS_FLAGGED_CHEATER
  <1> QED BY <1>8, <1>10, <1>11, <1>12

LEMMA OpcodeRead ==
  ASSUME NEW op \in Numbers, NEW p \in Str, NEW n, Begins(p, UShort(op), n),
         NEW b \in Str, StartsWith(b, p)
  PROVE  Short(b, 1) = op
  <1>1. op \in Nat
    BY DEF Numbers
  <1>2. PICK u \in Str : u = UShort(op)
    BY <1>1, StrNumber
  <1>3. PICK z \in Str : p = u ++ z
    BY <1>2 DEF Begins, Str, ++
  <1>4. PICK r \in Str : b = p ++ r
    BY StrPrefix
  <1>5. (u ++ z) ++ r = u ++ (z ++ r) /\ z ++ r \in Str
    BY StrGrouped, StrJoined
  <1>6. Short(u ++ (z ++ r), 1) = op
    BY <1>2, <1>5, StrFirst
  <1> QED BY <1>3, <1>4, <1>5, <1>6

-----------------------------------------------------------------------------
(* ---- the packets of either direction ---- *)

(* What the packet of bytes p says, by how it was written. *)
UpSays(m, p) ==
  \/ \E f \in Hellos : m = Msg(CS_HELLO, f) /\ p = HelloBytes(f)
  \/ \E c \in Cookies, t \in Tails :
       m = Msg(CS_HEARTBEAT, Answer(c)) /\ p = HeartbeatBytes(MakeHeartbeat(c, t))
  \/ \E flag \in Flags, n \in Nat :
       m = Msg(CS_FLAGGED_CHEATER, flag) /\ Begins(p, FlagBytes(flag), n)
  \/ m = Msg(CS_GOODBYE, 1) /\ Begins(p, UShort(CS_GOODBYE), 6)

DownSays(m, p) ==
  \/ m = Msg(SC_HELLO, versionNum) /\ p = Padded(UShort(SC_HELLO) \o UShort(versionNum))
  \/ \E c \in Cookies : /\ m = Msg(SC_HEARTBEAT, c)
                        /\ p = Padded(UShort(SC_HEARTBEAT) \o UShort(CookieSize) \o c)

(* The packet k brings the bytes q and says m. *)
Carries(k, m, q) == Len(k) = Len(q) /\ k[1].says = m /\ \A j \in 1..Len(q) : k[j].byte = q[j]

UpPackets == {k \in PacketCells : /\ Len(k) <= ServerBuffer
                                  /\ \E m \in Said, p \in Seq(Bytes) :
                                       UpSays(m, p) /\ Carries(k, m, CipherData(p))}
DownPackets == {k \in PacketCells : /\ Len(k) <= RecvLength
                                    /\ \E m \in Said, p \in Seq(Bytes) :
                                         DownSays(m, p) /\ Carries(k, m, Cipher(p))}

LEMMA SentUp ==
  ASSUME NEW m \in Said, m # Nothing, NEW p \in Seq(Bytes), UpSays(m, p),
         Len(p) >= 1, Len(p) <= ServerBuffer
  PROVE  /\ OnWire(CipherData(p), m) \in UpPackets /\ OnWire(CipherData(p), m)[1].says = m
  <1>1. PICK q \in Seq(Bytes) : q = CipherData(p) /\ Len(q) = Len(p)
    BY CiphersOfSeq
  <1>2. PICK k \in PacketCells : k = OnWire(q, m) /\ Carries(k, m, q)
    BY <1>1, SentPacket DEF Carries
  <1>3. k \in UpPackets
    BY <1>1, <1>2 DEF UpPackets, Carries
  <1> QED BY <1>1, <1>2, <1>3 DEF Carries

LEMMA SentDown ==
  ASSUME NEW m \in Said, m # Nothing, NEW p \in Seq(Bytes), DownSays(m, p),
         Len(p) >= 1, Len(p) <= RecvLength
  PROVE  /\ OnWire(Cipher(p), m) \in DownPackets /\ OnWire(Cipher(p), m)[1].says = m
  <1>1. PICK q \in Seq(Bytes) : q = Cipher(p) /\ Len(q) = Len(p)
    BY CiphersOfSeq
  <1>2. PICK k \in PacketCells : k = OnWire(q, m) /\ Carries(k, m, q)
    BY <1>1, SentPacket DEF Carries
  <1>3. k \in DownPackets
    BY <1>1, <1>2 DEF DownPackets, Carries
  <1> QED BY <1>1, <1>2, <1>3 DEF Carries

LEMMA PacketsAre ==
  /\ UpPackets \in SUBSET PacketCells /\ \A k \in UpPackets : Len(k) <= ServerBuffer
  /\ DownPackets \in SUBSET PacketCells /\ \A k \in DownPackets : Len(k) <= RecvLength
  BY DEF UpPackets, DownPackets

(* What a read brings begins with the bytes of the packet it brings. *)
LEMMA BytesBrought ==
  ASSUME NEW s \in Seq(Cell), NEW n \in 1..Len(s), NEW k \in PacketCells, Len(k) <= n,
         \A j \in 1..Len(k) : s[j] = k[j], NEW m, NEW q \in Seq(Bytes), Carries(k, m, q),
         NEW d \in Seq(Bytes), Len(d) = n, \A i \in 1..n : d[i] = s[i].byte
  PROVE  StartsWith(d, q) /\ s[1].says = m
  <1>1. Len(k) \in Nat \ {0} /\ Len(k) = Len(q) /\ n \in Nat
    BY PacketIs, LenProperties DEF Carries
  <1>2. ASSUME NEW j \in 1..Len(q) PROVE d[j] = q[j]
    <2>1. j \in 1..Len(k) /\ j \in 1..n
      BY <1>1
    <2>2. d[j] = s[j].byte /\ s[j] = k[j]
      BY <2>1
    <2>3. k[j].byte = q[j]
      BY DEF Carries
    <2> QED BY <2>2, <2>3
  <1>3. s[1].says = m
    <2>1. 1 \in 1..Len(k)
      BY <1>1
    <2>2. s[1] = k[1]
      BY <2>1
    <2> QED BY <2>2 DEF Carries
  <1>4. Len(q) <= Len(d)
    BY <1>1
  <1> QED BY <1>2, <1>3, <1>4 DEF StartsWith

(* The ciphers keep this. *)
LEMMA CipherStarts ==
  ASSUME NEW d \in Seq(Bytes), NEW q \in Seq(Bytes), StartsWith(d, q)
  PROVE  StartsWith(Cipher(d), Cipher(q)) /\ StartsWith(CipherData(d), CipherData(q))
  <1>1. /\ Len(Cipher(d)) = Len(d) /\ Len(Cipher(q)) = Len(q)
        /\ Len(CipherData(d)) = Len(d) /\ Len(CipherData(q)) = Len(q)
    BY CiphersOfSeq
  <1>2. Len(d) \in Nat /\ Len(q) \in Nat /\ Len(q) <= Len(d)
    BY LenProperties DEF StartsWith
  <1>3. ASSUME NEW j \in 1..Len(q)
        PROVE  Cipher(d)[j] = Cipher(q)[j] /\ CipherData(d)[j] = CipherData(q)[j]
    <2>1. j \in 1..Len(d) /\ d[j] = q[j]
      BY <1>2 DEF StartsWith
    <2> QED BY <2>1, CipherAt
  <1> QED BY <1>1, <1>2, <1>3 DEF StartsWith

LEMMA UpRead ==
  ASSUME NEW s \in Seq(Cell), Stream(s, UpPackets), ~split, NEW n \in Reads(s, ServerBuffer),
         NEW old \in [1..ServerBuffer -> Bytes]
  PROVE  /\ Stream(Rest(s, n), UpPackets)
         /\ \E p \in Seq(Bytes) :
              /\ UpSays(s[1].says, p)
              /\ StartsWith(Overwrite(old, Cipher(Data(s, n))), p)
  <1>0. ServerBuffer \in Nat
    BY WireAssumption
  <1>1. n \in 1..Len(s) /\ n <= ServerBuffer
    BY <1>0, ReadIs
  <1>2. PICK d \in Seq(Bytes) : d = Data(s, n) /\ Len(d) = n /\ \A i \in 1..n : d[i] = s[i].byte
    BY <1>0, ReadIs
  <1>3. /\ Stream(Rest(s, n), UpPackets)
        /\ \E k \in UpPackets : Len(k) <= n /\ \A j \in 1..Len(k) : s[j] = k[j]
    BY <1>0, PacketsAre, WholeRead
  <1>4. PICK k \in UpPackets : Len(k) <= n /\ \A j \in 1..Len(k) : s[j] = k[j]
    BY <1>3
  <1>5. PICK m \in Said, p \in Seq(Bytes) : UpSays(m, p) /\ Carries(k, m, CipherData(p))
    BY DEF UpPackets
  <1>6. PICK q \in Seq(Bytes) : q = CipherData(p) /\ Cipher(q) = p
    BY CiphersOfSeq
  <1>7. k \in PacketCells
    BY PacketsAre
  <1>8. StartsWith(d, q) /\ s[1].says = m
    <2>1. Carries(k, m, q)
      BY <1>5, <1>6
    <2>2. n \in 1..Len(s)
      BY <1>1
    <2>3. Len(d) = n /\ \A i \in 1..n : d[i] = s[i].byte
      BY <1>2
    <2> QED BY <1>4, <1>7, <2>1, <2>2, <2>3, BytesBrought
  <1>9. PICK e \in Seq(Bytes) : e = Cipher(d) /\ Len(e) = n
    BY <1>2, CiphersOfSeq
  <1>10. StartsWith(e, p)
    BY <1>6, <1>8, <1>9, CipherStarts
  <1>11. PICK b : /\ b = Overwrite(old, e) /\ Len(b) = ServerBuffer
                  /\ \A i \in 1..Len(e) : b[i] = e[i]
    <2>1. Len(e) <= ServerBuffer
      BY <1>1, <1>9
    <2>2. Len(Overwrite(old, e)) = ServerBuffer /\ \A i \in 1..Len(e) : Overwrite(old, e)[i] = e[i]
      BY <2>1, OverwriteIs
    <2> QED BY <2>2
  <1>12. StartsWith(b, p)
    <2>1. Len(p) <= Len(e) /\ \A j \in 1..Len(p) : e[j] = p[j]
      BY <1>10 DEF StartsWith
    <2>2. Len(p) \in Nat /\ Len(e) \in Nat
      BY LenProperties
    <2>3. \A j \in 1..Len(p) : j \in 1..Len(e)
      BY <2>1, <2>2
    <2>4. \A j \in 1..Len(p) : b[j] = p[j]
      BY <1>11, <2>1, <2>3
    <2>5. Len(p) <= Len(b)
      BY <1>0, <1>1, <1>9, <1>11, <2>1, <2>2
    <2> QED BY <2>4, <2>5 DEF StartsWith
  <1> QED BY <1>2, <1>3, <1>5, <1>8, <1>9, <1>11, <1>12

LEMMA DownRead ==
  ASSUME NEW s \in Seq(Cell), Stream(s, DownPackets), ~split, NEW n \in Reads(s, RecvLength)
  PROVE  /\ Stream(Rest(s, n), DownPackets)
         /\ \E p \in Seq(Bytes) : /\ DownSays(s[1].says, p)
                                  /\ StartsWith(CipherData(Data(s, n)), p)
  <1>0. RecvLength \in Nat
    BY WireAssumption
  <1>1. n \in 1..Len(s)
    BY <1>0, ReadIs
  <1>2. PICK d \in Seq(Bytes) : d = Data(s, n) /\ Len(d) = n /\ \A i \in 1..n : d[i] = s[i].byte
    BY <1>0, ReadIs
  <1>3. /\ Stream(Rest(s, n), DownPackets)
        /\ \E k \in DownPackets : Len(k) <= n /\ \A j \in 1..Len(k) : s[j] = k[j]
    BY <1>0, PacketsAre, WholeRead
  <1>4. PICK k \in DownPackets : Len(k) <= n /\ \A j \in 1..Len(k) : s[j] = k[j]
    BY <1>3
  <1>5. PICK m \in Said, p \in Seq(Bytes) : DownSays(m, p) /\ Carries(k, m, Cipher(p))
    BY DEF DownPackets
  <1>6. PICK q \in Seq(Bytes) : q = Cipher(p) /\ CipherData(q) = p
    BY CiphersOfSeq
  <1>7. k \in PacketCells
    BY PacketsAre
  <1>8. StartsWith(d, q) /\ s[1].says = m
    <2>1. Carries(k, m, q)
      BY <1>5, <1>6
    <2>2. n \in 1..Len(s)
      BY <1>1
    <2>3. Len(d) = n /\ \A i \in 1..n : d[i] = s[i].byte
      BY <1>2
    <2> QED BY <1>4, <1>7, <2>1, <2>2, <2>3, BytesBrought
  <1>9. StartsWith(CipherData(d), p)
    BY <1>6, <1>8, CipherStarts
  <1> QED BY <1>2, <1>3, <1>5, <1>8, <1>9

-----------------------------------------------------------------------------
(* ---- whose turn it is ---- *)

(* Where the packets with one of these opcodes begin. *)
Asks(s, ops) == {i \in 1..Len(s) : s[i].says.op \in ops}

Asked(u) == Asks(u, {CS_HELLO, CS_HEARTBEAT})
Given(d) == Asks(d, {SC_HEARTBEAT})

(* What the server expects of a question: the answer to its last cookie. *)
Fits(m, rs, n) ==
  /\ m.op = CS_HELLO => Len(rs) = n
  /\ m.op = CS_HEARTBEAT => Len(rs) = n + 1 /\ m.arg = Answer(rs[Len(rs)])

Pending(m, rs, n) == Len(rs) = n + 1 /\ m.arg = rs[Len(rs)]

(* One thing at a time: a question on its way up, a worker that will give a    *)
(* cookie out, or a cookie on its way down.                                   *)
Turn(u, d, w, rs, n) ==
  /\ \A i, j \in Asked(u) : i = j
  /\ \A i, j \in Given(d) : i = j
  /\ Asked(u) # {} => ~w /\ Given(d) = {}
  /\ w => Given(d) = {} /\ Len(rs) = n
  /\ \A i \in Asked(u) : Fits(u[i].says, rs, n)
  /\ \A i \in Given(d) : Pending(d[i].says, rs, n)

LEMMA AsksAppend ==
  ASSUME NEW s \in Seq(Cell), NEW k \in PacketCells, NEW ops, 0 \notin ops,
         NEW i \in Asks(s \o k, ops)
  PROVE  \/ i \in Asks(s, ops) /\ (s \o k)[i] = s[i]
         \/ i = Len(s) + 1 /\ (s \o k)[i] = k[1] /\ k[1].says.op \in ops
  <1>1. /\ k \in Seq(Cell) /\ Len(k) \in Nat \ {0}
        /\ \A j \in 2..Len(k) : k[j].says = Nothing
    BY PacketIs
  <1>2. Len(s) \in Nat
    BY LenProperties
  <1>3. PICK t : t = s \o k
    OBVIOUS
  <1>4. /\ Len(t) = Len(s) + Len(k)
        /\ \A j \in 1..Len(s) + Len(k) : t[j] = IF j <= Len(s) THEN s[j] ELSE k[j - Len(s)]
    BY <1>1, <1>3, ConcatProperties
  <1>5. i \in 1..(Len(s) + Len(k)) /\ t[i].says.op \in ops
    BY <1>3, <1>4 DEF Asks
  <1>6. CASE i <= Len(s)
    <2>1. t[i] = s[i] /\ i \in 1..Len(s)
      BY <1>1, <1>2, <1>4, <1>5, <1>6
    <2> QED BY <1>3, <1>5, <2>1 DEF Asks
  <1>7. CASE ~(i <= Len(s))
    <2>1. t[i] = k[i - Len(s)] /\ i - Len(s) \in 1..Len(k)
      BY <1>1, <1>2, <1>4, <1>5, <1>7
    <2>2. i - Len(s) \notin 2..Len(k)
      <3>1. ASSUME i - Len(s) \in 2..Len(k) PROVE FALSE
        <4>1. t[i].says = Nothing
          BY <1>1, <2>1, <3>1
        <4>2. Nothing.op = 0
          BY DEF Nothing, Msg
        <4> QED BY <1>5, <4>1, <4>2
      <3> QED BY <3>1
    <2>3. i - Len(s) = 1 /\ i = Len(s) + 1
      BY <1>1, <1>2, <1>5, <2>1, <2>2
    <2> QED BY <1>3, <1>5, <2>1, <2>3
  <1> QED BY <1>6, <1>7

(* A part of a stream that ends with it. *)
Behind(r, s) == \E n \in Nat : \A i \in 1..Len(r) : n + i \in 1..Len(s) /\ r[i] = s[n + i]

LEMMA BehindIs ==
  ASSUME NEW s \in Seq(Cell)
  PROVE  /\ Behind(s, s) /\ Behind(<<>>, s)
         /\ \A room \in Nat : \A n \in Reads(s, room) : Behind(Rest(s, n), s)
  <1>1. Behind(s, s)
    <2>1. 0 \in Nat /\ \A i \in 1..Len(s) : 0 + i \in 1..Len(s) /\ s[i] = s[0 + i]
      BY LenProperties
    <2> QED BY <2>1 DEF Behind
  <1>2. Behind(<<>>, s)
    BY DEF Behind
  <1>3. ASSUME NEW room \in Nat, NEW n \in Reads(s, room) PROVE Behind(Rest(s, n), s)
    <2>1. n \in 1..Len(s) /\ Len(s) \in Nat /\ Len(Rest(s, n)) = Len(s) - n
      BY ReadIs, LenProperties
    <2>2. \A i \in 1..(Len(s) - n) : Rest(s, n)[i] = s[n + i]
      BY ReadIs
    <2>3. \A i \in 1..Len(Rest(s, n)) : n + i \in 1..Len(s) /\ Rest(s, n)[i] = s[n + i]
      BY <2>1, <2>2
    <2>4. n \in Nat
      BY <2>1
    <2> QED BY <2>3, <2>4, Zenon DEF Behind
  <1> QED BY <1>1, <1>2, <1>3

LEMMA AsksBehind ==
  ASSUME NEW r, NEW s \in Seq(Cell), Behind(r, s)
  PROVE  \E n \in Nat : \A ops : \A i \in Asks(r, ops) : n + i \in Asks(s, ops) /\ r[i] = s[n + i]
  <1>1. PICK n \in Nat : \A i \in 1..Len(r) : n + i \in 1..Len(s) /\ r[i] = s[n + i]
    BY DEF Behind
  <1>2. ASSUME NEW ops, NEW i \in Asks(r, ops) PROVE n + i \in Asks(s, ops) /\ r[i] = s[n + i]
    <2>1. i \in 1..Len(r) /\ r[i].says.op \in ops
      BY DEF Asks
    <2>2. n + i \in 1..Len(s) /\ r[i] = s[n + i]
      BY <1>1, <2>1
    <2> QED BY <2>1, <2>2 DEF Asks
  <1> QED BY <1>2

LEMMA AsksWhere ==
  ASSUME NEW s, NEW ops, NEW i \in Asks(s, ops)
  PROVE  i \in Int
  <1>1. i \in 1..Len(s)
    BY DEF Asks
  <1> QED BY <1>1

LEMMA NoMoreAsked ==
  ASSUME NEW r, NEW s \in Seq(Cell), Behind(r, s), NEW ops, Asks(s, ops) = {}
  PROVE  Asks(r, ops) = {}
  BY AsksBehind

LEMMA OnlyFirst ==
  ASSUME NEW s \in Seq(Cell), NEW room \in Nat, NEW n \in Reads(s, room), NEW ops,
         s[1].says.op \in ops, \A i, j \in Asks(s, ops) : i = j
  PROVE  Asks(Rest(s, n), ops) = {} /\ 1 \in Asks(s, ops)
  <1>1. n \in 1..Len(s) /\ Len(s) \in Nat /\ Len(Rest(s, n)) = Len(s) - n
    BY ReadIs, LenProperties
  <1>2. \A i \in 1..(Len(s) - n) : Rest(s, n)[i] = s[n + i]
    BY ReadIs
  <1>3. 1 \in Asks(s, ops)
    <2>1. 1 \in 1..Len(s)
      BY <1>1
    <2> QED BY <2>1 DEF Asks
  <1>4. ASSUME NEW i \in Asks(Rest(s, n), ops) PROVE FALSE
    <2>1. i \in 1..(Len(s) - n) /\ Rest(s, n)[i].says.op \in ops
      BY <1>1 DEF Asks
    <2>2. n + i \in 1..Len(s) /\ n + i # 1
      BY <1>1, <2>1
    <2>3. n + i \in Asks(s, ops)
      BY <1>2, <2>1, <2>2 DEF Asks
    <2> QED BY <1>3, <2>2, <2>3
  <1> QED BY <1>3, <1>4

LEMMA TurnLess ==
  ASSUME NEW u \in Seq(Cell), NEW d \in Seq(Cell), NEW w, NEW rs, NEW n, Turn(u, d, w, rs, n),
         NEW u2, Behind(u2, u), NEW d2, Behind(d2, d), NEW w2, w2 => w
  PROVE  Turn(u2, d2, w2, rs, n)
  <1>1. PICK a \in Nat : \A ops : \A i \in Asks(u2, ops) : a + i \in Asks(u, ops) /\ u2[i] = u[a + i]
    BY AsksBehind
  <1>2. PICK b \in Nat : \A ops : \A i \in Asks(d2, ops) : b + i \in Asks(d, ops) /\ d2[i] = d[b + i]
    BY AsksBehind
  <1>3. \A i \in Asked(u2) : i \in Int /\ a + i \in Asked(u) /\ u2[i] = u[a + i]
    BY <1>1, AsksWhere DEF Asked
  <1>4. \A i \in Given(d2) : i \in Int /\ b + i \in Given(d) /\ d2[i] = d[b + i]
    BY <1>2, AsksWhere DEF Given
  <1>5. ASSUME NEW i \in Asked(u2), NEW j \in Asked(u2) PROVE i = j
    <2>1. a + i = a + j
      BY <1>3 DEF Turn
    <2> QED BY <1>3, <2>1
  <1>6. ASSUME NEW i \in Given(d2), NEW j \in Given(d2) PROVE i = j
    <2>1. b + i = b + j
      BY <1>4 DEF Turn
    <2> QED BY <1>4, <2>1
  <1>7. Given(d) = {} => Given(d2) = {}
    BY <1>4
  <1>8. Asked(u) = {} => Asked(u2) = {}
    BY <1>3
  <1>9. \A i \in Asked(u2) : Fits(u2[i].says, rs, n)
    BY <1>3 DEF Turn
  <1>10. \A i \in Given(d2) : Pending(d2[i].says, rs, n)
    BY <1>4 DEF Turn
  <1>11. Asked(u2) # {} => ~w2 /\ Given(d2) = {}
    BY <1>7, <1>8 DEF Turn
  <1>12. w2 => Given(d2) = {} /\ Len(rs) = n
    BY <1>7 DEF Turn
  <1> QED BY <1>5, <1>6, <1>9, <1>10, <1>11, <1>12 DEF Turn

LEMMA TurnFree ==
  ASSUME NEW u, NEW d, NEW w, NEW rs, NEW n, Asked(u) = {}, Given(d) = {}, w => Len(rs) = n
  PROVE  Turn(u, d, w, rs, n)
  BY DEF Turn

LEMMA TurnUp ==
  ASSUME NEW u \in Seq(Cell), NEW d, NEW w, NEW rs, NEW n, Turn(u, d, w, rs, n),
         NEW k \in PacketCells,
         k[1].says.op \in {CS_HELLO, CS_HEARTBEAT} =>
           Asked(u) = {} /\ Given(d) = {} /\ ~w /\ Fits(k[1].says, rs, n)
  PROVE  Turn(u \o k, d, w, rs, n)
  <1>1. 0 \notin {CS_HELLO, CS_HEARTBEAT}
    BY DEF CS_HELLO, CS_HEARTBEAT
  <1>2. PICK t : t = u \o k
    OBVIOUS
  <1>3. \A i \in Asked(t) : \/ i \in Asked(u) /\ t[i] = u[i]
                            \/ /\ i = Len(u) + 1 /\ t[i] = k[1]
                               /\ k[1].says.op \in {CS_HELLO, CS_HEARTBEAT}
    <2> TAKE i \in Asked(t)
    <2>1. PICK ops : ops = {CS_HELLO, CS_HEARTBEAT}
      OBVIOUS
    <2>2. i \in Asks(u \o k, ops) /\ 0 \notin ops
      BY <1>1, <1>2, <2>1 DEF Asked
    <2>3. \/ i \in Asks(u, ops) /\ (u \o k)[i] = u[i]
          \/ i = Len(u) + 1 /\ (u \o k)[i] = k[1] /\ k[1].says.op \in ops
      BY <2>2, AsksAppend
    <2> QED BY <1>2, <2>1, <2>3 DEF Asked
  <1>4. CASE k[1].says.op \in {CS_HELLO, CS_HEARTBEAT}
    <2>1. Asked(u) = {} /\ Given(d) = {} /\ ~w /\ Fits(k[1].says, rs, n)
      BY <1>4
    <2>2. \A i \in Asked(t) : i = Len(u) + 1 /\ t[i] = k[1]
      BY <1>3, <2>1
    <2>3. \A i, j \in Asked(t) : i = j
      BY <2>2
    <2>4. \A i \in Asked(t) : Fits(t[i].says, rs, n)
      BY <2>1, <2>2
    <2> QED BY <1>2, <2>1, <2>3, <2>4 DEF Turn
  <1>5. CASE k[1].says.op \notin {CS_HELLO, CS_HEARTBEAT}
    <2>1. \A i \in Asked(t) : i \in Asked(u) /\ t[i] = u[i]
      BY <1>3, <1>5
    <2>2. \A i, j \in Asked(t) : i = j
      BY <2>1 DEF Turn
    <2>3. \A i \in Asked(t) : Fits(t[i].says, rs, n)
      BY <2>1 DEF Turn
    <2>4. Asked(t) # {} => Asked(u) # {}
      BY <2>1
    <2> QED BY <1>2, <2>2, <2>3, <2>4 DEF Turn
  <1> QED BY <1>4, <1>5

LEMMA TurnDown ==
  ASSUME NEW u, NEW d \in Seq(Cell), NEW w, NEW rs, NEW n, Turn(u, d, w, rs, n),
         NEW k \in PacketCells,
         k[1].says.op = SC_HEARTBEAT =>
           Asked(u) = {} /\ Given(d) = {} /\ ~w /\ Pending(k[1].says, rs, n)
  PROVE  Turn(u, d \o k, w, rs, n)
  <1>1. 0 \notin {SC_HEARTBEAT}
    BY DEF SC_HEARTBEAT
  <1>2. PICK t : t = d \o k
    OBVIOUS
  <1>3. \A i \in Given(t) : \/ i \in Given(d) /\ t[i] = d[i]
                            \/ i = Len(d) + 1 /\ t[i] = k[1] /\ k[1].says.op = SC_HEARTBEAT
    <2> TAKE i \in Given(t)
    <2>1. PICK ops : ops = {SC_HEARTBEAT}
      OBVIOUS
    <2>2. i \in Asks(d \o k, ops) /\ 0 \notin ops
      BY <1>1, <1>2, <2>1 DEF Given
    <2>3. \/ i \in Asks(d, ops) /\ (d \o k)[i] = d[i]
          \/ i = Len(d) + 1 /\ (d \o k)[i] = k[1] /\ k[1].says.op \in ops
      BY <2>2, AsksAppend
    <2> QED BY <1>2, <2>1, <2>3 DEF Given
  <1>4. CASE k[1].says.op = SC_HEARTBEAT
    <2>1. Asked(u) = {} /\ Given(d) = {} /\ ~w /\ Pending(k[1].says, rs, n)
      BY <1>4
    <2>2. \A i \in Given(t) : i = Len(d) + 1 /\ t[i] = k[1]
      BY <1>3, <2>1
    <2>3. \A i, j \in Given(t) : i = j
      BY <2>2
    <2>4. \A i \in Given(t) : Pending(t[i].says, rs, n)
      BY <2>1, <2>2
    <2> QED BY <1>2, <2>1, <2>3, <2>4 DEF Turn
  <1>5. CASE k[1].says.op # SC_HEARTBEAT
    <2>1. \A i \in Given(t) : i \in Given(d) /\ t[i] = d[i]
      BY <1>3, <1>5
    <2>2. \A i, j \in Given(t) : i = j
      BY <2>1 DEF Turn
    <2>3. \A i \in Given(t) : Pending(t[i].says, rs, n)
      BY <2>1 DEF Turn
    <2>4. Given(d) = {} => Given(t) = {}
      BY <2>1
    <2> QED BY <1>2, <2>2, <2>3, <2>4 DEF Turn
  <1> QED BY <1>4, <1>5

-----------------------------------------------------------------------------
(* ---- packets sent ---- *)

LEMMA MsgIs ==
  ASSUME NEW op, NEW arg
  PROVE  /\ Msg(op, arg).op = op /\ Msg(op, arg).arg = arg
         /\ op # 0 => Msg(op, arg) # Nothing
  BY DEF Msg, Nothing

LEMMA HelloGoes ==
  ASSUME NEW f \in Hellos, SendData(ClientHello(f), Msg(CS_HELLO, f))
  PROVE  \E k \in UpPackets : /\ k[1].says = Msg(CS_HELLO, f)
                              /\ up' = IF server \in {"new", "open"} THEN up \o k ELSE up
  <1>1. f \in [1..4 -> Seq(Bytes)]
    BY WireAssumption
  <1>2. PICK p \in Seq(Bytes) :
          p = HelloBytes(f) /\ Len(p) = 10 + Len(f[1]) + Len(f[2]) + Len(f[3]) + Len(f[4])
    BY <1>1, HelloContents
  <1>3. Len(p) >= 1 /\ Len(p) <= ServerBuffer
    <2>1. \A k \in 1..4 : Len(f[k]) \in Nat
      BY <1>1, LenProperties
    <2>2. PICK n1 \in Nat, n2 \in Nat, n3 \in Nat, n4 \in Nat :
            n1 = Len(f[1]) /\ n2 = Len(f[2]) /\ n3 = Len(f[3]) /\ n4 = Len(f[4])
      BY <2>1
    <2>3. 10 + n1 + n2 + n3 + n4 <= ServerBuffer
      BY <2>2, FitAssumption
    <2>4. Len(p) = 10 + n1 + n2 + n3 + n4
      BY <1>2, <2>2
    <2> QED BY <2>3, <2>4
  <1>4. PICK m \in Said : m = Msg(CS_HELLO, f) /\ m # Nothing
    BY SaidIs, MsgIs DEF CS_HELLO
  <1>5. UpSays(m, p)
    BY <1>2, <1>4 DEF UpSays
  <1>6. OnWire(CipherData(p), m) \in UpPackets /\ OnWire(CipherData(p), m)[1].says = m
    BY <1>3, <1>4, <1>5, SentUp
  <1>7. up' = IF server \in {"new", "open"} THEN up \o OnWire(CipherData(p), m) ELSE up
    BY <1>2, <1>4, HelloSent
  <1> QED BY <1>4, <1>6, <1>7

LEMMA AnswerGoes ==
  ASSUME NEW c \in Cookies, NEW tail \in Tails,
         SendData(Heartbeat(MakeHeartbeat(c, tail)), Msg(CS_HEARTBEAT, MakeHeartbeat(c, <<>>)))
  PROVE  \E k \in UpPackets : /\ k[1].says = Msg(CS_HEARTBEAT, Answer(c))
                              /\ up' = IF server \in {"new", "open"} THEN up \o k ELSE up
  <1>1. c \in Seq(Bytes) /\ Len(c) = CookieSize /\ tail \in Seq(Bytes)
    BY CookieType, TailType
  <1>2. PICK h \in Seq(Bytes) : h = MakeHeartbeat(c, tail) /\ Len(h) = Len(c) + Len(tail)
    BY <1>1, HeartbeatMade
  <1>3. PICK p \in Seq(Bytes) : p = HeartbeatBytes(h) /\ Len(p) = 4 + Len(h)
    BY HeartbeatContents
  <1>4. Len(p) >= 1 /\ Len(p) <= ServerBuffer
    <2>1. CookieSize \in Nat /\ Len(tail) \in Nat
      BY <1>1, WireAssumption, LenProperties
    <2>2. 4 + CookieSize + Len(tail) <= ServerBuffer
      BY FitAssumption
    <2> QED BY <1>1, <1>2, <1>3, <2>1, <2>2
  <1>5. PICK a \in Seq(Bytes) : a = Answer(c) /\ a = MakeHeartbeat(c, <<>>)
    BY <1>1, HeartbeatMade
  <1>6. PICK m \in Said : m = Msg(CS_HEARTBEAT, a) /\ m # Nothing
    BY SaidIs, MsgIs DEF CS_HEARTBEAT
  <1>7. UpSays(m, p)
    BY <1>2, <1>3, <1>5, <1>6 DEF UpSays
  <1>8. OnWire(CipherData(p), m) \in UpPackets /\ OnWire(CipherData(p), m)[1].says = m
    BY <1>4, <1>6, <1>7, SentUp
  <1>9. up' = IF server \in {"new", "open"} THEN up \o OnWire(CipherData(p), m) ELSE up
    BY <1>1, <1>2, <1>3, <1>5, <1>6, AnswerSent
  <1> QED BY <1>5, <1>6, <1>8, <1>9

(* A packet that begins with x has the length it says. *)
LEMMA BeginsLen ==
  ASSUME NEW p, NEW x \in Seq(Bytes), NEW n, Begins(p, x, n)
  PROVE  p \in Seq(Bytes) /\ Len(p) = n /\ Len(p) \in Nat /\ Len(x) <= Len(p)
  <1>1. PICK z \in Seq(Bytes) : p = x \o z /\ Len(x) + Len(z) = n
    BY DEF Begins
  <1>2. p \in Seq(Bytes) /\ Len(p) = Len(x) + Len(z)
    BY <1>1, Joined
  <1>3. Len(x) \in Nat /\ Len(z) \in Nat
    BY LenProperties
  <1> QED BY <1>1, <1>2, <1>3

LEMMA PutTogether ==
  ASSUME NEW a \in Seq(Bytes), NEW b \in Seq(Bytes)
  PROVE  /\ a \o b \in Seq(Bytes)
         /\ Len(a) = 2 /\ Len(b) = 2 => Len(a \o b) = 4
         /\ Len(a) = 4 => Len(a \o b) = 4 + Len(b)
  <1>1. a \o b \in Seq(Bytes) /\ Len(a \o b) = Len(a) + Len(b)
    BY Joined
  <1>2. PICK n : n = Len(a \o b)
    OBVIOUS
  <1>3. PICK i \in Nat, j \in Nat : i = Len(a) /\ j = Len(b) /\ n = i + j
    BY <1>1, <1>2, LenProperties
  <1>4. i = 2 /\ j = 2 => n = 4
    <2>1. 2 + 2 = 4
      OBVIOUS
    <2> QED BY <1>3, <2>1, Zenon
  <1>5. i = 4 => n = 4 + j
    BY <1>3, Zenon
  <1> QED BY <1>1, <1>2, <1>3, <1>4, <1>5, Zenon

LEMMA PaddedLen ==
  ASSUME NEW b \in Seq(Bytes)
  PROVE  /\ Padded(b) \in Seq(Bytes) /\ Len(Padded(b)) = Capacity(Len(b))
         /\ Len(Padded(b)) >= Len(b)
  <1>1. /\ Len(Padded(b)) \in Nat /\ Len(b) <= Len(Padded(b))
    BY PaddedIs, BeginsLen
  <1>2. Len(b) \in Nat
    BY LenProperties
  <1> QED BY <1>1, <1>2, PaddedType

LEMMA FlagGoes ==
  ASSUME NEW flag \in Flags, FlagCheater(flag)
  PROVE  \E k \in UpPackets : /\ k[1].says = Msg(CS_FLAGGED_CHEATER, flag)
                              /\ up' = IF server \in {"new", "open"} THEN up \o k ELSE up
  <1>1. PICK p \in Seq(Bytes) :
           /\ \/ Begins(p, FlagBytes(flag), 6)
              \/ \E data \in Tails : Begins(p, FlagBytes(flag), 12 + Len(data))
           /\ up' = IF server \in {"new", "open"}
                    THEN up \o OnWire(CipherData(p), Msg(CS_FLAGGED_CHEATER, flag)) ELSE up
    BY FlagSent
  <1>2. PICK x \in Seq(Bytes) : x = FlagBytes(flag) /\ Len(x) = 4
    BY FlagWritten, WireAssumption DEF Numbers
  <1>3. PICK n \in Nat : Begins(p, x, n) /\ n <= ServerBuffer
    <2>1. CASE Begins(p, x, 6)
      BY <2>1, FitAssumption
    <2>2. ASSUME NEW data \in Tails, Begins(p, x, 12 + Len(data))
          PROVE  12 + Len(data) \in Nat /\ 12 + Len(data) <= ServerBuffer
      BY TailType, LenProperties, FitAssumption
    <2> QED BY <1>1, <1>2, <2>1, <2>2
  <1>4. Len(p) >= 1 /\ Len(p) <= ServerBuffer
    <2>1. Len(p) = n /\ Len(x) <= Len(p) /\ Len(p) \in Nat
      BY <1>3, BeginsLen
    <2> QED BY <1>2, <1>3, <2>1
  <1>5. PICK m \in Said : m = Msg(CS_FLAGGED_CHEATER, flag) /\ m # Nothing
    BY SaidIs, MsgIs DEF CS_FLAGGED_CHEATER
  <1>6. UpSays(m, p)
    BY <1>2, <1>3, <1>5 DEF UpSays
  <1>7. OnWire(CipherData(p), m) \in UpPackets /\ OnWire(CipherData(p), m)[1].says = m
    BY <1>4, <1>5, <1>6, SentUp
  <1> QED BY <1>1, <1>5, <1>7

LEMMA GoodbyeGoes ==
  ASSUME SendData(ClientGoodbye(1), Msg(CS_GOODBYE, 1))
  PROVE  \E k \in UpPackets : /\ k[1].says = Msg(CS_GOODBYE, 1)
                              /\ up' = IF server \in {"new", "open"} THEN up \o k ELSE up
  <1>1. PICK p \in Seq(Bytes) :
           /\ Begins(p, UShort(CS_GOODBYE), 6)
           /\ up' = IF server \in {"new", "open"}
                    THEN up \o OnWire(CipherData(p), Msg(CS_GOODBYE, 1)) ELSE up
    BY GoodbyeSent
  <1>2. Len(p) = 6
    BY <1>1, UShortType, BeginsLen DEF CS_GOODBYE
  <1>3. PICK m \in Said : m = Msg(CS_GOODBYE, 1) /\ m # Nothing
    BY SaidIs, MsgIs DEF CS_GOODBYE
  <1>4. UpSays(m, p)
    BY <1>1, <1>3 DEF UpSays
  <1>5. OnWire(CipherData(p), m) \in UpPackets /\ OnWire(CipherData(p), m)[1].says = m
    <2>1. Len(p) >= 1 /\ Len(p) <= ServerBuffer
      BY <1>2, FitAssumption
    <2> QED BY <1>3, <1>4, <2>1, SentUp
  <1> QED BY <1>1, <1>3, <1>5

LEMMA ReplyGoes ==
  ASSUME SendBytes(UShort(SC_HELLO) \o UShort(versionNum), Msg(SC_HELLO, versionNum))
  PROVE  \E k \in DownPackets : /\ k[1].says = Msg(SC_HELLO, versionNum)
                                /\ down' = IF client = "open" THEN down \o k ELSE down
  <1>1. PICK b \in Seq(Bytes) : b = UShort(SC_HELLO) \o UShort(versionNum) /\ Len(b) = 4
    <2>1. UShort(SC_HELLO) \in Seq(Bytes) /\ Len(UShort(SC_HELLO)) = 2
      BY UShortType DEF SC_HELLO
    <2>2. UShort(versionNum) \in Seq(Bytes) /\ Len(UShort(versionNum)) = 2
      BY UShortType, WireAssumption DEF Numbers
    <2> QED BY <2>1, <2>2, PutTogether
  <1>2. PICK p \in Seq(Bytes) : p = Padded(b) /\ Len(p) = Capacity(4) /\ Len(p) >= 4
    BY <1>1, PaddedLen
  <1>3. PICK m \in Said : m = Msg(SC_HELLO, versionNum) /\ m # Nothing
    BY SaidIs, MsgIs DEF SC_HELLO
  <1>4. DownSays(m, p)
    BY <1>1, <1>2, <1>3 DEF DownSays
  <1>5. Len(p) >= 1 /\ Len(p) <= RecvLength
    <2>1. Capacity(4) <= RecvLength
      BY FitAssumption
    <2>2. Len(p) \in Nat
      BY LenProperties
    <2> QED BY <1>2, <2>1, <2>2
  <1>6. OnWire(Cipher(p), m) \in DownPackets /\ OnWire(Cipher(p), m)[1].says = m
    BY <1>3, <1>4, <1>5, SentDown
  <1>7. down' = IF client = "open" THEN down \o OnWire(Cipher(p), m) ELSE down
    BY <1>1, <1>2, <1>3, SendBytesIs
  <1> QED BY <1>3, <1>6, <1>7

LEMMA CookieGoes ==
  ASSUME NEW c \in Cookies,
         SendBytes(UShort(SC_HEARTBEAT) \o UShort(CookieSize) \o c, Msg(SC_HEARTBEAT, c))
  PROVE  \E k \in DownPackets : /\ k[1].says = Msg(SC_HEARTBEAT, c)
                                /\ down' = IF client = "open" THEN down \o k ELSE down
  <1>1. PICK b \in Seq(Bytes) : /\ b = UShort(SC_HEARTBEAT) \o UShort(CookieSize) \o c
                                /\ Len(b) = 4 + CookieSize
    <2>1. PICK x \in Seq(Bytes) : x = UShort(SC_HEARTBEAT) /\ Len(x) = 2
      BY UShortType DEF SC_HEARTBEAT
    <2>2. PICK y \in Seq(Bytes) : y = UShort(CookieSize) /\ Len(y) = 2
      BY UShortType, WireAssumption
    <2>3. c \in Seq(Bytes) /\ Len(c) = CookieSize /\ CookieSize \in Nat
      BY CookieType, WireAssumption
    <2>4. x \o y \in Seq(Bytes) /\ Len(x \o y) = 4
      BY <2>1, <2>2, PutTogether
    <2>5. (x \o y) \o c \in Seq(Bytes) /\ Len((x \o y) \o c) = 4 + CookieSize
      BY <2>3, <2>4, PutTogether
    <2> QED BY <2>1, <2>2, <2>5
  <1>2. PICK p \in Seq(Bytes) : p = Padded(b) /\ Len(p) = Capacity(4 + CookieSize) /\ Len(p) >= 4 + CookieSize
    BY <1>1, PaddedLen
  <1>3. c \in Seq(Bytes)
    BY CookieType
  <1>4. PICK m \in Said : m = Msg(SC_HEARTBEAT, c) /\ m # Nothing
    BY <1>3, SaidIs, MsgIs DEF SC_HEARTBEAT
  <1>5. DownSays(m, p)
    BY <1>1, <1>2, <1>4 DEF DownSays
  <1>6. Len(p) >= 1 /\ Len(p) <= RecvLength
    <2>1. Capacity(4 + CookieSize) <= RecvLength
      BY FitAssumption
    <2>2. Len(p) \in Nat /\ CookieSize \in Nat
      BY LenProperties, WireAssumption
    <2> QED BY <1>2, <2>1, <2>2
  <1>7. OnWire(Cipher(p), m) \in DownPackets /\ OnWire(Cipher(p), m)[1].says = m
    BY <1>4, <1>5, <1>6, SentDown
  <1>8. down' = IF client = "open" THEN down \o OnWire(Cipher(p), m) ELSE down
    BY <1>1, <1>2, <1>4, SendBytesIs
  <1> QED BY <1>4, <1>7, <1>8

-----------------------------------------------------------------------------
(* ---- packets handled by the client ---- *)

LEMMA ReplyRead ==
  ASSUME NEW b \in Str, NEW p, p = Padded(UShort(SC_HELLO) \o UShort(versionNum)), StartsWith(b, p)
  PROVE  Len(b) >= 4 /\ Short(b, 1) = SC_HELLO /\ Short(b, 3) = versionNum
  <1>1. versionNum \in Numbers /\ versionNum \in Nat /\ SC_HELLO \in Nat /\ SC_HELLO \in Numbers
    BY WireAssumption, FitAssumption DEF Numbers, SC_HELLO, CS_QUERY_MEMORY
  <1>2. PICK u \in Str : u = UShort(SC_HELLO) /\ Len(u) = 2
    BY <1>1, StrNumber
  <1>3. PICK v \in Str : v = UShort(versionNum) /\ Len(v) = 2
    BY <1>1, StrNumber
  <1>4. PICK x \in Seq(Bytes) : x = u ++ v /\ Len(x) = 4
    BY <1>2, <1>3, PutTogether DEF Str, ++
  <1>5. Begins(p, x, Capacity(4))
    BY <1>2, <1>3, <1>4, PaddedIs DEF ++
  <1>6. p \in Str /\ Len(p) >= 4
    BY <1>4, <1>5, BeginsLen DEF Str
  <1>7. PICK z \in Str : p = x ++ z
    BY <1>5 DEF Begins, Str, ++
  <1>8. PICK r \in Str : b = p ++ r
    BY <1>6, StrPrefix
  <1>9. PICK y \in Str : y = z ++ r
    BY StrJoined
  <1>10. x \in Str
    BY DEF Str
  <1>11. b = (u ++ v) ++ y
    <2>1. (x ++ z) ++ r = x ++ (z ++ r)
      BY <1>10, StrGrouped
    <2> QED BY <1>4, <1>7, <1>8, <1>9, <2>1
  <1>12. PICK q \in Str : q = v ++ y
    BY StrJoined
  <1>13. (u ++ v) ++ y = u ++ q
    BY <1>12, StrGrouped
  <1>14. Short(u ++ q, 1) = SC_HELLO
    BY <1>1, <1>2, StrFirst
  <1>15. Short((u ++ v) ++ y, 3) = versionNum
    BY <1>1, <1>2, <1>3, StrSecond
  <1>16. Len(b) >= 4
    <2>1. Len(p) <= Len(b)
      BY DEF StartsWith
    <2>2. Len(b) \in Nat /\ Len(p) \in Nat
      BY <1>6, StrLen
    <2> QED BY <1>6, <2>1, <2>2
  <1> QED BY <1>11, <1>13, <1>14, <1>15, <1>16

LEMMA CookieArrives ==
  ASSUME NEW c \in Cookies, NEW b \in Str, NEW p,
         p = Padded(UShort(SC_HEARTBEAT) \o UShort(CookieSize) \o c), StartsWith(b, p)
  PROVE  /\ Len(b) >= 4 + CookieSize /\ Short(b, 1) = SC_HEARTBEAT
         /\ Short(b, 3) = CookieSize /\ CookieOf(b) = c
  <1>1. CookieSize \in Numbers /\ CookieSize \in Nat /\ SC_HEARTBEAT \in Nat /\ SC_HEARTBEAT \in Numbers
    BY WireAssumption, FitAssumption DEF Numbers, SC_HEARTBEAT, CS_QUERY_MEMORY
  <1>2. PICK u \in Str : u = UShort(SC_HEARTBEAT) /\ Len(u) = 2
    BY <1>1, StrNumber
  <1>3. PICK v \in Str : v = UShort(CookieSize) /\ Len(v) = 2
    BY <1>1, StrNumber
  <1>4. c \in Str /\ Len(c) = CookieSize
    BY CookieType DEF Str
  <1>5. PICK x \in Seq(Bytes) : x = (u ++ v) ++ c /\ Len(x) = 4 + CookieSize
    <2>1. u \o v \in Seq(Bytes) /\ Len(u \o v) = 4
      BY <1>2, <1>3, PutTogether DEF Str
    <2>2. (u \o v) \o c \in Seq(Bytes) /\ Len((u \o v) \o c) = 4 + CookieSize
      BY <1>4, <2>1, PutTogether DEF Str
    <2> QED BY <2>2 DEF ++
  <1>6. Begins(p, x, Capacity(4 + CookieSize))
    BY <1>2, <1>3, <1>5, PaddedIs DEF ++
  <1>7. p \in Str /\ Len(p) >= 4 + CookieSize
    BY <1>5, <1>6, BeginsLen DEF Str
  <1>8. PICK z \in Str : p = x ++ z
    BY <1>6 DEF Begins, Str, ++
  <1>9. PICK r \in Str : b = p ++ r
    BY <1>7, StrPrefix
  <1>10. PICK y \in Str : y = z ++ r
    BY StrJoined
  <1>11. x \in Str
    BY DEF Str
  <1>12. b = ((u ++ v) ++ c) ++ y
    <2>1. (x ++ z) ++ r = x ++ (z ++ r)
      BY <1>11, StrGrouped
    <2> QED BY <1>5, <1>8, <1>9, <1>10, <2>1
  <1>13. Short(b, 1) = SC_HEARTBEAT /\ CookieOf(b) = c
    BY <1>1, <1>2, <1>3, <1>4, <1>12, CookieRead
  <1>14. Short(b, 3) = CookieSize
    <2>1. u ++ v \in Str
      BY StrJoined
    <2>2. PICK q \in Str : q = c ++ y
      BY <1>4, StrJoined
    <2>3. ((u ++ v) ++ c) ++ y = (u ++ v) ++ q
      BY <1>4, <2>1, <2>2, StrGrouped
    <2>4. Short((u ++ v) ++ q, 3) = CookieSize
      BY <1>1, <1>2, <1>3, StrSecond
    <2> QED BY <1>12, <2>3, <2>4
  <1>15. Len(b) >= 4 + CookieSize
    <2>1. Len(p) <= Len(b)
      BY DEF StartsWith
    <2>2. Len(b) \in Nat /\ Len(p) \in Nat
      BY <1>7, StrLen
    <2> QED BY <1>1, <1>7, <2>1, <2>2
  <1> QED BY <1>13, <1>14, <1>15

LEMMA ReplyHandled ==
  ASSUME NEW b \in Seq(Bytes), NEW said, HandleInboundPacket(b, said),
         Len(b) >= 4, Short(b, 1) = SC_HELLO
  PROVE  /\ atClient' = Exchange(said, Msg(SC_HELLO, Short(b, 3)))
         /\ UNCHANGED <<client, up>>
  <1>1. Len(b) \in Nat
    BY LenProperties
  <1>2. Len(b) >= 2
    BY <1>1
  <1>3. SC_HELLO # SC_HEARTBEAT /\ SC_QUERY_MEMORY \notin {SC_HELLO, SC_HEARTBEAT}
    BY DEF SC_HELLO, SC_HEARTBEAT, SC_QUERY_MEMORY
  <1> QED BY <1>2, <1>3 DEF HandleInboundPacket

LEMMA CookieHandled ==
  ASSUME NEW b \in Seq(Bytes), NEW said, HandleInboundPacket(b, said),
         Len(b) >= 4 + CookieSize, Short(b, 1) = SC_HEARTBEAT, Short(b, 3) = CookieSize
  PROVE  /\ atClient' = Exchange(said, Msg(SC_HEARTBEAT, CookieOf(b)))
         /\ client' = client
         /\ \E tail \in Tails : SendData(Heartbeat(MakeHeartbeat(CookieOf(b), tail)),
                                         Msg(CS_HEARTBEAT, MakeHeartbeat(CookieOf(b), <<>>)))
  <1>1. Len(b) \in Nat /\ CookieSize \in Nat
    BY LenProperties, WireAssumption
  <1>2. Len(b) >= 2 /\ Len(b) >= 4
    BY <1>1
  <1>3. SC_HELLO # SC_HEARTBEAT /\ SC_QUERY_MEMORY \notin {SC_HELLO, SC_HEARTBEAT}
    BY DEF SC_HELLO, SC_HEARTBEAT, SC_QUERY_MEMORY
  <1>4. CookieOf(b) = SubSeq(b, 5, 4 + CookieSize)
    BY DEF CookieOf
  <1> QED BY <1>2, <1>3, <1>4 DEF HandleInboundPacket

-----------------------------------------------------------------------------
(* ---- packets handled by the server ---- *)

LEMMA Opcodes ==
  /\ CS_HELLO \in Numbers /\ CS_HEARTBEAT \in Numbers /\ CS_FLAGGED_CHEATER \in Numbers
  /\ CS_GOODBYE \in Numbers
  <1>1. PICK top : top = Byte * Byte - 1
    OBVIOUS
  <1>2. top \in Int
    BY <1>1, ByteFacts
  <1>3. 6 \in 0..top
    BY <1>1, FitAssumption DEF Numbers, CS_QUERY_MEMORY
  <1>4. 1 \in 0..top /\ 2 \in 0..top /\ 3 \in 0..top /\ 5 \in 0..top
    BY <1>2, <1>3
  <1> QED BY <1>1, <1>4 DEF Numbers, CS_HELLO, CS_HEARTBEAT, CS_FLAGGED_CHEATER, CS_GOODBYE

LEMMA HelloHandled ==
  ASSUME NEW f \in Hellos, NEW b \in Seq(Bytes), StartsWith(b, HelloBytes(f)), NEW said,
         HandlePacket(b, said)
  PROVE  /\ atServer' = Exchange(said, Msg(CS_HELLO, f))
         /\ \/ Ends("dropped")
            \/ /\ SendBytes(UShort(SC_HELLO) \o UShort(versionNum), Msg(SC_HELLO, versionNum))
               /\ Handled /\ UNCHANGED current_heartbeat_count
  <1> DEFINE o2 == After(b, 3)
             o3 == After(b, o2)
             o4 == After(b, o3)
             at == <<3, o2, o3, o4>>
             fields == [k \in 1..4 |-> StringAt(b, at[k])]
  <1>1. f \in [1..4 -> Str] /\ b \in Str
    BY WireAssumption DEF Str
  <1>2. \A k \in 1..4 : Len(f[k]) \in Numbers
    BY FitAssumption
  <1>3. /\ Len(f[1]) \in Numbers /\ Len(f[2]) \in Numbers
        /\ Len(f[3]) \in Numbers /\ Len(f[4]) \in Numbers
    BY <1>2
  <1>4. /\ Short(b, 1) = CS_HELLO
        /\ Readable(b, 3) /\ Readable(b, o2) /\ Readable(b, o3) /\ Readable(b, o4)
        /\ StringAt(b, 3) = f[1] /\ StringAt(b, o2) = f[2]
        /\ StringAt(b, o3) = f[3] /\ StringAt(b, o4) = f[4]
    BY <1>1, <1>3, Opcodes, HelloRead
  <1>5. HandleClientHello(b, said)
    BY <1>4 DEF HandlePacket, CS_HELLO, CS_HEARTBEAT, CS_FLAGGED_CHEATER, CS_QUERY_MEMORY
  <1> HIDE DEF o2, o3, o4
  <1>6. \A k \in 1..4 : StringAt(b, at[k]) = f[k]
    BY <1>4
  <1>7. fields = f
    BY <1>1, <1>6
  <1> HIDE DEF at, fields
  <1>8. /\ atServer' = Exchange(said, Msg(CS_HELLO, fields))
        /\ \/ Ends("dropped")
           \/ /\ SendBytes(UShort(SC_HELLO) \o UShort(versionNum), Msg(SC_HELLO, versionNum))
              /\ Handled /\ UNCHANGED current_heartbeat_count
    BY <1>4, <1>5 DEF HandleClientHello, o2, o3, o4, at, fields
  <1> QED BY <1>7, <1>8

LEMMA AnswerHandled ==
  ASSUME NEW c \in Cookies, NEW tail \in Tails, NEW b \in Seq(Bytes),
         StartsWith(b, HeartbeatBytes(MakeHeartbeat(c, tail))), NEW said, HandlePacket(b, said)
  PROVE  CookieOf(b) = Answer(c) /\ HandleClientHeartbeat(b, said)
  <1>1. c \in Str /\ Len(c) = CookieSize /\ tail \in Str /\ b \in Str
    BY CookieType, TailType DEF Str
  <1>2. Short(b, 1) = CS_HEARTBEAT /\ CookieOf(b) = Answer(c)
    BY <1>1, Opcodes, HeartbeatRead
  <1>3. HandleClientHeartbeat(b, said)
    BY <1>2 DEF HandlePacket, CS_HELLO, CS_HEARTBEAT, CS_FLAGGED_CHEATER, CS_QUERY_MEMORY
  <1> QED BY <1>2, <1>3

LEMMA FlagHandled ==
  ASSUME NEW flag \in Flags, NEW n, NEW p \in Seq(Bytes), Begins(p, FlagBytes(flag), n),
         NEW b \in Seq(Bytes), StartsWith(b, p), NEW said, HandlePacket(b, said)
  PROVE  atServer' = Exchange(said, Msg(CS_FLAGGED_CHEATER, flag)) /\ Ends("KeyNotFound")
  <1>1. flag \in Numbers /\ p \in Str /\ b \in Str
    BY WireAssumption DEF Str
  <1>2. Short(b, 1) = CS_FLAGGED_CHEATER /\ Short(b, 3) = flag
    BY <1>1, Opcodes, FlagRead
  <1> QED BY <1>2 DEF HandlePacket, CS_HELLO, CS_HEARTBEAT, CS_FLAGGED_CHEATER, CS_QUERY_MEMORY

LEMMA GoodbyeHandled ==
  ASSUME NEW p \in Seq(Bytes), Begins(p, UShort(CS_GOODBYE), 6),
         NEW b \in Seq(Bytes), StartsWith(b, p), NEW said, HandlePacket(b, said)
  PROVE  Ends("dropped") /\ UNCHANGED atServer
  <1>1. p \in Str /\ b \in Str
    BY DEF Str
  <1>2. Short(b, 1) = CS_GOODBYE
    BY <1>1, Opcodes, OpcodeRead
  <1> QED BY <1>2 DEF HandlePacket, CS_GOODBYE, CS_HELLO, CS_HEARTBEAT, CS_FLAGGED_CHEATER, CS_QUERY_MEMORY

(* The answer to the last cookie is accepted: transformed twice, it is the     *)
(* cookie again.                                                              *)
LEMMA AnsweredRight ==
  ASSUME NEW c \in Seq(Bytes), NEW a, a = Answer(c)
  PROVE  [i \in DOMAIN a |-> Transformer[a[i]]] = c
  <1>1. Len(c) \in Nat /\ DOMAIN c = 1..Len(c)
    BY LenProperties
  <1>2. a = [i \in 1..Len(c) |-> Transformer[c[i]]]
    BY DEF Answer
  <1>3. \A i \in 1..Len(c) : Transformer[Transformer[c[i]]] = c[i]
    BY ElementOfSeq, TransformerByte
  <1>4. [i \in DOMAIN a |-> Transformer[a[i]]] = [i \in 1..Len(c) |-> c[i]]
    BY <1>2, <1>3
  <1>5. c = [i \in 1..Len(c) |-> c[i]]
    BY <1>1
  <1> QED BY <1>4, <1>5

LEMMA AnswerAccepted ==
  ASSUME NEW b, NEW said, HandleClientHeartbeat(b, said),
         heartbeat_responses \in Seq(Cookies), current_heartbeat_count \in Nat,
         Len(heartbeat_responses) = current_heartbeat_count + 1,
         CookieOf(b) = Answer(heartbeat_responses[Len(heartbeat_responses)])
  PROVE  /\ atServer' = Exchange(said, Msg(CS_HEARTBEAT, CookieOf(b)))
         /\ current_heartbeat_count' = current_heartbeat_count + 1
         /\ Handled /\ UNCHANGED <<down, info>>
  <1>1. ~(current_heartbeat_count >= Len(heartbeat_responses))
    OBVIOUS
  <1>2. heartbeat_responses[current_heartbeat_count + 1] \in Cookies
    BY ElementOfSeq
  <1>3. PICK c \in Seq(Bytes) : c = heartbeat_responses[current_heartbeat_count + 1]
    BY <1>2, CookieType
  <1>4. [i \in DOMAIN CookieOf(b) |-> Transformer[CookieOf(b)[i]]] = c
    BY <1>3, AnsweredRight
  <1> QED BY <1>1, <1>3, <1>4 DEF HandleClientHeartbeat

-----------------------------------------------------------------------------
(* ---- the invariant ---- *)

SaidAsRead == atServer.said = atServer.read /\ atClient.said = atClient.read
Calm ==
  /\ client # "terminated" /\ server \notin {"PacketException", "IndexOutOfRange"}
  /\ server = "dropped" => (atServer.said.op = CS_HELLO \/ client = "left")
Begun ==
  /\ client = "new" => (up = <<>> /\ down = <<>> /\ server = "new")
  /\ server = "new" => (down = <<>> /\ ~due /\ heartbeat_responses = <<>>)

Orderly ==
  /\ Stream(up, UpPackets) /\ Stream(down, DownPackets)
  /\ Turn(up, down, due, heartbeat_responses, current_heartbeat_count)
  /\ Asks(up, {CS_GOODBYE}) # {} => client = "left"
  /\ Begun /\ SaidAsRead /\ Calm

Inv == TypeInv /\ (~split => Orderly)

(* A stream that a packet is put behind, or not. *)
LEMMA UpGrows ==
  ASSUME NEW u \in Seq(Cell), Stream(u, UpPackets), NEW k \in UpPackets, NEW v, v = u \o k \/ v = u,
         NEW d, NEW w, NEW rs, NEW n, Turn(u, d, w, rs, n),
         k[1].says.op \in {CS_HELLO, CS_HEARTBEAT} =>
           (Asked(u) = {} /\ Given(d) = {} /\ ~w /\ Fits(k[1].says, rs, n))
  PROVE  /\ Stream(v, UpPackets) /\ Turn(v, d, w, rs, n)
         /\ k[1].says.op # CS_GOODBYE /\ Asks(u, {CS_GOODBYE}) = {} => Asks(v, {CS_GOODBYE}) = {}
  <1>1. k \in PacketCells
    BY PacketsAre
  <1>2. Stream(u \o k, UpPackets)
    BY PacketsAre, StreamAppend
  <1>3. Turn(u \o k, d, w, rs, n)
    BY <1>1, TurnUp
  <1>4. ASSUME k[1].says.op # CS_GOODBYE, Asks(u, {CS_GOODBYE}) = {}, NEW i \in Asks(u \o k, {CS_GOODBYE})
        PROVE  FALSE
    <2>1. PICK ops : ops = {CS_GOODBYE}
      OBVIOUS
    <2>2. 0 \notin ops
      BY <2>1 DEF CS_GOODBYE
    <2>3. i \in Asks(u \o k, ops)
      BY <1>4, <2>1
    <2>4. i \in Asks(u, ops) \/ k[1].says.op \in ops
      BY <1>1, <2>2, <2>3, AsksAppend
    <2> QED BY <1>4, <2>1, <2>4
  <1> QED BY <1>2, <1>3, <1>4

LEMMA DownGrows ==
  ASSUME NEW d \in Seq(Cell), Stream(d, DownPackets), NEW k \in DownPackets, NEW v, v = d \o k \/ v = d,
         NEW u, NEW w, NEW rs, NEW n, Turn(u, d, w, rs, n),
         k[1].says.op = SC_HEARTBEAT =>
           (Asked(u) = {} /\ Given(d) = {} /\ ~w /\ Pending(k[1].says, rs, n))
  PROVE  Stream(v, DownPackets) /\ Turn(u, v, w, rs, n)
  <1>1. k \in PacketCells
    BY PacketsAre
  <1>2. Stream(d \o k, DownPackets)
    BY PacketsAre, StreamAppend
  <1>3. Turn(u, d \o k, w, rs, n)
    BY <1>1, TurnDown
  <1> QED BY <1>2, <1>3

LEMMA NoBytes ==
  /\ \A K : Stream(<<>>, K)
  /\ Asked(<<>>) = {} /\ Given(<<>>) = {} /\ Asks(<<>>, {CS_GOODBYE}) = {}
  BY DEF Stream, Asks, Asked, Given

LEMMA OrderlyInit == Init => Inv
  <1> SUFFICES ASSUME Init PROVE Inv
    OBVIOUS
  <1>1. up = <<>> /\ down = <<>> /\ ~due
    BY DEF Init
  <1>2. Stream(up, UpPackets) /\ Stream(down, DownPackets) /\ Asks(up, {CS_GOODBYE}) = {}
    BY <1>1, NoBytes
  <1>3. Turn(up, down, due, heartbeat_responses, current_heartbeat_count)
    BY <1>1, NoBytes, TurnFree
  <1>4. Begun
    BY DEF Init, Begun
  <1>5. SaidAsRead
    BY DEF Init, SaidAsRead, Exchange
  <1>6. Calm
    BY DEF Init, Calm
  <1> QED BY <1>2, <1>3, <1>4, <1>5, <1>6, TypeInit DEF Inv, Orderly

LEMMA InitializeOrderly ==
  ASSUME TypeInv, Orderly, NEW f \in Hellos, Initialize(f)
  PROVE  Orderly'
  <1>1. up \in Seq(Cell) /\ heartbeat_responses \in Seq(Cookies)
        /\ current_heartbeat_count \in 0..Len(heartbeat_responses)
    BY DEF TypeInv, TypeOK
  <1>2. /\ client = "new" /\ client' = "open" /\ down' = down /\ server' = server /\ due' = due
        /\ heartbeat_responses' = heartbeat_responses
        /\ current_heartbeat_count' = current_heartbeat_count
        /\ atClient' = atClient /\ atServer' = atServer
    BY DEF Initialize, serverVars
  <1>3. up = <<>> /\ down = <<>> /\ server = "new" /\ ~due /\ heartbeat_responses = <<>>
    BY <1>2 DEF Orderly, Begun
  <1>4. Len(heartbeat_responses) = 0 /\ current_heartbeat_count = 0
    BY <1>1, <1>3
  <1>5. PICK k \in UpPackets : /\ k[1].says = Msg(CS_HELLO, f)
                               /\ up' = IF server \in {"new", "open"} THEN up \o k ELSE up
    BY HelloGoes DEF Initialize
  <1>6. k[1].says.op = CS_HELLO /\ CS_HELLO # CS_HEARTBEAT /\ CS_HELLO # CS_GOODBYE
    BY <1>5, MsgIs DEF CS_HELLO, CS_HEARTBEAT, CS_GOODBYE
  <1>7. Fits(k[1].says, heartbeat_responses, current_heartbeat_count)
    BY <1>4, <1>6 DEF Fits
  <1>8. Asked(up) = {} /\ Given(down) = {} /\ Asks(up, {CS_GOODBYE}) = {}
    BY <1>3, NoBytes
  <1>9. /\ Stream(up', UpPackets)
        /\ Turn(up', down, due, heartbeat_responses, current_heartbeat_count)
        /\ Asks(up', {CS_GOODBYE}) = {}
    BY <1>1, <1>3, <1>5, <1>6, <1>7, <1>8, UpGrows DEF Orderly
  <1>10. Begun'
    BY <1>2, <1>3 DEF Begun
  <1>11. SaidAsRead' /\ Calm'
    BY <1>2, <1>3 DEF Orderly, SaidAsRead, Calm
  <1> QED BY <1>2, <1>9, <1>10, <1>11 DEF Orderly

LEMMA FlagOrderly ==
  ASSUME TypeInv, Orderly, NEW flag \in Flags, FlagCheater(flag)
  PROVE  Orderly'
  <1>1. up \in Seq(Cell)
    BY DEF TypeInv
  <1>2. /\ client = "open" /\ client' = client /\ down' = down /\ server' = server /\ due' = due
        /\ heartbeat_responses' = heartbeat_responses
        /\ current_heartbeat_count' = current_heartbeat_count
        /\ atClient' = atClient /\ atServer' = atServer
    BY DEF FlagCheater, serverVars
  <1>3. PICK k \in UpPackets : /\ k[1].says = Msg(CS_FLAGGED_CHEATER, flag)
                               /\ up' = IF server \in {"new", "open"} THEN up \o k ELSE up
    BY FlagGoes
  <1>4. k[1].says.op \notin {CS_HELLO, CS_HEARTBEAT, CS_GOODBYE}
    BY <1>3, MsgIs DEF CS_HELLO, CS_HEARTBEAT, CS_GOODBYE, CS_FLAGGED_CHEATER
  <1>5. Asks(up, {CS_GOODBYE}) = {}
    BY <1>2 DEF Orderly
  <1>6. /\ Stream(up', UpPackets)
        /\ Turn(up', down, due, heartbeat_responses, current_heartbeat_count)
        /\ Asks(up', {CS_GOODBYE}) = {}
    BY <1>1, <1>3, <1>4, <1>5, UpGrows DEF Orderly
  <1>7. Begun' /\ SaidAsRead' /\ Calm'
    BY <1>2 DEF Orderly, Begun, SaidAsRead, Calm
  <1> QED BY <1>2, <1>6, <1>7 DEF Orderly

LEMMA EndOrderly ==
  ASSUME TypeInv, Orderly, EndConnection
  PROVE  Orderly'
  <1>1. up \in Seq(Cell) /\ down \in Seq(Cell)
    BY DEF TypeInv
  <1>2. /\ client = "open" /\ client' = "left" /\ down' = <<>> /\ server' = server /\ due' = due
        /\ heartbeat_responses' = heartbeat_responses
        /\ current_heartbeat_count' = current_heartbeat_count
        /\ atClient' = atClient /\ atServer' = atServer
    BY DEF EndConnection, serverVars
  <1>3. PICK k \in UpPackets : /\ k[1].says = Msg(CS_GOODBYE, 1)
                               /\ up' = IF server \in {"new", "open"} THEN up \o k ELSE up
    BY GoodbyeGoes DEF EndConnection
  <1>4. k[1].says.op \notin {CS_HELLO, CS_HEARTBEAT}
    BY <1>3, MsgIs DEF CS_HELLO, CS_HEARTBEAT, CS_GOODBYE
  <1>5. Behind(up, up) /\ Behind(<<>>, down)
    BY <1>1, BehindIs
  <1>6. Turn(up, <<>>, due, heartbeat_responses, current_heartbeat_count)
    BY <1>1, <1>5, TurnLess DEF Orderly
  <1>7. /\ Stream(up', UpPackets)
        /\ Turn(up', <<>>, due, heartbeat_responses, current_heartbeat_count)
    BY <1>1, <1>3, <1>4, <1>6, UpGrows DEF Orderly
  <1>8. Stream(<<>>, DownPackets)
    BY NoBytes
  <1>9. Begun' /\ SaidAsRead' /\ Calm'
    BY <1>2 DEF Orderly, Begun, SaidAsRead, Calm
  <1> QED BY <1>2, <1>7, <1>8, <1>9 DEF Orderly

LEMMA RequestsOrderly ==
  ASSUME TypeInv, ~split, Orderly, ProcessRequests
  PROVE  Orderly'
  <1>0. up \in Seq(Cell) /\ down \in Seq(Cell) /\ RecvLength \in Nat
    BY WireAssumption DEF TypeInv
  <1>1. PICK n \in Reads(down, RecvLength) :
          /\ down' = Rest(down, n)
          /\ HandleInboundPacket(CipherData(Data(down, n)), down[1].says)
    BY DEF ProcessRequests
  <1>2. /\ client = "open" /\ server' = server /\ due' = due
        /\ heartbeat_responses' = heartbeat_responses
        /\ current_heartbeat_count' = current_heartbeat_count /\ atServer' = atServer
    BY DEF ProcessRequests, serverVars
  <1>3. PICK m : m = down[1].says
    OBVIOUS
  <1>4. PICK b \in Seq(Bytes) : b = CipherData(Data(down, n))
    BY <1>0, ReadIs, CiphersOfSeq
  <1>5. HandleInboundPacket(b, m)
    BY <1>1, <1>3, <1>4
  <1>6. /\ Stream(Rest(down, n), DownPackets)
        /\ \E p \in Seq(Bytes) : DownSays(m, p) /\ StartsWith(b, p)
    BY <1>0, <1>3, <1>4, DownRead DEF Orderly
  <1>7. PICK p \in Seq(Bytes) : DownSays(m, p) /\ StartsWith(b, p)
    BY <1>6
  <1>8. Stream(down', DownPackets)
    BY <1>1, <1>6
  <1>9. Behind(up, up) /\ Behind(down', down)
    BY <1>0, <1>1, BehindIs
  <1>10. Turn(up, down', due, heartbeat_responses, current_heartbeat_count)
    BY <1>0, <1>9, TurnLess DEF Orderly
  <1>11. server # "new"
    <2>1. n \in 1..Len(down)
      BY <1>0, ReadIs
    <2>2. down # <<>>
      BY <2>1
    <2> QED BY <2>2 DEF Orderly, Begun
  <1>12. b \in Str
    BY DEF Str
  <1>13. CASE m = Msg(SC_HELLO, versionNum) /\ p = Padded(UShort(SC_HELLO) \o UShort(versionNum))
    <2>1. Len(b) >= 4 /\ Short(b, 1) = SC_HELLO /\ Short(b, 3) = versionNum
      BY <1>7, <1>12, <1>13, ReplyRead
    <2>2. /\ atClient' = Exchange(m, Msg(SC_HELLO, versionNum))
          /\ client' = client /\ up' = up
      BY <1>5, <2>1, ReplyHandled
    <2>3. SaidAsRead'
      BY <1>2, <1>13, <2>2 DEF Orderly, SaidAsRead, Exchange
    <2>4. Begun' /\ Calm'
      BY <1>2, <1>11, <2>2 DEF Orderly, Begun, Calm
    <2> QED BY <1>2, <1>8, <1>10, <2>2, <2>3, <2>4 DEF Orderly
  <1>14. ASSUME NEW c \in Cookies, m = Msg(SC_HEARTBEAT, c),
                p = Padded(UShort(SC_HEARTBEAT) \o UShort(CookieSize) \o c)
         PROVE  Orderly'
    <2>1. /\ Len(b) >= 4 + CookieSize /\ Short(b, 1) = SC_HEARTBEAT
          /\ Short(b, 3) = CookieSize /\ CookieOf(b) = c
      BY <1>7, <1>12, <1>14, CookieArrives
    <2>2. /\ atClient' = Exchange(m, Msg(SC_HEARTBEAT, c)) /\ client' = client
          /\ \E tail \in Tails : SendData(Heartbeat(MakeHeartbeat(c, tail)),
                                          Msg(CS_HEARTBEAT, MakeHeartbeat(c, <<>>)))
      BY <1>5, <2>1, CookieHandled
    <2>3. PICK k \in UpPackets : /\ k[1].says = Msg(CS_HEARTBEAT, Answer(c))
                                 /\ up' = IF server \in {"new", "open"} THEN up \o k ELSE up
      BY <2>2, AnswerGoes
    <2>4. m.op \in {SC_HEARTBEAT} /\ m.arg = c
      BY <1>14, MsgIs
    <2>5. Asks(down', {SC_HEARTBEAT}) = {} /\ 1 \in Asks(down, {SC_HEARTBEAT})
      <3>1. \A i, j \in Asks(down, {SC_HEARTBEAT}) : i = j
        BY DEF Orderly, Turn, Given
      <3> QED BY <1>0, <1>1, <1>3, <2>4, <3>1, OnlyFirst
    <2>6. Pending(m, heartbeat_responses, current_heartbeat_count)
      BY <1>3, <2>5 DEF Orderly, Turn, Given
    <2>7. Asked(up) = {} /\ ~due
      BY <2>5 DEF Orderly, Turn, Given
    <2>8. /\ k[1].says.op = CS_HEARTBEAT /\ k[1].says.arg = Answer(c)
          /\ CS_HEARTBEAT # CS_HELLO /\ CS_HEARTBEAT # CS_GOODBYE
      BY <2>3, MsgIs DEF CS_HELLO, CS_HEARTBEAT, CS_GOODBYE
    <2>9. Fits(k[1].says, heartbeat_responses, current_heartbeat_count)
      BY <2>4, <2>6, <2>8 DEF Fits, Pending
    <2>10. Asks(up, {CS_GOODBYE}) = {}
      BY <1>2 DEF Orderly
    <2>11. Given(down') = {}
      BY <2>5 DEF Given
    <2>12. /\ Stream(up', UpPackets)
           /\ Turn(up', down', due, heartbeat_responses, current_heartbeat_count)
           /\ Asks(up', {CS_GOODBYE}) = {}
      BY <1>0, <1>10, <2>3, <2>7, <2>8, <2>9, <2>10, <2>11, UpGrows DEF Orderly
    <2>13. SaidAsRead'
      BY <1>2, <1>14, <2>2 DEF Orderly, SaidAsRead, Exchange
    <2>14. Begun' /\ Calm'
      BY <1>2, <1>11, <2>2 DEF Orderly, Begun, Calm
    <2> QED BY <1>2, <1>8, <2>12, <2>13, <2>14 DEF Orderly
  <1> QED BY <1>7, <1>13, <1>14 DEF DownSays

-----------------------------------------------------------------------------
(* ---- the steps of the server, and the theorems ---- *)

LEMMA CookieOrderly ==
  ASSUME TypeInv, Orderly, NEW c \in Cookies, SendHeartbeat(c)
  PROVE  Orderly'
  <1>1. /\ down \in Seq(Cell) /\ heartbeat_responses \in Seq(Cookies)
        /\ current_heartbeat_count \in 0..Len(heartbeat_responses)
    BY DEF TypeInv, TypeOK
  <1>2. /\ server = "open" /\ due /\ ~due' /\ up' = up /\ client' = client /\ server' = server
        /\ heartbeat_responses' = Append(heartbeat_responses, c)
        /\ current_heartbeat_count' = current_heartbeat_count
        /\ atClient' = atClient /\ atServer' = atServer
    BY DEF SendHeartbeat, WorkerGone, clientVars
  <1>3. PICK k \in DownPackets : /\ k[1].says = Msg(SC_HEARTBEAT, c)
                                 /\ down' = IF client = "open" THEN down \o k ELSE down
    BY CookieGoes DEF SendHeartbeat, WorkerGone
  <1>4. /\ Asked(up) = {} /\ Given(down) = {}
        /\ Len(heartbeat_responses) = current_heartbeat_count
    BY <1>2 DEF Orderly, Turn
  <1>5. PICK rs : rs = heartbeat_responses'
    OBVIOUS
  <1>6. Pending(k[1].says, rs, current_heartbeat_count)
    <2>1. /\ Len(rs) = Len(heartbeat_responses) + 1
          /\ rs[Len(heartbeat_responses) + 1] = c
      BY <1>1, <1>2, <1>5, AppendProperties
    <2>2. k[1].says.arg = c
      BY <1>3, MsgIs
    <2> QED BY <1>4, <2>1, <2>2 DEF Pending
  <1>7. Turn(up, down, FALSE, rs, current_heartbeat_count)
    BY <1>4, TurnFree
  <1>8. /\ Stream(down', DownPackets)
        /\ Turn(up, down', FALSE, rs, current_heartbeat_count)
    BY <1>1, <1>3, <1>4, <1>6, <1>7, DownGrows DEF Orderly
  <1>9. Turn(up', down', due', heartbeat_responses', current_heartbeat_count')
    <2>1. Turn(up', down', FALSE, heartbeat_responses', current_heartbeat_count')
      BY <1>2, <1>5, <1>8
    <2> QED BY <1>2, <2>1 DEF Turn
  <1>10. Begun' /\ SaidAsRead' /\ Calm'
    <2>1. client # "new"
      BY <1>2 DEF Orderly, Begun
    <2> QED BY <1>2, <2>1 DEF Orderly, Begun, SaidAsRead, Calm
  <1> QED BY <1>2, <1>8, <1>9, <1>10 DEF Orderly

LEMMA ConnectedOrderly ==
  ASSUME Orderly, HandleClientConnected
  PROVE  Orderly'
  <1>1. /\ client # "new" /\ server' = "open" /\ client' = client /\ up' = up /\ down' = down /\ due' = due
        /\ heartbeat_responses' = heartbeat_responses
        /\ current_heartbeat_count' = current_heartbeat_count
        /\ atClient' = atClient /\ atServer' = atServer
    BY DEF HandleClientConnected, clientVars
  <1>2. Begun' /\ SaidAsRead' /\ Calm'
    BY <1>1 DEF Orderly, Begun, SaidAsRead, Calm
  <1> QED BY <1>1, <1>2 DEF Orderly

LEMMA EOFOrderly ==
  ASSUME TypeInv, Orderly, EndReadEOF
  PROVE  Orderly'
  <1>0. up \in Seq(Cell) /\ down \in Seq(Cell)
    BY DEF TypeInv
  <1>1. /\ server = "open" /\ server' = "closed" /\ client' = client /\ up' = up /\ down' = down /\ ~due'
        /\ heartbeat_responses' = heartbeat_responses
        /\ current_heartbeat_count' = current_heartbeat_count
        /\ atClient' = atClient /\ atServer' = atServer
    BY DEF EndReadEOF, clientVars
  <1>2. Begun' /\ SaidAsRead' /\ Calm'
    BY <1>1 DEF Orderly, Begun, SaidAsRead, Calm
  <1>3. Behind(up, up) /\ Behind(down, down)
    BY <1>0, BehindIs
  <1>4. Turn(up, down, due', heartbeat_responses, current_heartbeat_count)
    BY <1>0, <1>1, <1>3, TurnLess DEF Orderly
  <1> QED BY <1>1, <1>2, <1>4 DEF Orderly

(* What the connection's end leaves: the packets that nobody reads any more.   *)
LEMMA EndsOrderly ==
  ASSUME TypeInv, Orderly, NEW why \in {"dropped", "KeyNotFound"}, Ends(why),
         server = "open", UNCHANGED clientVars, Stream(up', UpPackets), Behind(up', up),
         atServer'.said = atServer'.read,
         why = "dropped" => (atServer'.said.op = CS_HELLO \/ client = "left")
  PROVE  Orderly'
  <1>0. up \in Seq(Cell) /\ down \in Seq(Cell)
    BY DEF TypeInv
  <1>1. /\ server' = why /\ ~due' /\ down' = down /\ client' = client /\ atClient' = atClient
        /\ heartbeat_responses' = heartbeat_responses
        /\ current_heartbeat_count' = current_heartbeat_count
    BY DEF Ends, clientVars
  <1>2. Behind(down, down)
    BY <1>0, BehindIs
  <1>3. Turn(up', down, due', heartbeat_responses, current_heartbeat_count)
    BY <1>0, <1>1, <1>2, TurnLess DEF Orderly
  <1>4. Asks(up', {CS_GOODBYE}) # {} => client = "left"
    BY <1>0, NoMoreAsked DEF Orderly
  <1>5. Begun'
    BY <1>1 DEF Orderly, Begun
  <1>6. SaidAsRead'
    BY <1>1 DEF Orderly, SaidAsRead
  <1>7. Calm'
    BY <1>1 DEF Orderly, Calm
  <1> QED BY <1>1, <1>3, <1>4, <1>5, <1>6, <1>7 DEF Orderly

LEMMA ReceivedOrderly ==
  ASSUME TypeInv, ~split, Orderly, HandleMessageReceived
  PROVE  Orderly'
  <1>0. /\ up \in Seq(Cell) /\ down \in Seq(Cell) /\ ServerBuffer \in Nat
        /\ buffer \in [1..ServerBuffer -> Bytes] /\ heartbeat_responses \in Seq(Cookies)
        /\ current_heartbeat_count \in 0..Len(heartbeat_responses)
    BY WireAssumption DEF TypeInv, TypeOK
  <1>1. PICK n \in Reads(up, ServerBuffer) :
          /\ up' = Rest(up, n)
          /\ HandlePacket(Overwrite(buffer, Cipher(Data(up, n))), up[1].says)
    BY DEF HandleMessageReceived
  <1>2. server = "open" /\ client' = client /\ atClient' = atClient /\ UNCHANGED clientVars
    BY DEF HandleMessageReceived, clientVars
  <1>3. PICK m : m = up[1].says
    OBVIOUS
  <1>4. PICK b \in Seq(Bytes) : b = Overwrite(buffer, Cipher(Data(up, n)))
    <2>1. Data(up, n) \in Seq(Bytes) /\ Len(Data(up, n)) <= ServerBuffer
      BY <1>0, ReadIs
    <2>2. PICK e \in Seq(Bytes) : e = Cipher(Data(up, n)) /\ Len(e) <= ServerBuffer
      BY <2>1, CiphersOfSeq
    <2>3. Overwrite(buffer, e) \in Seq(Bytes)
      BY <1>0, <2>2, OverwriteIs
    <2> QED BY <2>2, <2>3
  <1>5. HandlePacket(b, m)
    BY <1>1, <1>3, <1>4
  <1>6. /\ Stream(Rest(up, n), UpPackets)
        /\ \E p \in Seq(Bytes) : UpSays(m, p) /\ StartsWith(b, p)
    BY <1>0, <1>3, <1>4, UpRead DEF Orderly
  <1>7. PICK p \in Seq(Bytes) : UpSays(m, p) /\ StartsWith(b, p)
    BY <1>6
  <1>8. Stream(up', UpPackets)
    BY <1>1, <1>6
  <1>9. Behind(up', up)
    BY <1>0, <1>1, BehindIs
  <1>10. client # "new"
    BY <1>2 DEF Orderly, Begun
  <1>11. Asks(up', {CS_GOODBYE}) # {} => client = "left"
    BY <1>0, <1>9, NoMoreAsked DEF Orderly
  (* A question is the only one, and the server is the next to speak. *)
  <1>12. ASSUME m.op \in {CS_HELLO, CS_HEARTBEAT}
         PROVE  /\ Asked(up') = {} /\ Given(down) = {}
                /\ Fits(m, heartbeat_responses, current_heartbeat_count)
    <2>1. \A i, j \in Asks(up, {CS_HELLO, CS_HEARTBEAT}) : i = j
      BY DEF Orderly, Turn, Asked
    <2>2. Asks(up', {CS_HELLO, CS_HEARTBEAT}) = {} /\ 1 \in Asks(up, {CS_HELLO, CS_HEARTBEAT})
      BY <1>0, <1>1, <1>3, <1>12, <2>1, OnlyFirst
    <2> QED BY <1>3, <2>2 DEF Orderly, Turn, Asked
  <1>13. ASSUME NEW f \in Hellos, m = Msg(CS_HELLO, f), p = HelloBytes(f)
         PROVE  Orderly'
    <2>1. /\ atServer' = Exchange(m, Msg(CS_HELLO, f))
          /\ \/ Ends("dropped")
             \/ /\ SendBytes(UShort(SC_HELLO) \o UShort(versionNum), Msg(SC_HELLO, versionNum))
                /\ Handled /\ UNCHANGED current_heartbeat_count
      BY <1>5, <1>7, <1>13, HelloHandled
    <2>2. /\ m.op = CS_HELLO /\ atServer'.said = atServer'.read /\ atServer'.said.op = CS_HELLO
      BY <1>13, <2>1, MsgIs DEF Exchange
    <2>3. CASE Ends("dropped")
      BY <1>2, <1>8, <1>9, <2>2, <2>3, EndsOrderly
    <2>4. CASE /\ SendBytes(UShort(SC_HELLO) \o UShort(versionNum), Msg(SC_HELLO, versionNum))
               /\ Handled /\ UNCHANGED current_heartbeat_count
      <3>1. PICK k \in DownPackets : /\ k[1].says = Msg(SC_HELLO, versionNum)
                                     /\ down' = IF client = "open" THEN down \o k ELSE down
        BY <2>4, ReplyGoes
      <3>2. k[1].says.op # SC_HEARTBEAT
        BY <3>1, MsgIs DEF SC_HELLO, SC_HEARTBEAT
      <3>3. /\ server' = server /\ heartbeat_responses' = heartbeat_responses
            /\ current_heartbeat_count' = current_heartbeat_count /\ due' = TRUE
        BY <2>4 DEF Handled
      <3>4. Len(heartbeat_responses) = current_heartbeat_count
        BY <1>12, <2>2 DEF Fits
      <3>5. Turn(up', down, TRUE, heartbeat_responses, current_heartbeat_count)
        BY <1>12, <2>2, <3>4, TurnFree
      <3>6. /\ Stream(down', DownPackets)
            /\ Turn(up', down', TRUE, heartbeat_responses, current_heartbeat_count)
        BY <1>0, <3>1, <3>2, <3>5, DownGrows DEF Orderly
      <3>7. Begun' /\ SaidAsRead' /\ Calm'
        BY <1>2, <1>10, <2>2, <3>3 DEF Orderly, Begun, SaidAsRead, Calm
      <3> QED BY <1>2, <1>8, <1>11, <3>3, <3>6, <3>7 DEF Orderly
    <2> QED BY <2>1, <2>3, <2>4
  <1>14. ASSUME NEW c \in Cookies, NEW t \in Tails, m = Msg(CS_HEARTBEAT, Answer(c)),
                p = HeartbeatBytes(MakeHeartbeat(c, t))
         PROVE  Orderly'
    <2>1. CookieOf(b) = Answer(c) /\ HandleClientHeartbeat(b, m)
      BY <1>5, <1>7, <1>14, AnswerHandled
    <2>2. m.op = CS_HEARTBEAT /\ m.arg = Answer(c) /\ CS_HEARTBEAT # CS_HELLO
      BY <1>14, MsgIs DEF CS_HELLO, CS_HEARTBEAT
    <2>3. /\ Len(heartbeat_responses) = current_heartbeat_count + 1
          /\ CookieOf(b) = Answer(heartbeat_responses[Len(heartbeat_responses)])
      BY <1>12, <2>1, <2>2 DEF Fits
    <2>4. current_heartbeat_count \in Nat
      BY <1>0, LenProperties
    <2>5. /\ atServer' = Exchange(m, Msg(CS_HEARTBEAT, CookieOf(b)))
          /\ current_heartbeat_count' = current_heartbeat_count + 1
          /\ Handled /\ UNCHANGED <<down, info>>
      BY <1>0, <2>1, <2>3, <2>4, AnswerAccepted
    <2>6. /\ server' = server /\ heartbeat_responses' = heartbeat_responses /\ down' = down
          /\ due' = TRUE /\ Len(heartbeat_responses) = current_heartbeat_count'
      BY <2>3, <2>5 DEF Handled
    <2>7. Turn(up', down, TRUE, heartbeat_responses, current_heartbeat_count')
      BY <1>12, <2>2, <2>6, TurnFree
    <2>8. SaidAsRead'
      BY <1>2, <1>14, <2>1, <2>5 DEF Orderly, SaidAsRead, Exchange
    <2>9. Begun' /\ Calm'
      BY <1>2, <1>10, <2>6 DEF Orderly, Begun, Calm
    <2> QED BY <1>2, <1>8, <1>11, <2>6, <2>7, <2>8, <2>9 DEF Orderly
  <1>15. ASSUME NEW flag \in Flags, NEW l \in Nat, m = Msg(CS_FLAGGED_CHEATER, flag),
                Begins(p, FlagBytes(flag), l)
         PROVE  Orderly'
    <2>1. atServer' = Exchange(m, Msg(CS_FLAGGED_CHEATER, flag)) /\ Ends("KeyNotFound")
      BY <1>5, <1>7, <1>15, FlagHandled
    <2>2. atServer'.said = atServer'.read
      BY <1>15, <2>1 DEF Exchange
    <2> QED BY <1>2, <1>8, <1>9, <2>1, <2>2, EndsOrderly
  <1>16. ASSUME m = Msg(CS_GOODBYE, 1), Begins(p, UShort(CS_GOODBYE), 6)
         PROVE  Orderly'
    <2>1. Ends("dropped") /\ atServer' = atServer
      BY <1>5, <1>7, <1>16, GoodbyeHandled
    <2>2. client = "left"
      <3>1. 1 \in 1..Len(up)
        BY <1>0, ReadIs, LenProperties
      <3>2. up[1].says.op = CS_GOODBYE
        BY <1>3, <1>16, MsgIs
      <3>3. 1 \in Asks(up, {CS_GOODBYE})
        BY <3>1, <3>2 DEF Asks
      <3> QED BY <3>3 DEF Orderly
    <2>3. atServer'.said = atServer'.read
      BY <2>1 DEF Orderly, SaidAsRead
    <2> QED BY <1>2, <1>8, <1>9, <2>1, <2>2, <2>3, EndsOrderly
  <1> QED BY <1>7, <1>13, <1>14, <1>15, <1>16 DEF UpSays

LEMMA OrderlyStep == Inv /\ [Next]_vars => Inv'
  <1> SUFFICES ASSUME Inv, [Next]_vars PROVE Inv'
    OBVIOUS
  <1>1. TypeInv /\ TypeInv'
    BY TypeStep DEF Inv
  <1>2. ASSUME ~split' PROVE Orderly'
    <2>1. CASE UNCHANGED vars
      <3>1. Orderly
        BY <1>2, <2>1 DEF Inv, vars
      <3> QED BY <2>1, <3>1 DEF vars, clientVars, serverVars, Orderly, Begun, SaidAsRead, Calm
    <2>2. CASE Next
      <3>1. split' = split
        BY <2>2 DEF Next, ClientStep, ServerStep, Initialize, FlagCheater, EndConnection, ProcessRequests,
                    HandleClientConnected, HandleMessageReceived, EndReadEOF, SendHeartbeat
      <3>2. ~split /\ Orderly
        BY <1>2, <3>1 DEF Inv
      <3>3. CASE ClientStep
        BY <1>1, <3>2, <3>3, InitializeOrderly, FlagOrderly, EndOrderly, RequestsOrderly DEF ClientStep
      <3>4. CASE ServerStep
        BY <1>1, <3>2, <3>4, CookieOrderly, ConnectedOrderly, EOFOrderly, ReceivedOrderly DEF ServerStep
      <3> QED BY <2>2, <3>3, <3>4 DEF Next
    <2> QED BY <2>1, <2>2
  <1> QED BY <1>1, <1>2 DEF Inv

(* What the two theorems below rest on: types, whole packets and whose turn    *)
(* it is, in every state the connection of Server.cs and NetClient.cpp reaches. *)
THEOREM InvHolds == Spec => []Inv
  BY OrderlyInit, OrderlyStep, PTL DEF Spec

(* Each end reads what the other wrote (PacketWriter, PacketReader and the     *)
(* ciphers of both sides), as long as no read ends inside a packet.           *)
THEOREM ReadsRight == Spec => []ReadAsSaid
  <1>1. Inv => ReadAsSaid
    BY DEF Inv, Orderly, SaidAsRead, ReadAsSaid
  <1> QED BY <1>1, InvHolds, PTL

(* No reader of NetClient.cpp or Handlers.cs runs out of bytes, and an honest  *)
(* client's answer is never refused, as long as no read ends inside a packet. *)
THEOREM NobodyThrows == Spec => []NobodyThrown
  <1>1. Inv => NobodyThrown
    BY DEF Inv, Orderly, Calm, NobodyThrown
  <1> QED BY <1>1, InvHolds, PTL

-----------------------------------------------------------------------------
(* The connection implements Heartbeats.                                      *)

LEMMA BeatInit == Init => Beating!Init
  BY LenProperties DEF Init, Ended, Beating!Init

(* A read adds one answer, or none, or is the last. *)
LEMMA BeatRead ==
  ASSUME HandleMessageReceived
  PROVE  /\ server = "open" /\ heartbeat_responses' = heartbeat_responses
         /\ \/ server' = "open" /\ current_heartbeat_count' \in {current_heartbeat_count, current_heartbeat_count + 1}
            \/ server' \notin {"new", "open"}
  <1>1. ASSUME NEW why \in {"dropped", "PacketException", "IndexOutOfRange", "KeyNotFound"}, Ends(why)
        PROVE  server' \notin {"new", "open"} /\ heartbeat_responses' = heartbeat_responses
    BY <1>1 DEF Ends
  <1>2. PICK b, said : HandlePacket(b, said)
    BY DEF HandleMessageReceived
  <1>3. CASE HandleClientHello(b, said)
    BY <1>1, <1>3 DEF HandleClientHello, HandleMessageReceived, Handled
  <1>4. CASE HandleClientHeartbeat(b, said)
    BY <1>1, <1>4 DEF HandleClientHeartbeat, HandleMessageReceived, Handled
  <1>5. CASE ~HandleClientHello(b, said) /\ ~HandleClientHeartbeat(b, said)
    BY <1>1, <1>2, <1>5 DEF HandlePacket, HandleMessageReceived, Handled
  <1> QED BY <1>3, <1>4, <1>5

LEMMA BeatStep ==
  ASSUME Inv, ~split, [Next]_vars
  PROVE  [Beating!Next]_(Beating!beats)
  <1>1. /\ TypeInv /\ TypeInv' /\ Orderly
        /\ Len(heartbeat_responses) \in Nat /\ current_heartbeat_count \in Nat
        /\ heartbeat_responses \in Seq(Cookies)
    <2>1. Inv'
      BY OrderlyStep
    <2>2. heartbeat_responses \in Seq(Cookies) /\ current_heartbeat_count \in 0..Len(heartbeat_responses)
      BY DEF Inv, TypeInv, TypeOK
    <2>3. Len(heartbeat_responses) \in Nat
      BY <2>2, LenProperties
    <2> QED BY <2>1, <2>2, <2>3 DEF Inv
  <1>2. CASE server' = server /\ UNCHANGED <<heartbeat_responses, current_heartbeat_count>>
    BY <1>2 DEF Beating!beats, Ended
  <1>3. CASE HandleClientConnected
    BY <1>3 DEF HandleClientConnected, Beating!beats, Ended
  <1>4. CASE EndReadEOF
    BY <1>4 DEF EndReadEOF, Beating!Next, Beating!End, Ended
  <1>5. ASSUME NEW c \in Cookies, SendHeartbeat(c)
        PROVE  Beating!Give
    <2>1. Len(heartbeat_responses) = current_heartbeat_count
      BY <1>1, <1>5 DEF SendHeartbeat, WorkerGone, Orderly, Turn
    <2>2. /\ server = "open" /\ server' = "open"
          /\ Len(heartbeat_responses') = Len(heartbeat_responses) + 1
          /\ current_heartbeat_count' = current_heartbeat_count
      BY <1>1, <1>5, AppendProperties DEF SendHeartbeat, WorkerGone
    <2> QED BY <1>1, <2>1, <2>2 DEF Beating!Give, Ended
  <1>6. CASE HandleMessageReceived
    <2>1. CASE server' \notin {"new", "open"}
      BY <1>6, <2>1, BeatRead DEF Beating!Next, Beating!End, Ended
    <2>2. CASE server' = "open" /\ current_heartbeat_count' = current_heartbeat_count
      BY <1>2, <1>6, <2>2, BeatRead
    <2>3. CASE server' = "open" /\ current_heartbeat_count' = current_heartbeat_count + 1
      <3>1. current_heartbeat_count' <= Len(heartbeat_responses)
        BY <1>1, <1>6, BeatRead DEF TypeInv, TypeOK
      <3>2. Beating!Accept
        BY <1>1, <1>6, <2>3, <3>1, BeatRead DEF Beating!Accept, Ended
      <3> QED BY <3>2 DEF Beating!Next
    <2> QED BY <1>6, <2>1, <2>2, <2>3, BeatRead
  <1>7. CASE ClientStep
    BY <1>2, <1>7 DEF ClientStep, Initialize, FlagCheater, EndConnection, ProcessRequests, serverVars
  <1>8. CASE UNCHANGED vars
    BY <1>2, <1>8 DEF vars, serverVars
  <1> QED BY <1>3, <1>4, <1>5, <1>6, <1>7, <1>8 DEF Next, ServerStep, Beating!Next

(* On the bytes of one connection, no cookie is given before the last one was *)
(* read back and accepted (Server.cs, HandleMessageReceived, SendHeartbeat),  *)
(* however its packets are padded, ciphered and run together by the reads.    *)
THEOREM CookiesInTurn == Spec => (~split => Beating!Spec)
  <1>1. [Next]_vars => (~split => ~split')
    BY DEF vars, Next, ClientStep, ServerStep, Initialize, FlagCheater, EndConnection, ProcessRequests,
           HandleClientConnected, HandleMessageReceived, EndReadEOF, SendHeartbeat
  <1>2. Inv /\ ~split /\ [Next]_vars => [Beating!Next]_(Beating!beats)
    BY BeatStep
  <1> QED BY <1>1, <1>2, BeatInit, InvHolds, PTL DEF Spec, Beating!Spec

(* The same of each step, as the run checks it. *)
THEOREM CookiesOneByOne == Spec => BeatsInTurn
  <1>1. Inv /\ [Next]_vars => [~split => Beating!Next \/ UNCHANGED Beating!beats]_vars
    BY BeatStep
  <1> QED BY <1>1, InvHolds, PTL DEF Spec, BeatsInTurn
=============================================================================
