--------------------------- MODULE PacketCodecProofs ---------------------------
(***************************************************************************)
(* Proofs about PacketCodec, for every number of bits in a byte, every     *)
(* length of the checksum, every limit of the payload and every polynomial *)
(* that does what it is chosen for.                                        *)
(***************************************************************************)
EXTENDS PacketCodec, SequenceTheorems, FiniteSetTheorems, WellFoundedInduction,
        TLAPS

-----------------------------------------------------------------------------
\* A set of natural numbers that is not empty has a least element.
LEMMA Least ==
  ASSUME NEW T \in SUBSET Nat, T # {}
  PROVE  \E x \in T : \A y \in T : x <= y
<1>1. PICK R : R = OpToRel(<, Nat)
  OBVIOUS
<1>2. IsWellFoundedOn(R, Nat)
  BY <1>1, NatLessThanWellFounded
<1>3. \E x \in T : \A y \in T : ~(<<y, x>> \in R)
  BY <1>2, WFMin
<1>4. \A x, y \in Nat : <<x, y>> \in R <=> x < y
  BY <1>1 DEF OpToRel
<1>5. PICK x \in T : \A y \in T : ~(<<y, x>> \in R)
  BY <1>3
<1>6. \A y \in T : ~(y < x)
  BY <1>4, <1>5
<1> QED
  BY <1>6

\* Induction over the rounds of a loop.
LEMMA Upwards ==
  ASSUME NEW N \in Nat, NEW S, 0 \in S,
         \A n \in 0..(N - 1) : n \in S => n + 1 \in S
  PROVE  \A n \in 0..N : n \in S
<1> DEFINE Bad == {n \in 0..N : n \notin S}
<1>1. Bad = {}
  <2> SUFFICES ASSUME Bad # {} PROVE FALSE
    OBVIOUS
  <2>0. Bad \in SUBSET Nat
    OBVIOUS
  <2>1. PICK n \in Bad : \A m \in Bad : n <= m
    <3> HIDE DEF Bad
    <3> QED
      BY <2>0, Least
  <2>2. n # 0 /\ n \in 0..N
    OBVIOUS
  <2>3. PICK m \in 0..(N - 1) : m = n - 1 /\ n = m + 1
    BY <2>2
  <2>4. m \in S
    BY <2>1, <2>3
  <2> QED
    BY <2>3, <2>4
<1> QED
  BY <1>1

Steps(V, N) == [V \X (1..N) -> V]

\* f[n] is the state of a loop after n rounds of step, from a.
IsCourse(f, V, a, N, step) ==
  /\ f \in [0..N -> V]
  /\ f[0] = a
  /\ \A i \in 1..N : f[i] = step[<<f[i - 1], i>>]

\* Every loop of so many rounds has a course.
LEMMA Course ==
  ASSUME NEW V, NEW a \in V, NEW N \in Nat, NEW step \in Steps(V, N)
  PROVE  \E f : IsCourse(f, V, a, N, step)
<1> USE DEF Steps
<1> DEFINE Is(f, n) == /\ f[0] = a
                       /\ \A i \in 1..n : f[i] = step[<<f[i - 1], i>>]
           S == {n \in 0..N : \E f \in [0..N -> V] : Is(f, n)}
<1>1. 0 \in S
  <2>2. PICK f : f = [i \in 0..N |-> a]
    OBVIOUS
  <2>3. f \in [0..N -> V] /\ f[0] = a /\ 0 \in 0..N
    BY <2>2
  <2>4. Is(f, 0)
    BY <2>3
  <2> QED
    BY <2>3, <2>4
<1>2. ASSUME NEW n \in 0..(N - 1), n \in S
      PROVE  n + 1 \in S
  <2>1. PICK f \in [0..N -> V] : Is(f, n)
    BY <1>2
  <2>2. PICK m \in 1..N : m = n + 1 /\ m - 1 = n
    OBVIOUS
  <2> DEFINE g == [f EXCEPT ![m] = step[<<f[n], m>>]]
  <2>3. f[n] \in V /\ step[<<f[n], m>>] \in V
    BY <2>2
  <2>4. g \in [0..N -> V]
    BY <2>3
  <2>5. g[m] = step[<<f[n], m>>] /\ \A i \in 0..n : g[i] = f[i]
    BY <2>2
  <2>6. g[0] = a
    BY <2>1, <2>5
  <2>7. ASSUME NEW i \in 1..m PROVE g[i] = step[<<g[i - 1], i>>]
    <3>1. CASE i = m
      <4>1. i - 1 = n /\ n \in 0..n
        BY <2>2, <3>1
      <4>2. g[n] = f[n]
        BY <2>5, <4>1
      <4> QED
        BY <2>5, <3>1, <4>1, <4>2
    <3>2. CASE i # m
      <4>1. i \in 1..n /\ i \in 0..n /\ i - 1 \in 0..n
        BY <2>2, <3>2
      <4>2. f[i] = step[<<f[i - 1], i>>]
        BY <2>1, <4>1
      <4> QED
        BY <2>5, <4>1, <4>2
    <3> QED
      BY <3>1, <3>2
  <2>8. Is(g, m)
    BY <2>6, <2>7
  <2>9. m \in 0..N
    BY <2>2
  <2> HIDE DEF Is, g
  <2> QED
    BY <2>2, <2>4, <2>8, <2>9
<1>3. N \in S
  <2> HIDE DEF S
  <2> QED
    BY <1>1, <1>2, Upwards
<1>4. PICK f \in [0..N -> V] : Is(f, N)
  BY <1>3
<1> QED
  BY <1>4 DEF IsCourse
-----------------------------------------------------------------------------
(* The bits of a number.                                                   *)

Bit(byte, i) == IF i \in byte THEN 1 ELSE 0

\* above[i] is the number that the bits of a byte from i on stand for.
IsAbove(above, byte) ==
  /\ above \in [0..ByteBits -> Nat]
  /\ above[ByteBits] = 0
  /\ \A i \in 0..(ByteBits - 1) : above[i] = 2 * above[i + 1] + Bit(byte, i)

\* The recursion of NumberOf has a solution.
LEMMA NumberIs ==
  ASSUME NEW byte
  PROVE  \E above : IsAbove(above, byte) /\ NumberOf(byte) = above[0]
<1>1. PICK N : N = ByteBits /\ N \in Nat
  BY CodecAssumption
<1> DEFINE Is(f) == f = [i \in 0..N |->
                           IF i = N THEN 0
                           ELSE 2 * f[i + 1] + (IF i \in byte THEN 1 ELSE 0)]
<1>2. PICK step : step = [x \in Nat \X (1..N) |->
                            2 * x[1] + Bit(byte, N - x[2])]
  OBVIOUS
<1>3. step \in Steps(Nat, N)
  BY <1>2 DEF Bit, Steps
<1>4. \E f : IsCourse(f, Nat, 0, N, step)
  BY <1>1, <1>3, Course
<1>5. PICK f \in [0..N -> Nat] :
         f[0] = 0 /\ \A i \in 1..N : f[i] = step[<<f[i - 1], i>>]
  BY <1>4 DEF IsCourse
<1> DEFINE g == [i \in 0..N |-> f[N - i]]
<1>6. \A i \in 0..N : N - i \in 0..N
  BY <1>1
<1>7. g \in [0..N -> Nat] /\ g[N] = 0
  BY <1>1, <1>5, <1>6
<1>8. ASSUME NEW i \in 0..(N - 1)
      PROVE  g[i] = 2 * g[i + 1] + Bit(byte, i)
  <2>1. PICK j \in 1..N : j = N - i /\ i = N - j
    BY <1>1
  <2>2. j - 1 \in 0..N /\ j - 1 = N - (i + 1) /\ i + 1 \in 0..N /\ i \in 0..N
    BY <1>1, <2>1
  <2>3. g[i + 1] = f[j - 1] /\ g[i] = f[j]
    BY <2>1, <2>2
  <2>4. f[j] = step[<<f[j - 1], j>>] /\ f[j - 1] \in Nat
    BY <1>5, <2>2
  <2>5. step[<<f[j - 1], j>>] = 2 * f[j - 1] + Bit(byte, N - j)
    BY <1>2, <2>4
  <2> QED
    BY <2>1, <2>3, <2>4, <2>5
<1>9. Is(g)
  <2>1. \A i \in 0..N : g[i] = IF i = N THEN 0
                               ELSE 2 * g[i + 1] + (IF i \in byte THEN 1 ELSE 0)
    <3> SUFFICES ASSUME NEW i \in 0..N
                 PROVE  g[i] = IF i = N THEN 0
                               ELSE 2 * g[i + 1] + (IF i \in byte THEN 1 ELSE 0)
      OBVIOUS
    <3>1. CASE i = N
      BY <1>7, <3>1
    <3>2. CASE i # N
      <4>1. i \in 0..(N - 1)
        BY <1>1, <3>2
      <4> QED
        BY <1>8, <3>2, <4>1 DEF Bit
    <3> QED
      BY <3>1, <3>2
  <2> QED
    BY <2>1
<1>10. PICK above : above = (CHOOSE h : Is(h)) /\ Is(above)
  <2> HIDE DEF Is
  <2> QED
    BY <1>9
<1>11. NumberOf(byte) = above[0]
  BY <1>1, <1>10 DEF NumberOf
<1> HIDE DEF g
<1>12. /\ above[N] = 0
       /\ \A i \in 0..(N - 1) : above[i] = 2 * above[i + 1] + Bit(byte, i)
  <2>1. N \in 0..N /\ \A i \in 0..(N - 1) : i \in 0..N /\ i # N
    BY <1>1
  <2> QED
    BY <1>10, <2>1 DEF Bit
<1>13. above \in [0..N -> Nat]
  <2> DEFINE S == {k \in 0..N : above[N - k] \in Nat}
  <2>1. 0 \in S
    BY <1>1, <1>12
  <2>2. ASSUME NEW k \in 0..(N - 1), k \in S
        PROVE  k + 1 \in S
    <3>1. PICK i \in 0..(N - 1) : i = N - (k + 1) /\ i + 1 = N - k
      BY <1>1
    <3>2. above[i] \in Nat
      BY <1>12, <2>2, <3>1 DEF Bit
    <3> QED
      BY <1>1, <3>1, <3>2
  <2>3. \A k \in 0..N : k \in S
    <3> HIDE DEF S
    <3> QED
      BY <1>1, <2>1, <2>2, Upwards
  <2>4. \A i \in 0..N : above[i] \in Nat
    <3> SUFFICES ASSUME NEW i \in 0..N PROVE above[i] \in Nat
      OBVIOUS
    <3>1. PICK k \in 0..N : k = N - i /\ i = N - k
      BY <1>1
    <3> QED
      BY <2>3, <3>1
  <2>5. above = [i \in 0..N |-> above[i]]
    BY <1>10
  <2> QED
    BY <2>4, <2>5
<1> QED
  BY <1>1, <1>11, <1>12, <1>13 DEF IsAbove

\* A byte stands for a natural number.
LEMMA NumberTyped ==
  ASSUME NEW byte
  PROVE  NumberOf(byte) \in Nat
<1>1. PICK above : IsAbove(above, byte) /\ NumberOf(byte) = above[0]
  BY NumberIs
<1> QED
  BY <1>1, CodecAssumption DEF IsAbove

\* Numbers whose lowest bits and whose halves are equal are equal.
LEMMA Halves ==
  ASSUME NEW x \in Nat, NEW y \in Nat, NEW a, NEW b, NEW i,
         2 * x + Bit(a, i) = 2 * y + Bit(b, i)
  PROVE  x = y /\ (i \in a <=> i \in b)
  BY DEF Bit

\* No two bytes stand for the same number.
LEMMA NumbersDiffer ==
  ASSUME NEW a \in Byte, NEW b \in Byte, NumberOf(a) = NumberOf(b)
  PROVE  a = b
<1>1. PICK N : N = ByteBits /\ N \in Nat
  BY CodecAssumption
<1>2. PICK f : IsAbove(f, a) /\ NumberOf(a) = f[0]
  BY NumberIs
<1>3. PICK g : IsAbove(g, b) /\ NumberOf(b) = g[0]
  BY NumberIs
<1> DEFINE S == {i \in 0..N : f[i] = g[i]}
<1>4. 0 \in S
  <2>1. f[0] = g[0]
    BY <1>2, <1>3
  <2> QED
    BY <1>1, <2>1
<1>5. ASSUME NEW i \in 0..(N - 1), f[i] = g[i]
      PROVE  f[i + 1] = g[i + 1] /\ (i \in a <=> i \in b)
  <2>1. i + 1 \in 0..N
    BY <1>1
  <2>2. f[i + 1] \in Nat /\ g[i + 1] \in Nat
    BY <1>1, <1>2, <1>3, <2>1 DEF IsAbove
  <2>3. 2 * f[i + 1] + Bit(a, i) = 2 * g[i + 1] + Bit(b, i)
    BY <1>1, <1>2, <1>3, <1>5 DEF IsAbove
  <2> QED
    BY <2>2, <2>3, Halves
<1>6. ASSUME NEW i \in 0..(N - 1), i \in S PROVE i + 1 \in S
  BY <1>1, <1>5, <1>6
<1>7. \A i \in 0..N : i \in S
  <2> HIDE DEF S
  <2> QED
    BY <1>1, <1>4, <1>6, Upwards
<1>8. \A i \in 0..(N - 1) : i \in a <=> i \in b
  BY <1>1, <1>5, <1>7
<1> QED
  BY <1>1, <1>8 DEF Byte, Bits

\* The byte for a size that is allowed.
LEMMA ByteForSize ==
  ASSUME NEW n \in 0..MaxPayload
  PROVE  ByteFor(n) \in Byte /\ NumberOf(ByteFor(n)) = n
  BY SizeAssumption DEF ByteFor

\* The byte that stands for a size allowed is the byte for it.
LEMMA ByteForNumber ==
  ASSUME NEW a \in Byte, NumberOf(a) <= MaxPayload
  PROVE  ByteFor(NumberOf(a)) = a
<1>1. PICK n : n = NumberOf(a) /\ n \in 0..MaxPayload
  BY NumberTyped, SizeAssumption
<1> QED
  BY <1>1, ByteForSize, NumbersDiffer
-----------------------------------------------------------------------------
(* Numbers of several bytes.                                               *)

\* A bit has one place in one byte.
LEMMA Places ==
  ASSUME NEW j \in Nat, NEW k \in Nat, NEW b \in Bits, NEW c \in Bits,
         j * ByteBits + b = k * ByteBits + c
  PROVE  j = k /\ b = c
<1>1. PICK N : N = ByteBits /\ N \in Nat /\ b \in 0..(N - 1) /\ c \in 0..(N - 1)
  BY CodecAssumption DEF Bits
<1>2. ASSUME NEW u \in Nat, NEW v \in Nat, u < v PROVE u * N + N <= v * N
  <2>1. PICK d \in Nat : v = u + 1 + d
    BY <1>2
  <2>2. v * N = u * N + N + d * N /\ d * N \in Nat /\ u * N \in Nat
    BY <1>1, <2>1
  <2> QED
    BY <1>1, <2>2
<1>3. j * N \in Nat /\ k * N \in Nat
  BY <1>1
<1>4. ~(j < k) /\ ~(k < j)
  BY <1>1, <1>2, <1>3
<1> QED
  BY <1>1, <1>3, <1>4

\* Every bit of a number has a place in one of its bytes.
LEMMA Placed ==
  ASSUME NEW width \in Nat, NEW v \in 0..(width * ByteBits - 1)
  PROVE  \E k \in 0..(width - 1), b \in Bits : v = k * ByteBits + b
<1>1. PICK N : N = ByteBits /\ N \in Nat /\ N > 0
  BY CodecAssumption
<1> DEFINE T == {m \in Nat : v < m * N}
<1>2. width \in T
  BY <1>1
<1>3. PICK m \in T : \A y \in T : m <= y
  <2>1. T \in SUBSET Nat /\ T # {}
    BY <1>2
  <2> HIDE DEF T
  <2> QED
    BY <2>1, Least
<1>4. m \in Nat /\ v < m * N /\ m <= width
  BY <1>2, <1>3
<1>5. m # 0
  BY <1>1, <1>4
<1>6. PICK k \in Nat : m = k + 1
  BY <1>4, <1>5
<1>7. k \notin T /\ m * N = k * N + N /\ k * N \in Nat
  BY <1>1, <1>3, <1>6
<1>8. PICK b \in 0..(N - 1) : v = k * N + b
  <2>1. k * N <= v /\ v < k * N + N
    BY <1>1, <1>4, <1>7
  <2>2. v - k * N \in 0..(N - 1) /\ v = k * N + (v - k * N)
    BY <1>1, <1>7, <2>1
  <2> QED
    BY <2>2
<1> QED
  BY <1>1, <1>4, <1>6, <1>8 DEF Bits

\* The bits of a written byte are those of the number, moved to its place.
LEMMA Written ==
  ASSUME NEW value, NEW width \in Nat
  PROVE  /\ WriteBigEndian(value, width) \in [1..width -> Byte]
         /\ WriteBigEndian(value, width) \in Seq(Byte)
         /\ Len(WriteBigEndian(value, width)) = width
         /\ \A i \in 1..width, b \in Bits :
              b \in WriteBigEndian(value, width)[i] <=>
                (width - i) * ByteBits + b \in value
<1>1. WriteBigEndian(value, width) \in [1..width -> Byte]
  BY DEF WriteBigEndian, Byte
<1>2. PICK bytes : bytes = WriteBigEndian(value, width)
  OBVIOUS
<1>3. bytes \in Seq(Byte) /\ Len(bytes) = width
  BY <1>1, <1>2
<1>4. \A i \in 1..width, b \in Bits :
        b \in bytes[i] <=> (width - i) * ByteBits + b \in value
  BY <1>2 DEF WriteBigEndian
<1> QED
  BY <1>1, <1>2, <1>3, <1>4

\* The bits of a number that is read are those of its bytes.
LEMMA ReadBits ==
  ASSUME NEW width \in Nat, NEW bytes \in [1..width -> Byte],
         NEW k \in 0..(width - 1), NEW b \in Bits
  PROVE  k * ByteBits + b \in ReadBigEndian(bytes) <=> b \in bytes[width - k]
<1>1. Len(bytes) = width /\ DOMAIN bytes = 1..width
  OBVIOUS
<1>2. width - k \in 1..width /\ width - (width - k) = k
  OBVIOUS
<1>3. ASSUME k * ByteBits + b \in ReadBigEndian(bytes)
      PROVE  b \in bytes[width - k]
  <2>1. PICK i \in 1..width : \E c \in bytes[i] :
               k * ByteBits + b = (width - i) * ByteBits + c
    BY <1>1, <1>3 DEF ReadBigEndian
  <2>2. PICK c \in bytes[i] : k * ByteBits + b = (width - i) * ByteBits + c
    BY <2>1
  <2>3. PICK j \in Nat : j = width - i /\ i = width - j
    OBVIOUS
  <2>4. c \in Bits /\ k \in Nat
    BY DEF Byte
  <2>5. k = j /\ b = c
    BY <2>2, <2>3, <2>4, Places
  <2> QED
    BY <2>2, <2>3, <2>5
<1>4. ASSUME b \in bytes[width - k]
      PROVE  k * ByteBits + b \in ReadBigEndian(bytes)
  <2>1. k * ByteBits + b \in
          {(Len(bytes) - (width - k)) * ByteBits + c : c \in bytes[width - k]}
    BY <1>1, <1>2, <1>4
  <2> QED
    BY <1>1, <1>2, <2>1 DEF ReadBigEndian
<1> QED
  BY <1>3, <1>4

\* What has been written is read back.
LEMMA ReadInvertsWrite ==
  ASSUME NEW width \in Nat, NEW value \in SUBSET (0..(width * ByteBits - 1))
  PROVE  ReadBigEndian(WriteBigEndian(value, width)) = value
<1>1. PICK bytes : /\ bytes = WriteBigEndian(value, width)
                   /\ bytes \in [1..width -> Byte]
                   /\ Len(bytes) = width
  BY Written
<1>2. ASSUME NEW k \in 0..(width - 1), NEW b \in Bits
      PROVE  k * ByteBits + b \in ReadBigEndian(bytes) <=>
               k * ByteBits + b \in value
  <2>1. width - k \in 1..width /\ width - (width - k) = k
    OBVIOUS
  <2>2. b \in bytes[width - k] <=>
          (width - (width - k)) * ByteBits + b \in value
    BY <1>1, <2>1, Written
  <2> QED
    BY <1>1, <2>1, <2>2, ReadBits
<1>3. \A v \in ReadBigEndian(bytes) : \E k \in 0..(width - 1), b \in Bits :
        v = k * ByteBits + b
  <2> SUFFICES ASSUME NEW v \in ReadBigEndian(bytes)
               PROVE  \E k \in 0..(width - 1), b \in Bits :
                        v = k * ByteBits + b
    OBVIOUS
  <2>1. PICK i \in 1..width : \E b \in bytes[i] :
               v = (width - i) * ByteBits + b
    BY <1>1 DEF ReadBigEndian
  <2>2. width - i \in 0..(width - 1) /\ bytes[i] \subseteq Bits
    BY <1>1 DEF Byte
  <2> QED
    BY <2>1, <2>2
<1>4. \A v \in value : \E k \in 0..(width - 1), b \in Bits :
        v = k * ByteBits + b
  BY Placed
<1>5. PICK read : read = ReadBigEndian(bytes)
  OBVIOUS
<1>6. \A v \in read : v \in value
  BY <1>2, <1>3, <1>5
<1>7. \A v \in value : v \in read
  BY <1>2, <1>4, <1>5
<1>8. read = value
  BY <1>6, <1>7
<1> QED
  BY <1>1, <1>5, <1>8

\* Bytes are what is written for the number read from them.
LEMMA WriteInvertsRead ==
  ASSUME NEW width \in Nat, NEW bytes \in [1..width -> Byte]
  PROVE  WriteBigEndian(ReadBigEndian(bytes), width) = bytes
<1>1. PICK again : /\ again = WriteBigEndian(ReadBigEndian(bytes), width)
                   /\ again \in [1..width -> Byte]
  BY Written
<1>2. ASSUME NEW i \in 1..width PROVE again[i] = bytes[i]
  <2>1. PICK k \in 0..(width - 1) : k = width - i /\ i = width - k
    OBVIOUS
  <2>2. \A b \in Bits : b \in again[i] <=> b \in bytes[i]
    BY <1>1, <2>1, Written, ReadBits
  <2>3. again[i] \subseteq Bits /\ bytes[i] \subseteq Bits
    BY <1>1 DEF Byte
  <2> QED
    BY <2>2, <2>3
<1> QED
  BY <1>1, <1>2

\* A number that is read has the bits of its bytes only.
LEMMA ReadTyped ==
  ASSUME NEW width \in Nat, NEW bytes \in [1..width -> Byte]
  PROVE  ReadBigEndian(bytes) \subseteq 0..(width * ByteBits - 1)
<1> SUFFICES ASSUME NEW v \in ReadBigEndian(bytes)
             PROVE  v \in 0..(width * ByteBits - 1)
  OBVIOUS
<1>1. PICK N : N = ByteBits /\ N \in Nat /\ N > 0
  BY CodecAssumption
<1>2. Len(bytes) = width /\ DOMAIN bytes = 1..width
  OBVIOUS
<1>3. PICK i \in 1..width : \E b \in bytes[i] : v = (width - i) * N + b
  BY <1>1, <1>2 DEF ReadBigEndian
<1>4. PICK b \in 0..(N - 1) : v = (width - i) * N + b
  BY <1>1, <1>3 DEF Byte, Bits
<1>5. /\ width * N = (width - i) * N + (i - 1) * N + N
      /\ (width - i) * N \in Nat /\ (i - 1) * N \in Nat
  BY <1>1
<1> QED
  BY <1>1, <1>4, <1>5
-----------------------------------------------------------------------------
(* The checksum.                                                           *)

State == SUBSET AllOnes

\* The states in which a byte is absorbed, bit by bit.
IsAbsorbing(after, state, byte) ==
  /\ after \in [0..ByteBits -> State]
  /\ after[0] = Xor(state, byte)
  /\ \A i \in 1..ByteBits : after[i] = CrcBit(after[i - 1])

\* The states in which bytes are absorbed, byte by byte.
IsUpdating(after, state, bytes) ==
  /\ after \in [0..Len(bytes) -> State]
  /\ after[0] = state
  /\ \A i \in 1..Len(bytes) : after[i] = AbsorbByte(after[i - 1], bytes[i])

\* The register of the checksum is as wide as a byte, or wider.
LEMMA Widths ==
  /\ CrcBits \in Nat /\ CrcBits > 0 /\ ByteBits \in Nat /\ ByteBits > 0
  /\ Bits \subseteq AllOnes /\ Byte \subseteq State
  /\ AllOnes \in State /\ {} \in State /\ {} \in Byte
<1>1. PICK N, M : /\ N = ByteBits /\ M = CrcBytes
                  /\ N \in Nat \ {0} /\ M \in Nat \ {0}
  BY CodecAssumption
<1>2. PICK m \in Nat : M = m + 1
  BY <1>1
<1>3. M * N = m * N + N /\ m * N \in Nat
  BY <1>1, <1>2
<1>4. CrcBits \in Nat /\ CrcBits >= ByteBits /\ ByteBits \in Nat /\ ByteBits > 0
  BY <1>1, <1>3 DEF CrcBits
<1>5. Bits \subseteq AllOnes
  BY <1>4 DEF Bits, AllOnes
<1> QED
  BY <1>4, <1>5 DEF Byte, State

\* Exclusive or of states is a state.
LEMMA XorTyped ==
  ASSUME NEW s \in State, NEW t \in State
  PROVE  Xor(s, t) \in State
  BY DEF Xor, State

\* Differences of bytes are bytes.
LEMMA XorBytes ==
  ASSUME NEW s \in Byte, NEW t \in Byte
  PROVE  Xor(s, t) \in Byte
  BY DEF Xor, Byte

\* What a step of the register does to a bit.
LEMMA CrcBitBits ==
  ASSUME NEW s \in State
  PROVE  /\ CrcBit(s) \in State
         /\ \A v \in AllOnes :
              v \in CrcBit(s) <=>
                ((v + 1 \in s) # (0 \in s /\ v \in CrcPolynomial))
<1>1. s \subseteq 0..(CrcBits - 1) /\ CrcBits \in Nat
  BY Widths DEF State, AllOnes
<1>2. PICK shifted : shifted = {i - 1 : i \in s \ {0}}
  OBVIOUS
<1>3. shifted \subseteq AllOnes
  BY <1>1, <1>2 DEF AllOnes
<1>4. \A v \in AllOnes : v \in shifted <=> v + 1 \in s
  BY <1>1, <1>2 DEF AllOnes
<1>5. CrcBit(s) = Xor(shifted, IF 0 \in s THEN CrcPolynomial ELSE {})
  BY <1>2 DEF CrcBit
<1>6. CrcBit(s) \in State
  BY <1>3, <1>5, PolynomialAssumption DEF Xor, State
<1>7. \A v : v \in CrcBit(s) <=>
               (v \in shifted) # (0 \in s /\ v \in CrcPolynomial)
  BY <1>5 DEF Xor
<1> QED
  BY <1>4, <1>6, <1>7

\* A step of the register maps differences to differences.
LEMMA CrcBitLinear ==
  ASSUME NEW s \in State, NEW t \in State
  PROVE  CrcBit(Xor(s, t)) = Xor(CrcBit(s), CrcBit(t))
<1>1. PICK d : d = Xor(s, t) /\ d \in State
  BY XorTyped
<1>2. CrcBit(d) \in State /\ CrcBit(s) \in State /\ CrcBit(t) \in State
  BY <1>1, CrcBitBits
<1>3. \A v : v \in d <=> (v \in s) # (v \in t)
  BY <1>1 DEF Xor
<1>4. \A v : v \in Xor(CrcBit(s), CrcBit(t)) <=>
               (v \in CrcBit(s)) # (v \in CrcBit(t))
  BY DEF Xor
<1>5. \A v \in AllOnes :
        v \in CrcBit(d) <=> (v \in CrcBit(s)) # (v \in CrcBit(t))
  <2> SUFFICES ASSUME NEW v \in AllOnes
               PROVE  v \in CrcBit(d) <=> (v \in CrcBit(s)) # (v \in CrcBit(t))
    OBVIOUS
  <2>1. v \in CrcBit(d) <=> ((v + 1 \in d) # (0 \in d /\ v \in CrcPolynomial))
    BY <1>1, CrcBitBits
  <2>2. v \in CrcBit(s) <=> ((v + 1 \in s) # (0 \in s /\ v \in CrcPolynomial))
    BY CrcBitBits
  <2>3. v \in CrcBit(t) <=> ((v + 1 \in t) # (0 \in t /\ v \in CrcPolynomial))
    BY CrcBitBits
  <2> QED
    BY <1>3, <2>1, <2>2, <2>3
<1> QED
  BY <1>1, <1>2, <1>4, <1>5 DEF State

\* A step of the register lets no difference vanish.
LEMMA CrcBitKeeps ==
  ASSUME NEW s \in State, s # {}
  PROVE  CrcBit(s) # {}
<1>1. s \subseteq 0..(CrcBits - 1) /\ CrcBits \in Nat /\ CrcBits > 0
  BY Widths DEF State, AllOnes
<1>2. CASE 0 \in s
  <2>1. PICK top \in AllOnes : top = CrcBits - 1 /\ top + 1 \notin s
    BY <1>1 DEF AllOnes
  <2>2. top \in CrcBit(s)
    BY <1>2, <2>1, CrcBitBits, PolynomialAssumption
  <2> QED
    BY <2>2
<1>3. CASE 0 \notin s
  <2>1. PICK v \in s : v # 0
    BY <1>3
  <2>2. PICK u \in AllOnes : v = u + 1
    BY <1>1, <2>1 DEF AllOnes
  <2>3. u \in CrcBit(s)
    BY <1>3, <2>1, <2>2, CrcBitBits
  <2> QED
    BY <2>3
<1> QED
  BY <1>2, <1>3

\* The recursion of AbsorbByte has a solution.
LEMMA AbsorbIs ==
  ASSUME NEW s \in State, NEW byte \in Byte
  PROVE  \E f : IsAbsorbing(f, s, byte) /\ AbsorbByte(s, byte) = f[ByteBits]
<1>1. PICK N : N = ByteBits /\ N \in Nat
  BY Widths
<1> DEFINE Is(f) == f = [i \in 0..N |-> IF i = 0 THEN Xor(s, byte)
                                        ELSE CrcBit(f[i - 1])]
<1>2. PICK a : a = Xor(s, byte) /\ a \in State
  BY Widths, XorTyped
<1>3. PICK step : step = [x \in State \X (1..N) |-> CrcBit(x[1])]
  OBVIOUS
<1>4. step \in Steps(State, N)
  BY <1>3, CrcBitBits DEF Steps
<1>5. PICK g : IsCourse(g, State, a, N, step)
  BY <1>1, <1>2, <1>4, Course
<1>6. g \in [0..N -> State] /\ g[0] = a
  BY <1>5 DEF IsCourse
<1>7. \A i \in 1..N : i - 1 \in 0..N /\ g[i - 1] \in State
  BY <1>1, <1>6
<1>8. \A i \in 1..N : g[i] = CrcBit(g[i - 1])
  BY <1>3, <1>5, <1>7 DEF IsCourse
<1>9. Is(g)
  <2>1. \A i \in 0..N : g[i] = IF i = 0 THEN Xor(s, byte) ELSE CrcBit(g[i - 1])
    <3> SUFFICES ASSUME NEW i \in 0..N
                 PROVE  g[i] = IF i = 0 THEN Xor(s, byte) ELSE CrcBit(g[i - 1])
      OBVIOUS
    <3>1. i # 0 => i \in 1..N
      BY <1>1
    <3> QED
      BY <1>2, <1>6, <1>8, <3>1
  <2> QED
    BY <1>6, <2>1
<1>10. PICK f : f = (CHOOSE h : Is(h)) /\ Is(f)
  <2> HIDE DEF Is
  <2> QED
    BY <1>9
<1>11. AbsorbByte(s, byte) = f[N]
  BY <1>1, <1>10 DEF AbsorbByte
<1>12. f[0] = a /\ \A i \in 1..N : f[i] = CrcBit(f[i - 1])
  <2>1. 0 \in 0..N /\ \A i \in 1..N : i \in 0..N /\ i # 0
    BY <1>1
  <2> QED
    BY <1>2, <1>10, <2>1
<1>13. f \in [0..N -> State]
  <2> DEFINE S == {i \in 0..N : f[i] \in State}
  <2>1. 0 \in S
    BY <1>1, <1>2, <1>12
  <2>2. ASSUME NEW i \in 0..(N - 1), i \in S PROVE i + 1 \in S
    <3>1. PICK j \in 1..N : j = i + 1 /\ j - 1 = i
      BY <1>1
    <3>2. f[j] \in State
      BY <1>12, <2>2, <3>1, CrcBitBits
    <3> QED
      BY <3>1, <3>2
  <2>3. \A i \in 0..N : i \in S
    <3> HIDE DEF S
    <3> QED
      BY <1>1, <2>1, <2>2, Upwards
  <2>4. f = [i \in 0..N |-> f[i]]
    BY <1>10
  <2> QED
    BY <2>3, <2>4
<1> QED
  BY <1>1, <1>2, <1>11, <1>12, <1>13 DEF IsAbsorbing

\* Absorbing a byte leads to a state.
LEMMA AbsorbTyped ==
  ASSUME NEW s \in State, NEW byte \in Byte
  PROVE  AbsorbByte(s, byte) \in State
<1>1. PICK f : IsAbsorbing(f, s, byte) /\ AbsorbByte(s, byte) = f[ByteBits]
  BY AbsorbIs
<1> QED
  BY <1>1, Widths DEF IsAbsorbing

\* Absorbing a byte maps differences to differences.
LEMMA AbsorbLinear ==
  ASSUME NEW s \in State, NEW t \in State, NEW a \in Byte, NEW b \in Byte
  PROVE  AbsorbByte(Xor(s, t), Xor(a, b)) =
           Xor(AbsorbByte(s, a), AbsorbByte(t, b))
<1>1. PICK N : N = ByteBits /\ N \in Nat
  BY Widths
<1>2. PICK f : IsAbsorbing(f, s, a) /\ AbsorbByte(s, a) = f[N]
  BY <1>1, AbsorbIs
<1>3. PICK g : IsAbsorbing(g, t, b) /\ AbsorbByte(t, b) = g[N]
  BY <1>1, AbsorbIs
<1>4. PICK u, c : u = Xor(s, t) /\ c = Xor(a, b) /\ u \in State /\ c \in Byte
  BY XorTyped, XorBytes
<1>5. PICK h : IsAbsorbing(h, u, c) /\ AbsorbByte(u, c) = h[N]
  BY <1>1, <1>4, AbsorbIs
<1>6. Xor(u, c) = Xor(Xor(s, a), Xor(t, b))
  BY <1>4 DEF Xor
<1> DEFINE S == {i \in 0..N : h[i] = Xor(f[i], g[i])}
<1>7. 0 \in S
  <2>1. h[0] = Xor(f[0], g[0])
    BY <1>2, <1>3, <1>5, <1>6 DEF IsAbsorbing
  <2> QED
    BY <1>1, <2>1
<1>8. ASSUME NEW i \in 0..(N - 1), i \in S PROVE i + 1 \in S
  <2>1. PICK j \in 1..N : j = i + 1 /\ j - 1 = i
    BY <1>1
  <2>2. f[i] \in State /\ g[i] \in State
    BY <1>1, <1>2, <1>3 DEF IsAbsorbing
  <2>3. /\ f[j] = CrcBit(f[i]) /\ g[j] = CrcBit(g[i])
        /\ h[j] = CrcBit(h[i])
    BY <1>1, <1>2, <1>3, <1>5, <2>1 DEF IsAbsorbing
  <2>4. h[i] = Xor(f[i], g[i])
    BY <1>8
  <2>5. h[j] = Xor(f[j], g[j])
    BY <2>2, <2>3, <2>4, CrcBitLinear
  <2> QED
    BY <2>1, <2>5
<1>9. N \in S
  <2>1. \A i \in 0..N : i \in S
    <3> HIDE DEF S
    <3> QED
      BY <1>1, <1>7, <1>8, Upwards
  <2> HIDE DEF S
  <2> QED
    BY <1>1, <2>1
<1> QED
  BY <1>2, <1>3, <1>4, <1>5, <1>9

\* Absorbing a byte lets no difference vanish but one that is the byte's.
LEMMA AbsorbKeeps ==
  ASSUME NEW s \in State, NEW byte \in Byte, Xor(s, byte) # {}
  PROVE  AbsorbByte(s, byte) # {}
<1>1. PICK N : N = ByteBits /\ N \in Nat
  BY Widths
<1>2. PICK f : IsAbsorbing(f, s, byte) /\ AbsorbByte(s, byte) = f[N]
  BY <1>1, AbsorbIs
<1> DEFINE S == {i \in 0..N : f[i] # {}}
<1>3. 0 \in S
  <2>1. f[0] # {}
    BY <1>2 DEF IsAbsorbing
  <2> QED
    BY <1>1, <2>1
<1>4. ASSUME NEW i \in 0..(N - 1), i \in S PROVE i + 1 \in S
  <2>1. PICK j \in 1..N : j = i + 1 /\ j - 1 = i
    BY <1>1
  <2>2. f[i] \in State /\ f[i] # {}
    BY <1>1, <1>2, <1>4 DEF IsAbsorbing
  <2>3. f[j] = CrcBit(f[i])
    BY <1>1, <1>2, <2>1 DEF IsAbsorbing
  <2> QED
    BY <2>1, <2>2, <2>3, CrcBitKeeps
<1>5. N \in S
  <2>1. \A i \in 0..N : i \in S
    <3> HIDE DEF S
    <3> QED
      BY <1>1, <1>3, <1>4, Upwards
  <2> HIDE DEF S
  <2> QED
    BY <1>1, <2>1
<1> QED
  BY <1>2, <1>5

\* It is the difference of the state and the byte that is shifted out.
LEMMA AbsorbXor ==
  ASSUME NEW s \in State, NEW byte \in Byte
  PROVE  AbsorbByte(s, byte) = AbsorbByte(Xor(s, byte), {})
<1>1. Xor(Xor(s, byte), {}) = Xor(s, byte)
  BY DEF Xor
<1> QED
  BY <1>1 DEF AbsorbByte

\* What does not differ stays so.
LEMMA AbsorbNothing ==
  AbsorbByte({}, {}) = {}
<1>1. Xor({}, {}) = {} /\ \A s : Xor(s, s) = {}
  BY DEF Xor
<1>2. AbsorbByte(Xor({}, {}), Xor({}, {})) =
        Xor(AbsorbByte({}, {}), AbsorbByte({}, {}))
  BY Widths, AbsorbLinear
<1> QED
  BY <1>1, <1>2

\* The recursion of UpdateCrc has a solution, and only one.
LEMMA UpdateIs ==
  ASSUME NEW s \in State, NEW q \in Seq(Byte)
  PROVE  \E f : IsUpdating(f, s, q) /\ UpdateCrc(s, q) = f[Len(q)]
<1>1. PICK N : N = Len(q) /\ N \in Nat
  BY LenProperties
<1> DEFINE Is(f) == f = [i \in 0..N |-> IF i = 0 THEN s
                                        ELSE AbsorbByte(f[i - 1], q[i])]
<1>2. PICK step : step = [x \in State \X (1..N) |-> AbsorbByte(x[1], q[x[2]])]
  OBVIOUS
<1>3. \A i \in 1..N : q[i] \in Byte
  BY <1>1, ElementOfSeq
<1>4. step \in Steps(State, N)
  BY <1>2, <1>3, AbsorbTyped DEF Steps
<1>5. PICK g : IsCourse(g, State, s, N, step)
  BY <1>1, <1>4, Course
<1>6. g \in [0..N -> State] /\ g[0] = s
  BY <1>5 DEF IsCourse
<1>7. \A i \in 1..N : i - 1 \in 0..N /\ g[i - 1] \in State
  BY <1>1, <1>6
<1>8. \A i \in 1..N : g[i] = AbsorbByte(g[i - 1], q[i])
  BY <1>2, <1>5, <1>7 DEF IsCourse
<1>9. Is(g)
  <2>1. \A i \in 0..N : g[i] = IF i = 0 THEN s ELSE AbsorbByte(g[i - 1], q[i])
    <3> SUFFICES ASSUME NEW i \in 0..N
                 PROVE  g[i] = IF i = 0 THEN s ELSE AbsorbByte(g[i - 1], q[i])
      OBVIOUS
    <3>1. i # 0 => i \in 1..N
      BY <1>1
    <3> QED
      BY <1>6, <1>8, <3>1
  <2> QED
    BY <1>6, <2>1
<1>10. PICK f : f = (CHOOSE h : Is(h)) /\ Is(f)
  <2> HIDE DEF Is
  <2> QED
    BY <1>9
<1>11. UpdateCrc(s, q) = f[N]
  BY <1>1, <1>10 DEF UpdateCrc
<1>12. f[0] = s /\ \A i \in 1..N : f[i] = AbsorbByte(f[i - 1], q[i])
  <2>1. 0 \in 0..N /\ \A i \in 1..N : i \in 0..N /\ i # 0
    BY <1>1
  <2> QED
    BY <1>10, <2>1
<1>13. f \in [0..N -> State]
  <2> DEFINE S == {i \in 0..N : f[i] \in State}
  <2>1. 0 \in S
    BY <1>1, <1>12
  <2>2. ASSUME NEW i \in 0..(N - 1), i \in S PROVE i + 1 \in S
    <3>1. PICK j \in 1..N : j = i + 1 /\ j - 1 = i
      BY <1>1
    <3>2. f[j] \in State
      BY <1>3, <1>12, <2>2, <3>1, AbsorbTyped
    <3> QED
      BY <3>1, <3>2
  <2>3. \A i \in 0..N : i \in S
    <3> HIDE DEF S
    <3> QED
      BY <1>1, <2>1, <2>2, Upwards
  <2>4. f = [i \in 0..N |-> f[i]]
    BY <1>10
  <2> QED
    BY <2>3, <2>4
<1> QED
  BY <1>1, <1>11, <1>12, <1>13 DEF IsUpdating

\* Whatever goes through the states that UpdateCrc goes through ends as it does.
LEMMA UpdateUnique ==
  ASSUME NEW s \in State, NEW q \in Seq(Byte), NEW f, IsUpdating(f, s, q)
  PROVE  UpdateCrc(s, q) = f[Len(q)]
<1>1. PICK N : N = Len(q) /\ N \in Nat
  BY LenProperties
<1>2. PICK g : IsUpdating(g, s, q) /\ UpdateCrc(s, q) = g[N]
  BY <1>1, UpdateIs
<1> DEFINE S == {i \in 0..N : f[i] = g[i]}
<1>3. 0 \in S
  <2>1. f[0] = g[0]
    BY <1>2 DEF IsUpdating
  <2> QED
    BY <1>1, <2>1
<1>4. ASSUME NEW i \in 0..(N - 1), i \in S PROVE i + 1 \in S
  <2>1. PICK j \in 1..N : j = i + 1 /\ j - 1 = i
    BY <1>1
  <2>2. f[j] = AbsorbByte(f[i], q[j]) /\ g[j] = AbsorbByte(g[i], q[j])
    BY <1>1, <1>2, <2>1 DEF IsUpdating
  <2> QED
    BY <1>4, <2>1, <2>2
<1>5. \A i \in 0..N : i \in S
  <2> HIDE DEF S
  <2> QED
    BY <1>1, <1>3, <1>4, Upwards
<1> QED
  BY <1>1, <1>2, <1>5

\* The checksum of bytes is a state.
LEMMA UpdateTyped ==
  ASSUME NEW s \in State, NEW q \in Seq(Byte)
  PROVE  UpdateCrc(s, q) \in State
<1>1. PICK N : N = Len(q) /\ N \in Nat
  BY LenProperties
<1>2. PICK f : IsUpdating(f, s, q) /\ UpdateCrc(s, q) = f[N]
  BY <1>1, UpdateIs
<1> QED
  BY <1>1, <1>2 DEF IsUpdating

\* The checksum goes on over the payload where it ended in the header.
LEMMA UpdateGoesOn ==
  ASSUME NEW s \in State, NEW q \in Seq(Byte), NEW r \in Seq(Byte)
  PROVE  UpdateCrc(UpdateCrc(s, q), r) = UpdateCrc(s, q \o r)
<1>1. PICK M, N : M = Len(q) /\ N = Len(r) /\ M \in Nat /\ N \in Nat
  BY LenProperties
<1>2. PICK f : IsUpdating(f, s, q) /\ UpdateCrc(s, q) = f[M]
  BY <1>1, UpdateIs
<1>3. PICK t : t = UpdateCrc(s, q) /\ t \in State
  BY UpdateTyped
<1>4. PICK g : IsUpdating(g, t, r) /\ UpdateCrc(t, r) = g[N]
  BY <1>1, <1>3, UpdateIs
<1>5. PICK w : w = q \o r /\ w \in Seq(Byte) /\ Len(w) = M + N
  BY <1>1, ConcatProperties
<1>6. /\ \A i \in 1..M : w[i] = q[i]
      /\ \A i \in 1..N : w[M + i] = r[i]
  BY <1>1, <1>5, ConcatProperties
<1>7. PICK h : h = [i \in 0..(M + N) |-> IF i <= M THEN f[i] ELSE g[i - M]]
  OBVIOUS
<1>8. /\ \A i \in 0..M : i \in 0..(M + N) /\ h[i] = f[i] /\ f[i] \in State
      /\ \A i \in 0..N : g[i] \in State
  <2>1. f \in [0..M -> State] /\ g \in [0..N -> State]
    BY <1>1, <1>2, <1>4 DEF IsUpdating
  <2>2. \A i \in 0..M : i \in 0..(M + N) /\ i <= M
    BY <1>1
  <2> QED
    BY <1>7, <2>1, <2>2
<1>9. \A i \in 0..N : M + i \in 0..(M + N) /\ h[M + i] = g[i]
  <2> SUFFICES ASSUME NEW i \in 0..N
               PROVE  M + i \in 0..(M + N) /\ h[M + i] = g[i]
    OBVIOUS
  <2>1. M + i \in 0..(M + N) /\ M + i - M = i
    BY <1>1
  <2>2. CASE i = 0
    <3>1. h[M] = f[M] /\ g[0] = t
      BY <1>1, <1>4, <1>8 DEF IsUpdating
    <3> QED
      BY <1>1, <1>2, <1>3, <2>1, <2>2, <3>1
  <2>3. CASE i # 0
    <3>1. PICK k \in 0..(M + N) : k = M + i /\ ~(k <= M) /\ k - M = i
      BY <1>1, <2>1, <2>3
    <3>2. h[k] = g[k - M]
      BY <1>7, <3>1
    <3> QED
      BY <3>1, <3>2
  <2> QED
    BY <2>2, <2>3
<1>10. IsUpdating(h, s, w)
  <2>1. h \in [0..(M + N) -> State]
    <3>1. \A i \in 0..(M + N) : h[i] \in State
      <4> SUFFICES ASSUME NEW i \in 0..(M + N) PROVE h[i] \in State
        OBVIOUS
      <4>1. i \in 0..M \/ \E j \in 0..N : i = M + j
        <5>1. CASE i <= M
          BY <1>1, <5>1
        <5>2. CASE i > M
          <6>1. i - M \in 0..N /\ i = M + (i - M)
            BY <1>1, <5>2
          <6> QED
            BY <6>1
        <5> QED
          BY <1>1, <5>1, <5>2
      <4> QED
        BY <1>8, <1>9, <4>1
    <3> QED
      BY <1>7, <3>1
  <2>2. h[0] = s
    BY <1>1, <1>2, <1>8 DEF IsUpdating
  <2>3. ASSUME NEW i \in 1..(M + N)
        PROVE  h[i] = AbsorbByte(h[i - 1], w[i])
    <3>1. CASE i <= M
      <4>1. i \in 1..M /\ i - 1 \in 0..M /\ i \in 0..M
        BY <1>1, <3>1
      <4>2. f[i] = AbsorbByte(f[i - 1], q[i])
        BY <1>1, <1>2, <4>1 DEF IsUpdating
      <4> QED
        BY <1>6, <1>8, <4>1, <4>2
    <3>2. CASE i > M
      <4>1. PICK j \in 1..N : i = M + j /\ j - 1 \in 0..N /\ j \in 0..N
        <5>1. i - M \in 1..N /\ i = M + (i - M)
              /\ i - M - 1 \in 0..N /\ i - M \in 0..N
          BY <1>1, <3>2
        <5> QED
          BY <5>1
      <4>2. i - 1 = M + (j - 1)
        BY <1>1, <4>1
      <4>3. g[j] = AbsorbByte(g[j - 1], r[j])
        BY <1>1, <1>4, <4>1 DEF IsUpdating
      <4> QED
        BY <1>6, <1>9, <4>1, <4>2, <4>3
    <3> QED
      BY <1>1, <3>1, <3>2
  <2> QED
    BY <1>5, <2>1, <2>2, <2>3 DEF IsUpdating
<1>11. UpdateCrc(s, w) = h[M + N]
  BY <1>5, <1>10, UpdateUnique
<1>12. h[M + N] = g[N]
  BY <1>1, <1>9
<1> QED
  BY <1>3, <1>4, <1>5, <1>11, <1>12

\* The bits in which bytes differ.
Difference(q, r) == [i \in 1..Len(q) |-> Xor(q[i], r[i])]

\* Differences of bytes are bytes.
LEMMA DifferenceTyped ==
  ASSUME NEW q \in Seq(Byte), NEW r \in Seq(Byte), Len(q) = Len(r)
  PROVE  /\ Difference(q, r) \in Seq(Byte)
         /\ Len(Difference(q, r)) = Len(q)
<1>1. PICK N : N = Len(q) /\ N \in Nat
  BY LenProperties
<1>2. \A i \in 1..N : q[i] \in Byte /\ r[i] \in Byte
  BY <1>1, ElementOfSeq
<1>3. PICK d : d = Difference(q, r) /\ d \in [1..N -> Byte]
  <2>1. \A i \in 1..N : Xor(q[i], r[i]) \in Byte
    BY <1>2, XorBytes
  <2>2. PICK e : e = [i \in 1..N |-> Xor(q[i], r[i])]
    OBVIOUS
  <2>3. e = Difference(q, r)
    BY <1>1, <2>2 DEF Difference
  <2> QED
    BY <2>1, <2>2, <2>3
<1> QED
  BY <1>1, <1>3

\* The checksum maps differences to differences.
LEMMA UpdateLinear ==
  ASSUME NEW q \in Seq(Byte), NEW r \in Seq(Byte), Len(q) = Len(r),
         NEW s \in State, NEW t \in State
  PROVE  UpdateCrc(Xor(s, t), Difference(q, r)) =
           Xor(UpdateCrc(s, q), UpdateCrc(t, r))
<1>1. PICK N : N = Len(q) /\ N = Len(r) /\ N \in Nat
  BY LenProperties
<1>2. PICK f : IsUpdating(f, s, q) /\ UpdateCrc(s, q) = f[N]
  BY <1>1, UpdateIs
<1>3. PICK g : IsUpdating(g, t, r) /\ UpdateCrc(t, r) = g[N]
  BY <1>1, UpdateIs
<1>4. PICK d : /\ d = Difference(q, r) /\ d \in Seq(Byte) /\ Len(d) = N
               /\ \A i \in 1..N : d[i] = Xor(q[i], r[i])
  <2>1. PICK e : e = Difference(q, r) /\ e \in Seq(Byte) /\ Len(e) = N
    BY <1>1, DifferenceTyped
  <2>2. e = [i \in 1..N |-> Xor(q[i], r[i])]
    BY <1>1, <2>1 DEF Difference
  <2> QED
    BY <2>1, <2>2
<1>5. \A i \in 0..N : f[i] \in State /\ g[i] \in State
  BY <1>1, <1>2, <1>3 DEF IsUpdating
<1>6. PICK h : h = [i \in 0..N |-> Xor(f[i], g[i])]
  OBVIOUS
<1>7. h \in [0..N -> State]
  BY <1>5, <1>6, XorTyped
<1>8. ASSUME NEW i \in 1..N PROVE h[i] = AbsorbByte(h[i - 1], d[i])
  <2>1. PICK j \in 0..N : j = i - 1 /\ i \in 0..N
    BY <1>1
  <2>2. q[i] \in Byte /\ r[i] \in Byte /\ d[i] = Xor(q[i], r[i])
    BY <1>1, <1>4, ElementOfSeq
  <2>3. f[i] = AbsorbByte(f[j], q[i]) /\ g[i] = AbsorbByte(g[j], r[i])
    BY <1>1, <1>2, <1>3, <2>1 DEF IsUpdating
  <2>4. h[i] = Xor(f[i], g[i]) /\ h[j] = Xor(f[j], g[j])
    BY <1>6, <2>1
  <2>5. f[j] \in State /\ g[j] \in State
    BY <1>5
  <2> QED
    BY <2>1, <2>2, <2>3, <2>4, <2>5, AbsorbLinear
<1>9. h[0] = Xor(s, t)
  BY <1>1, <1>2, <1>3, <1>6 DEF IsUpdating
<1>10. PICK u : u = Xor(s, t) /\ u \in State
  BY XorTyped
<1>11. IsUpdating(h, u, d)
  BY <1>4, <1>7, <1>8, <1>9, <1>10 DEF IsUpdating
<1>12. UpdateCrc(u, d) = h[N]
  BY <1>4, <1>10, <1>11, UpdateUnique
<1> QED
  BY <1>1, <1>2, <1>3, <1>4, <1>6, <1>10, <1>12
-----------------------------------------------------------------------------
(* Which differences the checksum sees.                                    *)

Zeros(n) == [i \in 1..n |-> {}]

\* Bytes without a bit in them are bytes.
LEMMA ZerosTyped ==
  ASSUME NEW n \in Nat
  PROVE  Zeros(n) \in Seq(Byte) /\ Len(Zeros(n)) = n
<1>1. PICK z : z = Zeros(n) /\ z \in [1..n -> Byte]
  <2>1. PICK y : y = [i \in 1..n |-> {}]
    OBVIOUS
  <2>2. y \in [1..n -> Byte]
    BY <2>1, Widths
  <2> QED
    BY <2>1, <2>2 DEF Zeros
<1> QED
  BY <1>1

\* There is no difference before the first one.
LEMMA Quiet ==
  ASSUME NEW d \in Seq(Byte), NEW f, IsUpdating(f, {}, d),
         NEW m \in 0..Len(d), \A k \in 1..m : d[k] = {}
  PROVE  f[m] = {}
<1>1. PICK N : N = Len(d) /\ N \in Nat
  BY LenProperties
<1> DEFINE S == {k \in 0..m : f[k] = {}}
<1>2. 0 \in S
  BY <1>1 DEF IsUpdating
<1>3. ASSUME NEW k \in 0..(m - 1), k \in S PROVE k + 1 \in S
  <2>1. PICK j \in 1..m : j = k + 1 /\ j - 1 = k
    BY <1>1
  <2>2. f[j] = AbsorbByte({}, {})
    BY <1>1, <1>3, <2>1 DEF IsUpdating
  <2> QED
    BY <2>1, <2>2, AbsorbNothing
<1>4. \A k \in 0..m : k \in S
  <2> HIDE DEF S
  <2> QED
    BY <1>1, <1>2, <1>3, Upwards
<1> QED
  BY <1>1, <1>4

\* A difference stays one while the bytes do not differ.
LEMMA Loud ==
  ASSUME NEW s \in State, NEW d \in Seq(Byte), NEW f, IsUpdating(f, s, d),
         NEW j \in 0..Len(d), f[j] # {},
         \A k \in (j + 1)..Len(d) : d[k] = {}
  PROVE  f[Len(d)] # {}
<1>1. PICK N : N = Len(d) /\ N \in Nat
  BY LenProperties
<1>2. PICK m \in Nat : m = N - j /\ j + m = N
  <2>1. j \in 0..N
    BY <1>1
  <2>2. N - j \in Nat /\ j + (N - j) = N
    BY <1>1, <2>1
  <2> QED
    BY <2>2
<1> DEFINE S == {k \in 0..m : f[j + k] # {}}
<1>3. 0 \in S
  BY <1>1, <1>2
<1>4. ASSUME NEW k \in 0..(m - 1), k \in S PROVE k + 1 \in S
  <2>1. PICK i \in 1..N : i = j + (k + 1) /\ i - 1 = j + k
                          /\ i \in (j + 1)..N /\ i - 1 \in 0..N
    BY <1>1, <1>2
  <2>2. f[i] = AbsorbByte(f[i - 1], {})
    BY <1>1, <2>1 DEF IsUpdating
  <2>3. f[i - 1] \in State /\ f[i - 1] # {}
    BY <1>1, <1>4, <2>1 DEF IsUpdating
  <2>4. Xor(f[i - 1], {}) # {}
    BY <2>3 DEF Xor
  <2>5. f[i] # {}
    BY <2>2, <2>3, <2>4, AbsorbKeeps, Widths
  <2>6. k + 1 \in 0..m
    BY <1>2
  <2> QED
    BY <2>1, <2>5, <2>6
<1>5. \A k \in 0..m : k \in S
  <2> HIDE DEF S
  <2> QED
    BY <1>2, <1>3, <1>4, Upwards
<1>6. f[j + m] # {} /\ j + m = N
  <2>1. m \in 0..m
    BY <1>2
  <2> QED
    BY <1>2, <1>5, <2>1
<1> QED
  BY <1>1, <1>6

\* One differing bit leads to the states the bit alone leads to.
LEMMA OneBitLater ==
  ASSUME NEW d \in Seq(Byte), NEW f, IsUpdating(f, {}, d),
         NEW i \in 1..Len(d), NEW m \in i..Len(d),
         NEW b \in Bits, d[i] = {b}, \A k \in 1..m : k # i => d[k] = {}
  PROVE  f[m] = UpdateCrc({b}, Zeros(m - i + 1))
<1>1. PICK N : N = Len(d) /\ N \in Nat
  BY LenProperties
<1>2. PICK n \in Nat : n = m - i + 1 /\ m = i - 1 + n /\ n >= 1
  BY <1>1
<1>3. PICK z : /\ z = Zeros(n) /\ z \in Seq(Byte) /\ Len(z) = n
               /\ \A k \in 1..n : z[k] = {}
  <2>1. \A k \in 1..n : Zeros(n)[k] = {}
    BY DEF Zeros
  <2> QED
    BY <2>1, ZerosTyped
<1>4. PICK s : s = {b} /\ s \in State /\ s \in Byte
  BY Widths DEF Byte
<1>5. PICK g : g = [k \in 0..n |-> IF k = 0 THEN s ELSE f[i - 1 + k]]
  OBVIOUS
<1>6. \A k \in 0..n : g[k] \in State
  <2> SUFFICES ASSUME NEW k \in 0..n PROVE g[k] \in State
    OBVIOUS
  <2>1. i - 1 + k \in 0..N
    BY <1>1, <1>2
  <2>2. f[i - 1 + k] \in State
    BY <1>1, <2>1 DEF IsUpdating
  <2> QED
    BY <1>4, <1>5, <2>2
<1>7. ASSUME NEW k \in 1..n PROVE g[k] = AbsorbByte(g[k - 1], z[k])
  <2>1. PICK j \in 1..N : j = i - 1 + k /\ j \in 1..m /\ k \in 0..n /\ k # 0
    BY <1>1, <1>2
  <2>2. g[k] = f[j] /\ z[k] = {} /\ f[j] = AbsorbByte(f[j - 1], d[j])
    BY <1>1, <1>3, <1>5, <2>1 DEF IsUpdating
  <2>3. CASE k = 1
    <3>1. j = i /\ i - 1 \in 0..N /\ k - 1 = 0 /\ 0 \in 0..n
      BY <1>1, <2>1, <2>3
    <3>2. f[i - 1] = {}
      <4>1. \A l \in 1..(i - 1) : d[l] = {}
        BY <1>1, <1>2
      <4> QED
        BY <1>1, <3>1, <4>1, Quiet
    <3>3. Xor({}, s) = s
      BY DEF Xor
    <3>4. AbsorbByte({}, s) = AbsorbByte(s, {})
      BY <1>4, <3>3, AbsorbXor, Widths
    <3>5. g[0] = s
      BY <1>5, <3>1
    <3> QED
      BY <1>4, <2>2, <3>1, <3>2, <3>4, <3>5
  <2>4. CASE k # 1
    <3>1. /\ k - 1 \in 0..n /\ k - 1 # 0 /\ i - 1 + (k - 1) = j - 1
          /\ j # i
      BY <1>1, <2>1, <2>4
    <3>2. g[k - 1] = f[j - 1]
      BY <1>5, <3>1
    <3>3. d[j] = {}
      BY <2>1, <3>1
    <3> QED
      BY <2>2, <3>2, <3>3
  <2> QED
    BY <2>3, <2>4
<1>8. IsUpdating(g, s, z)
  <2>1. g \in [0..n -> State] /\ g[0] = s
    <3>1. g = [k \in 0..n |-> g[k]] /\ 0 \in 0..n
      BY <1>5
    <3>2. g[0] = s
      BY <1>5, <3>1
    <3> QED
      BY <1>6, <3>1, <3>2
  <2> QED
    BY <1>3, <1>7, <2>1 DEF IsUpdating
<1>9. UpdateCrc(s, z) = g[n]
  BY <1>3, <1>4, <1>8, UpdateUnique
<1>10. g[n] = f[m]
  BY <1>2, <1>5
<1> QED
  BY <1>2, <1>3, <1>4, <1>9, <1>10

\* The checksum of equal bytes is equal.
LEMMA SeesNothing ==
  ASSUME NEW d \in Seq(Byte), \A k \in 1..Len(d) : d[k] = {}
  PROVE  UpdateCrc({}, d) = {}
<1>1. PICK N : N = Len(d) /\ N \in Nat
  BY LenProperties
<1>2. PICK f : IsUpdating(f, {}, d) /\ UpdateCrc({}, d) = f[N]
  BY <1>1, UpdateIs, Widths
<1>3. N \in 0..Len(d)
  BY <1>1
<1> QED
  BY <1>1, <1>2, <1>3, Quiet

\* Bytes that differ in one byte have different checksums.
LEMMA SeesByte ==
  ASSUME NEW d \in Seq(Byte), NEW i \in 1..Len(d), d[i] # {},
         \A k \in 1..Len(d) : k # i => d[k] = {}
  PROVE  UpdateCrc({}, d) # {}
<1>1. PICK N : N = Len(d) /\ N \in Nat
  BY LenProperties
<1>2. PICK f : IsUpdating(f, {}, d) /\ UpdateCrc({}, d) = f[N]
  BY <1>1, UpdateIs, Widths
<1>3. i - 1 \in 0..Len(d) /\ i \in 0..Len(d)
  BY <1>1
<1>4. f[i - 1] = {}
  <2>1. \A k \in 1..(i - 1) : d[k] = {}
    BY <1>1
  <2> QED
    BY <1>2, <1>3, <2>1, Quiet
<1>5. f[i] = AbsorbByte({}, d[i])
  BY <1>2, <1>4 DEF IsUpdating
<1>6. d[i] \in Byte /\ Xor({}, d[i]) # {}
  BY ElementOfSeq DEF Xor
<1>7. f[i] # {}
  BY <1>5, <1>6, AbsorbKeeps, Widths
<1>8. \A k \in (i + 1)..Len(d) : d[k] = {}
  BY <1>1
<1> QED
  BY <1>1, <1>2, <1>3, <1>7, <1>8, Loud, Widths

\* Bytes that differ in one bit have checksums that differ in more than one.
LEMMA SeesOne ==
  ASSUME NEW d \in Seq(Byte), Len(d) <= CrcOffset + MaxPayload,
         NEW i \in 1..Len(d), NEW b \in Bits, d[i] = {b},
         \A k \in 1..Len(d) : k # i => d[k] = {}
  PROVE  /\ UpdateCrc({}, d) # {}
         /\ \A c \in AllOnes : UpdateCrc({}, d) # {c}
<1>1. PICK N : N = Len(d) /\ N \in Nat
  BY LenProperties
<1>2. PICK f : IsUpdating(f, {}, d) /\ UpdateCrc({}, d) = f[N]
  BY <1>1, UpdateIs, Widths
<1>3. N \in i..Len(d) /\ \A k \in 1..N : k # i => d[k] = {}
  BY <1>1
<1>4. f[N] = UpdateCrc({b}, Zeros(N - i + 1))
  BY <1>2, <1>3, OneBitLater
<1>5. PICK n : n = N - i + 1 /\ n \in 1..(CrcOffset + MaxPayload)
  BY <1>1, SizeAssumption DEF CrcOffset
<1>6. \A c \in AllOnes : UpdateCrc({b}, Zeros(n)) # {c}
  BY <1>5, PolynomialAssumption DEF Zeros
<1>7. d[i] # {}
  OBVIOUS
<1>8. UpdateCrc({}, d) # {}
  BY <1>7, SeesByte
<1> QED
  BY <1>2, <1>4, <1>5, <1>6, <1>8

\* Bytes that differ in two bits, in two bytes, have different checksums.
LEMMA SeesTwo ==
  ASSUME NEW d \in Seq(Byte), Len(d) <= CrcOffset + MaxPayload,
         NEW i \in 1..Len(d), NEW j \in 1..Len(d), i < j,
         NEW b \in Bits, NEW c \in Bits, d[i] = {b}, d[j] = {c},
         \A k \in 1..Len(d) : k # i /\ k # j => d[k] = {}
  PROVE  UpdateCrc({}, d) # {}
<1>1. PICK N : N = Len(d) /\ N \in Nat
  BY LenProperties
<1>2. PICK f : IsUpdating(f, {}, d) /\ UpdateCrc({}, d) = f[N]
  BY <1>1, UpdateIs, Widths
<1>3. PICK m : m = j - 1 /\ m \in i..Len(d) /\ m \in 0..N
  BY <1>1
<1>4. \A k \in 1..m : k # i => d[k] = {}
  BY <1>1, <1>3
<1>5. f[m] = UpdateCrc({b}, Zeros(m - i + 1))
  BY <1>2, <1>3, <1>4, OneBitLater
<1>6. PICK n : n = m - i + 1 /\ n \in 1..(CrcOffset + MaxPayload)
  BY <1>1, <1>3, SizeAssumption DEF CrcOffset
<1>7. c \in AllOnes /\ {c} \in Byte
  BY Widths DEF Byte
<1>8. f[m] # {c}
  BY <1>5, <1>6, <1>7, PolynomialAssumption DEF Zeros
<1>9. f[m] \in State /\ f[j] = AbsorbByte(f[m], {c})
  BY <1>1, <1>2, <1>3 DEF IsUpdating
<1>10. Xor(f[m], {c}) # {}
  BY <1>8 DEF Xor
<1>11. f[j] # {}
  BY <1>7, <1>9, <1>10, AbsorbKeeps
<1>12. j \in 0..Len(d) /\ \A k \in (j + 1)..Len(d) : d[k] = {}
  BY <1>1
<1> QED
  BY <1>1, <1>2, <1>11, <1>12, Loud, Widths
-----------------------------------------------------------------------------
(* The parts of a datagram.                                                *)

\* part is made of k bytes of x, from the one behind m on.
IsPart(part, x, m, k) ==
  /\ part \in Seq(Byte) /\ Len(part) = k /\ part \in [1..k -> Byte]
  /\ \A i \in 1..k : part[i] = x[m + i]

\* The sizes of the header.
LEMMA HeaderSizes ==
  /\ CrcOffset = 6 /\ CrcBytes \in Nat /\ CrcBytes > 0
  /\ HeaderSize \in Nat /\ HeaderSize = 6 + CrcBytes /\ MaxPayload \in Nat
  BY CodecAssumption, SizeAssumption DEF CrcOffset, HeaderSize

\* What SubSeq takes is a part.
LEMMA PartIs ==
  ASSUME NEW x \in Seq(Byte), NEW m \in Nat, NEW k \in Nat, m + k <= Len(x)
  PROVE  IsPart(SubSeq(x, m + 1, m + k), x, m, k)
<1>1. PICK N : N = Len(x) /\ N \in Nat
  BY LenProperties
<1>2. PICK a, b : a = m + 1 /\ b = m + k /\ a \in Int /\ b \in Int
  OBVIOUS
<1>3. \A i \in a..b : x[i] \in Byte
  <2>1. \A i \in a..b : i \in 1..Len(x)
    BY <1>1, <1>2
  <2> QED
    BY <2>1, ElementOfSeq
<1>4. PICK s : /\ s = SubSeq(x, a, b)
               /\ s \in Seq(Byte)
               /\ Len(s) = IF a <= b THEN b - a + 1 ELSE 0
  <2>1. SubSeq(x, a, b) \in Seq(Byte)
    BY <1>2, <1>3, SubSeqProperties
  <2>2. Len(SubSeq(x, a, b)) = IF a <= b THEN b - a + 1 ELSE 0
    BY <1>2, <1>3, SubSeqProperties
  <2> QED
    BY <2>1, <2>2
<1>5. \A i \in 1..(b - a + 1) : s[i] = x[a + i - 1]
  BY <1>2, <1>3, <1>4, SubSeqProperties
<1>6. Len(s) = k /\ b - a + 1 = k
  BY <1>2, <1>4
<1>7. \A i \in 1..k : a + i - 1 = m + i
  BY <1>2
<1>8. \A i \in 1..k : s[i] = x[m + i]
  BY <1>5, <1>6, <1>7
<1>9. s \in [1..k -> Byte]
  BY <1>4, <1>6, LenProperties
<1> QED
  BY <1>2, <1>4, <1>6, <1>8, <1>9 DEF IsPart

\* Parts that begin at the same place and are equally long are equal.
LEMMA PartsEqual ==
  ASSUME NEW s, NEW t, NEW x, NEW y, NEW m, NEW n, NEW k \in Nat,
         IsPart(s, x, m, k), IsPart(t, y, n, k),
         \A i \in 1..k : x[m + i] = y[n + i]
  PROVE  s = t
  BY DEF IsPart

HeaderOf(x) == SubSeq(x, 1, CrcOffset)
FieldOf(x) == SubSeq(x, CrcOffset + 1, HeaderSize)
PayloadOf(x) == SubSeq(x, HeaderSize + 1, Len(x))
NumberField(x) == SubSeq(x, 4, 5)

\* The parts that decode_packet takes of a datagram.
LEMMA Parts ==
  ASSUME NEW x \in Seq(Byte), NEW n \in Nat, Len(x) = HeaderSize + n
  PROVE  /\ IsPart(HeaderOf(x), x, 0, 6)
         /\ IsPart(FieldOf(x), x, 6, CrcBytes)
         /\ IsPart(PayloadOf(x), x, HeaderSize, n)
         /\ IsPart(NumberField(x), x, 3, 2)
<1>1. IsPart(SubSeq(x, 0 + 1, 0 + 6), x, 0, 6)
  BY HeaderSizes, PartIs
<1>2. IsPart(SubSeq(x, 6 + 1, 6 + CrcBytes), x, 6, CrcBytes)
  BY HeaderSizes, PartIs
<1>3. IsPart(SubSeq(x, HeaderSize + 1, HeaderSize + n), x, HeaderSize, n)
  BY HeaderSizes, PartIs
<1>4. IsPart(SubSeq(x, 3 + 1, 3 + 2), x, 3, 2)
  BY HeaderSizes, PartIs
<1>5. 0 + 1 = 1 /\ 0 + 6 = 6 /\ 3 + 1 = 4 /\ 3 + 2 = 5
  OBVIOUS
<1> QED
  BY <1>1, <1>2, <1>3, <1>4, <1>5, HeaderSizes
     DEF HeaderOf, FieldOf, PayloadOf, NumberField

Covered(x) == HeaderOf(x) \o PayloadOf(x)
Crc(x) == PacketCrc(HeaderOf(x), PayloadOf(x))

\* Where the covered bytes are in the datagram.
Place(k) == IF k <= 6 THEN k ELSE k + CrcBytes

\* One sequence behind another.
IsJoined(w, q, r, m, n) ==
  /\ w \in Seq(Byte) /\ Len(w) = m + n
  /\ \A i \in 1..m : w[i] = q[i]
  /\ \A i \in 1..n : w[m + i] = r[i]

\* What concatenation puts where.
LEMMA Joined ==
  ASSUME NEW q \in Seq(Byte), NEW r \in Seq(Byte), NEW m, NEW n,
         Len(q) = m, Len(r) = n
  PROVE  IsJoined(q \o r, q, r, m, n)
<1>1. m \in Nat /\ n \in Nat
  BY LenProperties
<1>2. q \o r \in Seq(Byte) /\ Len(q \o r) = m + n
  <2>1. q \o r \in Seq(Byte)
    BY ConcatProperties
  <2>2. Len(q \o r) = Len(q) + Len(r)
    BY ConcatProperties
  <2> QED
    BY <2>1, <2>2
<1>3. \A i \in 1..(m + n) : (q \o r)[i] = IF i <= m THEN q[i] ELSE r[i - m]
  BY ConcatProperties
<1>4. \A i \in 1..m : (q \o r)[i] = q[i]
  <2>1. \A i \in 1..m : i \in 1..(m + n) /\ i <= m
    BY <1>1
  <2> QED
    BY <1>3, <2>1
<1>5. \A i \in 1..n : (q \o r)[m + i] = r[i]
  <2> SUFFICES ASSUME NEW i \in 1..n PROVE (q \o r)[m + i] = r[i]
    OBVIOUS
  <2>1. PICK k \in 1..(m + n) : k = m + i /\ ~(k <= m) /\ k - m = i
    BY <1>1
  <2>2. (q \o r)[k] = r[k - m]
    BY <1>3, <2>1
  <2> QED
    BY <2>1, <2>2
<1> QED
  BY <1>2, <1>4, <1>5 DEF IsJoined

\* The checksum covers all bytes but its own.
LEMMA CoveredBytes ==
  ASSUME NEW x \in Seq(Byte), NEW n \in Nat, Len(x) = HeaderSize + n
  PROVE  /\ Covered(x) \in Seq(Byte) /\ Len(Covered(x)) = 6 + n
         /\ \A k \in 1..(6 + n) : Covered(x)[k] = x[Place(k)]
<1>1. PICK h : h = HeaderOf(x) /\ IsPart(h, x, 0, 6)
  BY Parts
<1>2. PICK p : p = PayloadOf(x) /\ IsPart(p, x, HeaderSize, n)
  BY Parts
<1>3. /\ h \in Seq(Byte) /\ Len(h) = 6 /\ p \in Seq(Byte) /\ Len(p) = n
      /\ \A i \in 1..6 : h[i] = x[i]
      /\ \A i \in 1..n : p[i] = x[HeaderSize + i]
  BY <1>1, <1>2 DEF IsPart
<1>4. PICK c : c = h \o p /\ IsJoined(c, h, p, 6, n)
  BY <1>3, Joined
<1>5. /\ c \in Seq(Byte) /\ Len(c) = 6 + n
      /\ \A i \in 1..6 : c[i] = h[i]
      /\ \A i \in 1..n : c[6 + i] = p[i]
  BY <1>4 DEF IsJoined
<1>6. ASSUME NEW k \in 1..(6 + n) PROVE c[k] = x[Place(k)]
  <2>1. CASE k <= 6
    <3>1. k \in 1..6
      BY <2>1
    <3> QED
      BY <1>3, <1>5, <2>1, <3>1 DEF Place
  <2>2. CASE k > 6
    <3>1. PICK i \in 1..n : k = 6 + i
      <4>1. k - 6 \in 1..n /\ k = 6 + (k - 6)
        BY <2>2
      <4> QED
        BY <4>1
    <3>2. Place(k) = HeaderSize + i
      BY <2>2, <3>1, HeaderSizes DEF Place
    <3> QED
      BY <1>3, <1>5, <3>1, <3>2
  <2> QED
    BY <2>1, <2>2
<1> QED
  BY <1>1, <1>2, <1>4, <1>5, <1>6 DEF Covered

\* The checksum in one piece.
LEMMA CrcIs ==
  ASSUME NEW x \in Seq(Byte), NEW n \in Nat, Len(x) = HeaderSize + n
  PROVE  /\ Crc(x) = Xor(UpdateCrc(AllOnes, Covered(x)), AllOnes)
         /\ Crc(x) \in State
<1>1. HeaderOf(x) \in Seq(Byte) /\ PayloadOf(x) \in Seq(Byte)
  BY Parts DEF IsPart
<1>2. PICK h, p : h = HeaderOf(x) /\ p = PayloadOf(x)
  OBVIOUS
<1>3. UpdateCrc(UpdateCrc(AllOnes, h), p) = UpdateCrc(AllOnes, h \o p)
  BY <1>1, <1>2, Widths, UpdateGoesOn
<1>4. Crc(x) = Xor(UpdateCrc(AllOnes, Covered(x)), AllOnes)
  BY <1>2, <1>3 DEF Crc, PacketCrc, Covered
<1>5. UpdateCrc(AllOnes, Covered(x)) \in State
  BY CoveredBytes, Widths, UpdateTyped
<1> QED
  BY <1>4, <1>5, Widths, XorTyped
-----------------------------------------------------------------------------
(* Two datagrams whose checksums are right differ in more than two bits.   *)

\* A datagram with n bytes of payload and the checksum of its own bytes.
IsSound(x, n) ==
  /\ x \in Seq(Byte) /\ n \in 0..MaxPayload /\ Len(x) = HeaderSize + n
  /\ \A k \in 1..CrcBytes, b \in Bits :
       b \in x[6 + k] <=> (CrcBytes - k) * ByteBits + b \in Crc(x)

\* The bits of byte i among the bits of a datagram.
At(bits, i) == {b \in Bits : <<i, b>> \in bits}

DifferBy(x, y, bits) == \A i \in 1..Len(x) : Xor(x[i], y[i]) = At(bits, i)

\* The differences d of the covered bytes and those of the checksum's field
\* belong together.
CrcSees(d, bits, n) ==
  /\ d \in Seq(Byte) /\ Len(d) = 6 + n /\ n \in 0..MaxPayload
  /\ \A k \in 1..(6 + n) : d[k] = At(bits, Place(k))
  /\ \A k \in 1..CrcBytes, b \in Bits :
       <<6 + k, b>> \in bits <=>
         (CrcBytes - k) * ByteBits + b \in UpdateCrc({}, d)

\* The checksum of the differences is the difference of the checksums.
LEMMA CrcDifference ==
  ASSUME NEW x, NEW y, NEW n, NEW bits,
         IsSound(x, n), IsSound(y, n), DifferBy(x, y, bits)
  PROVE  \E d : CrcSees(d, bits, n)
<1>1. /\ x \in Seq(Byte) /\ Len(x) = HeaderSize + n
      /\ y \in Seq(Byte) /\ Len(y) = HeaderSize + n
      /\ n \in Nat /\ n \in 0..MaxPayload
  BY HeaderSizes DEF IsSound
<1>2. PICK u : /\ u = Covered(x) /\ u \in Seq(Byte) /\ Len(u) = 6 + n
               /\ \A k \in 1..(6 + n) : u[k] = x[Place(k)]
  BY <1>1, CoveredBytes
<1>3. PICK v : /\ v = Covered(y) /\ v \in Seq(Byte) /\ Len(v) = 6 + n
               /\ \A k \in 1..(6 + n) : v[k] = y[Place(k)]
  BY <1>1, CoveredBytes
<1>4. PICK d : d = Difference(u, v) /\ d \in Seq(Byte) /\ Len(d) = 6 + n
  BY <1>2, <1>3, DifferenceTyped
<1>5. \A k \in 1..(6 + n) : d[k] = At(bits, Place(k))
  <2> SUFFICES ASSUME NEW k \in 1..(6 + n)
               PROVE  d[k] = At(bits, Place(k))
    OBVIOUS
  <2>1. d[k] = Xor(u[k], v[k])
    BY <1>2, <1>4 DEF Difference
  <2>2. Place(k) \in 1..Len(x)
    BY <1>1, HeaderSizes DEF Place
  <2> QED
    BY <1>2, <1>3, <2>1, <2>2 DEF DifferBy
<1>6. PICK r : r = UpdateCrc({}, d)
  OBVIOUS
<1>7. r = Xor(Crc(x), Crc(y))
  <2>1. PICK s, t : s = UpdateCrc(AllOnes, u) /\ t = UpdateCrc(AllOnes, v)
    OBVIOUS
  <2>2. Xor(AllOnes, AllOnes) = {}
    BY DEF Xor
  <2>3. r = Xor(s, t)
    <3>1. UpdateCrc(Xor(AllOnes, AllOnes), Difference(u, v)) =
            Xor(UpdateCrc(AllOnes, u), UpdateCrc(AllOnes, v))
      BY <1>2, <1>3, UpdateLinear, Widths
    <3> QED
      BY <1>4, <1>6, <2>1, <2>2, <3>1
  <2>4. Crc(x) = Xor(s, AllOnes) /\ Crc(y) = Xor(t, AllOnes)
    BY <1>1, <1>2, <1>3, <2>1, CrcIs
  <2> QED
    BY <2>3, <2>4 DEF Xor
<1>8. ASSUME NEW k \in 1..CrcBytes, NEW b \in Bits
      PROVE  <<6 + k, b>> \in bits <=> (CrcBytes - k) * ByteBits + b \in r
  <2>1. PICK i, w : i = 6 + k /\ w = (CrcBytes - k) * ByteBits + b
    OBVIOUS
  <2>2. /\ b \in x[i] <=> w \in Crc(x)
        /\ b \in y[i] <=> w \in Crc(y)
    BY <2>1 DEF IsSound
  <2>3. i \in 1..Len(x)
    BY <1>1, <2>1, HeaderSizes
  <2>4. b \in Xor(x[i], y[i]) <=> <<i, b>> \in bits
    BY <2>3 DEF DifferBy, At
  <2>5. w \in r <=> (w \in Crc(x)) # (w \in Crc(y))
    BY <1>7 DEF Xor
  <2>6. b \in Xor(x[i], y[i]) <=> (b \in x[i]) # (b \in y[i])
    BY DEF Xor
  <2> QED
    BY <2>1, <2>2, <2>4, <2>5, <2>6
<1> QED
  BY <1>1, <1>4, <1>5, <1>6, <1>8 DEF CrcSees

\* A byte of a datagram is covered or of the checksum.
LEMMA Split ==
  ASSUME NEW n \in Nat, NEW i \in 1..(HeaderSize + n)
  PROVE  \/ \E k \in 1..CrcBytes : i = 6 + k
         \/ \E k \in 1..(6 + n) : i = Place(k)
<1>1. CASE i <= 6
  BY <1>1, HeaderSizes DEF Place
<1>2. CASE i > 6 /\ i <= 6 + CrcBytes
  <2>1. i - 6 \in 1..CrcBytes /\ i = 6 + (i - 6)
    BY <1>2, HeaderSizes
  <2> QED
    BY <2>1
<1>3. CASE i > 6 + CrcBytes
  <2>1. PICK k \in 1..(6 + n) : k = i - CrcBytes /\ k > 6
    BY <1>3, HeaderSizes
  <2>2. i = Place(k)
    BY <2>1, HeaderSizes DEF Place
  <2> QED
    BY <2>2
<1> QED
  BY <1>1, <1>2, <1>3, HeaderSizes

\* No two bytes are at one place, and the covered ones not in the checksum.
LEMMA PlacesDiffer ==
  ASSUME NEW n \in Nat, NEW k \in 1..(6 + n)
  PROVE  /\ \A l \in 1..(6 + n) : Place(k) = Place(l) => k = l
         /\ \A l \in 1..CrcBytes : Place(k) # 6 + l
  BY HeaderSizes DEF Place

\* The bits in the checksum's field are numbered through.
LEMMA SpotIs ==
  ASSUME NEW k \in 1..CrcBytes, NEW b \in Bits
  PROVE  (CrcBytes - k) * ByteBits + b \in AllOnes
<1>1. PICK M, N : /\ M = CrcBytes /\ N = ByteBits
                  /\ M \in Nat /\ N \in Nat /\ N > 0
  BY CodecAssumption
<1>2. M * N = (M - k) * N + (k - 1) * N + N
      /\ (M - k) * N \in Nat /\ (k - 1) * N \in Nat
  BY <1>1
<1>3. b \in 0..(N - 1) /\ AllOnes = 0..(M * N - 1)
  BY <1>1 DEF Bits, AllOnes, CrcBits
<1> QED
  BY <1>1, <1>2, <1>3

\* No two bits of the field have the same number.
LEMMA SpotsDiffer ==
  ASSUME NEW k \in 1..CrcBytes, NEW b \in Bits,
         NEW l \in 1..CrcBytes, NEW c \in Bits,
         (CrcBytes - k) * ByteBits + b = (CrcBytes - l) * ByteBits + c
  PROVE  k = l /\ b = c
<1>1. PICK i, j \in Nat : i = CrcBytes - k /\ j = CrcBytes - l
  BY HeaderSizes
<1>2. i = j /\ b = c
  BY <1>1, Places
<1> QED
  BY <1>1, <1>2, HeaderSizes

\* What CrcSees says of a difference, to work with.
LEMMA CrcSeesDoes ==
  ASSUME NEW d, NEW bits, NEW n, CrcSees(d, bits, n)
  PROVE  /\ d \in Seq(Byte) /\ Len(d) = 6 + n /\ n \in Nat
         /\ Len(d) <= CrcOffset + MaxPayload
         /\ UpdateCrc({}, d) \in State
         /\ \A k \in 1..(6 + n) : \A b :
              b \in d[k] <=> b \in Bits /\ <<Place(k), b>> \in bits
<1>1. /\ d \in Seq(Byte) /\ Len(d) = 6 + n /\ n \in Nat /\ n <= MaxPayload
      /\ \A k \in 1..(6 + n) : d[k] = At(bits, Place(k))
  BY HeaderSizes DEF CrcSees
<1>2. UpdateCrc({}, d) \in State
  BY <1>1, UpdateTyped, Widths
<1>3. \A k \in 1..(6 + n) : \A b :
        b \in d[k] <=> b \in Bits /\ <<Place(k), b>> \in bits
  BY <1>1 DEF At
<1> QED
  BY <1>1, <1>2, <1>3, HeaderSizes

\* A bit of the difference of the checksums is one of the field.
LEMMA FieldBits ==
  ASSUME NEW d, NEW bits, NEW n, CrcSees(d, bits, n),
         NEW v \in UpdateCrc({}, d)
  PROVE  \E l \in 1..CrcBytes, c \in Bits :
           <<6 + l, c>> \in bits /\ v = (CrcBytes - l) * ByteBits + c
<1>1. v \in 0..(CrcBytes * ByteBits - 1)
  BY CrcSeesDoes DEF State, AllOnes, CrcBits
<1>2. PICK k \in 0..(CrcBytes - 1), c \in Bits : v = k * ByteBits + c
  BY <1>1, Placed, HeaderSizes
<1>3. PICK l \in 1..CrcBytes : l = CrcBytes - k /\ k = CrcBytes - l
  BY HeaderSizes
<1>4. v = (CrcBytes - l) * ByteBits + c
  BY <1>2, <1>3
<1>5. <<6 + l, c>> \in bits
  BY <1>4 DEF CrcSees
<1> QED
  BY <1>4, <1>5

\* One bit of the field alone cannot differ, nor two.
LEMMA FieldAlone ==
  ASSUME NEW d, NEW bits, NEW n, CrcSees(d, bits, n),
         NEW l \in 1..CrcBytes, NEW c \in Bits, <<6 + l, c>> \in bits
  PROVE  \E k \in 1..(6 + n), b \in Bits : <<Place(k), b>> \in bits
<1> SUFFICES ASSUME \A k \in 1..(6 + n), b \in Bits :
                      <<Place(k), b>> \notin bits
             PROVE  FALSE
  OBVIOUS
<1>1. d \in Seq(Byte) /\ Len(d) = 6 + n
  BY CrcSeesDoes
<1>2. \A k \in 1..Len(d) : d[k] = {}
  <2> SUFFICES ASSUME NEW k \in 1..Len(d), NEW b \in d[k] PROVE FALSE
    OBVIOUS
  <2>1. k \in 1..(6 + n)
    BY <1>1
  <2>2. b \in Bits /\ <<Place(k), b>> \in bits
    BY <2>1, CrcSeesDoes
  <2> QED
    BY <2>1, <2>2
<1>3. UpdateCrc({}, d) = {}
  BY <1>1, <1>2, SeesNothing
<1>4. (CrcBytes - l) * ByteBits + c \in UpdateCrc({}, d)
  BY DEF CrcSees
<1> QED
  BY <1>3, <1>4

\* One covered byte cannot differ if the field does not.
LEMMA ByteAlone ==
  ASSUME NEW d, NEW bits, NEW n, CrcSees(d, bits, n),
         NEW k \in 1..(6 + n), NEW b \in Bits, <<Place(k), b>> \in bits
  PROVE  \/ \E l \in 1..CrcBytes, c \in Bits : <<6 + l, c>> \in bits
         \/ \E l \in 1..(6 + n), c \in Bits :
              l # k /\ <<Place(l), c>> \in bits
<1> SUFFICES ASSUME \A l \in 1..CrcBytes, c \in Bits : <<6 + l, c>> \notin bits,
                    \A l \in 1..(6 + n), c \in Bits :
                      l # k => <<Place(l), c>> \notin bits
             PROVE  FALSE
  OBVIOUS
<1>1. d \in Seq(Byte) /\ Len(d) = 6 + n /\ k \in 1..Len(d)
  BY CrcSeesDoes
<1>2. \A l \in 1..Len(d) : l # k => d[l] = {}
  <2> SUFFICES ASSUME NEW l \in 1..Len(d), l # k, NEW c \in d[l] PROVE FALSE
    OBVIOUS
  <2>1. l \in 1..(6 + n)
    BY <1>1
  <2>2. c \in Bits /\ <<Place(l), c>> \in bits
    BY <2>1, CrcSeesDoes
  <2> QED
    BY <2>1, <2>2
<1>3. d[k] # {}
  BY CrcSeesDoes
<1>4. UpdateCrc({}, d) # {}
  BY <1>1, <1>2, <1>3, SeesByte
<1> QED
  BY <1>4, FieldBits

\* One covered bit and one of the field cannot differ.
LEMMA BitAndField ==
  ASSUME NEW d, NEW n, NEW k \in 1..(6 + n), NEW b \in Bits,
         NEW l \in 1..CrcBytes, NEW c \in Bits,
         CrcSees(d, {<<Place(k), b>>, <<6 + l, c>>}, n)
  PROVE  FALSE
<1>1. PICK bits : bits = {<<Place(k), b>>, <<6 + l, c>>}
  OBVIOUS
<1>2. CrcSees(d, bits, n)
  BY <1>1
<1>3. /\ d \in Seq(Byte) /\ Len(d) = 6 + n /\ n \in Nat /\ k \in 1..Len(d)
      /\ Len(d) <= CrcOffset + MaxPayload
  BY <1>2, CrcSeesDoes
<1>4. \A m \in 1..(6 + n) : \A e :
        e \in d[m] <=> e \in Bits /\ <<Place(m), e>> \in bits
  BY <1>2, CrcSeesDoes
<1>5. \A m \in 1..(6 + n) : \A e :
        <<Place(m), e>> \in bits <=> m = k /\ e = b
  BY <1>1, <1>3, PlacesDiffer
<1>6. d[k] = {b} /\ \A m \in 1..Len(d) : m # k => d[m] = {}
  BY <1>3, <1>4, <1>5
<1>7. /\ UpdateCrc({}, d) # {}
      /\ \A e \in AllOnes : UpdateCrc({}, d) # {e}
  BY <1>3, <1>6, SeesOne
<1>8. PICK v : v = (CrcBytes - l) * ByteBits + c /\ v \in AllOnes
  BY SpotIs
<1>9. ASSUME NEW w \in UpdateCrc({}, d) PROVE w = v
  <2>1. PICK m \in 1..CrcBytes, e \in Bits :
          <<6 + m, e>> \in bits /\ w = (CrcBytes - m) * ByteBits + e
    BY <1>2, FieldBits
  <2>2. 6 + m = 6 + l /\ e = c
    BY <1>1, <1>3, <2>1, PlacesDiffer
  <2>3. m = l
    BY <2>2
  <2> QED
    BY <1>8, <2>1, <2>2, <2>3
<1> QED
  BY <1>7, <1>8, <1>9

\* Two covered bits of two bytes cannot differ.
LEMMA BitAndBit ==
  ASSUME NEW d, NEW n, NEW k \in 1..(6 + n), NEW b \in Bits,
         NEW l \in 1..(6 + n), NEW c \in Bits, k < l,
         CrcSees(d, {<<Place(k), b>>, <<Place(l), c>>}, n)
  PROVE  FALSE
<1>1. PICK bits : bits = {<<Place(k), b>>, <<Place(l), c>>}
  OBVIOUS
<1>2. CrcSees(d, bits, n)
  BY <1>1
<1>3. /\ d \in Seq(Byte) /\ Len(d) = 6 + n /\ n \in Nat
      /\ k \in 1..Len(d) /\ l \in 1..Len(d) /\ k # l
      /\ Len(d) <= CrcOffset + MaxPayload
  BY <1>2, CrcSeesDoes
<1>4. \A m \in 1..(6 + n) : \A e :
        e \in d[m] <=> e \in Bits /\ <<Place(m), e>> \in bits
  BY <1>2, CrcSeesDoes
<1>5. \A m \in 1..(6 + n) : \A e :
        <<Place(m), e>> \in bits <=> (m = k /\ e = b) \/ (m = l /\ e = c)
  BY <1>1, <1>3, PlacesDiffer
<1>6. d[k] = {b} /\ d[l] = {c}
  BY <1>3, <1>4, <1>5
<1>7. \A m \in 1..Len(d) : m # k /\ m # l => d[m] = {}
  BY <1>3, <1>4, <1>5
<1>8. UpdateCrc({}, d) # {}
  BY <1>3, <1>6, <1>7, SeesTwo
<1>9. PICK m \in 1..CrcBytes, e \in Bits : <<6 + m, e>> \in bits
  BY <1>2, <1>8, FieldBits
<1> QED
  BY <1>1, <1>3, <1>9, PlacesDiffer

\* What update_crc is for: datagrams that are equally long and have the right
\* checksums differ in more than two bits, or not at all.
THEOREM MoreThanTwo ==
  ASSUME NEW x, NEW y, NEW n, IsSound(x, n), IsSound(y, n),
         NEW i \in 1..Len(x), NEW b \in Bits,
         NEW j \in 1..Len(x), NEW c \in Bits,
         DifferBy(x, y, {<<i, b>>, <<j, c>>})
  PROVE  FALSE
<1>1. PICK bits : bits = {<<i, b>>, <<j, c>>}
  OBVIOUS
<1>2. PICK d : CrcSees(d, bits, n)
  BY <1>1, CrcDifference
<1>3. n \in Nat /\ i \in 1..(HeaderSize + n) /\ j \in 1..(HeaderSize + n)
  BY HeaderSizes DEF IsSound
<1>4. \/ \E k \in 1..CrcBytes : i = 6 + k
      \/ \E k \in 1..(6 + n) : i = Place(k)
  BY <1>3, Split
<1>5. \/ \E l \in 1..CrcBytes : j = 6 + l
      \/ \E l \in 1..(6 + n) : j = Place(l)
  BY <1>3, Split
<1>6. ASSUME NEW k \in 1..CrcBytes, i = 6 + k,
             NEW l \in 1..CrcBytes, j = 6 + l
      PROVE  FALSE
  <2>1. <<6 + k, b>> \in bits
    BY <1>1, <1>6
  <2>2. PICK m \in 1..(6 + n), e \in Bits : <<Place(m), e>> \in bits
    BY <1>2, <2>1, FieldAlone
  <2> QED
    BY <1>1, <1>3, <1>6, <2>2, PlacesDiffer
<1>7. ASSUME NEW k \in 1..(6 + n), i = Place(k),
             NEW l \in 1..CrcBytes, j = 6 + l
      PROVE  FALSE
  BY <1>1, <1>2, <1>7, BitAndField
<1>8. ASSUME NEW k \in 1..CrcBytes, i = 6 + k,
             NEW l \in 1..(6 + n), j = Place(l)
      PROVE  FALSE
  <2>1. bits = {<<Place(l), c>>, <<6 + k, b>>}
    BY <1>1, <1>8
  <2> QED
    BY <1>2, <2>1, BitAndField
<1>9. ASSUME NEW k \in 1..(6 + n), i = Place(k),
             NEW l \in 1..(6 + n), j = Place(l)
      PROVE  FALSE
  <2>1. bits = {<<Place(k), b>>, <<Place(l), c>>}
    BY <1>1, <1>9
  <2>2. bits = {<<Place(l), c>>, <<Place(k), b>>}
    BY <2>1
  <2>3. CASE k = l
    <3>1. <<Place(k), b>> \in bits
      BY <2>1
    <3>2. \/ \E m \in 1..CrcBytes, e \in Bits : <<6 + m, e>> \in bits
          \/ \E m \in 1..(6 + n), e \in Bits :
               m # k /\ <<Place(m), e>> \in bits
      BY <1>2, <3>1, ByteAlone
    <3>3. ASSUME NEW m \in 1..CrcBytes, NEW e, <<6 + m, e>> \in bits
          PROVE  FALSE
      BY <1>3, <2>1, <3>3, PlacesDiffer
    <3>4. ASSUME NEW m \in 1..(6 + n), NEW e, m # k,
                 <<Place(m), e>> \in bits
          PROVE  FALSE
      <4>1. Place(m) = Place(k)
        BY <2>1, <2>3, <3>4
      <4> QED
        BY <1>3, <3>4, <4>1, PlacesDiffer
    <3> QED
      BY <3>2, <3>3, <3>4
  <2>4. CASE k < l
    BY <1>2, <2>1, <2>4, BitAndBit
  <2>5. CASE l < k
    BY <1>2, <2>2, <2>5, BitAndBit
  <2> QED
    BY <1>3, <2>3, <2>4, <2>5
<1> QED
  BY <1>4, <1>5, <1>6, <1>7, <1>8, <1>9
-----------------------------------------------------------------------------
(* encode_packet.                                                          *)

\* A packet that encode_packet does not refuse.
IsPacket(p) ==
  /\ p.type \in KnownTypes
  /\ p.number \in SUBSET (0..(2 * ByteBits - 1))
  /\ p.payload \in Seq(Byte)
  /\ Len(p.payload) <= MaxPayload

\* Where encode_packet puts what.
IsEncoded(e, p) ==
  /\ e \in Seq(Byte) /\ Len(e) = HeaderSize + Len(p.payload)
  /\ e[1] = Magic /\ e[2] = Version /\ e[3] = p.type
  /\ \A i \in 1..2 : e[3 + i] = WriteBigEndian(p.number, 2)[i]
  /\ e[6] = ByteFor(Len(p.payload))
  /\ \A k \in 1..CrcBytes : e[6 + k] = WriteBigEndian(Crc(e), CrcBytes)[k]
  /\ PayloadOf(e) = p.payload

\* The header that the checksum covers.
HeaderFor(p) ==
  <<Magic, Version, p.type>> \o WriteBigEndian(p.number, 2)
    \o <<ByteFor(Len(p.payload))>>

IsHeader(h, p) ==
  /\ h \in Seq(Byte) /\ Len(h) = 6
  /\ h[1] = Magic /\ h[2] = Version /\ h[3] = p.type
  /\ \A i \in 1..2 : h[3 + i] = WriteBigEndian(p.number, 2)[i]
  /\ h[6] = ByteFor(Len(p.payload))

\* The header in its order.
LEMMA HeaderIs ==
  ASSUME NEW p, IsPacket(p)
  PROVE  IsHeader(HeaderFor(p), p)
<1>1. PICK n : n = Len(p.payload) /\ n \in 0..MaxPayload
  BY LenProperties, HeaderSizes DEF IsPacket
<1>2. PICK s : s = ByteFor(n) /\ s \in Byte
  BY <1>1, ByteForSize
<1>3. PICK w : w = WriteBigEndian(p.number, 2) /\ w \in Seq(Byte) /\ Len(w) = 2
  BY Written
<1>4. PICK t : t = p.type /\ t \in Byte /\ Magic \in Byte /\ Version \in Byte
  BY CodecAssumption DEF IsPacket
<1>5. PICK a : /\ a = <<Magic, Version, t>>
               /\ a \in Seq(Byte) /\ Len(a) = 3
               /\ a[1] = Magic /\ a[2] = Version /\ a[3] = t
  <2>1. <<Magic, Version, t>> \in Seq(Byte)
    BY <1>4
  <2>2. PICK a : a = <<Magic, Version, t>>
    OBVIOUS
  <2>3. Len(a) = 3 /\ a[1] = Magic /\ a[2] = Version /\ a[3] = t
    BY <2>2
  <2> QED
    BY <2>1, <2>2, <2>3
<1>6. PICK z : z = <<s>> /\ z \in Seq(Byte) /\ Len(z) = 1 /\ z[1] = s
  <2>1. <<s>> \in Seq(Byte)
    BY <1>2
  <2>2. PICK z : z = <<s>>
    OBVIOUS
  <2>3. Len(z) = 1 /\ z[1] = s
    BY <2>2
  <2> QED
    BY <2>1, <2>2, <2>3
<1>7. PICK b : b = a \o w /\ IsJoined(b, a, w, 3, 2)
  BY <1>3, <1>5, Joined
<1>8. /\ b \in Seq(Byte) /\ Len(b) = 5
      /\ b[1] = Magic /\ b[2] = Version /\ b[3] = t
      /\ \A i \in 1..2 : b[3 + i] = w[i]
  BY <1>5, <1>7 DEF IsJoined
<1>9. PICK h : h = b \o z /\ IsJoined(h, b, z, 5, 1)
  BY <1>6, <1>8, Joined
<1>10. /\ h \in Seq(Byte) /\ Len(h) = 6
       /\ h[1] = Magic /\ h[2] = Version /\ h[3] = t
       /\ h[6] = s
  BY <1>6, <1>8, <1>9 DEF IsJoined
<1>11. \A i \in 1..2 : h[3 + i] = w[i]
  <2>1. \A i \in 1..2 : 3 + i \in 1..5
    OBVIOUS
  <2> QED
    BY <1>8, <1>9, <2>1 DEF IsJoined
<1>12. HeaderFor(p) = h
  BY <1>1, <1>2, <1>3, <1>4, <1>5, <1>6, <1>7, <1>9 DEF HeaderFor
<1> QED
  BY <1>1, <1>2, <1>3, <1>4, <1>10, <1>11, <1>12 DEF IsHeader

\* A datagram with such a header is checked over it.
LEMMA HeaderOfIs ==
  ASSUME NEW h, NEW e \in Seq(Byte), NEW n \in Nat, Len(e) = HeaderSize + n,
         h \in Seq(Byte), Len(h) = 6, \A i \in 1..6 : e[i] = h[i]
  PROVE  HeaderOf(e) = h
<1>1. PICK g : g = HeaderOf(e) /\ IsPart(g, e, 0, 6)
  BY Parts
<1>2. g \in Seq(Byte) /\ Len(g) = 6 /\ \A i \in 1..6 : g[i] = e[i]
  BY <1>1 DEF IsPart
<1>3. g = h
  BY <1>2, SeqEqual
<1> QED
  BY <1>1, <1>3

\* encode_packet writes every field to its place and the checksum over them.
LEMMA EncodeIs ==
  ASSUME NEW p, IsPacket(p)
  PROVE  IsEncoded(Encode(p), p)
<1>1. PICK q : q = p.payload /\ q \in Seq(Byte)
  BY DEF IsPacket
<1>2. PICK n : n = Len(q) /\ n \in Nat
  BY <1>1, LenProperties
<1>3. PICK h : h = HeaderFor(p) /\ IsHeader(h, p)
  BY HeaderIs
<1>4. PICK c : c = PacketCrc(h, q)
  OBVIOUS
<1>5. PICK f : /\ f = WriteBigEndian(c, CrcBytes)
               /\ f \in Seq(Byte) /\ Len(f) = CrcBytes
  BY Written, HeaderSizes
<1>6. PICK g : g = h \o f /\ IsJoined(g, h, f, 6, CrcBytes)
  BY <1>3, <1>5, Joined DEF IsHeader
<1>7. /\ g \in Seq(Byte) /\ Len(g) = HeaderSize
      /\ \A i \in 1..6 : g[i] = h[i]
      /\ \A i \in 1..CrcBytes : g[6 + i] = f[i]
  BY <1>6, HeaderSizes DEF IsJoined
<1>8. PICK e : e = g \o q /\ IsJoined(e, g, q, HeaderSize, n)
  BY <1>1, <1>2, <1>7, Joined
<1>9. e = Encode(p)
  BY <1>1, <1>3, <1>4, <1>5, <1>6, <1>8 DEF Encode, HeaderFor
<1>10. /\ e \in Seq(Byte) /\ Len(e) = HeaderSize + n
       /\ \A i \in 1..HeaderSize : e[i] = g[i]
       /\ \A i \in 1..n : e[HeaderSize + i] = q[i]
  BY <1>8 DEF IsJoined
<1>11. \A i \in 1..6 : e[i] = h[i]
  BY <1>7, <1>10, HeaderSizes
<1>12. \A k \in 1..CrcBytes : e[6 + k] = f[k]
  BY <1>7, <1>10, HeaderSizes
<1>13. HeaderOf(e) = h
  BY <1>2, <1>3, <1>10, <1>11, HeaderOfIs DEF IsHeader
<1>14. PayloadOf(e) = q
  <2>1. PICK r : r = PayloadOf(e) /\ IsPart(r, e, HeaderSize, n)
    BY <1>2, <1>10, Parts
  <2>2. r \in Seq(Byte) /\ Len(r) = n /\ \A i \in 1..n : r[i] = q[i]
    BY <1>10, <2>1 DEF IsPart
  <2>3. r = q
    BY <1>1, <1>2, <2>2, SeqEqual
  <2> QED
    BY <2>1, <2>3
<1>15. Crc(e) = c
  BY <1>4, <1>13, <1>14 DEF Crc
<1>16. /\ e[1] = Magic /\ e[2] = Version /\ e[3] = p.type
       /\ e[6] = ByteFor(n)
  BY <1>1, <1>2, <1>3, <1>11 DEF IsHeader
<1>17. \A i \in 1..2 : e[3 + i] = WriteBigEndian(p.number, 2)[i]
  <2>1. \A i \in 1..2 : 3 + i \in 1..6
    OBVIOUS
  <2> QED
    BY <1>3, <1>11, <2>1 DEF IsHeader
<1>18. IsEncoded(e, p)
  BY <1>1, <1>2, <1>5, <1>10, <1>12, <1>14, <1>15, <1>16, <1>17 DEF IsEncoded
<1> QED
  BY <1>9, <1>18
-----------------------------------------------------------------------------
(* decode_packet.                                                          *)

PacketOf(x) ==
  [type |-> x[3], number |-> ReadBigEndian(NumberField(x)),
   payload |-> PayloadOf(x)]

\* What decode_packet asks of a datagram.
Acceptable(x) ==
  /\ Len(x) >= HeaderSize
  /\ x[1] = Magic /\ x[2] = Version /\ x[3] \in KnownTypes
  /\ NumberOf(x[6]) <= MaxPayload
  /\ Len(x) = HeaderSize + NumberOf(x[6])
  /\ Crc(x) = ReadBigEndian(FieldOf(x))

\* A datagram is accepted if it passes every check, and only then.
LEMMA DecodeIs ==
  ASSUME NEW x \in Seq(Byte)
  PROVE  /\ Acceptable(x) =>
              Decode(x) = [error |-> "none", packet |-> {PacketOf(x)}]
         /\ ~Acceptable(x) => Decode(x).error # "none"
<1>1. PICK N, n, m : N = Len(x) /\ n = NumberOf(x[6]) /\ m = MaxPayload
                     /\ N \in Nat /\ n \in Nat /\ m \in Nat
  BY LenProperties, NumberTyped, HeaderSizes
<1>2. PICK z : z = HeaderSize /\ z \in Nat
  BY HeaderSizes
<1>3. PICK c, f : c = Crc(x) /\ f = ReadBigEndian(FieldOf(x))
  OBVIOUS
<1>4. Decode(x) =
        IF N < z THEN Failure("truncated_header")
        ELSE IF x[1] # Magic THEN Failure("magic")
        ELSE IF x[2] # Version THEN Failure("version")
        ELSE IF x[3] \notin KnownTypes THEN Failure("type")
        ELSE IF n > m THEN Failure("too_large")
        ELSE IF N < z + n THEN Failure("truncated_payload")
        ELSE IF N # z + n THEN Failure("length_mismatch")
        ELSE IF c # f THEN Failure("crc")
        ELSE [error |-> "none", packet |-> {PacketOf(x)}]
  BY <1>1, <1>2, <1>3, HeaderSizes
     DEF Decode, Crc, FieldOf, HeaderOf, PayloadOf, NumberField, PacketOf
<1>5. \A error : Failure(error).error = error
  BY DEF Failure
<1>6. Acceptable(x) <=>
        /\ N >= z /\ x[1] = Magic /\ x[2] = Version /\ x[3] \in KnownTypes
        /\ n <= m /\ N = z + n /\ c = f
  BY <1>1, <1>2, <1>3 DEF Acceptable
<1> QED
  BY <1>1, <1>2, <1>4, <1>5, <1>6

\* Only the checksum is looked at last.
LEMMA DecodeCrc ==
  ASSUME NEW x \in Seq(Byte), Len(x) >= HeaderSize,
         x[1] = Magic, x[2] = Version, x[3] \in KnownTypes,
         NumberOf(x[6]) <= MaxPayload, Len(x) = HeaderSize + NumberOf(x[6]),
         ~Acceptable(x)
  PROVE  Decode(x).error = "crc"
<1>1. PICK N, n, m : N = Len(x) /\ n = NumberOf(x[6]) /\ m = MaxPayload
                     /\ N \in Nat /\ n \in Nat /\ m \in Nat
  BY LenProperties, NumberTyped, HeaderSizes
<1>2. PICK z : z = HeaderSize /\ z \in Nat
  BY HeaderSizes
<1>3. Crc(x) # ReadBigEndian(FieldOf(x))
  BY DEF Acceptable
<1>4. ~(N < z) /\ ~(n > m) /\ ~(N < z + n) /\ N = z + n
  BY <1>1, <1>2
<1>5. Decode(x) = Failure("crc")
  BY <1>1, <1>2, <1>3, <1>4, HeaderSizes
     DEF Decode, Crc, FieldOf, HeaderOf, PayloadOf
<1> QED
  BY <1>5 DEF Failure

\* Functions with the same values are equal.
LEMMA SameFunction ==
  ASSUME NEW D, NEW R, NEW f \in [D -> R], NEW g \in [D -> R],
         \A k \in D : f[k] = g[k]
  PROVE  f = g
  OBVIOUS

\* An encoded packet passes every check and is taken apart into its fields.
LEMMA EncodedAccepted ==
  ASSUME NEW p, IsPacket(p), NEW e, IsEncoded(e, p)
  PROVE  /\ Acceptable(e)
         /\ PacketOf(e) = [type |-> p.type, number |-> p.number,
                           payload |-> p.payload]
         /\ IsSound(e, Len(p.payload))
<1>1. PICK n : n = Len(p.payload) /\ n \in 0..MaxPayload /\ n \in Nat
  BY LenProperties, HeaderSizes DEF IsPacket
<1>2. /\ e \in Seq(Byte) /\ Len(e) = HeaderSize + n
      /\ e[1] = Magic /\ e[2] = Version /\ e[3] = p.type
      /\ e[6] = ByteFor(n) /\ PayloadOf(e) = p.payload
  BY <1>1 DEF IsEncoded
<1>3. NumberOf(e[6]) = n
  BY <1>1, <1>2, ByteForSize
<1>4. PICK c : c = Crc(e) /\ c \in State
  BY <1>1, <1>2, CrcIs
<1>5. ReadBigEndian(FieldOf(e)) = c
  <2>1. PICK f : f = FieldOf(e) /\ IsPart(f, e, 6, CrcBytes)
    BY <1>1, <1>2, Parts
  <2>2. PICK w : w = WriteBigEndian(c, CrcBytes) /\ w \in [1..CrcBytes -> Byte]
    BY Written, HeaderSizes
  <2>3. f \in [1..CrcBytes -> Byte] /\ \A k \in 1..CrcBytes : f[k] = e[6 + k]
    BY <2>1 DEF IsPart
  <2>4. \A k \in 1..CrcBytes : e[6 + k] = w[k]
    BY <1>4, <2>2 DEF IsEncoded
  <2>5. f = w
    <3>1. PICK D : D = 1..CrcBytes
      OBVIOUS
    <3>2. \A k \in D : f[k] = w[k]
      BY <2>3, <2>4, <3>1
    <3>3. f \in [D -> Byte] /\ w \in [D -> Byte]
      BY <2>2, <2>3, <3>1
    <3> QED
      BY <3>2, <3>3, SameFunction
  <2>6. c \in SUBSET (0..(CrcBytes * ByteBits - 1))
    BY <1>4 DEF State, AllOnes, CrcBits
  <2>7. ReadBigEndian(w) = c
    BY <2>2, <2>6, HeaderSizes, ReadInvertsWrite
  <2> QED
    BY <2>1, <2>5, <2>7
<1>6. ReadBigEndian(NumberField(e)) = p.number
  <2>1. PICK f : f = NumberField(e) /\ IsPart(f, e, 3, 2)
    BY <1>1, <1>2, Parts
  <2>2. PICK w : w = WriteBigEndian(p.number, 2) /\ w \in [1..2 -> Byte]
    BY Written
  <2>3. f \in [1..2 -> Byte] /\ \A k \in 1..2 : f[k] = e[3 + k]
    BY <2>1 DEF IsPart
  <2>4. \A k \in 1..2 : e[3 + k] = w[k]
    BY <2>2 DEF IsEncoded
  <2>5. f = w
    BY <2>2, <2>3, <2>4
  <2>6. ReadBigEndian(w) = p.number
    BY <2>2, ReadInvertsWrite DEF IsPacket
  <2> QED
    BY <2>1, <2>5, <2>6
<1>7. Acceptable(e)
  <2>1. p.type \in KnownTypes
    BY DEF IsPacket
  <2>2. Len(e) >= HeaderSize /\ n <= MaxPayload
    <3>1. PICK z, m : z = HeaderSize /\ z \in Nat /\ m = MaxPayload /\ m \in Nat
      BY HeaderSizes
    <3> QED
      BY <1>1, <1>2, <3>1
  <2>3. Crc(e) = ReadBigEndian(FieldOf(e))
    BY <1>4, <1>5
  <2> QED
    BY <1>2, <1>3, <2>1, <2>2, <2>3 DEF Acceptable
<1>8. \A k \in 1..CrcBytes, b \in Bits :
        b \in e[6 + k] <=> (CrcBytes - k) * ByteBits + b \in c
  <2> SUFFICES ASSUME NEW k \in 1..CrcBytes, NEW b \in Bits
               PROVE  b \in e[6 + k] <=> (CrcBytes - k) * ByteBits + b \in c
    OBVIOUS
  <2>1. e[6 + k] = WriteBigEndian(c, CrcBytes)[k]
    BY <1>4 DEF IsEncoded
  <2> QED
    BY <2>1, Written, HeaderSizes
<1> QED
  BY <1>1, <1>2, <1>4, <1>6, <1>7, <1>8 DEF PacketOf, IsSound

\* A datagram that is accepted is what encode_packet writes for the packet it
\* is decoded to.
LEMMA AcceptedIsEncoded ==
  ASSUME NEW x \in Seq(Byte), Acceptable(x)
  PROVE  IsPacket(PacketOf(x)) /\ x = Encode(PacketOf(x))
<1>1. PICK n : n = NumberOf(x[6]) /\ n \in Nat /\ n <= MaxPayload
               /\ Len(x) = HeaderSize + n
  BY NumberTyped DEF Acceptable
<1>2. PICK p : p = PacketOf(x)
  OBVIOUS
<1>3. PICK q : q = PayloadOf(x) /\ IsPart(q, x, HeaderSize, n)
  BY <1>1, Parts
<1>4. q \in Seq(Byte) /\ Len(q) = n /\ \A i \in 1..n : q[i] = x[HeaderSize + i]
  BY <1>3 DEF IsPart
<1>5. PICK v : v = NumberField(x) /\ IsPart(v, x, 3, 2)
  BY <1>1, Parts
<1>6. v \in [1..2 -> Byte] /\ \A i \in 1..2 : v[i] = x[3 + i]
  BY <1>5 DEF IsPart
<1>7. p.type = x[3] /\ p.number = ReadBigEndian(v) /\ p.payload = q
  BY <1>2, <1>3, <1>5 DEF PacketOf
<1>8. IsPacket(p)
  <2>1. ReadBigEndian(v) \subseteq 0..(2 * ByteBits - 1)
    BY <1>6, ReadTyped
  <2>2. x[3] \in KnownTypes
    BY DEF Acceptable
  <2> QED
    BY <1>1, <1>4, <1>7, <2>1, <2>2 DEF IsPacket
<1>9. PICK e : e = Encode(p) /\ IsEncoded(e, p)
  BY <1>8, EncodeIs
<1>10. e \in Seq(Byte) /\ Len(e) = HeaderSize + n /\ PayloadOf(e) = q
  BY <1>4, <1>7, <1>9 DEF IsEncoded
<1>11. \A i \in 1..6 : e[i] = x[i]
  <2>1. e[1] = x[1] /\ e[2] = x[2] /\ e[3] = x[3]
    BY <1>7, <1>9 DEF IsEncoded, Acceptable
  <2>2. e[4] = x[4] /\ e[5] = x[5]
    <3>1. WriteBigEndian(p.number, 2) = v
      BY <1>6, <1>7, WriteInvertsRead
    <3>2. \A i \in 1..2 : e[3 + i] = x[3 + i]
      BY <1>6, <1>9, <3>1 DEF IsEncoded
    <3>3. e[3 + 1] = x[3 + 1] /\ e[3 + 2] = x[3 + 2]
      BY <3>2
    <3> QED
      BY <3>3
  <2>3. e[6] = x[6]
    <3>1. x[6] \in Byte
      BY <1>1, HeaderSizes, ElementOfSeq
    <3>2. e[6] = ByteFor(n)
      BY <1>4, <1>7, <1>9 DEF IsEncoded
    <3> QED
      BY <1>1, <3>1, <3>2, ByteForNumber
  <2>4. \A i \in 1..6 : i = 1 \/ i = 2 \/ i = 3 \/ i = 4 \/ i = 5 \/ i = 6
    OBVIOUS
  <2> QED
    BY <2>1, <2>2, <2>3, <2>4
<1>12. HeaderOf(e) = HeaderOf(x)
  <2>1. IsPart(HeaderOf(e), e, 0, 6)
    BY <1>1, <1>10, Parts
  <2>2. IsPart(HeaderOf(x), x, 0, 6)
    BY <1>1, Parts
  <2>3. \A i \in 1..6 : e[0 + i] = x[0 + i]
    BY <1>11
  <2> QED
    BY <2>1, <2>2, <2>3, PartsEqual
<1>13. Crc(e) = Crc(x)
  BY <1>3, <1>10, <1>12 DEF Crc
<1>14. \A k \in 1..CrcBytes : e[6 + k] = x[6 + k]
  <2>1. PICK f : f = FieldOf(x) /\ IsPart(f, x, 6, CrcBytes)
    BY <1>1, Parts
  <2>2. f \in [1..CrcBytes -> Byte] /\ \A k \in 1..CrcBytes : f[k] = x[6 + k]
    BY <2>1 DEF IsPart
  <2>3. Crc(e) = ReadBigEndian(f)
    BY <1>13, <2>1 DEF Acceptable
  <2>4. WriteBigEndian(Crc(e), CrcBytes) = f
    BY <2>2, <2>3, HeaderSizes, WriteInvertsRead
  <2> QED
    BY <1>9, <2>2, <2>4 DEF IsEncoded
<1>15. \A i \in 1..n : e[HeaderSize + i] = x[HeaderSize + i]
  <2>1. IsPart(q, e, HeaderSize, n)
    BY <1>1, <1>10, Parts
  <2> QED
    BY <1>4, <2>1 DEF IsPart
<1>16. ASSUME NEW i \in 1..(HeaderSize + n) PROVE e[i] = x[i]
  <2>1. CASE i <= 6
    BY <1>11, <2>1
  <2>2. CASE i > 6 /\ i <= HeaderSize
    <3>1. i - 6 \in 1..CrcBytes /\ i = 6 + (i - 6)
      BY <2>2, HeaderSizes
    <3> QED
      BY <1>14, <3>1
  <2>3. CASE i > HeaderSize
    <3>1. i - HeaderSize \in 1..n /\ i = HeaderSize + (i - HeaderSize)
      BY <1>1, <2>3, HeaderSizes
    <3> QED
      BY <1>15, <3>1
  <2> QED
    BY <2>1, <2>2, <2>3, HeaderSizes
<1>17. e = x
  BY <1>1, <1>10, <1>16, SeqEqual
<1> QED
  BY <1>2, <1>8, <1>9, <1>17
-----------------------------------------------------------------------------
(* Harm that is noticed.                                                   *)

\* x is e with these bits inverted.
IsFlipped(x, e, bits) ==
  x \in Seq(Byte) /\ Len(x) = Len(e) /\ DifferBy(e, x, bits)

\* Inverting one more bit adds it to the difference.
LEMMA FlipIs ==
  ASSUME NEW e \in Seq(Byte), NEW x, NEW bits, IsFlipped(x, e, bits),
         NEW i \in 1..Len(e), NEW b \in Bits, <<i, b>> \notin bits
  PROVE  IsFlipped([x EXCEPT ![i] = Xor(@, {b})], e, bits \cup {<<i, b>>})
<1>1. PICK N : N = Len(e) /\ N \in Nat /\ Len(x) = N /\ i \in 1..N
  BY LenProperties DEF IsFlipped
<1>2. x \in Seq(Byte) /\ x \in [1..N -> Byte] /\ e \in [1..N -> Byte]
  BY <1>1, LenProperties DEF IsFlipped
<1>3. \A k \in 1..N : Xor(e[k], x[k]) = At(bits, k)
  BY <1>1 DEF IsFlipped, DifferBy
<1>4. PICK v : v = Xor(x[i], {b}) /\ v \in Byte
  <2>1. x[i] \in Byte
    BY <1>1, <1>2
  <2>2. Xor(x[i], {b}) \in Byte
    BY <2>1 DEF Xor, Byte
  <2> QED
    BY <2>2
<1>5. PICK y : y = [x EXCEPT ![i] = Xor(@, {b})]
  OBVIOUS
<1>6. y = [x EXCEPT ![i] = v]
  BY <1>4, <1>5
<1>7. y \in Seq(Byte) /\ Len(y) = N /\ y[i] = v
      /\ \A k \in 1..N : k # i => y[k] = x[k]
  <2>1. y \in Seq(Byte) /\ Len(y) = Len(x)
    BY <1>1, <1>2, <1>4, <1>6, ExceptSeq
  <2>2. y[i] = v
    BY <1>1, <1>2, <1>6
  <2>3. \A k \in 1..N : k # i => y[k] = x[k]
    BY <1>1, <1>2, <1>6
  <2> QED
    BY <1>1, <2>1, <2>2, <2>3
<1>8. \A k \in 1..N : Xor(e[k], y[k]) = At(bits \cup {<<i, b>>}, k)
  <2>1. ASSUME NEW k \in 1..N, k # i
        PROVE  Xor(e[k], y[k]) = At(bits \cup {<<i, b>>}, k)
    <3>1. At(bits \cup {<<i, b>>}, k) = At(bits, k)
      BY <2>1 DEF At
    <3> QED
      BY <1>3, <1>7, <2>1, <3>1
  <2>2. Xor(e[i], y[i]) = At(bits \cup {<<i, b>>}, i)
    <3>1. b \notin Xor(e[i], x[i])
      BY <1>1, <1>3 DEF At
    <3>2. Xor(e[i], v) = Xor(e[i], x[i]) \cup {b}
      BY <1>4, <3>1 DEF Xor
    <3>3. At(bits \cup {<<i, b>>}, i) = At(bits, i) \cup {b}
      BY DEF At
    <3> QED
      BY <1>1, <1>3, <1>7, <3>2, <3>3
  <2> QED
    BY <2>1, <2>2
<1> QED
  BY <1>1, <1>5, <1>7, <1>8 DEF IsFlipped, DifferBy

\* Nothing inverted.
LEMMA NoFlip ==
  ASSUME NEW e \in Seq(Byte)
  PROVE  IsFlipped(e, e, {})
<1>1. \A s : Xor(s, s) = {}
  BY DEF Xor
<1>2. \A i : At({}, i) = {}
  BY DEF At
<1> QED
  BY <1>1, <1>2 DEF IsFlipped, DifferBy

\* Where nothing is inverted nothing has changed.
LEMMA SameBytes ==
  ASSUME NEW e \in Seq(Byte), NEW x, NEW bits, IsFlipped(x, e, bits),
         NEW i \in 1..Len(e), At(bits, i) = {}
  PROVE  x[i] = e[i]
<1>1. Xor(e[i], x[i]) = {}
  BY DEF IsFlipped, DifferBy
<1>2. \A s, t : Xor(s, t) = {} => s = t
  BY DEF Xor
<1> QED
  BY <1>1, <1>2

\* A datagram that is accepted has the right checksum.
LEMMA AcceptedSound ==
  ASSUME NEW x \in Seq(Byte), Acceptable(x)
  PROVE  \E n : IsSound(x, n)
<1>1. PICK p : p = PacketOf(x) /\ IsPacket(p) /\ x = Encode(p)
  BY AcceptedIsEncoded
<1>2. IsEncoded(x, p)
  BY <1>1, EncodeIs
<1> QED
  BY <1>1, <1>2, EncodedAccepted

\* The sizes of a datagram that is accepted.
LEMMA AcceptedSizes ==
  ASSUME NEW x \in Seq(Byte), Acceptable(x)
  PROVE  \E z, m, N : /\ z = HeaderSize /\ m = NumberOf(x[6]) /\ N = Len(x)
                      /\ z \in Nat /\ m \in Nat /\ N \in Nat
                      /\ z > 6 /\ N = z + m /\ m <= MaxPayload
<1>1. PICK z : z = HeaderSize /\ z \in Nat /\ z > 6
  BY HeaderSizes
<1>2. PICK m : m = NumberOf(x[6]) /\ m \in Nat
  BY NumberTyped
<1>3. PICK N : N = Len(x) /\ N \in Nat
  BY LenProperties
<1>4. N = z + m /\ m <= MaxPayload
  BY <1>1, <1>2, <1>3 DEF Acceptable
<1> QED
  BY <1>1, <1>2, <1>3, <1>4

\* A datagram that was cut off is refused.
LEMMA CutNoticed ==
  ASSUME NEW p, IsPacket(p), NEW e, IsEncoded(e, p),
         NEW n \in 0..(Len(e) - 1)
  PROVE  /\ SubSeq(e, 1, n) \in Seq(Byte)
         /\ ~Acceptable(SubSeq(e, 1, n))
<1>1. Acceptable(e) /\ e \in Seq(Byte)
  BY EncodedAccepted DEF IsEncoded
<1>2. PICK z, m, N : /\ z = HeaderSize /\ m = NumberOf(e[6]) /\ N = Len(e)
                     /\ z \in Nat /\ m \in Nat /\ N \in Nat
                     /\ z > 6 /\ N = z + m
  BY <1>1, AcceptedSizes
<1>3. PICK x : x = SubSeq(e, 1, n) /\ IsPart(x, e, 0, n)
  <2>1. n \in Nat /\ 0 + n <= Len(e)
    BY <1>2
  <2>2. IsPart(SubSeq(e, 0 + 1, 0 + n), e, 0, n)
    BY <1>1, <2>1, PartIs
  <2>3. 0 + 1 = 1 /\ 0 + n = n
    BY <2>1
  <2> QED
    BY <2>2, <2>3
<1>4. x \in Seq(Byte) /\ Len(x) = n /\ \A i \in 1..n : x[i] = e[0 + i]
  BY <1>3 DEF IsPart
<1>5. ASSUME Acceptable(x) PROVE FALSE
  <2>1. n >= z /\ n = z + NumberOf(x[6])
    BY <1>2, <1>4, <1>5 DEF Acceptable
  <2>2. 6 \in 1..n /\ 0 + 6 = 6
    BY <1>2, <2>1
  <2>3. x[6] = e[6]
    BY <1>4, <2>2
  <2> QED
    BY <1>2, <2>1, <2>3
<1> QED
  BY <1>3, <1>4, <1>5

\* A datagram with a byte too many is refused.
LEMMA PadNoticed ==
  ASSUME NEW p, IsPacket(p), NEW e, IsEncoded(e, p), NEW byte \in Byte
  PROVE  /\ Append(e, byte) \in Seq(Byte)
         /\ ~Acceptable(Append(e, byte))
<1>1. Acceptable(e) /\ e \in Seq(Byte)
  BY EncodedAccepted DEF IsEncoded
<1>2. PICK z, m, N : /\ z = HeaderSize /\ m = NumberOf(e[6]) /\ N = Len(e)
                     /\ z \in Nat /\ m \in Nat /\ N \in Nat
                     /\ z > 6 /\ N = z + m
  BY <1>1, AcceptedSizes
<1>3. PICK x : x = Append(e, byte)
  OBVIOUS
<1>4. x \in Seq(Byte) /\ Len(x) = N + 1 /\ \A i \in 1..N : x[i] = e[i]
  <2>1. x \in Seq(Byte)
    BY <1>1, <1>3, AppendProperties
  <2>2. Len(x) = Len(e) + 1
    BY <1>1, <1>3, AppendProperties
  <2>3. \A i \in 1..Len(e) : x[i] = e[i]
    BY <1>1, <1>3, AppendProperties
  <2> QED
    BY <1>2, <2>1, <2>2, <2>3
<1>5. ASSUME Acceptable(x) PROVE FALSE
  <2>1. N + 1 = z + NumberOf(x[6])
    BY <1>2, <1>4, <1>5 DEF Acceptable
  <2>2. x[6] = e[6]
    BY <1>2, <1>4
  <2> QED
    BY <1>2, <2>1, <2>2
<1> QED
  BY <1>3, <1>4, <1>5

\* One or two inverted bits, wherever they are, are noticed.
LEMMA FlipNoticed ==
  ASSUME NEW p, IsPacket(p), NEW e, IsEncoded(e, p),
         NEW i \in 1..Len(e), NEW b \in Bits,
         NEW j \in 1..Len(e), NEW c \in Bits,
         NEW x, IsFlipped(x, e, {<<i, b>>, <<j, c>>})
  PROVE  ~Acceptable(x)
<1>1. PICK m : m = Len(p.payload) /\ IsSound(e, m)
  BY EncodedAccepted
<1>2. /\ x \in Seq(Byte) /\ Len(x) = Len(e)
      /\ DifferBy(e, x, {<<i, b>>, <<j, c>>})
  BY DEF IsFlipped
<1>3. ASSUME Acceptable(x) PROVE FALSE
  <2>1. PICK n : IsSound(x, n)
    BY <1>2, <1>3, AcceptedSound
  <2>2. PICK z : z = HeaderSize /\ z \in Nat
    BY HeaderSizes
  <2>3. n = m
    <3>1. n \in Nat /\ m \in Nat
      BY <1>1, <2>1, HeaderSizes DEF IsSound
    <3>2. Len(e) = z + m /\ Len(x) = z + n
      BY <1>1, <2>1, <2>2 DEF IsSound
    <3> QED
      BY <1>2, <2>2, <3>1, <3>2
  <2> QED
    BY <1>1, <1>2, <2>1, <2>3, MoreThanTwo
<1> QED
  BY <1>3

\* A last byte that was changed is noticed by the checksum.
LEMMA CorruptNoticed ==
  ASSUME NEW p, IsPacket(p), NEW e, IsEncoded(e, p), NEW x,
         IsFlipped(x, e, {<<Len(e), 0>>})
  PROVE  Decode(x).error = "crc"
<1>1. Acceptable(e) /\ e \in Seq(Byte)
  BY EncodedAccepted DEF IsEncoded
<1>2. PICK z, m, N : /\ z = HeaderSize /\ m = NumberOf(e[6]) /\ N = Len(e)
                     /\ z \in Nat /\ m \in Nat /\ N \in Nat
                     /\ z > 6 /\ N = z + m /\ m <= MaxPayload
  BY <1>1, AcceptedSizes
<1>3. x \in Seq(Byte) /\ Len(x) = N
  BY <1>2 DEF IsFlipped
<1>4. \A i \in 1..6 : x[i] = e[i]
  <2> SUFFICES ASSUME NEW i \in 1..6 PROVE x[i] = e[i]
    OBVIOUS
  <2>1. i \in 1..Len(e) /\ i # Len(e)
    BY <1>2
  <2>2. At({<<Len(e), 0>>}, i) = {}
    BY <2>1 DEF At
  <2> QED
    BY <1>1, <2>1, <2>2, SameBytes
<1>5. x[1] = e[1] /\ x[2] = e[2] /\ x[3] = e[3] /\ x[6] = e[6]
  BY <1>4
<1>6. Len(e) \in 1..Len(e) /\ 0 \in Bits
  BY <1>2, CodecAssumption DEF Bits
<1>7. ~Acceptable(x)
  <2>1. {<<Len(e), 0>>} = {<<Len(e), 0>>, <<Len(e), 0>>}
    OBVIOUS
  <2>2. IsFlipped(x, e, {<<Len(e), 0>>, <<Len(e), 0>>})
    BY <2>1
  <2> QED
    BY <1>6, <2>2, FlipNoticed
<1>8. /\ Len(x) >= HeaderSize /\ NumberOf(x[6]) <= MaxPayload
      /\ Len(x) = HeaderSize + NumberOf(x[6])
  BY <1>2, <1>3, <1>5
<1>9. x[1] = Magic /\ x[2] = Version /\ x[3] \in KnownTypes
  BY <1>1, <1>5 DEF Acceptable
<1> QED
  BY <1>3, <1>7, <1>8, <1>9, DecodeCrc
-----------------------------------------------------------------------------
(* The sender, the path and the receiver.                                  *)

\* What encode_packet is called with.
SourceTyped ==
  source \in [type : Types, number : Numbers, payload : Seq(Contents)]

\* What may have become of the encoded datagram e, and the history of it.
Untouched(e) == harm = {} /\ datagram = e

Cut(e) ==
  \E n \in 0..(Len(e) - 1) :
    harm = {<<"cut", n>>} /\ datagram = SubSeq(e, 1, n)

Padded(e) ==
  \E byte \in Contents : harm = {<<"pad", byte>>} /\ datagram = Append(e, byte)

Corrupted(e) ==
  harm = {<<"corrupt">>} /\ IsFlipped(datagram, e, {<<Len(e), 0>>})

FlippedOnce(e) ==
  \E i \in 1..Len(e), b \in Bits :
    harm = {<<"flip", i, b>>} /\ IsFlipped(datagram, e, {<<i, b>>})

FlippedTwice(e) ==
  \E i \in 1..Len(e), j \in 1..Len(e), b \in Bits, c \in Bits :
    /\ <<i, b>> # <<j, c>>
    /\ harm = {<<"flip", i, b>>, <<"flip", j, c>>}
    /\ IsFlipped(datagram, e, {<<i, b>>, <<j, c>>})

Delivered(e) ==
  \/ Untouched(e) \/ Cut(e) \/ Padded(e) \/ Corrupted(e)
  \/ FlippedOnce(e) \/ FlippedTwice(e)

\* The inductive invariant: what is on its way, or has arrived, is the encoded
\* source after what the path did to it, and the receiver decoded just that.
PathInv ==
  /\ SourceTyped
  /\ phase \in {"encode", "transit", "decoded", "thrown"}
  /\ phase = "encode" => harm = {}
  /\ phase \in {"transit", "decoded"} =>
       IsPacket(source) /\ Delivered(Encode(source))
  /\ phase = "decoded" => result = Decode(datagram)

\* A sender's packet that is not refused.
LEMMA EncodableIs ==
  ASSUME SourceTyped, Encodable(source)
  PROVE  IsPacket(source)
<1>1. source.payload \in Seq(Contents) /\ source.number \in Numbers
  BY DEF SourceTyped
<1>2. source.payload \in Seq(Byte)
  <2>1. PICK q : q = source.payload /\ q \in Seq(Contents)
    BY <1>1
  <2>2. PICK N : N = Len(q) /\ N \in Nat /\ q \in [1..N -> Contents]
    BY <2>1, LenProperties
  <2>3. q \in [1..N -> Byte]
    BY <2>2, CodecAssumption
  <2> QED
    BY <2>1, <2>2, <2>3
<1>3. source.number \in SUBSET (0..(2 * ByteBits - 1))
  BY <1>1, CodecAssumption
<1> QED
  BY <1>2, <1>3 DEF IsPacket, Encodable

\* Two different marks in the history are as many as there may be.
LEMMA TwoMarks ==
  ASSUME NEW s, NEW t, s # t
  PROVE  ~(Cardinality({s, t}) < MaxFlips)
<1>1. IsFiniteSet({s}) /\ Cardinality({s}) = 1
  BY FS_Singleton
<1>2. Cardinality({s} \cup {t}) = Cardinality({s}) + 1
  BY <1>1, FS_AddElement
<1>3. {s} \cup {t} = {s, t}
  OBVIOUS
<1>4. MaxFlips \in 0..2
  BY CodecAssumption
<1> QED
  BY <1>1, <1>2, <1>3, <1>4

\* The kinds of harm do not mix: what has been cut off, padded or corrupted
\* has no bit inverted as well, and the second bit inverted is another one.
LEMMA FlipStep ==
  ASSUME NEW e \in Seq(Byte), Delivered(e),
         NEW i \in DOMAIN datagram, NEW b \in Bits, FlipBit(i, b)
  PROVE  Delivered(e)'
<1>1. Cardinality(harm) < MaxFlips
  BY DEF FlipBit
<1>2. \A h \in harm : h[1] = "flip" /\ h[2] * ByteBits + h[3] < i * ByteBits + b
  BY DEF FlipBit
<1>3. datagram' = [datagram EXCEPT ![i] = Xor(@, {b})]
  BY DEF FlipBit, Harm, WithBitFlipped
<1>4. harm' = harm \cup {<<"flip", i, b>>}
  BY DEF FlipBit, Harm
<1>5. ASSUME NEW bits, IsFlipped(datagram, e, bits), <<i, b>> \notin bits
      PROVE  i \in 1..Len(e) /\ IsFlipped(datagram', e, bits \cup {<<i, b>>})
  <2>1. PICK x : x = datagram /\ IsFlipped(x, e, bits)
    BY <1>5
  <2>2. i \in 1..Len(e)
    BY <2>1, LenProperties DEF IsFlipped
  <2>3. IsFlipped([x EXCEPT ![i] = Xor(@, {b})], e, bits \cup {<<i, b>>})
    BY <1>5, <2>1, <2>2, FlipIs
  <2> QED
    BY <1>3, <2>1, <2>2, <2>3
<1>6. ASSUME Untouched(e) PROVE FlippedOnce(e)'
  <2>1. harm = {} /\ datagram = e
    BY <1>6 DEF Untouched
  <2>2. i \in 1..Len(e) /\ IsFlipped(datagram', e, {} \cup {<<i, b>>})
    BY <1>5, <2>1, NoFlip
  <2>3. {} \cup {<<i, b>>} = {<<i, b>>} /\ harm' = {<<"flip", i, b>>}
    BY <1>4, <2>1
  <2> QED
    BY <2>2, <2>3 DEF FlippedOnce
<1>7. ASSUME Cut(e) \/ Padded(e) \/ Corrupted(e) PROVE FALSE
  <2>1. ASSUME Cut(e) PROVE FALSE
    BY <1>2, <2>1 DEF Cut
  <2>2. ASSUME Padded(e) PROVE FALSE
    BY <1>2, <2>2 DEF Padded
  <2>3. ASSUME Corrupted(e) PROVE FALSE
    BY <1>2, <2>3 DEF Corrupted
  <2> QED
    BY <1>7, <2>1, <2>2, <2>3
<1>8. ASSUME FlippedOnce(e) PROVE FlippedTwice(e)'
  <2>1. PICK j \in 1..Len(e), c \in Bits :
          /\ harm = {<<"flip", j, c>>}
          /\ IsFlipped(datagram, e, {<<j, c>>})
    BY <1>8 DEF FlippedOnce
  <2>2. PICK B : B = ByteBits /\ B \in Nat
    BY CodecAssumption
  <2>3. j * B + c < i * B + b
    BY <1>2, <2>1, <2>2
  <2>4. <<j, c>> # <<i, b>>
    <3>1. i \in Nat /\ j \in Nat /\ b \in Int /\ c \in Int
      <4>1. i \in 1..Len(datagram)
        BY <2>1, LenProperties DEF IsFlipped
      <4> QED
        BY <2>2, <4>1 DEF Bits
    <3>2. i * B \in Int
      BY <2>2, <3>1
    <3>3. ASSUME j = i, c = b PROVE FALSE
      BY <2>3, <3>1, <3>2, <3>3
    <3> QED
      BY <3>3
  <2>5. /\ i \in 1..Len(e)
        /\ IsFlipped(datagram', e, {<<j, c>>} \cup {<<i, b>>})
    BY <1>5, <2>1, <2>4
  <2>6. {<<j, c>>} \cup {<<i, b>>} = {<<j, c>>, <<i, b>>}
    OBVIOUS
  <2>7. harm' = {<<"flip", j, c>>, <<"flip", i, b>>}
    BY <1>4, <2>1
  <2>8. IsFlipped(datagram', e, {<<j, c>>, <<i, b>>})
    BY <2>5, <2>6
  <2>9. IsFlipped(datagram, e, {<<j, c>>, <<i, b>>})'
    BY <2>8 DEF IsFlipped, DifferBy
  <2> QED
    BY <2>1, <2>4, <2>5, <2>7, <2>9 DEF FlippedTwice
<1>9. ASSUME FlippedTwice(e) PROVE FALSE
  <2>1. PICK j \in 1..Len(e), k \in 1..Len(e), c \in Bits, d \in Bits :
          <<j, c>> # <<k, d>> /\ harm = {<<"flip", j, c>>, <<"flip", k, d>>}
    BY <1>9 DEF FlippedTwice
  <2>2. <<"flip", j, c>> # <<"flip", k, d>>
    BY <2>1
  <2> QED
    BY <1>1, <2>1, <2>2, TwoMarks
<1> QED
  BY <1>6, <1>7, <1>8, <1>9 DEF Delivered

\* As long as the history is empty the datagram is what was sent.
LEMMA NothingYet ==
  ASSUME NEW e, Delivered(e), harm = {}
  PROVE  datagram = e
<1>1. ~Cut(e) /\ ~Padded(e) /\ ~Corrupted(e)
  BY DEF Cut, Padded, Corrupted
<1>2. ~FlippedOnce(e) /\ ~FlippedTwice(e)
  BY DEF FlippedOnce, FlippedTwice
<1> QED
  BY <1>1, <1>2 DEF Delivered, Untouched

\* The last bit of the last byte is inverted and nothing else.
LEMMA CorruptStep ==
  ASSUME NEW e \in Seq(Byte), Len(e) > 0, Delivered(e), Corrupt
  PROVE  Delivered(e)'
<1>1. harm = {} /\ harm' = {<<"corrupt">>}
  BY DEF Corrupt, Harm
<1>2. datagram = e
  BY <1>1, NothingYet
<1>3. PICK i : i = Len(e) /\ i \in 1..Len(e)
  BY LenProperties
<1>4. 0 \in Bits
  BY CodecAssumption DEF Bits
<1>5. datagram' = [e EXCEPT ![i] = Xor(@, {0})]
  BY <1>2, <1>3 DEF Corrupt, Harm, WithBitFlipped
<1>6. IsFlipped([e EXCEPT ![i] = Xor(@, {0})], e, {} \cup {<<i, 0>>})
  BY <1>3, <1>4, NoFlip, FlipIs
<1>7. {} \cup {<<i, 0>>} = {<<Len(e), 0>>}
  BY <1>3
<1> QED
  BY <1>1, <1>5, <1>6, <1>7 DEF Delivered, Corrupted

\* Every step leaves the packet alone.
LEMMA SourceStays ==
  ASSUME [Next]_vars
  PROVE  source' = source
  BY DEF Next, EncodePacket, EncodeThrows, FlipBit, Truncate, Extend, Corrupt,
         Harm, DecodePacket, vars

\* The invariant holds before the packet is encoded.
LEMMA PathInvInit ==
  ASSUME Init
  PROVE  PathInv
<1>1. source.type \in Types /\ source.number \in Numbers
  BY DEF Init
<1>2. source.payload \in Seq(Contents)
  <2>1. PICK n \in 0..LongestPayload : source.payload \in [1..n -> Contents]
    BY DEF Init
  <2> QED
    BY <2>1, CodecAssumption
<1>3. source = [type |-> source.type, number |-> source.number,
                payload |-> source.payload]
  BY DEF Init
<1>4. SourceTyped
  BY <1>1, <1>2, <1>3 DEF SourceTyped
<1> QED
  BY <1>4 DEF Init, PathInv

\* What an encoded packet becomes: a step of the path keeps Delivered.
LEMMA PathStep ==
  ASSUME NEW e \in Seq(Byte), Len(e) > 0, Delivered(e),
         NEW p, IsPacket(p), IsEncoded(e, p),
         \/ \E i \in DOMAIN datagram, b \in Bits : FlipBit(i, b)
         \/ \E n \in 0..(Len(datagram) - 1) : Truncate(n)
         \/ \E byte \in Contents : Extend(byte)
         \/ Corrupt
  PROVE  Delivered(e)'
<1>1. CASE \E i \in DOMAIN datagram, b \in Bits : FlipBit(i, b)
  BY <1>1, FlipStep
<1>2. CASE \E n \in 0..(Len(datagram) - 1) : Truncate(n)
  <2>1. PICK n \in 0..(Len(datagram) - 1) : Truncate(n)
    BY <1>2
  <2>2. /\ harm = {} /\ harm' = {<<"cut", n>>}
        /\ datagram' = SubSeq(datagram, 1, n)
    BY <2>1 DEF Truncate, Harm
  <2>3. datagram = e
    BY <2>2, NothingYet
  <2> QED
    BY <2>2, <2>3 DEF Delivered, Cut
<1>3. CASE \E byte \in Contents : Extend(byte)
  <2>1. PICK byte \in Contents : Extend(byte)
    BY <1>3
  <2>2. /\ harm = {} /\ harm' = {<<"pad", byte>>}
        /\ datagram' = Append(datagram, byte)
    BY <2>1 DEF Extend, Harm
  <2>3. datagram = e
    BY <2>2, NothingYet
  <2> QED
    BY <2>2, <2>3 DEF Delivered, Padded
<1>4. CASE Corrupt
  BY <1>4, CorruptStep
<1> QED
  BY <1>1, <1>2, <1>3, <1>4

\* Every step keeps the invariant.
LEMMA PathInvNext ==
  ASSUME PathInv, [Next]_vars
  PROVE  PathInv'
<1>1. source' = source
  BY SourceStays
<1>2. SourceTyped'
  BY <1>1 DEF PathInv, SourceTyped
<1>3. PICK e : e = Encode(source)
  OBVIOUS
<1>4. Encode(source)' = e
  BY <1>1, <1>3 DEF Encode
<1>5. CASE EncodePacket
  <2>1. /\ phase = "encode" /\ phase' = "transit" /\ harm' = harm
        /\ datagram' = e /\ Encodable(source)
    BY <1>3, <1>5 DEF EncodePacket
  <2>2. harm = {} /\ SourceTyped
    BY <2>1 DEF PathInv
  <2>3. IsPacket(source)
    BY <2>1, <2>2, EncodableIs
  <2>4. IsPacket(source)'
    BY <1>1, <2>3 DEF IsPacket
  <2>5. Delivered(e)'
    BY <2>1, <2>2 DEF Delivered, Untouched
  <2> QED
    BY <1>2, <1>4, <2>1, <2>4, <2>5 DEF PathInv
<1>6. CASE EncodeThrows
  BY <1>2, <1>6 DEF PathInv, EncodeThrows
<1>7. CASE \/ \E i \in DOMAIN datagram, b \in Bits : FlipBit(i, b)
           \/ \E n \in 0..(Len(datagram) - 1) : Truncate(n)
           \/ \E byte \in Contents : Extend(byte)
           \/ Corrupt
  <2>1. phase = "transit" /\ phase' = "transit"
    BY <1>7 DEF FlipBit, Truncate, Extend, Corrupt, Harm
  <2>2. IsPacket(source) /\ Delivered(e)
    BY <1>3, <2>1 DEF PathInv
  <2>3. IsEncoded(e, source)
    BY <1>3, <2>2, EncodeIs
  <2>4. e \in Seq(Byte) /\ Len(e) > 0
    <3>1. PICK n : n = Len(source.payload) /\ n \in Nat
      BY <2>2, LenProperties DEF IsPacket
    <3>2. PICK z : z = HeaderSize /\ z \in Nat /\ z > 6
      BY HeaderSizes
    <3> QED
      BY <2>3, <3>1, <3>2 DEF IsEncoded
  <2>5. Delivered(e)'
    BY <1>7, <2>2, <2>3, <2>4, PathStep
  <2>6. IsPacket(source)'
    BY <1>1, <2>2 DEF IsPacket
  <2> QED
    BY <1>2, <1>4, <2>1, <2>5, <2>6 DEF PathInv
<1>8. CASE DecodePacket
  <2>1. /\ phase = "transit" /\ phase' = "decoded" /\ harm' = harm
        /\ datagram' = datagram /\ result' = Decode(datagram)
    BY <1>8 DEF DecodePacket
  <2>2. IsPacket(source) /\ Delivered(e)
    BY <1>3, <2>1 DEF PathInv
  <2>3. IsPacket(source)'
    BY <1>1, <2>2 DEF IsPacket
  <2>4. Delivered(e)'
    BY <2>1, <2>2 DEF Delivered, Untouched, Cut, Padded, Corrupted,
                      FlippedOnce, FlippedTwice
  <2>5. result' = Decode(datagram)'
    BY <2>1
  <2> QED
    BY <1>2, <1>4, <2>1, <2>3, <2>4, <2>5 DEF PathInv
<1>9. CASE UNCHANGED vars
  <2>1. /\ phase' = phase /\ harm' = harm
        /\ datagram' = datagram /\ result' = result
    BY <1>9 DEF vars
  <2>2. ASSUME IsPacket(source) PROVE IsPacket(source)'
    BY <1>1, <2>2 DEF IsPacket
  <2>3. ASSUME Delivered(e) PROVE Delivered(e)'
    BY <2>1, <2>3 DEF Delivered, Untouched, Cut, Padded, Corrupted,
                      FlippedOnce, FlippedTwice
  <2>4. Decode(datagram)' = Decode(datagram)
    BY <2>1
  <2> QED
    BY <1>2, <1>3, <1>4, <2>1, <2>2, <2>3, <2>4 DEF PathInv
<1> QED
  BY <1>5, <1>6, <1>7, <1>8, <1>9 DEF Next

\* Whatever the path does to a datagram, what arrives is the encoded packet
\* with the harm of the history and no other, and that is what is decoded.
THEOREM HarmTraced == Spec => []PathInv
  BY PathInvInit, PathInvNext, PTL DEF Spec

\* What has happened to a datagram that is decoded to a packet: nothing.
LEMMA AcceptedUntouched ==
  ASSUME PathInv, phase = "decoded", Acceptable(datagram)
  PROVE  Untouched(Encode(source))
<1>1. PICK e : e = Encode(source) /\ Delivered(e) /\ IsPacket(source)
  BY DEF PathInv
<1>2. IsEncoded(e, source)
  BY <1>1, EncodeIs
<1>3. ASSUME Cut(e) PROVE FALSE
  BY <1>1, <1>2, <1>3, CutNoticed DEF Cut
<1>4. ASSUME Padded(e) PROVE FALSE
  BY <1>1, <1>2, <1>4, CodecAssumption, PadNoticed DEF Padded
<1>5. ASSUME NEW i \in 1..Len(e), NEW b \in Bits,
             IsFlipped(datagram, e, {<<i, b>>})
      PROVE  FALSE
  <2>1. {<<i, b>>} = {<<i, b>>, <<i, b>>}
    OBVIOUS
  <2>2. IsFlipped(datagram, e, {<<i, b>>, <<i, b>>})
    BY <1>5, <2>1
  <2> QED
    BY <1>1, <1>2, <2>2, FlipNoticed
<1>6. ASSUME Corrupted(e) PROVE FALSE
  <2>1. IsFlipped(datagram, e, {<<Len(e), 0>>})
    BY <1>6 DEF Corrupted
  <2>2. Len(e) \in 1..Len(e)
    <3>1. PICK n : n = Len(source.payload) /\ n \in Nat
      BY <1>1, LenProperties DEF IsPacket
    <3>2. PICK z : z = HeaderSize /\ z \in Nat /\ z > 6
      BY HeaderSizes
    <3> QED
      BY <1>2, <3>1, <3>2 DEF IsEncoded
  <2>3. 0 \in Bits
    BY CodecAssumption DEF Bits
  <2> QED
    BY <1>5, <2>1, <2>2, <2>3
<1>7. ASSUME FlippedOnce(e) PROVE FALSE
  BY <1>5, <1>7 DEF FlippedOnce
<1>8. ASSUME FlippedTwice(e) PROVE FALSE
  BY <1>1, <1>2, <1>8, FlipNoticed DEF FlippedTwice
<1> QED
  BY <1>1, <1>3, <1>4, <1>6, <1>7, <1>8 DEF Delivered

\* What arrives is a sequence of bytes.
LEMMA ArrivedTyped ==
  ASSUME PathInv, phase = "decoded"
  PROVE  datagram \in Seq(Byte)
<1>1. PICK e : e = Encode(source) /\ Delivered(e) /\ IsPacket(source)
  BY DEF PathInv
<1>2. IsEncoded(e, source)
  BY <1>1, EncodeIs
<1>3. ASSUME Untouched(e) PROVE datagram \in Seq(Byte)
  BY <1>2, <1>3 DEF Untouched, IsEncoded
<1>4. ASSUME Cut(e) PROVE datagram \in Seq(Byte)
  BY <1>1, <1>2, <1>4, CutNoticed DEF Cut
<1>5. ASSUME Padded(e) PROVE datagram \in Seq(Byte)
  BY <1>1, <1>2, <1>5, CodecAssumption, PadNoticed DEF Padded
<1>6. ASSUME Corrupted(e) PROVE datagram \in Seq(Byte)
  BY <1>6 DEF Corrupted, IsFlipped
<1>7. ASSUME FlippedOnce(e) PROVE datagram \in Seq(Byte)
  BY <1>7 DEF FlippedOnce, IsFlipped
<1>8. ASSUME FlippedTwice(e) PROVE datagram \in Seq(Byte)
  BY <1>8 DEF FlippedTwice, IsFlipped
<1> QED
  BY <1>1, <1>3, <1>4, <1>5, <1>6, <1>7, <1>8 DEF Delivered

\* What the receiver makes of what arrives.
LEMMA ArrivedDecoded ==
  ASSUME PathInv, phase = "decoded"
  PROVE  /\ Acceptable(datagram) =>
              result = [error |-> "none", packet |-> {PacketOf(datagram)}]
         /\ ~Acceptable(datagram) => result.error # "none"
<1>1. result = Decode(datagram)
  BY DEF PathInv
<1>2. datagram \in Seq(Byte)
  BY ArrivedTyped
<1> QED
  BY <1>1, <1>2, DecodeIs

\* An untouched datagram is accepted and decoded to the packet that was sent.
LEMMA SentIsReceived ==
  ASSUME PathInv, phase = "decoded", harm = {}
  PROVE  Acceptable(datagram) /\ PacketOf(datagram) = source
<1>1. PICK e : e = Encode(source) /\ Delivered(e) /\ IsPacket(source)
  BY DEF PathInv
<1>2. IsEncoded(e, source) /\ datagram = e
  BY <1>1, EncodeIs, NothingYet
<1>3. source = [type |-> source.type, number |-> source.number,
                payload |-> source.payload]
  BY DEF PathInv, SourceTyped
<1> QED
  BY <1>1, <1>2, <1>3, EncodedAccepted

\* decode_packet is the inverse of encode_packet: it gives back what was sent
\* when nothing happened on the way, and accepts nothing that encode_packet
\* would not write for the packet it returns.
THEOREM DecodeProved == Spec => []DecodeInvertsEncode
<1>1. PathInv => DecodeInvertsEncode
  <2> SUFFICES ASSUME PathInv, phase = "decoded"
               PROVE  /\ harm = {} =>
                           result = [error |-> "none", packet |-> {source}]
                      /\ result.error = "none" =>
                           \A p \in result.packet :
                             Encodable(p) /\ datagram = Encode(p)
    BY DEF DecodeInvertsEncode
  <2>1. ASSUME harm = {}
        PROVE  result = [error |-> "none", packet |-> {source}]
    BY <2>1, SentIsReceived, ArrivedDecoded
  <2>2. ASSUME result.error = "none", NEW p \in result.packet
        PROVE  Encodable(p) /\ datagram = Encode(p)
    <3>1. Acceptable(datagram) /\ datagram \in Seq(Byte)
      BY <2>2, ArrivedDecoded, ArrivedTyped
    <3>2. p = PacketOf(datagram)
      BY <2>2, <3>1, ArrivedDecoded
    <3> QED
      BY <3>1, <3>2, AcceptedIsEncoded DEF IsPacket, Encodable
  <2> QED
    BY <2>1, <2>2
<1> QED
  BY <1>1, HarmTraced, PTL

\* Every cut, every padding, every one or two inverted bits and the simulator's
\* corruption are noticed, the last by the checksum.
THEOREM HarmProved == Spec => []HarmIsNoticed
<1>1. PathInv => HarmIsNoticed
  <2> SUFFICES ASSUME PathInv, phase = "decoded", harm # {}
               PROVE  /\ result.error # "none"
                      /\ harm = {<<"corrupt">>} => result.error = "crc"
    BY DEF HarmIsNoticed
  <2>1. ~Acceptable(datagram)
    BY AcceptedUntouched DEF Untouched
  <2>2. result.error # "none"
    BY <2>1, ArrivedDecoded
  <2>3. ASSUME harm = {<<"corrupt">>} PROVE result.error = "crc"
    <3>1. PICK e : e = Encode(source) /\ Delivered(e) /\ IsPacket(source)
      BY DEF PathInv
    <3>2. IsEncoded(e, source)
      BY <3>1, EncodeIs
    <3>3. ~Cut(e) /\ ~Padded(e) /\ ~Untouched(e)
      <4>1. \A h \in harm : h[1] = "corrupt"
        BY <2>3
      <4>2. \A n, byte : <<"cut", n>>[1] = "cut" /\ <<"pad", byte>>[1] = "pad"
        OBVIOUS
      <4> QED
        BY <4>1, <4>2 DEF Cut, Padded, Untouched
    <3>4. ~FlippedOnce(e) /\ ~FlippedTwice(e)
      <4>1. \A h \in harm : h[1] = "corrupt"
        BY <2>3
      <4>2. \A i, b : <<"flip", i, b>>[1] = "flip"
        OBVIOUS
      <4> QED
        BY <4>1, <4>2 DEF FlippedOnce, FlippedTwice
    <3>5. IsFlipped(datagram, e, {<<Len(e), 0>>})
      BY <3>1, <3>3, <3>4 DEF Delivered, Corrupted
    <3>6. Decode(datagram).error = "crc"
      BY <3>1, <3>2, <3>5, CorruptNoticed
    <3> QED
      BY <3>6 DEF PathInv
  <2> QED
    BY <2>2, <2>3
<1> QED
  BY <1>1, HarmTraced, PTL
=============================================================================
