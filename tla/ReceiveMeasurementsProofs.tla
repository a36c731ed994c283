---------------------- MODULE ReceiveMeasurementsProofs ----------------------
(***************************************************************************)
(* Proofs about ReceiveMeasurements, for every capacity of the ring and    *)
(* any number of packets.                                                  *)
(***************************************************************************)
EXTENDS ReceiveMeasurements, SequenceTheorems, FiniteSetTheorems, TLAPS

Arrival == [receive : Times, source : Times]

\* The slot of the ring that was written k packets ago, the latest one 1 ago.
Slot(k) == IF k <= index THEN index - k ELSE index + Capacity - k

\* m is the largest receive timestamp of the first i packets.
IsClamped(m, i) ==
  /\ \E j \in 1..i : arrivals[j].receive = m
  /\ \A j \in 1..i : arrivals[j].receive <= m

\* The packets whose timestamps can be compared, and what they took.
Sane == {i \in DOMAIN arrivals : arrivals[i].source <= arrivals[i].receive}
Latency(i) == arrivals[i].receive - arrivals[i].source

\* The ring holds the most recent clamped timestamps.
RingInv ==
  LET n == Len(arrivals) IN
  /\ \A i \in 1..n : Clamped[i] \in Times /\ IsClamped(Clamped[i], i)
  /\ n > 0 => first = Clamped[1] /\ last = Clamped[n]
  /\ n = 0 => last = 0
  /\ count = IF n < Capacity THEN n ELSE Capacity
  /\ count < Capacity => index = count
  /\ \A k \in 1..count : ring[Slot(k)] = Clamped[n - k + 1]

\* The latencies are those of the packets that can be compared.
LatencyInv ==
  /\ maximum = 0 \/ \E i \in Sane : maximum = Latency(i)
  /\ \A i \in Sane : Latency(i) <= maximum
  /\ anomalies = Len(arrivals) - Cardinality(Sane)
  /\ arrivals # <<>> =>
       latest = IF Len(arrivals) \in Sane THEN Latency(Len(arrivals)) ELSE 0
-----------------------------------------------------------------------------
(* Numbers.                                                                *)

\* The largest of a set of numbers.
LEMMA MaxIs ==
  ASSUME NEW S \in SUBSET Int, NEW m \in S, \A y \in S : y <= m
  PROVE  Max(S) = m
<1>1. \A y \in S : m >= y
  OBVIOUS
<1>2. \A x \in S : (\A y \in S : x >= y) => x = m
  <2> SUFFICES ASSUME NEW x \in S, \A y \in S : x >= y PROVE x = m
    OBVIOUS
  <2>1. x >= m /\ x <= m /\ x \in Int /\ m \in Int
    OBVIOUS
  <2> QED
    BY <2>1
<1> QED
  BY <1>1, <1>2 DEF Max

\* The larger and the smaller of two numbers.
LEMMA OfTwo ==
  ASSUME NEW a \in Int, NEW b \in Int
  PROVE  /\ Max({a, b}) = IF a >= b THEN a ELSE b
         /\ Min({a, b}) = IF a <= b THEN a ELSE b
<1>1. PICK m : m = IF a >= b THEN a ELSE b
  OBVIOUS
<1>2. m \in {a, b} /\ \A y \in {a, b} : y <= m
  BY <1>1
<1>3. Max({a, b}) = m
  BY <1>2, MaxIs
<1>4. PICK l : l = IF a <= b THEN a ELSE b
  OBVIOUS
<1>5. l \in {a, b} /\ \A y \in {a, b} : l <= y
  BY <1>4
<1>6. \A x \in {a, b} : (\A y \in {a, b} : x <= y) => x = l
  BY <1>5
<1>7. Min({a, b}) = l
  BY <1>5, <1>6 DEF Min
<1> QED
  BY <1>1, <1>3, <1>4, <1>7

\* An index of the ring wraps once at most.
LEMMA Wraps ==
  ASSUME NEW C \in Nat \ {0}, NEW x \in 0..(C + C - 1)
  PROVE  x % C = IF x < C THEN x ELSE x - C
<1>1. \A k \in Int : \A r \in 0..(C - 1) : (k * C + r) % C = r
  OBVIOUS
<1>2. CASE x < C
  <2>1. x \in 0..(C - 1) /\ 0 * C + x = x
    BY <1>2
  <2> QED
    BY <2>1, <1>1, <1>2
<1>3. CASE ~(x < C)
  <2>1. x - C \in 0..(C - 1) /\ 1 * C + (x - C) = x
    BY <1>3
  <2> QED
    BY <2>1, <1>1, <1>3
<1> QED
  BY <1>2, <1>3

\* The slots written before the next one are those of the ring, all different.
LEMMA Slots ==
  ASSUME TypeOK, NEW k \in 1..Capacity
  PROVE  /\ Slot(k) \in 0..(Capacity - 1)
         /\ Slot(k) = index <=> k = Capacity
         /\ (index + Capacity - k) % Capacity = Slot(k)
<1>1. Capacity \in Nat \ {0} /\ index \in 0..(Capacity - 1)
  BY MeasurementAssumption DEF TypeOK
<1>2. Slot(k) \in 0..(Capacity - 1) /\ (Slot(k) = index <=> k = Capacity)
  BY <1>1 DEF Slot
<1>3. (index + Capacity - k) % Capacity = Slot(k)
  <2>1. PICK x : x = index + Capacity - k
    OBVIOUS
  <2>2. x \in 0..(Capacity + Capacity - 1)
    BY <2>1, <1>1
  <2>3. x % Capacity = IF x < Capacity THEN x ELSE x - Capacity
    BY <2>2, <1>1, Wraps
  <2> QED
    BY <2>1, <2>3, <1>1 DEF Slot
<1> QED
  BY <1>2, <1>3
-----------------------------------------------------------------------------
(* What record_packet does.                                                *)

\* The effects of the packet after n others, clamped to time.
Records(receive, source, time, n) ==
  /\ time \in Times /\ n \in Nat
  /\ first' = IF n = 0 THEN time ELSE first
  /\ last' = time
  /\ ring' = [ring EXCEPT ![index] = time]
  /\ index' = IF index + 1 = Capacity THEN 0 ELSE index + 1
  /\ count' = IF count < Capacity THEN count + 1 ELSE Capacity
  /\ latest' = IF source > receive THEN 0 ELSE receive - source
  /\ anomalies' = IF source > receive THEN anomalies + 1 ELSE anomalies
  /\ maximum' = IF source > receive \/ maximum >= receive - source
                THEN maximum ELSE receive - source
  /\ arrivals' \in Seq(Arrival) /\ Len(arrivals') = n + 1
  /\ arrivals'[n + 1] = [receive |-> receive, source |-> source]
  /\ \A i \in 1..n : arrivals'[i] = arrivals[i]

\* What record_packet does, without the libraries' operators.
LEMMA RecordDoes ==
  ASSUME TypeOK, NEW receive \in Times, NEW source \in Times,
         RecordPacket(receive, source),
         NEW time, time = IF receive >= last THEN receive ELSE last,
         NEW n, n = Len(arrivals)
  PROVE  Records(receive, source, time, n)
<1>1. /\ Capacity \in Nat \ {0} /\ MaxTime \in Nat
      /\ index \in 0..(Capacity - 1) /\ count \in 0..Capacity
      /\ last \in Times /\ maximum \in Times
      /\ arrivals \in Seq(Arrival)
  BY MeasurementAssumption DEF TypeOK, Arrival
<1>2. receive \in Nat /\ source \in Nat /\ last \in Nat /\ maximum \in Nat
  BY <1>1 DEF Times
<1>3. Max({receive, last}) = time
  BY <1>2, OfTwo
<1>4. time \in Times
  BY <1>1
<1>5. PICK e : e = [receive |-> receive, source |-> source]
  OBVIOUS
<1>6. e \in Arrival /\ arrivals' = Append(arrivals, e)
  BY <1>5 DEF Arrival, RecordPacket
<1>7. /\ arrivals' \in Seq(Arrival) /\ Len(arrivals') = n + 1
      /\ arrivals'[n + 1] = e
      /\ \A i \in 1..n : arrivals'[i] = arrivals[i]
  BY <1>1, <1>6, AppendProperties
<1>8. n \in Nat /\ (arrivals = <<>> <=> n = 0)
  BY <1>1, LenProperties, EmptySeq
<1>9. /\ first' = IF n = 0 THEN time ELSE first
      /\ last' = time
  BY <1>3, <1>8 DEF RecordPacket
<1>10. /\ ring' = [ring EXCEPT ![index] = time]
       /\ index' = (index + 1) % Capacity
       /\ count' = Min({count + 1, Capacity})
  BY <1>3 DEF RecordPacket, RecordRecentTimestamp
<1>11. index' = IF index + 1 = Capacity THEN 0 ELSE index + 1
  <2>1. PICK x : x = index + 1
    OBVIOUS
  <2>2. x \in 0..(Capacity + Capacity - 1)
    BY <2>1, <1>1
  <2>3. x % Capacity = IF x < Capacity THEN x ELSE x - Capacity
    BY <2>2, <1>1, Wraps
  <2> QED
    BY <2>1, <2>3, <1>1, <1>10
<1>12. count' = IF count < Capacity THEN count + 1 ELSE Capacity
  <2>1. PICK c \in Int : c = count + 1
    BY <1>1
  <2>2. Min({c, Capacity}) = IF c <= Capacity THEN c ELSE Capacity
    <3>1. Capacity \in Int
      BY <1>1
    <3> QED
      BY <3>1, OfTwo
  <2> QED
    BY <2>1, <2>2, <1>1, <1>10
<1>13. /\ latest' = IF source > receive THEN 0 ELSE receive - source
       /\ anomalies' = IF source > receive THEN anomalies + 1 ELSE anomalies
       /\ maximum' = IF source > receive \/ maximum >= receive - source
                     THEN maximum ELSE receive - source
  <2>1. RecordLatency(receive, source)
    BY DEF RecordPacket
  <2>2. CASE source > receive
    BY <2>1, <2>2 DEF RecordLatency
  <2>3. CASE ~(source > receive)
    <3>1. /\ latest' = receive - source /\ anomalies' = anomalies
          /\ maximum' = Max({maximum, latest'})
      BY <2>1, <2>3 DEF RecordLatency
    <3>2. Max({maximum, receive - source})
            = IF maximum >= receive - source THEN maximum ELSE receive - source
      BY <1>2, OfTwo
    <3> QED
      BY <3>1, <3>2, <2>3
  <2> QED
    BY <2>2, <2>3
<1> QED
  BY <1>4, <1>5, <1>7, <1>8, <1>9, <1>10, <1>11, <1>12, <1>13 DEF Records

\* The type is kept.
LEMMA TypeStep ==
  ASSUME TypeOK, NEW receive \in Times, NEW source \in Times,
         RecordPacket(receive, source)
  PROVE  TypeOK'
<1>1. PICK n, time : /\ n = Len(arrivals)
                     /\ time = IF receive >= last THEN receive ELSE last
  OBVIOUS
<1>2. /\ Capacity \in Nat \ {0} /\ MaxTime \in Nat
      /\ index \in 0..(Capacity - 1) /\ count \in 0..Capacity
      /\ ring \in [0..(Capacity - 1) -> Times]
      /\ first \in Times /\ latest \in Times /\ maximum \in Times
      /\ anomalies \in Nat
  BY MeasurementAssumption DEF TypeOK
<1>a. Records(receive, source, time, n)
  BY <1>1, RecordDoes
<1>3. /\ time \in Times
      /\ first' = IF n = 0 THEN time ELSE first
      /\ last' = time
      /\ ring' = [ring EXCEPT ![index] = time]
      /\ index' = IF index + 1 = Capacity THEN 0 ELSE index + 1
      /\ count' = IF count < Capacity THEN count + 1 ELSE Capacity
      /\ latest' = IF source > receive THEN 0 ELSE receive - source
      /\ anomalies' = IF source > receive THEN anomalies + 1 ELSE anomalies
      /\ maximum' = IF source > receive \/ maximum >= receive - source
                    THEN maximum ELSE receive - source
      /\ arrivals' \in Seq(Arrival)
  BY <1>a DEF Records
<1>4. ring' \in [0..(Capacity - 1) -> Times]
  BY <1>2, <1>3
<1>5. count' \in 0..Capacity /\ index' \in 0..(Capacity - 1) /\ anomalies' \in Nat
  BY <1>2, <1>3
<1>6. /\ first' \in Times /\ last' \in Times /\ latest' \in Times
      /\ maximum' \in Times
  BY <1>2, <1>3 DEF Times
<1> QED
  BY <1>3, <1>4, <1>5, <1>6 DEF TypeOK, Arrival

\* The clamped timestamp of a packet is the largest so far.
LEMMA ClampedIs ==
  ASSUME arrivals \in Seq(Arrival), NEW i \in 1..Len(arrivals), NEW m \in Int,
         IsClamped(m, i)
  PROVE  Clamped[i] = m
<1> DEFINE S == {arrivals[j].receive : j \in 1..i}
<1>1. Len(arrivals) \in Nat /\ DOMAIN arrivals = 1..Len(arrivals)
  BY LenProperties
<1>2. Clamped[i] = Max(S)
  BY <1>1 DEF Clamped
<1>3. \A j \in 1..i : arrivals[j].receive \in Int
  <2>1. \A j \in 1..i : j \in 1..Len(arrivals)
    BY <1>1
  <2>2. \A j \in 1..i : arrivals[j] \in Arrival
    BY <2>1, ElementOfSeq
  <2> QED
    BY <2>2, MeasurementAssumption DEF Arrival, Times
<1>4. S \in SUBSET Int
  BY <1>3
<1>5. m \in S /\ \A y \in S : y <= m
  BY DEF IsClamped
<1> HIDE DEF S
<1>6. Max(S) = m
  BY <1>4, <1>5, MaxIs
<1> QED
  BY <1>2, <1>6

\* So it is for every packet.
LEMMA AllClamped ==
  arrivals \in Seq(Arrival) =>
    \A i \in 1..Len(arrivals) : \A m \in Int : IsClamped(m, i) => Clamped[i] = m
  BY ClampedIs

\* The ring goes on with the clamped timestamp of the packet.
LEMMA RingStep ==
  ASSUME TypeOK, RingInv, NEW receive \in Times, NEW source \in Times,
         RecordPacket(receive, source)
  PROVE  RingInv'
<1>1. PICK n, time : /\ n = Len(arrivals)
                     /\ time = IF receive >= last THEN receive ELSE last
  OBVIOUS
<1>2. /\ Capacity \in Nat \ {0} /\ index \in 0..(Capacity - 1)
      /\ count \in 0..Capacity /\ ring \in [0..(Capacity - 1) -> Times]
      /\ last \in Nat /\ receive \in Nat /\ arrivals \in Seq(Arrival)
  BY MeasurementAssumption DEF TypeOK, Arrival, Times
<1>a. Records(receive, source, time, n)
  BY <1>1, RecordDoes
<1>3. /\ time \in Times /\ time \in Nat /\ n \in Nat
      /\ first' = IF n = 0 THEN time ELSE first
      /\ last' = time
      /\ ring' = [ring EXCEPT ![index] = time]
      /\ index' = IF index + 1 = Capacity THEN 0 ELSE index + 1
      /\ count' = IF count < Capacity THEN count + 1 ELSE Capacity
      /\ arrivals' \in Seq(Arrival) /\ Len(arrivals') = n + 1
      /\ arrivals'[n + 1].receive = receive
      /\ \A i \in 1..n : arrivals'[i] = arrivals[i]
  BY <1>1, <1>2, <1>a DEF Records, Times
<1>4. /\ \A i \in 1..n : Clamped[i] \in Times /\ IsClamped(Clamped[i], i)
      /\ n > 0 => first = Clamped[1] /\ last = Clamped[n]
      /\ n = 0 => last = 0
      /\ count = IF n < Capacity THEN n ELSE Capacity
      /\ count < Capacity => index = count
      /\ \A k \in 1..count : ring[Slot(k)] = Clamped[n - k + 1]
  BY <1>1 DEF RingInv
<1>5. \A i \in 1..n : \A m : IsClamped(m, i) => IsClamped(m, i)'
  <2> SUFFICES ASSUME NEW i \in 1..n, NEW m, IsClamped(m, i)
               PROVE  /\ \E j \in 1..i : arrivals'[j].receive = m
                      /\ \A j \in 1..i : arrivals'[j].receive <= m
    BY DEF IsClamped
  <2>1. \A j \in 1..i : arrivals'[j] = arrivals[j]
    BY <1>3
  <2> QED
    BY <2>1 DEF IsClamped
<1>6. \A i \in 1..(n + 1) : \A m \in Int : IsClamped(m, i)' => Clamped'[i] = m
  <2>1. (arrivals \in Seq(Arrival) =>
           \A i \in 1..Len(arrivals) : \A m \in Int :
             IsClamped(m, i) => Clamped[i] = m)'
    BY AllClamped, PTL
  <2> QED
    BY <2>1, <1>3
<1>7. \A i \in 1..n : /\ Clamped[i] \in Times /\ Clamped[i] \in Nat
                     /\ Clamped'[i] = Clamped[i] /\ IsClamped(Clamped[i], i)'
  <2> SUFFICES ASSUME NEW i \in 1..n
               PROVE  /\ Clamped[i] \in Times /\ Clamped[i] \in Nat
                      /\ Clamped'[i] = Clamped[i] /\ IsClamped(Clamped[i], i)'
    OBVIOUS
  <2>1. PICK m : m = Clamped[i]
    OBVIOUS
  <2>2. m \in Times /\ m \in Nat /\ IsClamped(m, i)
    BY <2>1, <1>4, MeasurementAssumption DEF Times
  <2>3. IsClamped(m, i)'
    BY <2>2, <1>5
  <2>4. i \in 1..(n + 1)
    BY <1>3
  <2>5. Clamped'[i] = m
    BY <2>2, <2>3, <2>4, <1>6
  <2>6. IsClamped(Clamped[i], i)'
    BY <2>3, <2>5 DEF IsClamped
  <2> QED
    BY <2>1, <2>2, <2>5, <2>6
<1>8. Clamped'[n + 1] = time /\ IsClamped(time, n + 1)'
  <2>1. \A j \in 1..(n + 1) : j \in 1..n \/ j = n + 1
    BY <1>3
  <2>2. n + 1 \in 1..(n + 1) /\ \A j \in 1..n : j \in 1..(n + 1)
    BY <1>3
  <2>3. \A j \in 1..n : arrivals'[j].receive \in Nat /\ arrivals'[j].receive <= last
    <3> SUFFICES ASSUME NEW j \in 1..n
                 PROVE  arrivals'[j].receive \in Nat /\ arrivals'[j].receive <= last
      OBVIOUS
    <3>1. n > 0 /\ n \in 1..n
      BY <1>3
    <3>2. IsClamped(last, n)
      BY <3>1, <1>4
    <3>3. arrivals'[j] = arrivals[j] /\ arrivals[j].receive <= last
      BY <3>2, <1>3 DEF IsClamped
    <3>4. arrivals'[j] \in Arrival
      BY <2>2, <1>3, ElementOfSeq
    <3> QED
      BY <3>3, <3>4, MeasurementAssumption DEF Arrival, Times
  <2>4. \A j \in 1..(n + 1) : arrivals'[j].receive <= time
    <3>1. receive <= time /\ last <= time
      BY <1>1, <1>2
    <3>2. \A j \in 1..n : arrivals'[j].receive <= time
      BY <2>3, <3>1, <1>2, <1>3
    <3> QED
      BY <2>1, <3>1, <3>2, <1>3
  <2>5. \E j \in 1..(n + 1) : arrivals'[j].receive = time
    <3>1. CASE time = receive
      BY <3>1, <2>2, <1>3
    <3>2. CASE time # receive
      <4>1. time = last /\ n > 0
        BY <3>2, <1>1, <1>2, <1>3, <1>4
      <4>2. n \in 1..n
        BY <4>1, <1>3
      <4>3. IsClamped(last, n)
        BY <4>1, <4>2, <1>4
      <4>4. PICK j \in 1..n : arrivals[j].receive = last
        BY <4>3 DEF IsClamped
      <4> QED
        BY <4>1, <4>4, <2>2, <1>3
    <3> QED
      BY <3>1, <3>2
  <2>6. IsClamped(time, n + 1)'
    BY <2>4, <2>5 DEF IsClamped
  <2> QED
    BY <2>2, <2>6, <1>3, <1>6
<1>9. \A i \in 1..(n + 1) : Clamped'[i] \in Times /\ IsClamped(Clamped[i], i)'
  <2> SUFFICES ASSUME NEW i \in 1..(n + 1)
               PROVE  Clamped'[i] \in Times /\ IsClamped(Clamped[i], i)'
    OBVIOUS
  <2>1. CASE i \in 1..n
    BY <2>1, <1>7
  <2>2. CASE i = n + 1
    <3>1. Clamped'[i] = time /\ time \in Times
      BY <2>2, <1>3, <1>8
    <3>2. IsClamped(Clamped[i], i)'
      BY <2>2, <3>1, <1>8 DEF IsClamped
    <3> QED
      BY <3>1, <3>2
  <2> QED
    BY <2>1, <2>2, <1>3
<1>10. first' = Clamped'[1] /\ last' = Clamped'[n + 1]
  <2>1. CASE n = 0
    BY <2>1, <1>3, <1>8
  <2>2. CASE n # 0
    <3>1. n > 0 /\ 1 \in 1..n
      BY <2>2, <1>3
    <3> QED
      BY <3>1, <2>2, <1>3, <1>4, <1>7, <1>8
  <2> QED
    BY <2>1, <2>2
<1>11. /\ count' = IF n + 1 < Capacity THEN n + 1 ELSE Capacity
       /\ count' < Capacity => index' = count'
       /\ count' <= count + 1 /\ count' <= Capacity /\ count <= n /\ count' \in Nat
  BY <1>2, <1>3, <1>4
<1>12. \A k \in 1..count' :
         ring'[IF k <= index' THEN index' - k ELSE index' + Capacity - k]
           = Clamped'[(n + 1) - k + 1]
  <2> SUFFICES ASSUME NEW k \in 1..count'
               PROVE  ring'[IF k <= index' THEN index' - k
                                           ELSE index' + Capacity - k]
                        = Clamped'[(n + 1) - k + 1]
    OBVIOUS
  <2>1. PICK x : x = IF k <= index' THEN index' - k ELSE index' + Capacity - k
    OBVIOUS
  <2>2. CASE k = 1
    <3>1. x = index
      BY <2>1, <2>2, <1>2, <1>3
    <3>2. (n + 1) - k + 1 = n + 1
      BY <2>2, <1>3
    <3>3. ring'[index] = time
      BY <1>2, <1>3
    <3> QED
      BY <2>1, <3>1, <3>2, <3>3, <1>8
  <2>3. CASE k # 1
    <3>1. PICK j \in Int : j = k - 1
      BY <1>11
    <3>2. /\ j \in 1..count /\ j \in 1..Capacity /\ j # Capacity
          /\ (n + 1) - k + 1 = n - j + 1 /\ n - j + 1 \in 1..n
      BY <2>3, <3>1, <1>2, <1>3, <1>11
    <3>3. x = Slot(j)
      BY <2>1, <2>3, <3>1, <3>2, <1>2, <1>3 DEF Slot
    <3>4. Slot(j) \in 0..(Capacity - 1) /\ Slot(j) # index
      BY <3>2, Slots
    <3>5. ring'[Slot(j)] = ring[Slot(j)]
      BY <3>4, <1>2, <1>3
    <3>6. ring[Slot(j)] = Clamped[n - j + 1]
      BY <3>2, <1>4
    <3>7. Clamped'[n - j + 1] = Clamped[n - j + 1]
      BY <3>2, <1>7
    <3> QED
      BY <2>1, <3>2, <3>3, <3>5, <3>6, <3>7
  <2> QED
    BY <2>2, <2>3
<1>13. \A k \in 1..count' : (ring[Slot(k)])' = Clamped'[(n + 1) - k + 1]
  BY <1>12 DEF Slot
<1> QED
  BY <1>3, <1>9, <1>10, <1>11, <1>13 DEF RingInv

\* The latencies go on with that of the packet.
LEMMA LatencyStep ==
  ASSUME TypeOK, LatencyInv, NEW receive \in Times, NEW source \in Times,
         RecordPacket(receive, source)
  PROVE  LatencyInv'
<1>1. PICK n, time : /\ n = Len(arrivals)
                     /\ time = IF receive >= last THEN receive ELSE last
  OBVIOUS
<1>a. Records(receive, source, time, n)
  BY <1>1, RecordDoes
<1>2. /\ maximum \in Nat /\ receive \in Nat /\ source \in Nat /\ anomalies \in Nat
      /\ arrivals \in Seq(Arrival)
  BY MeasurementAssumption DEF TypeOK, Arrival, Times
<1>3. /\ n \in Nat
      /\ latest' = IF source > receive THEN 0 ELSE receive - source
      /\ anomalies' = IF source > receive THEN anomalies + 1 ELSE anomalies
      /\ maximum' = IF source > receive \/ maximum >= receive - source
                    THEN maximum ELSE receive - source
      /\ arrivals' \in Seq(Arrival) /\ Len(arrivals') = n + 1
      /\ arrivals'[n + 1].receive = receive /\ arrivals'[n + 1].source = source
      /\ \A i \in 1..n : arrivals'[i] = arrivals[i]
  BY <1>a DEF Records
<1>4. DOMAIN arrivals = 1..n /\ DOMAIN arrivals' = 1..(n + 1) /\ n + 1 \notin 1..n
  BY <1>1, <1>2, <1>3, LenProperties
<1>5. \A i \in 1..(n + 1) : i \in 1..n \/ i = n + 1
  BY <1>3
<1>6. Sane' = IF source <= receive THEN Sane \cup {n + 1} ELSE Sane
  <2>1. \A i \in 1..n : i \in 1..(n + 1)
    BY <1>3
  <2>2. \A i : i \in Sane' <=> /\ i \in 1..n \/ i = n + 1
                               /\ arrivals'[i].source <= arrivals'[i].receive
    <3>1. n + 1 \in 1..(n + 1)
      BY <1>3
    <3> QED
      BY <3>1, <2>1, <1>4, <1>5 DEF Sane
  <2>3. \A i : i \in Sane <=> /\ i \in 1..n
                              /\ arrivals[i].source <= arrivals[i].receive
    BY <1>4 DEF Sane
  <2> QED
    BY <2>2, <2>3, <1>3, <1>4
<1>7. /\ Sane \subseteq 1..n /\ IsFiniteSet(Sane) /\ Cardinality(Sane) \in Nat
      /\ n + 1 \notin Sane
  <2>1. IsFiniteSet(1..n)
    BY <1>3, FS_Interval
  <2>2. Sane \subseteq 1..n
    BY <1>4 DEF Sane
  <2> QED
    BY <2>1, <2>2, <1>4, FS_Subset, FS_CardinalityType
<1>8. \A i \in Sane : Latency(i)' = Latency(i) /\ Latency(i) \in Nat
  <2> SUFFICES ASSUME NEW i \in Sane
               PROVE  Latency(i)' = Latency(i) /\ Latency(i) \in Nat
    OBVIOUS
  <2>1. i \in 1..n /\ arrivals[i].source <= arrivals[i].receive
    BY <1>7 DEF Sane
  <2>2. arrivals[i].source \in Nat /\ arrivals[i].receive \in Nat
    <3>1. arrivals[i] \in Arrival
      BY <2>1, <1>1, <1>2, ElementOfSeq
    <3> QED
      BY <3>1, MeasurementAssumption DEF Arrival, Times
  <2>3. arrivals'[i] = arrivals[i]
    BY <2>1, <1>3
  <2> QED
    BY <2>1, <2>2, <2>3 DEF Latency
<1>9. Latency(n + 1)' = receive - source
  BY <1>3 DEF Latency
<1>10. /\ maximum = 0 \/ \E i \in Sane : maximum = Latency(i)
       /\ \A i \in Sane : Latency(i) <= maximum
       /\ anomalies = n - Cardinality(Sane)
  BY <1>1 DEF LatencyInv
<1>11. CASE source > receive
  <2>1. Sane' = Sane /\ maximum' = maximum
    BY <1>2, <1>3, <1>6, <1>11
  <2>2. maximum' = 0 \/ \E i \in Sane' : maximum' = Latency(i)'
    BY <2>1, <1>8, <1>10
  <2>3. \A i \in Sane' : Latency(i)' <= maximum'
    BY <2>1, <1>8, <1>10
  <2>4. anomalies' = Len(arrivals') - Cardinality(Sane')
    BY <2>1, <1>3, <1>7, <1>10, <1>11
  <2>5. latest' = 0 /\ Len(arrivals') \notin Sane'
    BY <2>1, <1>3, <1>7, <1>11
  <2> QED
    BY <2>2, <2>3, <2>4, <2>5 DEF LatencyInv
<1>12. CASE ~(source > receive)
  <2>1. /\ Sane' = Sane \cup {n + 1} /\ anomalies' = anomalies
        /\ latest' = receive - source
        /\ maximum' = IF maximum >= receive - source
                      THEN maximum ELSE receive - source
    BY <1>2, <1>3, <1>6, <1>12
  <2>2. maximum' = 0 \/ \E i \in Sane' : maximum' = Latency(i)'
    <3>1. CASE maximum' = receive - source
      BY <3>1, <2>1, <1>9
    <3>2. CASE maximum' = maximum
      BY <3>2, <2>1, <1>8, <1>10
    <3> QED
      BY <3>1, <3>2, <2>1
  <2>3. \A i \in Sane' : Latency(i)' <= maximum'
    <3>1. receive - source <= maximum' /\ maximum <= maximum' /\ maximum' \in Int
      BY <2>1, <1>2
    <3>2. \A i \in Sane : Latency(i)' <= maximum'
      BY <3>1, <1>2, <1>8, <1>10
    <3> QED
      BY <3>1, <3>2, <2>1, <1>9
  <2>4. anomalies' = Len(arrivals') - Cardinality(Sane')
    <3>1. Cardinality(Sane \cup {n + 1}) = Cardinality(Sane) + 1
      BY <1>7, FS_AddElement
    <3> QED
      BY <3>1, <2>1, <1>3, <1>7, <1>10
  <2>5. latest' = Latency(n + 1)' /\ Len(arrivals') \in Sane' /\ Len(arrivals') = n + 1
    BY <2>1, <1>3, <1>9
  <2>6. latest' = Latency(Len(arrivals))'
    BY <2>5 DEF Latency
  <2> QED
    BY <2>2, <2>3, <2>4, <2>5, <2>6 DEF LatencyInv
<1> QED
  BY <1>11, <1>12

\* A monitor starts without packets.
LEMMA MeasurementsStart ==
  ASSUME Init
  PROVE  TypeOK /\ RingInv /\ LatencyInv
<1>1. /\ ring = [i \in 0..(Capacity - 1) |-> 0]
      /\ count = 0 /\ index = 0 /\ first = 0 /\ last = 0
      /\ latest = 0 /\ maximum = 0 /\ anomalies = 0 /\ arrivals = <<>>
  BY DEF Init
<1>2. Capacity \in Nat \ {0} /\ 0 \in Times
  BY MeasurementAssumption DEF Times
<1>3. arrivals \in Seq(Arrival) /\ Len(arrivals) = 0 /\ DOMAIN arrivals = {}
  BY <1>1, EmptySeq
<1>4. ring \in [0..(Capacity - 1) -> Times]
  BY <1>1, <1>2
<1>5. TypeOK
  BY <1>1, <1>2, <1>3, <1>4 DEF TypeOK, Arrival
<1>6. RingInv
  BY <1>1, <1>2, <1>3 DEF RingInv
<1>7. Sane = {} /\ Cardinality({}) = 0
  BY <1>3, FS_EmptySet DEF Sane
<1>8. LatencyInv
  BY <1>1, <1>3, <1>7 DEF LatencyInv
<1> QED
  BY <1>5, <1>6, <1>8

\* The state of the measurements in every reachable state.
THEOREM MeasurementsTyping == Spec => [](TypeOK /\ RingInv /\ LatencyInv)
<1>1. TypeOK /\ RingInv /\ LatencyInv /\ [Next]_vars
        => TypeOK' /\ RingInv' /\ LatencyInv'
  <2> SUFFICES ASSUME TypeOK, RingInv, LatencyInv, [Next]_vars
               PROVE  TypeOK' /\ RingInv' /\ LatencyInv'
    OBVIOUS
  <2>1. CASE UNCHANGED vars
    <3>1. /\ UNCHANGED <<ring, count, index, first, last, latest, maximum>>
          /\ UNCHANGED <<anomalies, arrivals>>
      BY <2>1 DEF vars
    <3>2. TypeOK'
      BY <3>1 DEF TypeOK
    <3>3. RingInv'
      <4>1. Clamped' = Clamped
        BY <3>1 DEF Clamped
      <4>2. \A i \in 1..Len(arrivals') :
              Clamped'[i] \in Times /\ IsClamped(Clamped[i], i)'
        BY <3>1, <4>1 DEF RingInv, IsClamped
      <4>3. \A k : Slot(k)' = Slot(k)
        BY <3>1 DEF Slot
      <4>4. \A k \in 1..count' :
              ring'[Slot(k)'] = Clamped'[Len(arrivals') - k + 1]
        BY <3>1, <4>1, <4>3 DEF RingInv
      <4> QED
        BY <3>1, <4>1, <4>2, <4>4 DEF RingInv
    <3>4. LatencyInv'
      BY <3>1 DEF LatencyInv, Sane, Latency
    <3> QED
      BY <3>2, <3>3, <3>4
  <2>2. ASSUME NEW receive \in Times, NEW source \in Times,
               RecordPacket(receive, source)
        PROVE  TypeOK' /\ RingInv' /\ LatencyInv'
    BY <2>2, TypeStep, RingStep, LatencyStep
  <2> QED
    BY <2>1, <2>2 DEF Next
<1> QED
  BY <1>1, MeasurementsStart, PTL DEF Spec

\* Whatever the ring has overwritten, the rate is that of the most recent
\* clamped timestamps.
LEMMA RateHolds ==
  ASSUME TypeOK, RingInv
  PROVE  RateIsOfRecentWindow
<1>1. PICK n : n = Len(arrivals)
  OBVIOUS
<1>2. /\ Capacity \in Nat \ {0} /\ index \in 0..(Capacity - 1)
      /\ arrivals \in Seq(Arrival) /\ n \in Nat
  BY <1>1, MeasurementAssumption, LenProperties DEF TypeOK, Arrival
<1>3. /\ \A i \in 1..n : Clamped[i] \in Times /\ IsClamped(Clamped[i], i)
      /\ n > 0 => first = Clamped[1] /\ last = Clamped[n]
      /\ count = IF n < Capacity THEN n ELSE Capacity
      /\ count < Capacity => index = count
      /\ \A k \in 1..count : ring[Slot(k)] = Clamped[n - k + 1]
  BY <1>1 DEF RingInv
<1>4. Min({n, Capacity}) = count
  <2>1. n \in Int /\ Capacity \in Int
    BY <1>2
  <2>2. Min({n, Capacity}) = IF n <= Capacity THEN n ELSE Capacity
    BY <2>1, OfTwo
  <2> QED
    BY <2>2, <1>2, <1>3
<1>5. CASE n > 0
  <2>1. /\ count \in 1..n /\ count \in 1..Capacity /\ 1 \in 1..count
        /\ 1 \in 1..Capacity /\ n \in 1..n /\ n - count + 1 \in 1..n
        /\ n - 1 + 1 = n
    BY <1>2, <1>3, <1>5
  <2>2. ring[(index + Capacity - 1) % Capacity] = Clamped[n]
    <3>1. (index + Capacity - 1) % Capacity = Slot(1)
      BY <2>1, Slots
    <3>2. ring[Slot(1)] = Clamped[n - 1 + 1]
      BY <2>1, <1>3
    <3> QED
      BY <2>1, <3>1, <3>2
  <2>3. ring[Oldest] = Clamped[n - count + 1]
    <3>1. Oldest = Slot(count)
      BY <2>1, <1>2, <1>3 DEF Oldest, Slot
    <3> QED
      BY <2>1, <3>1, <1>3
  <2>4. PICK newest, oldest : newest = Clamped[n] /\ oldest = Clamped[n - count + 1]
    OBVIOUS
  <2>5. newest \in Nat /\ oldest \in Nat
    BY <2>1, <2>4, <1>3 DEF Times
  <2>6. newest - oldest >= 0
    <3>1. IsClamped(newest, n) /\ IsClamped(oldest, n - count + 1)
      BY <2>1, <2>4, <1>3
    <3>2. PICK j \in 1..(n - count + 1) : arrivals[j].receive = oldest
      BY <3>1 DEF IsClamped
    <3>3. j \in 1..n
      BY <2>1, <3>2, <1>2
    <3>4. oldest <= newest
      BY <3>1, <3>2, <3>3 DEF IsClamped
    <3> QED
      BY <3>4, <2>5
  <2>7. CurrentRate = IF count < 2 \/ newest - oldest = 0
                      THEN [intervals |-> 0, elapsed |-> 0]
                      ELSE [intervals |-> count - 1, elapsed |-> newest - oldest]
    BY <2>2, <2>3, <2>4 DEF CurrentRate
  <2> QED
    BY <1>1, <1>3, <1>4, <1>5, <2>4, <2>6, <2>7 DEF RateIsOfRecentWindow
<1>6. CASE ~(n > 0)
  BY <1>1, <1>6 DEF RateIsOfRecentWindow
<1> QED
  BY <1>5, <1>6

\* The maximum is taken over the packets that can be compared.
LEMMA LatencyHolds ==
  ASSUME TypeOK, LatencyInv
  PROVE  LatencyIgnoresAnomalies
<1> DEFINE S == {Latency(i) : i \in Sane} \cup {0}
<1>1. /\ maximum = 0 \/ \E i \in Sane : maximum = Latency(i)
      /\ \A i \in Sane : Latency(i) <= maximum
      /\ anomalies = Len(arrivals) - Cardinality(Sane)
      /\ arrivals # <<>> =>
           latest = IF Len(arrivals) \in Sane THEN Latency(Len(arrivals)) ELSE 0
  BY DEF LatencyInv
<1>2. maximum \in Nat
  BY MeasurementAssumption DEF TypeOK, Times
<1>3. \A i \in Sane : Latency(i) \in Int
  <2> SUFFICES ASSUME NEW i \in Sane PROVE Latency(i) \in Int
    OBVIOUS
  <2>1. i \in DOMAIN arrivals /\ arrivals \in Seq(Arrival)
    BY DEF Sane, TypeOK, Arrival
  <2>2. arrivals[i] \in Arrival
    BY <2>1, LenProperties, ElementOfSeq
  <2> QED
    BY <2>2, MeasurementAssumption DEF Arrival, Times, Latency
<1>4. S \in SUBSET Int
  BY <1>3
<1>5. maximum \in S /\ \A y \in S : y <= maximum
  BY <1>1, <1>2
<1> HIDE DEF S
<1>6. Max(S) = maximum
  BY <1>4, <1>5, MaxIs
<1>7. Max({Latency(i) : i \in Sane} \cup {0}) = maximum
  BY <1>6 DEF S
<1> QED
  BY <1>1, <1>7 DEF LatencyIgnoresAnomalies, Sane, Latency

\* The bounded state of a source gives the rate and the latencies of its
\* complete history.
THEOREM MeasurementsProved == Spec => []MeasurementsFollowHistory
<1>1. TypeOK /\ RingInv /\ LatencyInv => MeasurementsFollowHistory
  BY RateHolds, LatencyHolds DEF MeasurementsFollowHistory
<1> QED
  BY <1>1, MeasurementsTyping, PTL
=============================================================================
