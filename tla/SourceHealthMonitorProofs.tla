---------------------- MODULE SourceHealthMonitorProofs ----------------------
(***************************************************************************)
(* Proofs about SensorStreamTracker, for every even number of sequence     *)
(* numbers, every width of the bitmap up to half of it, and any number of  *)
(* sources and packets; and about SourceHealthMonitor, which owns a        *)
(* tracker, for every set of sources, every threshold that validate_config *)
(* admits and any number of packets.                                       *)
(***************************************************************************)
EXTENDS SourceHealthMonitor, FiniteSetTheorems, SequenceTheorems, TLAPS
-----------------------------------------------------------------------------
(* The tracker.                                                            *)

\* The position of a source's highest number, and what is kept of those behind.
Placed(s) ==
  /\ top[s] % SequenceSpace = highest[s]
  /\ top[s] \in seen[s]
  /\ \A p \in seen[s] : p <= top[s]
  /\ \A b \in 0..(RecentCount - 1) : b \in recent[s] <=> top[s] - b \in seen[s]

\* Every source admitted has its place, and nothing is kept of the others.
PositionInv ==
  /\ \A s \in tracked : Placed(s)
  /\ \A s \in Sources \ tracked : seen[s] = {}

\* The positions that the sources have moved over since their first packets.
Moved == UNION {{s} \X ((base[s] + 1)..top[s]) : s \in tracked}
Accounted == stream.count["in_order"] + stream.count["gap"]

\* Every packet is counted once, a stream for every source admitted.
CountsInv ==
  /\ stream.packets = stream.count["first"] + stream.count["in_order"]
                      + stream.count["gap"] + stream.count["duplicate"]
                      + stream.count["reordered"] + stream.count["untracked"]
  /\ stream.streams = stream.count["first"]
  /\ IsFiniteSet(tracked) /\ stream.streams = Cardinality(tracked)
  /\ stream.streams <= MaxSources
  /\ stream.count["untracked"] > 0 => stream.streams = MaxSources

\* A position moved over is counted as received in order, as the end of a gap
\* or as missing.
MissingInv ==
  /\ \A s \in tracked : base[s] <= top[s]
  /\ IsFiniteSet(Moved)
  /\ Accounted <= Cardinality(Moved)
  /\ stream.missing = IF Cardinality(Moved) - Accounted > CounterMax
                      THEN CounterMax ELSE Cardinality(Moved) - Accounted
-----------------------------------------------------------------------------
(* Arithmetic modulo the number of sequence numbers.                       *)

\* A number is a multiple of the modulus and a rest.
LEMMA Parts ==
  ASSUME NEW N \in Nat \ {0}, NEW x \in Int
  PROVE  /\ x = (x \div N) * N + (x % N)
         /\ x \div N \in Int /\ x % N \in 0..(N - 1)
  OBVIOUS

\* The rest of a multiple of the modulus plus a smaller number.
LEMMA Rests ==
  ASSUME NEW N \in Nat \ {0}, NEW k \in Int, NEW r \in 0..(N - 1)
  PROVE  (k * N + r) % N = r
  OBVIOUS

\* Neighbouring multiples.
LEMMA Multiples ==
  ASSUME NEW N \in Nat \ {0}, NEW k \in Int
  PROVE  /\ k * N \in Int
         /\ (k + 1) * N = k * N + N
         /\ (k - 1) * N = k * N - N
  OBVIOUS

\* Distinct numbers with the same rest are at least the modulus apart.
LEMMA Apart ==
  ASSUME NEW N \in Nat \ {0}, NEW x \in Int, NEW y \in Int,
         x % N = y % N, x < y
  PROVE  x + N <= y
<1>0. /\ x = (x \div N) * N + (x % N) /\ x \div N \in Int /\ x % N \in Int
      /\ y = (y \div N) * N + (y % N) /\ y \div N \in Int
  BY Parts
<1>1. PICK a \in Int, b \in Int, r \in Int : x = a * N + r /\ y = b * N + r
  BY <1>0
<1>2. /\ (b - a) * N = b * N - a * N /\ (a - b) * N = a * N - b * N
      /\ a * N \in Int /\ b * N \in Int
  OBVIOUS
<1>3. \A c \in Int : c > 0 => c * N >= N
  OBVIOUS
<1>4. b - a > 0
  <2>1. CASE b - a < 0
    <3>1. a - b \in Int /\ a - b > 0
      BY <2>1
    <3>2. (a - b) * N >= N
      BY <3>1, <1>3
    <3> QED
      BY <3>2, <1>1, <1>2
  <2>2. CASE b - a = 0
    <3>1. a = b
      BY <2>2
    <3> QED
      BY <3>1, <1>1
  <2> QED
    BY <2>1, <2>2
<1>5. (b - a) * N >= N
  BY <1>3, <1>4
<1> QED
  BY <1>1, <1>2, <1>5

\* The parameters: half of the range, and a bitmap that is not wider.
LEMMA Halves ==
  /\ SequenceSpace \in Nat \ {0}
  /\ HalfRange \in Nat /\ HalfRange >= 2
  /\ SequenceSpace = HalfRange + HalfRange
  /\ RecentCount \in Nat \ {0} /\ RecentCount <= HalfRange
  /\ CounterMax \in Nat /\ MaxSources \in Nat \ {0}
  BY TrackerAssumption DEF HalfRange

\* The number n stands for the position nearest to t: forward of it by less
\* than half of the range, or behind it by at most half.
LEMMA NearestOf ==
  ASSUME NEW t \in Int, NEW n \in SequenceNumbers, NEW f,
         f = Distance(t % SequenceSpace, n),
         NEW q, q = (IF f < HalfRange THEN t + f ELSE t + f - SequenceSpace)
  PROVE  /\ f \in 0..(SequenceSpace - 1)
         /\ Distance(n, t % SequenceSpace)
              = IF f = 0 THEN 0 ELSE SequenceSpace - f
         /\ q \in Int /\ q % SequenceSpace = n
         /\ \A p \in (t - HalfRange)..(t + HalfRange - 1) :
              p % SequenceSpace = n <=> p = q
<1>1. PICK N \in Nat \ {0} : N = SequenceSpace
  BY Halves
<1>2. PICK k \in Int, h \in 0..(N - 1) : t = k * N + h /\ h = t % N
  BY <1>1, Parts
<1>3. n \in 0..(N - 1) /\ N = HalfRange + HalfRange /\ HalfRange \in Nat
  BY <1>1, Halves DEF SequenceNumbers
<1>4. f = (IF n >= h THEN n - h ELSE n - h + N)
  BY <1>1, <1>2 DEF Distance
<1>5. f \in 0..(N - 1)
  BY <1>2, <1>3, <1>4
<1>6. Distance(n, h) = IF f = 0 THEN 0 ELSE N - f
  <2>1. Distance(n, h) = IF h >= n THEN h - n ELSE h - n + N
    BY <1>1 DEF Distance
  <2>2. CASE n >= h
    <3>a. n \in Int /\ h \in Int /\ N \in Int
      BY <1>2, <1>3
    <3>1. f = n - h /\ n \in Int /\ h \in Int /\ N \in Int
      BY <3>a, <2>2, <1>4
    <3>2. CASE n = h
      BY <3>1, <3>2, <2>1
    <3>3. CASE n # h
      BY <3>1, <3>3, <2>1, <2>2
    <3> QED
      BY <3>2, <3>3
  <2>3. CASE n < h
    BY <2>1, <2>3, <1>2, <1>3, <1>4
  <2> QED
    BY <2>2, <2>3, <1>2, <1>3
<1>7. PICK kn \in Int : kn = k * N
  BY Multiples
<1>8. q \in Int /\ q \in (t - HalfRange)..(t + HalfRange - 1)
  BY <1>1, <1>2, <1>3, <1>5
<1>9. q = kn + n \/ q = kn + N + n \/ q = kn - N + n
  <2>1. t = kn + h /\ h \in Int /\ n \in Int /\ N \in Int
    BY <1>2, <1>3, <1>7
  <2>2. q = t + f \/ q = t + f - N
    BY <1>1
  <2>3. f = n - h \/ f = n - h + N
    BY <1>4
  <2> QED
    BY <2>1, <2>2, <2>3
<1>10. q % N = n
  <2>1. /\ (k * N + n) % N = n
        /\ ((k + 1) * N + n) % N = n
        /\ ((k - 1) * N + n) % N = n
    <3>1. k + 1 \in Int /\ k - 1 \in Int
      OBVIOUS
    <3> QED
      BY <3>1, <1>3, Rests
  <2>2. (k + 1) * N = kn + N /\ (k - 1) * N = kn - N
    BY <1>7, Multiples
  <2> QED
    BY <2>1, <2>2, <1>7, <1>9
<1>11. ASSUME NEW p \in (t - HalfRange)..(t + HalfRange - 1), p % N = n
       PROVE  p = q
  <2>1. p \in Int
    BY <1>3
  <2>2. ~(p < q)
    <3>1. p < q => p + N <= q
      BY <2>1, <1>8, <1>10, <1>11, Apart
    <3> QED
      BY <3>1, <2>1, <1>3, <1>8
  <2>3. ~(q < p)
    <3>1. q < p => q + N <= p
      BY <2>1, <1>8, <1>10, <1>11, Apart
    <3> QED
      BY <3>1, <2>1, <1>3, <1>8
  <2> QED
    BY <2>1, <2>2, <2>3, <1>8
<1> QED
  BY <1>1, <1>2, <1>5, <1>6, <1>8, <1>10, <1>11
-----------------------------------------------------------------------------
(* What observe does.                                                      *)

\* How number n of source s relates to the highest one: the six statuses, and
\* the position that the number stands for.
ObservedAs(s, n, status, p, missing) ==
  /\ status \in Statuses /\ p \in Int
  /\ \/ /\ s \notin tracked /\ Cardinality(tracked) >= MaxSources
        /\ status = "untracked" /\ missing = 0
     \/ /\ s \notin tracked /\ ~(Cardinality(tracked) >= MaxSources)
        /\ status = "first" /\ missing = 0 /\ p = n
     \/ /\ s \in tracked /\ p = top[s]
        /\ status = "duplicate" /\ missing = 0
     \/ /\ s \in tracked /\ p = top[s] + 1
        /\ status = "in_order" /\ missing = 0
     \/ /\ s \in tracked /\ p > top[s] + 1
        /\ status = "gap" /\ missing = p - top[s] - 1
     \/ /\ s \in tracked /\ p < top[s] /\ missing = 0
        /\ \/ /\ status = "duplicate"
              /\ top[s] - p < RecentCount /\ top[s] - p \in recent[s]
           \/ /\ status = "reordered"
              /\ ~(top[s] - p < RecentCount /\ top[s] - p \in recent[s])

\* Every number has one status, and stands for one position.
LEMMA NumbersClassified ==
  ASSUME TrackerTypeOK, PositionInv, NEW s \in Sources, NEW n \in SequenceNumbers
  PROVE  /\ ObservedAs(s, n, Classify(s, n), Position(s, n), Missing(s, n))
         /\ s \in tracked => /\ Position(s, n) % SequenceSpace = n
                             /\ Distance(highest[s], n)
                                  = IF Position(s, n) < top[s]
                                    THEN SequenceSpace - (top[s] - Position(s, n))
                                    ELSE Position(s, n) - top[s]
                             /\ Distance(n, highest[s])
                                  = IF Position(s, n) <= top[s]
                                    THEN top[s] - Position(s, n)
                                    ELSE SequenceSpace - (Position(s, n) - top[s])
<1>1. n \in Int /\ HalfRange \in Nat
  BY Halves DEF SequenceNumbers
<1>2. CASE s \notin tracked
  <2>1. Position(s, n) = n
    BY <1>2 DEF Position
  <2>2. Classify(s, n) = IF Cardinality(tracked) >= MaxSources
                         THEN "untracked" ELSE "first"
    BY <1>2 DEF Classify
  <2>3. Missing(s, n) = 0
    BY <2>2 DEF Missing
  <2> QED
    BY <1>1, <1>2, <2>1, <2>2, <2>3 DEF ObservedAs, Statuses
<1>3. CASE s \in tracked
  <2>1. PICK t \in Int : t = top[s]
    BY DEF TrackerTypeOK
  <2>2. PICK f : f = Distance(highest[s], n)
    OBVIOUS
  <2>3. PICK q : q = (IF f < HalfRange THEN t + f ELSE t + f - SequenceSpace)
    OBVIOUS
  <2>4. PICK back : back = Distance(n, highest[s])
    OBVIOUS
  <2>5. highest[s] = t % SequenceSpace
    BY <1>3, <2>1 DEF PositionInv, Placed
  <2>6. /\ f \in 0..(SequenceSpace - 1)
        /\ back = IF f = 0 THEN 0 ELSE SequenceSpace - f
        /\ q \in Int /\ q % SequenceSpace = n
        /\ \A p \in (t - HalfRange)..(t + HalfRange - 1) :
             p % SequenceSpace = n <=> p = q
    BY <2>2, <2>3, <2>4, <2>5, NearestOf
  <2>7. /\ SequenceSpace = HalfRange + HalfRange /\ HalfRange >= 2
        /\ SequenceSpace \in Int /\ f \in Int /\ t \in Int
    BY <1>1, <2>6, Halves
  <2>8. Position(s, n) = q
    <3>1. q \in (t - HalfRange)..(t + HalfRange - 1)
      BY <1>1, <2>3, <2>6, <2>7
    <3>2. Nearest(s, n) = CHOOSE p \in (t - HalfRange)..(t + HalfRange - 1) :
                            p % SequenceSpace = n
      BY <2>1 DEF Nearest
    <3>3. (CHOOSE p \in (t - HalfRange)..(t + HalfRange - 1) :
             p % SequenceSpace = n)
          = (CHOOSE p \in (t - HalfRange)..(t + HalfRange - 1) : p = q)
      BY <2>6
    <3>4. (CHOOSE p \in (t - HalfRange)..(t + HalfRange - 1) : p = q) = q
      BY <3>1
    <3> QED
      BY <1>3, <3>2, <3>3, <3>4 DEF Position
  <2>9. f \in 2..(HalfRange - 1) <=> f \in ForwardJumps
    BY DEF ForwardJumps
  <2>10. Missing(s, n) = IF Classify(s, n) = "gap" THEN f - 1 ELSE 0
    BY <2>2 DEF Missing
  <2>11. CASE f = 0
    <3>1. Classify(s, n) = "duplicate"
      <4>1. f # 1 /\ f \notin ForwardJumps
        BY <1>1, <2>9, <2>11
      <4> QED
        BY <1>3, <2>2, <2>11, <4>1 DEF Classify
    <3>2. q = t /\ back = 0
      BY <1>1, <2>3, <2>6, <2>7, <2>11
    <3>3. Missing(s, n) = 0
      BY <2>10, <3>1
    <3> QED
      BY <1>3, <2>1, <2>2, <2>4, <2>6, <2>8, <2>11, <3>1, <3>2, <3>3
         DEF ObservedAs, Statuses
  <2>12. CASE f = 1
    <3>1. Classify(s, n) = "in_order"
      <4>1. f # 0 /\ f \notin ForwardJumps
        BY <1>1, <2>9, <2>12
      <4> QED
        BY <1>3, <2>2, <2>12, <4>1 DEF Classify
    <3>2. q = t + 1 /\ back = SequenceSpace - 1
      BY <1>1, <2>3, <2>6, <2>7, <2>12
    <3>3. Missing(s, n) = 0
      BY <2>10, <3>1
    <3>4. f = q - t /\ back = SequenceSpace - (q - t) /\ ~(q < t) /\ ~(q <= t)
      BY <2>7, <2>12, <3>2
    <3> QED
      BY <1>3, <2>1, <2>2, <2>4, <2>6, <2>8, <3>1, <3>2, <3>3, <3>4
         DEF ObservedAs, Statuses
  <2>13. CASE f \in 2..(HalfRange - 1)
    <3>1. Classify(s, n) = "gap"
      BY <1>3, <2>2, <2>9, <2>13 DEF Classify
    <3>2. q = t + f /\ back = SequenceSpace - f /\ f >= 2
      BY <1>1, <2>3, <2>6, <2>7, <2>13
    <3>3. Missing(s, n) = f - 1
      BY <2>10, <3>1
    <3>4. /\ f = q - t /\ back = SequenceSpace - (q - t) /\ ~(q < t) /\ ~(q <= t)
          /\ q > t + 1 /\ f - 1 = q - t - 1
      BY <2>7, <3>2
    <3> QED
      BY <1>3, <2>1, <2>2, <2>4, <2>6, <2>8, <3>1, <3>3, <3>4
         DEF ObservedAs, Statuses
  <2>14. CASE f >= HalfRange
    <3>1. Classify(s, n) = IF back < RecentCount /\ back \in recent[s]
                           THEN "duplicate" ELSE "reordered"
      <4>1. f # 0 /\ f # 1 /\ f \notin ForwardJumps
        BY <1>1, <2>7, <2>9, <2>14
      <4> QED
        BY <1>3, <2>2, <2>4, <4>1 DEF Classify
    <3>2. q = t + f - SequenceSpace /\ back = SequenceSpace - f /\ q < t
      BY <1>1, <2>3, <2>6, <2>7, <2>14
    <3>3. Missing(s, n) = 0
      BY <2>10, <3>1
    <3>4. f = SequenceSpace - (t - q) /\ back = t - q /\ q <= t
      BY <2>6, <2>7, <3>2
    <3> QED
      BY <1>3, <2>1, <2>2, <2>4, <2>6, <2>8, <3>1, <3>2, <3>3, <3>4
         DEF ObservedAs, Statuses
  <2> QED
    BY <1>1, <2>7, <2>6, <2>11, <2>12, <2>13, <2>14
<1> QED
  BY <1>2, <1>3

\* The entries of a source after a packet for position p.
Entry(s, h, bits, positions, t, b) ==
  /\ highest'[s] = h /\ recent'[s] = bits /\ seen'[s] = positions
  /\ top'[s] = t /\ base'[s] = b

\* One packet changes the entries of its source only.
Entries(s, n, status, p) ==
  /\ \A r \in Sources \ {s} :
       Entry(r, highest[r], recent[r], seen[r], top[r], base[r])
  /\ status = "untracked" =>
       Entry(s, highest[s], recent[s], seen[s], top[s], base[s])
  /\ status = "first" => Entry(s, n, {0}, {n}, n, n)
  /\ status \in {"in_order", "gap"} =>
       Entry(s, n, Advanced(recent[s], p - top[s]), seen[s] \cup {p}, p,
             base[s])
  /\ status = "duplicate" =>
       Entry(s, highest[s], recent[s], seen[s] \cup {p}, top[s], base[s])
  /\ status = "reordered" =>
       Entry(s, highest[s],
             IF top[s] - p < RecentCount
             THEN recent[s] \cup {top[s] - p} ELSE recent[s],
             seen[s] \cup {p}, top[s], base[s])

\* The entries after a packet that observe has classified.
LEMMA ObserveDoes ==
  ASSUME TrackerTypeOK, PositionInv, NEW s \in Sources, NEW n \in SequenceNumbers,
         Observe(s, n),
         NEW status, status = Classify(s, n),
         NEW p, p = Position(s, n)
  PROVE  /\ tracked' = IF status = "first" THEN tracked \cup {s} ELSE tracked
         /\ highest' \in [Sources -> SequenceNumbers]
         /\ recent' \in [Sources -> SUBSET (0..(RecentCount - 1))]
         /\ seen' \in [Sources -> SUBSET Int]
         /\ top' \in [Sources -> Int] /\ base' \in [Sources -> Int]
         /\ Entries(s, n, status, p)
<1> DEFINE forward == Distance(highest[s], n)
           backward == Distance(n, highest[s])
<1>1. ObservedAs(s, n, status, p, Missing(s, n)) /\ p \in Int
  BY NumbersClassified DEF ObservedAs
<1>2. /\ highest \in [Sources -> SequenceNumbers]
      /\ recent \in [Sources -> SUBSET (0..(RecentCount - 1))]
      /\ seen \in [Sources -> SUBSET Int]
      /\ top \in [Sources -> Int] /\ base \in [Sources -> Int]
  BY DEF TrackerTypeOK
<1>3. /\ RecentCount \in Nat \ {0} /\ 0 \in 0..(RecentCount - 1)
      /\ n \in Int
  BY Halves DEF SequenceNumbers
<1>4. /\ status \in {"in_order", "gap"} => forward = p - top[s]
      /\ status \in {"in_order", "gap"} => s \in tracked
  <2> SUFFICES ASSUME status \in {"in_order", "gap"}
               PROVE  forward = p - top[s] /\ s \in tracked
    OBVIOUS
  <2>1. s \in tracked /\ ~(p < top[s])
    BY <1>1, <1>2 DEF ObservedAs
  <2> QED
    BY <2>1, NumbersClassified
<1>5. status = "reordered" => backward = top[s] - p /\ top[s] - p \in Nat
  <2> SUFFICES ASSUME status = "reordered"
               PROVE  backward = top[s] - p /\ top[s] - p \in Nat
    OBVIOUS
  <2>1. s \in tracked /\ p < top[s] /\ top[s] \in Int
    BY <1>1, <1>2 DEF ObservedAs
  <2>2. p <= top[s] /\ top[s] - p \in Nat
    BY <2>1, <1>1
  <2> QED
    BY <2>1, <2>2, NumbersClassified
<1>6. status = "first" => s \notin tracked /\ seen[s] = {} /\ p = n
  BY <1>1 DEF ObservedAs, PositionInv
<1>7. status \in Statuses
  BY <1>1 DEF ObservedAs
<1>8. /\ tracked' = IF status = "first" THEN tracked \cup {s} ELSE tracked
      /\ highest' = IF status \in {"first", "in_order", "gap"}
                    THEN [highest EXCEPT ![s] = n] ELSE highest
      /\ seen' = IF status = "untracked" THEN seen
                 ELSE [seen EXCEPT ![s] = @ \cup {p}]
      /\ top' = IF status \in {"first", "in_order", "gap"}
                THEN [top EXCEPT ![s] = p] ELSE top
      /\ base' = IF status = "first" THEN [base EXCEPT ![s] = p] ELSE base
  BY DEF Observe, Remember
<1>9. recent' = CASE status = "first" -> [recent EXCEPT ![s] = {0}]
                  [] status \in {"in_order", "gap"} ->
                       [recent EXCEPT ![s] = Advanced(@, forward)]
                  [] status = "reordered" /\ backward < RecentCount ->
                       [recent EXCEPT ![s] = @ \cup {backward}]
                  [] OTHER -> recent
  BY DEF Observe
<1> HIDE DEF forward, backward
<1>10. /\ status = "first" => recent' = [recent EXCEPT ![s] = {0}]
       /\ status \in {"in_order", "gap"} =>
            recent' = [recent EXCEPT ![s] = Advanced(recent[s], p - top[s])]
       /\ status = "reordered" /\ top[s] - p < RecentCount =>
            recent' = [recent EXCEPT ![s] = recent[s] \cup {top[s] - p}]
       /\ status \in {"untracked", "duplicate"}
          \/ (status = "reordered" /\ ~(top[s] - p < RecentCount)) => recent' = recent
  BY <1>4, <1>5, <1>9
<1>11. \A bits, d : Advanced(bits, d) \subseteq 0..(RecentCount - 1)
  BY <1>3 DEF Advanced, ShiftLeft
<1>12. /\ recent' \in [Sources -> SUBSET (0..(RecentCount - 1))]
       /\ \A r \in Sources \ {s} : recent'[r] = recent[r]
       /\ status = "first" => recent'[s] = {0}
       /\ status \in {"in_order", "gap"} =>
            recent'[s] = Advanced(recent[s], p - top[s])
       /\ status = "reordered" =>
            recent'[s] = IF top[s] - p < RecentCount
                         THEN recent[s] \cup {top[s] - p} ELSE recent[s]
       /\ status \in {"untracked", "duplicate"} => recent'[s] = recent[s]
  <2>1. CASE status = "first"
    BY <1>2, <1>3, <1>10, <2>1
  <2>2. CASE status \in {"in_order", "gap"}
    BY <1>2, <1>10, <1>11, <2>2
  <2>3. CASE status = "reordered" /\ top[s] - p < RecentCount
    <3>1. top[s] - p \in 0..(RecentCount - 1)
      BY <1>3, <1>5, <2>3
    <3> QED
      BY <1>2, <1>10, <2>3, <3>1
  <2>4. CASE \/ status \in {"untracked", "duplicate"}
             \/ status = "reordered" /\ ~(top[s] - p < RecentCount)
    BY <1>2, <1>10, <2>4
  <2> QED
    BY <1>7, <2>1, <2>2, <2>3, <2>4 DEF Statuses
<1>13. /\ highest' \in [Sources -> SequenceNumbers]
       /\ \A r \in Sources \ {s} : highest'[r] = highest[r]
       /\ highest'[s] = IF status \in {"first", "in_order", "gap"}
                        THEN n ELSE highest[s]
  BY <1>2, <1>8
<1>14. /\ top' \in [Sources -> Int]
       /\ \A r \in Sources \ {s} : top'[r] = top[r]
       /\ top'[s] = IF status \in {"first", "in_order", "gap"} THEN p ELSE top[s]
  BY <1>1, <1>2, <1>8
<1>15. /\ base' \in [Sources -> Int]
       /\ \A r \in Sources \ {s} : base'[r] = base[r]
       /\ base'[s] = IF status = "first" THEN p ELSE base[s]
  BY <1>1, <1>2, <1>8
<1>16. /\ seen' \in [Sources -> SUBSET Int]
       /\ \A r \in Sources \ {s} : seen'[r] = seen[r]
       /\ seen'[s] = IF status = "untracked" THEN seen[s] ELSE seen[s] \cup {p}
  BY <1>1, <1>2, <1>8
<1>17. status = "first" => seen'[s] = {n} /\ top'[s] = n /\ base'[s] = n
  BY <1>6, <1>14, <1>15, <1>16
<1> QED
  BY <1>8, <1>12, <1>13, <1>14, <1>15, <1>16, <1>17 DEF Entry, Entries

\* One packet is counted once.
LEMMA StreamDoes ==
  ASSUME TrackerTypeOK, PositionInv, NEW s \in Sources, NEW n \in SequenceNumbers,
         Observe(s, n),
         NEW status, status = Classify(s, n)
  PROVE  /\ stream' \in [packets : Nat, streams : Nat, missing : 0..CounterMax,
                         count : [Statuses -> Nat]]
         /\ stream'.packets = stream.packets + 1
         /\ stream'.streams = stream.streams + (IF status = "first" THEN 1 ELSE 0)
         /\ stream'.missing = SaturatingAdd(stream.missing, Missing(s, n))
         /\ status \in Statuses
         /\ stream'.count[status] = stream.count[status] + 1
         /\ \A st \in Statuses \ {status} : stream'.count[st] = stream.count[st]
         /\ Missing(s, n) \in Nat
         /\ observed' = {[source |-> s, number |-> n, status |-> status,
                          missing |-> Missing(s, n)]}
<1> DEFINE d == Missing(s, n)
<1>1. /\ ObservedAs(s, n, status, Position(s, n), d) /\ status \in Statuses
      /\ Position(s, n) \in Int
  BY NumbersClassified DEF ObservedAs
<1>2. stream' = [packets |-> stream.packets + 1,
                 streams |-> stream.streams + IF status = "first" THEN 1 ELSE 0,
                 missing |-> SaturatingAdd(stream.missing, d),
                 count |-> [stream.count EXCEPT ![status] = @ + 1]]
  BY DEF Observe
<1>3. observed' = {[source |-> s, number |-> n, status |-> status, missing |-> d]}
  BY DEF Observe
<1>4. /\ stream.packets \in Nat /\ stream.streams \in Nat
      /\ stream.missing \in 0..CounterMax /\ stream.count \in [Statuses -> Nat]
      /\ s \in tracked => top[s] \in Int
  BY DEF TrackerTypeOK
<1>5. d \in Nat
  BY <1>1, <1>4 DEF ObservedAs
<1> HIDE DEF d
<1>6. SaturatingAdd(stream.missing, d) \in 0..CounterMax
  BY <1>4, <1>5, Halves DEF SaturatingAdd
<1>7. /\ [stream.count EXCEPT ![status] = @ + 1] \in [Statuses -> Nat]
      /\ [stream.count EXCEPT ![status] = @ + 1][status] = stream.count[status] + 1
      /\ \A st \in Statuses \ {status} :
           [stream.count EXCEPT ![status] = @ + 1][st] = stream.count[st]
  BY <1>1, <1>4
<1>8. /\ stream.packets + 1 \in Nat
      /\ stream.streams + (IF status = "first" THEN 1 ELSE 0) \in Nat
  BY <1>4
<1> QED
  BY <1>1, <1>2, <1>3, <1>5, <1>6, <1>7, <1>8 DEF d

\* Every variable keeps its type.
LEMMA TrackerTypeStep ==
  ASSUME TrackerTypeOK, PositionInv, [TrackerNext]_trackerVars
  PROVE  TrackerTypeOK'
<1>1. CASE UNCHANGED trackerVars
  BY <1>1 DEF TrackerTypeOK, trackerVars
<1>2. ASSUME NEW s \in Sources, NEW n \in SequenceNumbers, Observe(s, n)
      PROVE  TrackerTypeOK'
  <2>1. PICK status, p : status = Classify(s, n) /\ p = Position(s, n)
    OBVIOUS
  <2>2. /\ tracked' \subseteq Sources
        /\ highest' \in [Sources -> SequenceNumbers]
        /\ recent' \in [Sources -> SUBSET (0..(RecentCount - 1))]
        /\ seen' \in [Sources -> SUBSET Int]
        /\ top' \in [Sources -> Int] /\ base' \in [Sources -> Int]
    <3>1. tracked \subseteq Sources
      BY DEF TrackerTypeOK
    <3> QED
      BY <1>2, <2>1, <3>1, ObserveDoes
  <2>3. /\ stream' \in [packets : Nat, streams : Nat, missing : 0..CounterMax,
                        count : [Statuses -> Nat]]
        /\ status \in Statuses /\ Missing(s, n) \in Nat
        /\ observed' = {[source |-> s, number |-> n, status |-> status,
                         missing |-> Missing(s, n)]}
    BY <1>2, <2>1, StreamDoes
  <2>4. observed' \subseteq [source : Sources, number : SequenceNumbers,
                             status : Statuses, missing : Nat]
    BY <2>3
  <2> QED
    BY <2>2, <2>3, <2>4 DEF TrackerTypeOK
<1> QED
  BY <1>1, <1>2 DEF TrackerNext

\* The bitmap goes on being exact.
LEMMA PositionStep ==
  ASSUME TrackerTypeOK, PositionInv, [TrackerNext]_trackerVars
  PROVE  PositionInv'
<1>1. CASE UNCHANGED trackerVars
  BY <1>1 DEF PositionInv, Placed, trackerVars
<1>2. ASSUME NEW s \in Sources, NEW n \in SequenceNumbers, Observe(s, n)
      PROVE  PositionInv'
  <2>1. PICK status, p, d :
          status = Classify(s, n) /\ p = Position(s, n) /\ d = Missing(s, n)
    OBVIOUS
  <2>2. ObservedAs(s, n, status, p, d) /\ p \in Int
    BY <2>1, NumbersClassified DEF ObservedAs
  <2>3. /\ tracked' = IF status = "first" THEN tracked \cup {s} ELSE tracked
        /\ Entries(s, n, status, p)
    BY <1>2, <2>1, ObserveDoes
  <2>4. s \in tracked => p % SequenceSpace = n
    BY <2>1, NumbersClassified
  <2>a. /\ tracked \subseteq Sources /\ top[s] \in Int /\ seen[s] \subseteq Int
        /\ recent[s] \subseteq 0..(RecentCount - 1)
        /\ n \in Int /\ RecentCount \in Nat \ {0}
    BY Halves DEF TrackerTypeOK, SequenceNumbers
  <2>b. s \in tracked => Placed(s)
    BY DEF PositionInv
  <2>5. \A r \in tracked \ {s} : Placed(r)'
    <3> SUFFICES ASSUME NEW r \in tracked, r # s PROVE Placed(r)'
      OBVIOUS
    <3>1. Entry(r, highest[r], recent[r], seen[r], top[r], base[r]) /\ Placed(r)
      BY <2>3, <2>a DEF PositionInv, Entries
    <3> QED
      BY <3>1 DEF Entry, Entries, Placed
  <2>6. \A r \in Sources \ (tracked \cup {s}) : seen'[r] = {}
    BY <2>3 DEF Entry, Entries, PositionInv
  <2>7. CASE status = "untracked"
    <3>1. s \notin tracked /\ tracked' = tracked /\ seen'[s] = seen[s]
      BY <2>2, <2>3, <2>7 DEF ObservedAs, Entry, Entries
    <3> QED
      BY <2>5, <2>6, <3>1 DEF PositionInv
  <2>8. CASE status = "first"
    <3>1. /\ tracked' = tracked \cup {s}
          /\ highest'[s] = n /\ recent'[s] = {0} /\ seen'[s] = {n} /\ top'[s] = n
      BY <2>3, <2>8 DEF Entry, Entries
    <3>2. n % SequenceSpace = n
      <4>1. n \in 0..(SequenceSpace - 1) /\ SequenceSpace \in Nat \ {0}
        BY Halves DEF SequenceNumbers
      <4>2. (0 * SequenceSpace + n) % SequenceSpace = n
        BY <4>1, Rests
      <4> QED
        BY <4>1, <4>2
    <3>3. \A b \in 0..(RecentCount - 1) : b \in {0} <=> n - b \in {n}
      BY <2>a
    <3>4. Placed(s)'
      BY <3>1, <3>2, <3>3, <2>a DEF Placed
    <3> QED
      BY <2>5, <2>6, <3>1, <3>4 DEF PositionInv
  <2>9. CASE status \in {"in_order", "gap"}
    <3>1. s \in tracked /\ p > top[s] /\ tracked' = tracked
      BY <2>2, <2>3, <2>9, <2>a DEF ObservedAs
    <3>2. /\ highest'[s] = n /\ seen'[s] = seen[s] \cup {p} /\ top'[s] = p
          /\ recent'[s] = Advanced(recent[s], p - top[s])
      BY <2>3, <2>9 DEF Entry, Entries
    <3>3. \A x \in seen[s] : x <= top[s]
      BY <2>b, <3>1 DEF Placed
    <3>4. ASSUME NEW b \in 0..(RecentCount - 1)
          PROVE  b \in Advanced(recent[s], p - top[s]) <=> p - b \in seen[s] \cup {p}
      <4>1. b \in Int /\ p - b \in Int /\ b >= 0
        BY <2>2, <2>a
      <4>2. CASE b = 0
        BY <4>2, <4>1, <2>2 DEF Advanced
      <4>3. CASE b # 0 /\ p - top[s] >= RecentCount
        <5>1. b \notin Advanced(recent[s], p - top[s])
          BY <4>3 DEF Advanced
        <5>2. p - b > top[s] /\ p - b # p
          BY <4>1, <4>3, <2>2, <2>a
        <5> QED
          BY <5>1, <5>2, <3>3, <4>1, <2>a
      <4>4. CASE b # 0 /\ ~(p - top[s] >= RecentCount)
        <5>1. b \in Advanced(recent[s], p - top[s])
                <=> b - (p - top[s]) \in recent[s]
          BY <4>4 DEF Advanced, ShiftLeft
        <5>2. p - b # p /\ top[s] - (b - (p - top[s])) = p - b
          BY <4>1, <4>4, <2>2, <2>a
        <5>3. CASE b - (p - top[s]) >= 0
          <6>1. b - (p - top[s]) \in 0..(RecentCount - 1)
            BY <5>3, <3>1, <2>2, <2>a
          <6>2. b - (p - top[s]) \in recent[s]
                  <=> top[s] - (b - (p - top[s])) \in seen[s]
            BY <6>1, <2>b, <3>1 DEF Placed
          <6> QED
            BY <5>1, <5>2, <6>2
        <5>4. CASE b - (p - top[s]) < 0
          <6>1. b - (p - top[s]) \notin recent[s]
            BY <5>4, <2>a, <2>2
          <6>2. p - b > top[s]
            BY <5>4, <4>1, <2>2, <2>a
          <6> QED
            BY <5>1, <5>2, <6>1, <6>2, <3>3, <4>1, <2>a
        <5> QED
          BY <5>3, <5>4, <4>1, <2>2, <2>a
      <4> QED
        BY <4>2, <4>3, <4>4
    <3>5. \A x \in seen'[s] : x <= p
      BY <3>1, <3>2, <3>3, <2>2, <2>a
    <3>6. Placed(s)'
      BY <3>1, <3>2, <3>4, <3>5, <2>4 DEF Placed
    <3> QED
      BY <2>5, <2>6, <3>1, <3>6 DEF PositionInv
  <2>10. CASE status = "duplicate"
    <3>1. s \in tracked /\ tracked' = tracked /\ p \in seen[s]
      <4>1. s \in tracked /\ tracked' = tracked
        BY <2>2, <2>3, <2>10 DEF ObservedAs
      <4>2. CASE p = top[s]
        BY <4>1, <4>2, <2>b DEF Placed
      <4>3. CASE /\ p < top[s] /\ top[s] - p < RecentCount
                 /\ top[s] - p \in recent[s]
        <5>1. top[s] - p \in 0..(RecentCount - 1) /\ top[s] - (top[s] - p) = p
          BY <4>3, <2>2, <2>a
        <5> QED
          BY <4>1, <4>3, <5>1, <2>b DEF Placed
      <4> QED
        BY <2>2, <2>10, <4>1, <4>2, <4>3 DEF ObservedAs
    <3>2. /\ highest'[s] = highest[s] /\ recent'[s] = recent[s]
          /\ seen'[s] = seen[s] /\ top'[s] = top[s]
      BY <2>3, <2>10, <3>1 DEF Entry, Entries
    <3>3. Placed(s)'
      BY <2>b, <3>1, <3>2 DEF Placed
    <3> QED
      BY <2>5, <2>6, <3>1, <3>3 DEF PositionInv
  <2>11. CASE status = "reordered"
    <3>1. s \in tracked /\ p < top[s] /\ tracked' = tracked
      BY <2>2, <2>3, <2>11 DEF ObservedAs
    <3>2. /\ highest'[s] = highest[s] /\ seen'[s] = seen[s] \cup {p}
          /\ top'[s] = top[s]
          /\ recent'[s] = IF top[s] - p < RecentCount
                          THEN recent[s] \cup {top[s] - p} ELSE recent[s]
      BY <2>3, <2>11 DEF Entry, Entries
    <3>3. ASSUME NEW b \in 0..(RecentCount - 1)
          PROVE  b \in recent'[s] <=> top[s] - b \in seen[s] \cup {p}
      <4>1. b \in recent[s] <=> top[s] - b \in seen[s]
        BY <2>b, <3>1 DEF Placed
      <4>2. top[s] - b = p <=> b = top[s] - p
        BY <2>2, <2>a
      <4>3. CASE top[s] - p < RecentCount
        BY <3>2, <4>1, <4>2, <4>3
      <4>4. CASE ~(top[s] - p < RecentCount)
        <5>1. b # top[s] - p
          BY <4>4, <2>2, <2>a
        <5> QED
          BY <3>2, <4>1, <4>2, <4>4, <5>1
      <4> QED
        BY <4>3, <4>4
    <3>4. \A x \in seen'[s] : x <= top[s]
      BY <2>b, <3>1, <3>2, <2>2, <2>a DEF Placed
    <3>5. Placed(s)'
      BY <2>b, <3>1, <3>2, <3>3, <3>4 DEF Placed
    <3> QED
      BY <2>5, <2>6, <3>1, <3>5 DEF PositionInv
  <2> QED
    BY <2>2, <2>7, <2>8, <2>9, <2>10, <2>11 DEF ObservedAs
<1> QED
  BY <1>1, <1>2 DEF TrackerNext

\* Nothing has been observed.
LEMMA TrackerStarts ==
  ASSUME TrackerInit
  PROVE  TrackerTypeOK /\ PositionInv
<1>1. /\ tracked = {} /\ highest = [s \in Sources |-> 0]
      /\ recent = [s \in Sources |-> {}] /\ stream = ZeroStream /\ observed = {}
      /\ seen = [s \in Sources |-> {}] /\ top = [s \in Sources |-> 0]
      /\ base = [s \in Sources |-> 0]
  BY DEF TrackerInit
<1>2. 0 \in SequenceNumbers /\ 0 \in 0..CounterMax
  BY Halves DEF SequenceNumbers
<1>3. stream \in [packets : Nat, streams : Nat, missing : 0..CounterMax,
                  count : [Statuses -> Nat]]
  BY <1>1, <1>2 DEF ZeroStream
<1>4. /\ highest \in [Sources -> SequenceNumbers]
      /\ recent \in [Sources -> SUBSET (0..(RecentCount - 1))]
      /\ seen \in [Sources -> SUBSET Int]
      /\ top \in [Sources -> Int] /\ base \in [Sources -> Int]
      /\ tracked \subseteq Sources /\ observed = {}
  BY <1>1, <1>2
<1>5. PositionInv
  BY <1>1 DEF PositionInv
<1> QED
  BY <1>3, <1>4, <1>5 DEF TrackerTypeOK

\* Every variable of the tracker keeps its type, and the entry of a source says
\* where its packets are.
THEOREM TrackerTyping == TrackerSpec => [](TrackerTypeOK /\ PositionInv)
<1> QED
  BY TrackerStarts, TrackerTypeStep, PositionStep, PTL DEF TrackerSpec

\* Through shifts, resets, late arrivals and the wrap of the numbers, the
\* bitmap is the recent history of its source.
THEOREM BitmapProved == TrackerSpec => []BitmapIsRecentHistory
<1>1. TrackerTypeOK /\ PositionInv => BitmapIsRecentHistory
  <2> SUFFICES ASSUME TrackerTypeOK, PositionInv, NEW s \in tracked
               PROVE  /\ top[s] % SequenceSpace = highest[s]
                      /\ \A p \in seen[s] : p <= top[s]
                      /\ recent[s] = {b \in 0..(RecentCount - 1) :
                                        top[s] - b \in seen[s]}
    BY DEF BitmapIsRecentHistory
  <2>1. Placed(s) /\ recent[s] \subseteq 0..(RecentCount - 1)
    BY DEF PositionInv, TrackerTypeOK
  <2> QED
    BY <2>1 DEF Placed
<1> QED
  BY <1>1, TrackerTyping, PTL

\* What observe returns is true of everything that has arrived from the source.
THEOREM StatusProved == TrackerSpec => StatusIsTruthful
<1>1. ASSUME TrackerTypeOK, PositionInv, [TrackerNext]_trackerVars
      PROVE  [ObservationIsTruthful]_trackerVars
  <2> SUFFICES ASSUME TrackerNext PROVE ObservationIsTruthful
    BY <1>1
  <2>1. PICK s \in Sources, n \in SequenceNumbers : Observe(s, n)
    BY DEF TrackerNext
  <2>2. PICK status, p, d :
          status = Classify(s, n) /\ p = Position(s, n) /\ d = Missing(s, n)
    OBVIOUS
  <2>3. ObservedAs(s, n, status, p, d) /\ p \in Int
    BY <1>1, <2>2, NumbersClassified DEF ObservedAs
  <2>4. observed' = {[source |-> s, number |-> n, status |-> status,
                      missing |-> d]}
    BY <1>1, <2>1, <2>2, StreamDoes
  <2> SUFFICES ASSUME status \notin {"first", "untracked"}
               PROVE  /\ status = "duplicate" <=>
                           p \in seen[s] /\ top[s] - p < RecentCount
                      /\ status = "reordered" =>
                           p < top[s] /\ top' = top /\ highest' = highest
                      /\ status = "in_order" <=> p = top[s] + 1
                      /\ status = "gap" <=> p > top[s] + 1
                      /\ d = Cardinality((top[s] + 1)..(p - 1))
    BY <2>2, <2>4 DEF ObservationIsTruthful
  <2>5. /\ s \in tracked /\ top[s] \in Int /\ RecentCount \in Nat \ {0}
        /\ recent[s] \subseteq 0..(RecentCount - 1)
    BY <1>1, <2>3, Halves DEF ObservedAs, TrackerTypeOK
  <2>6. Placed(s)
    BY <1>1, <2>5 DEF PositionInv
  <2>7. \A x \in seen[s] : x <= top[s]
    BY <2>6 DEF Placed
  <2>8. status = "duplicate" <=> p \in seen[s] /\ top[s] - p < RecentCount
    <3>1. CASE p > top[s]
      BY <2>3, <2>5, <2>7, <3>1 DEF ObservedAs
    <3>2. CASE p = top[s]
      <4>1. p \in seen[s] /\ top[s] - p < RecentCount
        BY <3>2, <2>3, <2>5, <2>6 DEF Placed
      <4>2. status = "duplicate"
        BY <2>3, <2>5, <3>2 DEF ObservedAs
      <4> QED
        BY <4>1, <4>2
    <3>3. CASE p < top[s] /\ top[s] - p < RecentCount
      <4>1. top[s] - p \in 0..(RecentCount - 1) /\ top[s] - (top[s] - p) = p
        BY <3>3, <2>3, <2>5
      <4>2. top[s] - p \in recent[s] <=> p \in seen[s]
        BY <4>1, <2>6 DEF Placed
      <4>3. status = "duplicate" <=> top[s] - p \in recent[s]
        BY <2>3, <2>5, <3>3 DEF ObservedAs
      <4> QED
        BY <3>3, <4>2, <4>3
    <3>4. CASE p < top[s] /\ ~(top[s] - p < RecentCount)
      BY <2>3, <2>5, <3>4 DEF ObservedAs
    <3> QED
      BY <3>1, <3>2, <3>3, <3>4, <2>3, <2>5
  <2>9. status = "reordered" => p < top[s] /\ top' = top /\ highest' = highest
    <3> SUFFICES ASSUME status = "reordered"
                 PROVE  p < top[s] /\ top' = top /\ highest' = highest
      OBVIOUS
    <3>1. p < top[s]
      BY <2>3, <2>5 DEF ObservedAs
    <3> QED
      BY <2>1, <2>2, <3>1 DEF Observe, Remember
  <2>10. /\ status = "in_order" <=> p = top[s] + 1
         /\ status = "gap" <=> p > top[s] + 1
    BY <2>3, <2>5 DEF ObservedAs
  <2>11. d = Cardinality((top[s] + 1)..(p - 1))
    <3>1. Cardinality((top[s] + 1)..(p - 1))
            = IF top[s] + 1 > p - 1 THEN 0 ELSE (p - 1) - (top[s] + 1) + 1
      BY <2>3, <2>5, FS_Interval
    <3>2. d = IF p > top[s] + 1 THEN p - top[s] - 1 ELSE 0
      BY <2>3, <2>5 DEF ObservedAs
    <3> QED
      BY <3>1, <3>2, <2>3, <2>5
  <2> QED
    BY <2>8, <2>9, <2>10, <2>11
<1> QED
  BY <1>1, TrackerTyping, PTL DEF TrackerSpec, StatusIsTruthful
-----------------------------------------------------------------------------
(* The counters of the stream.                                             *)

\* A packet is counted under its status.
LEMMA CountsStep ==
  ASSUME TrackerTypeOK, PositionInv, CountsInv, [TrackerNext]_trackerVars
  PROVE  CountsInv'
<1>1. CASE UNCHANGED trackerVars
  BY <1>1 DEF CountsInv, trackerVars
<1>2. ASSUME NEW s \in Sources, NEW n \in SequenceNumbers, Observe(s, n)
      PROVE  CountsInv'
  <2>1. PICK status, p : status = Classify(s, n) /\ p = Position(s, n)
    OBVIOUS
  <2>2. ObservedAs(s, n, status, p, Missing(s, n))
    BY <2>1, NumbersClassified
  <2>3. tracked' = IF status = "first" THEN tracked \cup {s} ELSE tracked
    BY <1>2, <2>1, ObserveDoes
  <2>4. /\ stream'.packets = stream.packets + 1
        /\ stream'.streams = stream.streams + (IF status = "first" THEN 1 ELSE 0)
        /\ status \in Statuses
        /\ stream'.count[status] = stream.count[status] + 1
        /\ \A st \in Statuses \ {status} : stream'.count[st] = stream.count[st]
    BY <1>2, <2>1, StreamDoes
  <2>5. /\ stream.packets \in Nat /\ stream.streams \in Nat
        /\ \A st \in Statuses : stream.count[st] \in Nat
    BY DEF TrackerTypeOK
  <2>6. /\ IsFiniteSet(tracked) /\ Cardinality(tracked) = stream.streams
        /\ MaxSources \in Nat
    BY Halves DEF CountsInv
  <2>7. stream'.packets
          = stream'.count["first"] + stream'.count["in_order"]
            + stream'.count["gap"] + stream'.count["duplicate"]
            + stream'.count["reordered"] + stream'.count["untracked"]
    <3>1. /\ stream.packets = stream.count["first"] + stream.count["in_order"]
                 + stream.count["gap"] + stream.count["duplicate"]
                 + stream.count["reordered"] + stream.count["untracked"]
      BY DEF CountsInv
    <3>2. /\ stream.count["first"] \in Nat /\ stream.count["in_order"] \in Nat
          /\ stream.count["gap"] \in Nat /\ stream.count["duplicate"] \in Nat
          /\ stream.count["reordered"] \in Nat /\ stream.count["untracked"] \in Nat
      BY <2>5 DEF Statuses
    <3> QED
      BY <2>4, <3>1, <3>2 DEF Statuses
  <2>8. CASE status = "first"
    <3>1. s \notin tracked /\ ~(Cardinality(tracked) >= MaxSources)
      BY <2>2, <2>8 DEF ObservedAs
    <3>2. /\ IsFiniteSet(tracked') /\ Cardinality(tracked') = stream.streams + 1
      BY <2>3, <2>6, <2>8, <3>1, FS_AddElement
    <3>3. /\ stream'.streams = stream.streams + 1
          /\ stream'.count["first"] = stream.count["first"] + 1
          /\ stream'.count["untracked"] = stream.count["untracked"]
      BY <2>4, <2>8 DEF Statuses
    <3>4. ~(stream.count["untracked"] > 0) /\ stream.streams + 1 <= MaxSources
      BY <2>5, <2>6, <3>1 DEF CountsInv
    <3> QED
      BY <2>7, <3>2, <3>3, <3>4 DEF CountsInv
  <2>9. CASE status # "first"
    <3>1. tracked' = tracked
      BY <2>3, <2>9
    <3>2. /\ stream'.streams = stream.streams
          /\ stream'.count["first"] = stream.count["first"]
      BY <2>4, <2>5, <2>9 DEF Statuses
    <3>3. stream'.count["untracked"] > 0 => stream.streams = MaxSources
      <4>1. CASE status = "untracked"
        <5>1. Cardinality(tracked) >= MaxSources
          BY <2>2, <4>1 DEF ObservedAs
        <5> QED
          BY <5>1, <2>5, <2>6 DEF CountsInv
      <4>2. CASE status # "untracked"
        <5>1. stream'.count["untracked"] = stream.count["untracked"]
          BY <2>4, <4>2 DEF Statuses
        <5> QED
          BY <5>1 DEF CountsInv
      <4> QED
        BY <4>1, <4>2
    <3> QED
      BY <2>7, <3>1, <3>2, <3>3 DEF CountsInv
  <2> QED
    BY <2>8, <2>9
<1> QED
  BY <1>1, <1>2 DEF TrackerNext

\* The positions moved over, one by one.
LEMMA MovedOver ==
  \A e : e \in Moved <=> \E r \in tracked :
                           \E x \in (base[r] + 1)..top[r] : e = <<r, x>>
  BY DEF Moved

\* As far as its counter can count, what is moved over and was not received is
\* missing.
LEMMA MissingStep ==
  ASSUME TrackerTypeOK, PositionInv, MissingInv, [TrackerNext]_trackerVars
  PROVE  MissingInv'
<1>1. CASE UNCHANGED trackerVars
  BY <1>1 DEF MissingInv, Moved, Accounted, trackerVars
<1>2. ASSUME NEW s \in Sources, NEW n \in SequenceNumbers, Observe(s, n)
      PROVE  MissingInv'
  <2>1. PICK status, p, d :
          status = Classify(s, n) /\ p = Position(s, n) /\ d = Missing(s, n)
    OBVIOUS
  <2>2. ObservedAs(s, n, status, p, d) /\ p \in Int
    BY <2>1, NumbersClassified DEF ObservedAs
  <2>3. /\ tracked' = IF status = "first" THEN tracked \cup {s} ELSE tracked
        /\ Entries(s, n, status, p)
    BY <1>2, <2>1, ObserveDoes
  <2>4. /\ stream'.missing = SaturatingAdd(stream.missing, d) /\ d \in Nat
        /\ status \in Statuses
        /\ stream'.count[status] = stream.count[status] + 1
        /\ \A st \in Statuses \ {status} : stream'.count[st] = stream.count[st]
    BY <1>2, <2>1, StreamDoes
  <2>5. /\ stream.missing \in 0..CounterMax /\ CounterMax \in Nat
        /\ stream.count["in_order"] \in Nat /\ stream.count["gap"] \in Nat
        /\ Accounted \in Nat
    BY Halves DEF TrackerTypeOK, Statuses, Accounted
  <2>6. /\ tracked \subseteq Sources /\ top[s] \in Int /\ base[s] \in Int
        /\ n \in Int
    BY DEF TrackerTypeOK, SequenceNumbers
  <2>7. \A r \in tracked \ {s} : base'[r] = base[r] /\ top'[r] = top[r]
    BY <2>3, <2>6 DEF Entries, Entry
  <2>8. PICK c : c = Cardinality(Moved)
    OBVIOUS
  <2>9. /\ c \in Nat /\ IsFiniteSet(Moved) /\ Accounted <= c
        /\ stream.missing = IF c - Accounted > CounterMax
                            THEN CounterMax ELSE c - Accounted
    BY <2>8, FS_CardinalityType DEF MissingInv
  <2>10. CASE status \in {"in_order", "gap"}
    <3>1. /\ s \in tracked /\ tracked' = tracked /\ p > top[s]
          /\ d = p - top[s] - 1
      BY <2>2, <2>3, <2>6, <2>10 DEF ObservedAs
    <3>2. top'[s] = p /\ base'[s] = base[s]
      BY <2>3, <2>10 DEF Entries, Entry
    <3>3. \A r \in tracked' : base'[r] <= top'[r]
      BY <2>2, <2>6, <2>7, <3>1, <3>2 DEF MissingInv
    <3>4. PICK more : more = {s} \X ((top[s] + 1)..p)
      OBVIOUS
    <3>5. Moved' = Moved \cup more
      <4>1. \A e : e \in Moved' <=> \E r \in tracked :
                                      \E x \in (base'[r] + 1)..top'[r] : e = <<r, x>>
        BY <3>1 DEF Moved
      <4>2. base[s] <= top[s]
        BY <3>1 DEF MissingInv
      <4>3. \A x : x \in (base[s] + 1)..p
                     <=> x \in (base[s] + 1)..top[s] \/ x \in (top[s] + 1)..p
        BY <2>2, <2>6, <3>1, <4>2
      <4>4. \A e : e \in more <=> \E x \in (top[s] + 1)..p : e = <<s, x>>
        BY <3>4
      <4>5. \A e : e \in Moved' => e \in Moved \cup more
        <5> SUFFICES ASSUME NEW r \in tracked, NEW x \in (base'[r] + 1)..top'[r]
                     PROVE  <<r, x>> \in Moved \cup more
          BY <4>1
        <5>1. CASE r = s
          BY <5>1, <3>1, <3>2, <4>3, <4>4, MovedOver
        <5>2. CASE r # s
          BY <5>2, <2>7, MovedOver
        <5> QED
          BY <5>1, <5>2
      <4>6. \A e : e \in more => e \in Moved'
        BY <3>1, <3>2, <4>1, <4>3, <4>4
      <4>7. \A e : e \in Moved => e \in Moved'
        <5> SUFFICES ASSUME NEW r \in tracked, NEW x \in (base[r] + 1)..top[r]
                     PROVE  <<r, x>> \in Moved'
          BY MovedOver
        <5>1. CASE r = s
          BY <5>1, <3>1, <3>2, <4>1, <4>3
        <5>2. CASE r # s
          BY <5>2, <2>7, <4>1
        <5> QED
          BY <5>1, <5>2
      <4> QED
        BY <4>5, <4>6, <4>7
    <3>6. IsFiniteSet(more) /\ Cardinality(more) = d + 1
      <4>1. /\ IsFiniteSet((top[s] + 1)..p)
            /\ Cardinality((top[s] + 1)..p) = IF top[s] + 1 > p THEN 0
                                              ELSE p - (top[s] + 1) + 1
        BY <2>2, <2>6, FS_Interval
      <4>2. Cardinality((top[s] + 1)..p) = d + 1
        BY <4>1, <2>2, <2>6, <3>1
      <4>3. IsFiniteSet({s}) /\ Cardinality({s}) = 1
        BY FS_Singleton
      <4>4. /\ IsFiniteSet({s} \X ((top[s] + 1)..p))
            /\ Cardinality({s} \X ((top[s] + 1)..p))
                 = Cardinality({s}) * Cardinality((top[s] + 1)..p)
        BY <4>1, <4>3, FS_Product
      <4>5. 1 * (d + 1) = d + 1
        BY <2>4
      <4> QED
        BY <3>4, <4>2, <4>3, <4>4, <4>5
    <3>7. Moved \cap more = {}
      <4> SUFFICES ASSUME NEW e, e \in Moved, e \in more PROVE FALSE
        OBVIOUS
      <4>1. PICK r \in tracked, x \in Int : e = <<r, x>> /\ x <= top[r]
        BY <2>6, MovedOver DEF TrackerTypeOK
      <4>2. PICK y \in Int : e = <<s, y>> /\ y > top[s]
        BY <2>2, <2>6, <3>4
      <4>3. r = s /\ x = y
        BY <4>1, <4>2
      <4> QED
        BY <4>1, <4>2, <4>3, <2>6
    <3>a. PICK e \in Nat : e = c + d + 1
      BY <2>4, <2>9
    <3>8. IsFiniteSet(Moved') /\ Cardinality(Moved') = e
      <4>1. /\ IsFiniteSet(Moved \cup more)
            /\ Cardinality(Moved \cup more)
                 = Cardinality(Moved) + Cardinality(more)
                   - Cardinality(Moved \cap more)
        BY <2>9, <3>6, FS_Union
      <4>2. Cardinality(Moved \cap more) = 0
        BY <3>7, FS_EmptySet
      <4>3. c + (d + 1) - 0 = e
        BY <2>4, <2>9, <3>a
      <4> QED
        BY <2>8, <3>5, <3>6, <4>1, <4>2, <4>3
    <3>9. Accounted' = Accounted + 1
      BY <2>4, <2>5, <2>10 DEF Accounted, Statuses
    <3>10. /\ Accounted' <= e
           /\ stream'.missing = IF e - Accounted' > CounterMax
                                THEN CounterMax ELSE e - Accounted'
      <4>1. stream'.missing = IF d > CounterMax - stream.missing
                              THEN CounterMax ELSE stream.missing + d
        BY <2>4 DEF SaturatingAdd
      <4> QED
        BY <2>4, <2>5, <2>9, <3>9, <3>a, <4>1
    <3> QED
      BY <3>3, <3>8, <3>10 DEF MissingInv
  <2>11. CASE status \notin {"in_order", "gap"}
    <3>1. d = 0
      BY <2>2, <2>11 DEF ObservedAs
    <3>2. stream'.missing = stream.missing
      BY <2>4, <2>5, <3>1 DEF SaturatingAdd
    <3>3. Accounted' = Accounted
      BY <2>4, <2>11 DEF Accounted, Statuses
    <3>4. Moved' = Moved /\ \A r \in tracked' : base'[r] <= top'[r]
      <4>1. CASE status = "first"
        <5>1. /\ s \notin tracked /\ tracked' = tracked \cup {s}
              /\ base'[s] = n /\ top'[s] = n
          BY <2>2, <2>3, <4>1 DEF ObservedAs, Entries, Entry
        <5>2. (base'[s] + 1)..top'[s] = {}
          BY <5>1, <2>6
        <5>3. Moved' = Moved
          <6>1. \A e : e \in Moved' <=> \E r \in tracked' :
                         \E x \in (base'[r] + 1)..top'[r] : e = <<r, x>>
            BY DEF Moved
          <6>2. \A e : e \in Moved' <=> e \in Moved
            BY <6>1, <5>1, <5>2, <2>7, MovedOver
          <6> QED
            BY <6>2
        <5> QED
          BY <5>1, <5>3, <2>6, <2>7 DEF MissingInv
      <4>2. CASE status # "first"
        <5>1. tracked' = tracked
          BY <2>3, <4>2
        <5>2. base'[s] = base[s] /\ top'[s] = top[s]
          BY <2>3, <2>4, <2>11, <4>2 DEF Entries, Entry, Statuses
        <5>3. \A r \in tracked : base'[r] = base[r] /\ top'[r] = top[r]
          BY <5>2, <2>7
        <5>4. Moved' = Moved
          BY <5>1, <5>3 DEF Moved
        <5> QED
          BY <5>1, <5>3, <5>4 DEF MissingInv
      <4> QED
        BY <4>1, <4>2
    <3> QED
      BY <3>2, <3>3, <3>4, <2>8, <2>9 DEF MissingInv
  <2> QED
    BY <2>10, <2>11
<1> QED
  BY <1>1, <1>2 DEF TrackerNext

\* Nothing has been counted.
LEMMA CountsStart ==
  ASSUME TrackerInit
  PROVE  CountsInv /\ MissingInv
<1>1. /\ tracked = {} /\ stream.packets = 0 /\ stream.streams = 0
      /\ stream.missing = 0 /\ \A st \in Statuses : stream.count[st] = 0
  BY DEF TrackerInit, ZeroStream
<1>2. IsFiniteSet({}) /\ Cardinality({}) = 0
  BY FS_EmptySet
<1>3. /\ stream.count["first"] = 0 /\ stream.count["in_order"] = 0
      /\ stream.count["gap"] = 0 /\ stream.count["duplicate"] = 0
      /\ stream.count["reordered"] = 0 /\ stream.count["untracked"] = 0
  BY <1>1 DEF Statuses
<1>4. Moved = {} /\ Accounted = 0
  BY <1>1, <1>3 DEF Moved, Accounted
<1>5. CountsInv
  BY <1>1, <1>2, <1>3, Halves DEF CountsInv
<1>6. MissingInv
  <2>1. Cardinality(Moved) = 0 /\ CounterMax \in Nat
    BY <1>2, <1>4, Halves
  <2> QED
    BY <1>1, <1>2, <1>4, <2>1 DEF MissingInv
<1> QED
  BY <1>5, <1>6

\* The table is bounded, every packet has one status, and every position that a
\* source has moved over is received or missing.
THEOREM StreamCountsProved == TrackerSpec => []StreamCountsAddUp
<1>1. TrackerTypeOK /\ CountsInv /\ MissingInv => StreamCountsAddUp
  <2> SUFFICES ASSUME TrackerTypeOK, CountsInv, MissingInv
               PROVE  StreamCountsAddUp
    OBVIOUS
  <2>1. \A m \in Nat : Min({CounterMax, m}) = IF m > CounterMax THEN CounterMax ELSE m
    <3> SUFFICES ASSUME NEW m \in Nat
                 PROVE  Min({CounterMax, m}) = IF m > CounterMax THEN CounterMax ELSE m
      OBVIOUS
    <3>1. PICK l : l = IF m > CounterMax THEN CounterMax ELSE m
      OBVIOUS
    <3>2. /\ l \in {CounterMax, m} /\ CounterMax \in Nat
          /\ \A y \in {CounterMax, m} : l <= y
      BY <3>1, Halves
    <3>3. \A x \in {CounterMax, m} : (\A y \in {CounterMax, m} : x <= y) => x = l
      BY <3>2
    <3> QED
      BY <3>1, <3>2, <3>3 DEF Min
  <2>2. Cardinality(Moved) - Accounted \in Nat
    <3>1. /\ Cardinality(Moved) \in Nat /\ Accounted \in Nat
          /\ Accounted <= Cardinality(Moved)
      BY FS_CardinalityType DEF MissingInv, TrackerTypeOK, Accounted, Statuses
    <3> QED
      BY <3>1
  <2>3. stream.missing = Min({CounterMax, Cardinality(Moved) - Accounted})
    BY <2>1, <2>2 DEF MissingInv
  <2> QED
    BY <2>3 DEF StreamCountsAddUp, CountsInv, Moved, Accounted
<1> QED
  BY <1>1, TrackerTyping, CountsStart, CountsStep, MissingStep, PTL DEF TrackerSpec

-----------------------------------------------------------------------------
(* The monitor.                                                            *)

Instants == 0..MaxTime
Counter == 0..CounterMax
Event == [packet : BOOLEAN, normal : BOOLEAN, time : Instants]
State ==
  [received : Counter, last_receive : Instants, anomalies : Counter,
   gap : Counter, duplicate : Counter, reordered : Counter, missing : Counter,
   rejected : Counter, dropped : Counter, healthy_since_issue : Counter,
   last_issue : Instants, issue_seen : BOOLEAN]
Packet == [id : Nat, source : Sources, time : Instants]

\* The parts of a history that the rules speak of.
Packets(events) == {i \in DOMAIN events : events[i].packet}
Issues(events) == {i \in DOMAIN events : ~events[i].normal}
Fresh(events) == {i \in DOMAIN events : \A j \in Issues(events) : i > j}

\* The latest instant of some events, 0 if there are none.
IsLatest(time, events, is) ==
  /\ is = {} => time = 0
  /\ is # {} => \E i \in is : events[i].time = time
  /\ \A i \in is : events[i].time <= time

Capped(value, n) == value = IF n > CounterMax THEN CounterMax ELSE n

\* What a state keeps of the history of its source.
Summarises(state, events) ==
  /\ IsLatest(state.last_receive, events, Packets(events))
  /\ Capped(state.received, Cardinality(Packets(events)))
  /\ state.issue_seen <=> Issues(events) # {}
  /\ IsLatest(state.last_issue, events, Issues(events))
  /\ Capped(state.healthy_since_issue, Cardinality(Fresh(events)))

\* Every source of the table has received a packet, none later than now.
HistoryInv ==
  /\ log \in [Sources -> Seq(Event)]
  /\ \A s \in Sources : Summarises(health[s], log[s])
  /\ \A s \in Sources : health[s].last_receive <= clock
  /\ \A s \in table : Packets(log[s]) # {}
  /\ \A s \in Sources \ table : health[s] = NewSource
  /\ table = tracked
-----------------------------------------------------------------------------
(* Numbers and records.                                                    *)

\* The larger of two numbers.
LEMMA MaxOfTwo ==
  ASSUME NEW a \in Int, NEW b \in Int
  PROVE  Max({a, b}) = IF a >= b THEN a ELSE b
<1>1. PICK m : m = IF a >= b THEN a ELSE b
  OBVIOUS
<1>2. m \in {a, b} /\ \A y \in {a, b} : m >= y
  BY <1>1
<1>3. \A x \in {a, b} : (\A y \in {a, b} : x >= y) => x = m
  BY <1>2
<1> QED
  BY <1>1, <1>2, <1>3 DEF Max

\* The largest of a set of numbers.
LEMMA MaxIs ==
  ASSUME NEW S \in SUBSET Int, NEW m \in S, \A y \in S : y <= m
  PROVE  Max(S) = m
<1>1. \A y \in S : m >= y
  OBVIOUS
<1>2. \A x \in S : (\A y \in S : x >= y) => x = m
  <2> SUFFICES ASSUME NEW x \in S, \A y \in S : x >= y PROVE x = m
    OBVIOUS
  <2>1. x >= m /\ x <= m /\ x \in Int /\ m \in Int
    OBVIOUS
  <2> QED
    BY <2>1
<1> QED
  BY <1>1, <1>2 DEF Max

\* A new source has no history.
LEMMA NewSourceFields ==
  /\ NewSource \in State
  /\ NewSource.received = 0 /\ NewSource.last_receive = 0
  /\ NewSource.gap = 0 /\ NewSource.duplicate = 0 /\ NewSource.reordered = 0
  /\ NewSource.missing = 0 /\ NewSource.healthy_since_issue = 0
  /\ NewSource.last_issue = 0 /\ NewSource.issue_seen = FALSE
<1>1. 0 \in Counter /\ 0 \in Instants
  BY Halves, MonitorAssumption DEF Counter, Instants
<1> QED
  BY <1>1 DEF NewSource, State

\* A counter stops at its largest value.
LEMMA Counting ==
  ASSUME NEW v \in Counter
  PROVE  /\ v \in Nat
         /\ Increment(v) \in Counter
         /\ Increment(v) = IF v + 1 > CounterMax THEN CounterMax ELSE v + 1
         /\ \A c \in BOOLEAN : IncrementIf(v, c) \in Counter
         /\ \A d \in Nat : SaturatingAdd(v, d) \in Counter
<1>1. CounterMax \in Nat
  BY Halves
<1>2. Increment(v) \in Counter
  BY <1>1 DEF Increment, Counter
<1>3. Increment(v) = IF v + 1 > CounterMax THEN CounterMax ELSE v + 1
  BY <1>1 DEF Increment, Counter
<1>4. \A c \in BOOLEAN : IncrementIf(v, c) \in Counter
  BY <1>2 DEF IncrementIf
<1>5. \A d \in Nat : SaturatingAdd(v, d) \in Counter
  BY <1>1 DEF SaturatingAdd, Counter
<1> QED
  BY <1>1, <1>2, <1>3, <1>4, <1>5 DEF Counter

\* The effect of an issue on the state of its source.
Marked(r, state, time) ==
  /\ r \in State
  /\ r.received = state.received /\ r.last_receive = state.last_receive
  /\ r.gap = state.gap /\ r.duplicate = state.duplicate
  /\ r.reordered = state.reordered /\ r.missing = state.missing
  /\ r.issue_seen = TRUE
  /\ r.last_issue = IF state.last_issue >= time THEN state.last_issue ELSE time
  /\ r.healthy_since_issue = 0

\* An issue in the state of its source.
LEMMA MarkDoes ==
  ASSUME NEW state \in State, NEW time \in Instants
  PROVE  Marked(MarkIssue(state, time), state, time)
<1> DEFINE r == MarkIssue(state, time)
<1> DEFINE l == Max({state.last_issue, time})
<1>1. r = [state EXCEPT !.issue_seen = TRUE, !.last_issue = l,
                        !.healthy_since_issue = 0]
  BY DEF MarkIssue
<1>2. /\ l = IF state.last_issue >= time THEN state.last_issue ELSE time
      /\ l \in Instants
  <2>1. state.last_issue \in Int /\ time \in Int /\ state.last_issue \in Instants
    BY MonitorAssumption DEF State, Instants
  <2> QED
    BY <2>1, MaxOfTwo
<1> HIDE DEF l, r
<1>3. 0 \in Counter
  BY Halves DEF Counter
<1>4. r \in State
  BY <1>1, <1>2, <1>3 DEF State
<1>5. r.issue_seen = TRUE /\ r.last_issue = l /\ r.healthy_since_issue = 0
  BY <1>1 DEF State
<1>6. /\ r.received = state.received /\ r.last_receive = state.last_receive
      /\ r.gap = state.gap /\ r.duplicate = state.duplicate
      /\ r.reordered = state.reordered /\ r.missing = state.missing
  BY <1>1 DEF State
<1>7. Marked(r, state, time)
  BY <1>2, <1>4, <1>5, <1>6 DEF Marked
<1> QED
  BY <1>7 DEF r

\* The effect of a packet on the state of its source.
Recorded(r, state, status, missing, normal, time) ==
  /\ r \in State
  /\ r.received = Increment(state.received)
  /\ r.last_receive = time
  /\ r.gap = IncrementIf(state.gap, status = "gap")
  /\ r.duplicate = IncrementIf(state.duplicate, status = "duplicate")
  /\ r.reordered = IncrementIf(state.reordered, status = "reordered")
  /\ r.missing = SaturatingAdd(state.missing, missing)
  /\ r.issue_seen = IF normal THEN state.issue_seen ELSE TRUE
  /\ r.last_issue = IF normal \/ state.last_issue >= time
                    THEN state.last_issue ELSE time
  /\ r.healthy_since_issue = IF normal THEN Increment(state.healthy_since_issue)
                                       ELSE 0

\* A packet in the state of its source.
LEMMA RecordDoes ==
  ASSUME NEW state \in State, NEW status, NEW missing \in Nat,
         NEW anomaly \in BOOLEAN, NEW time \in Instants,
         state.last_receive <= time,
         NEW normal \in BOOLEAN,
         normal <=> ~anomaly /\ status \notin {"gap", "duplicate", "reordered"}
  PROVE  Recorded(RecordPacket(state, status, missing, anomaly, time),
                  state, status, missing, normal, time)
<1> DEFINE r == RecordPacket(state, status, missing, anomaly, time)
<1>1. Max({time, state.last_receive}) = time
  <2>1. time \in Int /\ state.last_receive \in Int
    BY MonitorAssumption DEF State, Instants
  <2> QED
    BY <2>1, MaxOfTwo
<1> DEFINE counted == [state EXCEPT
             !.last_receive = time,
             !.received = Increment(@),
             !.anomalies = IncrementIf(@, anomaly),
             !.gap = IncrementIf(@, status = "gap"),
             !.missing = SaturatingAdd(@, missing),
             !.duplicate = IncrementIf(@, status = "duplicate"),
             !.reordered = IncrementIf(@, status = "reordered")]
<1>2. r = IF normal
          THEN [counted EXCEPT !.healthy_since_issue = Increment(@)]
          ELSE MarkIssue(counted, time)
  BY <1>1 DEF RecordPacket
<1>3. /\ state.received \in Counter /\ state.anomalies \in Counter
      /\ state.gap \in Counter /\ state.duplicate \in Counter
      /\ state.reordered \in Counter /\ state.missing \in Counter
      /\ state.healthy_since_issue \in Counter
  BY DEF State
<1>4. /\ Increment(state.received) \in Counter
      /\ IncrementIf(state.anomalies, anomaly) \in Counter
      /\ IncrementIf(state.gap, status = "gap") \in Counter
      /\ IncrementIf(state.duplicate, status = "duplicate") \in Counter
      /\ IncrementIf(state.reordered, status = "reordered") \in Counter
      /\ SaturatingAdd(state.missing, missing) \in Counter
      /\ Increment(state.healthy_since_issue) \in Counter
  BY <1>3, Counting
<1>5. /\ counted \in State
      /\ counted.received = Increment(state.received)
      /\ counted.last_receive = time
      /\ counted.gap = IncrementIf(state.gap, status = "gap")
      /\ counted.duplicate = IncrementIf(state.duplicate, status = "duplicate")
      /\ counted.reordered = IncrementIf(state.reordered, status = "reordered")
      /\ counted.missing = SaturatingAdd(state.missing, missing)
      /\ counted.healthy_since_issue = state.healthy_since_issue
      /\ counted.last_issue = state.last_issue
      /\ counted.issue_seen = state.issue_seen
  <2> DEFINE a == Increment(state.received)
             b == IncrementIf(state.anomalies, anomaly)
             c == IncrementIf(state.gap, status = "gap")
             d == IncrementIf(state.duplicate, status = "duplicate")
             e == IncrementIf(state.reordered, status = "reordered")
             f == SaturatingAdd(state.missing, missing)
  <2>1. /\ a \in Counter /\ b \in Counter /\ c \in Counter
        /\ d \in Counter /\ e \in Counter /\ f \in Counter
    BY <1>4
  <2>2. counted = [state EXCEPT
             !.last_receive = time, !.received = a, !.anomalies = b,
             !.gap = c, !.missing = f, !.duplicate = d, !.reordered = e]
    OBVIOUS
  <2> HIDE DEF a, b, c, d, e, f, counted
  <2>3. counted \in State
    BY <2>1, <2>2 DEF State
  <2>4. /\ counted.received = a /\ counted.last_receive = time
        /\ counted.gap = c /\ counted.duplicate = d
        /\ counted.reordered = e /\ counted.missing = f
        /\ counted.healthy_since_issue = state.healthy_since_issue
        /\ counted.last_issue = state.last_issue
        /\ counted.issue_seen = state.issue_seen
    BY <2>2 DEF State
  <2> QED
    BY <2>3, <2>4 DEF a, b, c, d, e, f
<1> HIDE DEF counted, r
<1>6. CASE normal
  <2>1. Recorded(r, state, status, missing, normal, time)
    BY <1>2, <1>4, <1>5, <1>6 DEF State, Recorded
  <2> QED
    BY <2>1 DEF r
<1>7. CASE ~normal
  <2>1. r = MarkIssue(counted, time)
    BY <1>2, <1>7
  <2>2. Marked(r, counted, time)
    BY <2>1, <1>5, MarkDoes
  <2>3. Recorded(r, state, status, missing, normal, time)
    BY <2>2, <1>5, <1>7 DEF Marked, Recorded
  <2> QED
    BY <2>3 DEF r
<1> QED
  BY <1>6, <1>7
-----------------------------------------------------------------------------
(* Histories.                                                              *)

\* One more event at the end of a history.
Longer(longer, events, e) ==
  LET n == Len(longer) IN
  /\ longer \in Seq(Event) /\ n \in Nat \ {0}
  /\ DOMAIN longer = 1..n /\ DOMAIN events = 1..(n - 1)
  /\ longer[n] = e
  /\ \A i \in DOMAIN events : longer[i] = events[i]

\* Append makes a history longer.
LEMMA Appending ==
  ASSUME NEW events \in Seq(Event), NEW e \in Event
  PROVE  Longer(Append(events, e), events, e)
<1> DEFINE longer == Append(events, e)
<1>1. /\ longer \in Seq(Event) /\ Len(longer) = Len(events) + 1
      /\ \A i \in 1..Len(events) : longer[i] = events[i]
      /\ longer[Len(events) + 1] = e
  BY AppendProperties
<1>2. Len(events) \in Nat /\ DOMAIN events = 1..Len(events)
      /\ DOMAIN longer = 1..Len(longer)
  BY <1>1, LenProperties
<1> HIDE DEF longer
<1>3. Longer(longer, events, e)
  BY <1>1, <1>2 DEF Longer
<1> QED
  BY <1>3 DEF longer

\* The parts of a history are finite.
LEMMA PartsAreFinite ==
  ASSUME NEW events \in Seq(Event)
  PROVE  /\ Packets(events) \subseteq DOMAIN events
         /\ Issues(events) \subseteq DOMAIN events
         /\ Fresh(events) \subseteq DOMAIN events
         /\ IsFiniteSet(Packets(events)) /\ Cardinality(Packets(events)) \in Nat
         /\ IsFiniteSet(Issues(events)) /\ Cardinality(Issues(events)) \in Nat
         /\ IsFiniteSet(Fresh(events)) /\ Cardinality(Fresh(events)) \in Nat
<1>1. Len(events) \in Nat /\ DOMAIN events = 1..Len(events)
  BY LenProperties
<1>2. IsFiniteSet(DOMAIN events)
  BY <1>1, FS_Interval
<1>3. /\ Packets(events) \subseteq DOMAIN events
      /\ Issues(events) \subseteq DOMAIN events
      /\ Fresh(events) \subseteq DOMAIN events
  BY DEF Packets, Issues, Fresh
<1>4. /\ IsFiniteSet(Packets(events)) /\ IsFiniteSet(Issues(events))
      /\ IsFiniteSet(Fresh(events))
  BY <1>2, <1>3, FS_Subset
<1> QED
  BY <1>3, <1>4, FS_CardinalityType

\* What the event adds to the parts of the history.
LEMMA PartsGrow ==
  ASSUME NEW events \in Seq(Event), NEW e \in Event,
         NEW longer, Longer(longer, events, e), NEW n, n = Len(longer)
  PROVE  /\ Packets(longer) = IF e.packet THEN Packets(events) \cup {n}
                                          ELSE Packets(events)
         /\ Issues(longer) = IF e.normal THEN Issues(events)
                                         ELSE Issues(events) \cup {n}
         /\ Fresh(longer) = IF e.normal THEN Fresh(events) \cup {n} ELSE {}
         /\ n \notin DOMAIN events
<1>1. /\ n \in Nat \ {0} /\ DOMAIN longer = (DOMAIN events) \cup {n}
      /\ DOMAIN events = 1..(n - 1) /\ n \notin DOMAIN events
      /\ longer[n] = e
      /\ \A i \in DOMAIN events : longer[i] = events[i]
  BY DEF Longer
<1>2. e.packet \in BOOLEAN /\ e.normal \in BOOLEAN
  BY DEF Event
<1>3. Packets(longer) = IF e.packet THEN Packets(events) \cup {n}
                                    ELSE Packets(events)
  BY <1>1, <1>2 DEF Packets
<1>4. Issues(longer) = IF e.normal THEN Issues(events)
                                   ELSE Issues(events) \cup {n}
  BY <1>1, <1>2 DEF Issues
<1>5. CASE e.normal
  <2>1. Issues(longer) = Issues(events) /\ Issues(events) \subseteq DOMAIN events
    BY <1>4, <1>5 DEF Issues
  <2>2. \A j \in DOMAIN events : n > j
    BY <1>1
  <2>3. Fresh(longer) = Fresh(events) \cup {n}
    BY <2>1, <2>2, <1>1 DEF Fresh
  <2> QED
    BY <2>3, <1>1, <1>3, <1>4, <1>5
<1>6. CASE ~e.normal
  <2>1. n \in Issues(longer)
    BY <1>4, <1>6
  <2>2. \A i \in DOMAIN longer : ~(i > n)
    BY <1>1
  <2>3. Fresh(longer) = {}
    BY <2>1, <2>2 DEF Fresh
  <2> QED
    BY <2>3, <1>1, <1>3, <1>4, <1>6
<1> QED
  BY <1>5, <1>6

\* A latest instant is that of the longer history, unless the event is later.
LEMMA LatestGrows ==
  ASSUME NEW events \in Seq(Event), NEW e \in Event,
         NEW longer, Longer(longer, events, e), NEW n, n = Len(longer),
         NEW is \in SUBSET (DOMAIN events), NEW t \in Instants,
         IsLatest(t, events, is)
  PROVE  /\ IsLatest(t, longer, is)
         /\ IsLatest(IF t >= e.time THEN t ELSE e.time, longer, is \cup {n})
<1>1. /\ longer[n] = e /\ \A i \in is : longer[i] = events[i]
  BY DEF Longer
<1>2. /\ t \in Nat /\ e.time \in Nat
      /\ \A i \in is : events[i].time \in Nat
  <2>1. \A i \in DOMAIN events : events[i] \in Event
    BY ElementOfSeq
  <2> QED
    BY <2>1, MonitorAssumption DEF Event, Instants
<1>3. /\ is = {} => t = 0
      /\ is # {} => \E i \in is : longer[i].time = t
      /\ \A i \in is : longer[i].time <= t
  BY <1>1 DEF IsLatest
<1>4. IsLatest(t, longer, is)
  BY <1>3 DEF IsLatest
<1>5. PICK m : m = IF t >= e.time THEN t ELSE e.time
  OBVIOUS
<1>6. m \in Nat /\ m >= t /\ m >= e.time /\ (m = t \/ m = e.time)
  BY <1>5, <1>2
<1>7. \E i \in is \cup {n} : longer[i].time = m
  <2>1. CASE m = e.time
    BY <2>1, <1>1
  <2>2. CASE m = t /\ is # {}
    BY <2>2, <1>3
  <2>3. CASE m = t /\ is = {}
    <3>1. m = e.time
      BY <2>3, <1>2, <1>3, <1>6
    <3> QED
      BY <3>1, <1>1
  <2> QED
    BY <2>1, <2>2, <2>3, <1>6
<1>8. \A i \in is \cup {n} : longer[i].time <= m
  <2>1. \A i \in is : longer[i].time <= m
    BY <1>1, <1>2, <1>3, <1>6
  <2> QED
    BY <2>1, <1>1, <1>6
<1>9. IsLatest(m, longer, is \cup {n})
  BY <1>7, <1>8 DEF IsLatest
<1> QED
  BY <1>4, <1>5, <1>9

\* A capped count of one thing more.
LEMMA CappedGrows ==
  ASSUME NEW v \in Counter, NEW S, IsFiniteSet(S), NEW n, n \notin S,
         Capped(v, Cardinality(S))
  PROVE  Capped(Increment(v), Cardinality(S \cup {n}))
<1>1. PICK c \in Nat : c = Cardinality(S)
  BY FS_CardinalityType
<1>2. Cardinality(S \cup {n}) = c + 1
  BY <1>1, FS_AddElement
<1>3. /\ v \in Nat /\ CounterMax \in Nat
      /\ Increment(v) = IF v + 1 > CounterMax THEN CounterMax ELSE v + 1
  BY Counting, Halves
<1>4. v = IF c > CounterMax THEN CounterMax ELSE c
  BY <1>1 DEF Capped
<1>5. Increment(v) = IF c + 1 > CounterMax THEN CounterMax ELSE c + 1
  BY <1>1, <1>3, <1>4
<1> QED
  BY <1>2, <1>5 DEF Capped

\* The latest instant as the rules take it.
LEMMA LatestIs ==
  ASSUME NEW events \in Seq(Event), NEW is \in SUBSET (DOMAIN events), is # {},
         NEW t, IsLatest(t, events, is)
  PROVE  Max({events[i].time : i \in is}) = t
<1> DEFINE times == {events[i].time : i \in is}
<1>1. \A i \in is : events[i].time \in Int
  <2>1. \A i \in DOMAIN events : events[i] \in Event
    BY ElementOfSeq
  <2> QED
    BY <2>1, MonitorAssumption DEF Event, Instants
<1>2. t \in times
  BY DEF IsLatest
<1>3. times \in SUBSET Int
  BY <1>1
<1>4. \A y \in times : y <= t
  BY DEF IsLatest
<1> HIDE DEF times
<1>5. Max(times) = t
  BY <1>2, <1>3, <1>4, MaxIs
<1> QED
  BY <1>5 DEF times

\* A packet is summarised: normal ones count towards recovery, the others
\* restart it.
LEMMA PacketSummarised ==
  ASSUME NEW state \in State, NEW events \in Seq(Event), Summarises(state, events),
         NEW e \in Event, e.packet, state.last_receive <= e.time,
         NEW status, NEW missing,
         NEW r, Recorded(r, state, status, missing, e.normal, e.time),
         NEW longer, Longer(longer, events, e)
  PROVE  Summarises(r, longer)
<1>1. PICK n : n = Len(longer)
  OBVIOUS
<1>2. /\ Packets(longer) = Packets(events) \cup {n}
      /\ Issues(longer) = IF e.normal THEN Issues(events) ELSE Issues(events) \cup {n}
      /\ Fresh(longer) = IF e.normal THEN Fresh(events) \cup {n} ELSE {}
      /\ n \notin DOMAIN events
  BY <1>1, PartsGrow
<1>3. /\ Packets(events) \in SUBSET DOMAIN events
      /\ Issues(events) \in SUBSET DOMAIN events
      /\ Fresh(events) \in SUBSET DOMAIN events
      /\ IsFiniteSet(Packets(events)) /\ IsFiniteSet(Fresh(events))
  BY PartsAreFinite
<1>4. /\ IsLatest(state.last_receive, events, Packets(events))
      /\ Capped(state.received, Cardinality(Packets(events)))
      /\ state.issue_seen <=> Issues(events) # {}
      /\ IsLatest(state.last_issue, events, Issues(events))
      /\ Capped(state.healthy_since_issue, Cardinality(Fresh(events)))
  BY DEF Summarises
<1>5. /\ state.last_receive \in Instants /\ state.last_issue \in Instants
      /\ state.received \in Counter /\ state.healthy_since_issue \in Counter
      /\ e.time \in Instants /\ e.normal \in BOOLEAN
  BY DEF State, Event
<1>6. /\ r.received = Increment(state.received)
      /\ r.last_receive = e.time
      /\ r.issue_seen = IF e.normal THEN state.issue_seen ELSE TRUE
      /\ r.last_issue = IF e.normal \/ state.last_issue >= e.time
                        THEN state.last_issue ELSE e.time
      /\ r.healthy_since_issue = IF e.normal
                                 THEN Increment(state.healthy_since_issue) ELSE 0
  BY DEF Recorded
<1>7. IsLatest(r.last_receive, longer, Packets(longer))
  <2>1. IsLatest(IF state.last_receive >= e.time THEN state.last_receive ELSE e.time,
                 longer, Packets(events) \cup {n})
    BY <1>1, <1>3, <1>4, <1>5, LatestGrows
  <2>2. (IF state.last_receive >= e.time THEN state.last_receive ELSE e.time) = e.time
    BY <1>5, MonitorAssumption DEF Instants
  <2> QED
    BY <2>1, <2>2, <1>2, <1>6
<1>8. Capped(r.received, Cardinality(Packets(longer)))
  <2>1. Capped(Increment(state.received), Cardinality(Packets(events) \cup {n}))
    BY <1>2, <1>3, <1>4, <1>5, CappedGrows
  <2> QED
    BY <2>1, <1>2, <1>6
<1>9. r.issue_seen <=> Issues(longer) # {}
  BY <1>2, <1>4, <1>5, <1>6
<1>10. IsLatest(r.last_issue, longer, Issues(longer))
  <2>1. /\ IsLatest(state.last_issue, longer, Issues(events))
        /\ IsLatest(IF state.last_issue >= e.time THEN state.last_issue ELSE e.time,
                    longer, Issues(events) \cup {n})
    BY <1>1, <1>3, <1>4, <1>5, LatestGrows
  <2> QED
    BY <2>1, <1>2, <1>5, <1>6
<1>11. Capped(r.healthy_since_issue, Cardinality(Fresh(longer)))
  <2>1. CASE e.normal
    <3>1. Capped(Increment(state.healthy_since_issue),
                 Cardinality(Fresh(events) \cup {n}))
      BY <1>2, <1>3, <1>4, <1>5, CappedGrows
    <3> QED
      BY <3>1, <2>1, <1>2, <1>6
  <2>2. CASE ~e.normal
    <3>1. r.healthy_since_issue = 0 /\ Fresh(longer) = {}
      BY <2>2, <1>2, <1>6
    <3>2. Cardinality({}) = 0 /\ CounterMax \in Nat
      BY FS_EmptySet, Halves
    <3> QED
      BY <3>1, <3>2 DEF Capped
  <2> QED
    BY <2>1, <2>2
<1> QED
  BY <1>7, <1>8, <1>9, <1>10, <1>11 DEF Summarises

\* An issue that the pipeline reports is summarised: it restarts the recovery,
\* however late it comes.
LEMMA IssueSummarised ==
  ASSUME NEW state \in State, NEW events \in Seq(Event), Summarises(state, events),
         NEW e \in Event, ~e.packet, ~e.normal,
         NEW r, Marked(r, state, e.time),
         NEW longer, Longer(longer, events, e)
  PROVE  Summarises(r, longer)
<1>1. PICK n : n = Len(longer)
  OBVIOUS
<1>2. /\ Packets(longer) = Packets(events)
      /\ Issues(longer) = Issues(events) \cup {n}
      /\ Fresh(longer) = {}
  BY <1>1, PartsGrow
<1>3. /\ Packets(events) \in SUBSET DOMAIN events
      /\ Issues(events) \in SUBSET DOMAIN events
  BY PartsAreFinite
<1>4. /\ IsLatest(state.last_receive, events, Packets(events))
      /\ Capped(state.received, Cardinality(Packets(events)))
      /\ IsLatest(state.last_issue, events, Issues(events))
  BY DEF Summarises
<1>5. state.last_receive \in Instants /\ state.last_issue \in Instants
  BY DEF State
<1>6. /\ r.received = state.received /\ r.last_receive = state.last_receive
      /\ r.issue_seen = TRUE
      /\ r.last_issue = IF state.last_issue >= e.time THEN state.last_issue
                                                      ELSE e.time
      /\ r.healthy_since_issue = 0
  BY DEF Marked
<1>7. /\ IsLatest(state.last_receive, longer, Packets(events))
      /\ IsLatest(IF state.last_issue >= e.time THEN state.last_issue ELSE e.time,
                  longer, Issues(events) \cup {n})
  BY <1>1, <1>3, <1>4, <1>5, LatestGrows
<1>8. Capped(r.healthy_since_issue, Cardinality(Fresh(longer)))
  <2>1. Cardinality({}) = 0 /\ CounterMax \in Nat
    BY FS_EmptySet, Halves
  <2> QED
    BY <2>1, <1>2, <1>6 DEF Capped
<1>9. /\ IsLatest(r.last_receive, longer, Packets(longer))
      /\ IsLatest(r.last_issue, longer, Issues(longer))
      /\ Capped(r.received, Cardinality(Packets(longer)))
      /\ r.issue_seen <=> Issues(longer) # {}
  BY <1>2, <1>4, <1>6, <1>7
<1> QED
  BY <1>8, <1>9 DEF Summarises

\* A source without history.
LEMMA NothingSummarised == Summarises(NewSource, <<>>)
<1>1. DOMAIN <<>> = {}
  OBVIOUS
<1>2. Packets(<<>>) = {} /\ Issues(<<>>) = {} /\ Fresh(<<>>) = {}
  BY <1>1 DEF Packets, Issues, Fresh
<1>3. Cardinality({}) = 0 /\ CounterMax \in Nat
  BY FS_EmptySet, Halves
<1>4. IsLatest(0, <<>>, {}) /\ Capped(0, Cardinality({}))
  BY <1>3 DEF IsLatest, Capped
<1>5. /\ NewSource.received = 0 /\ NewSource.last_receive = 0
      /\ NewSource.healthy_since_issue = 0 /\ NewSource.last_issue = 0
      /\ ~NewSource.issue_seen
  BY NewSourceFields
<1> QED
  BY <1>2, <1>4, <1>5 DEF Summarises
-----------------------------------------------------------------------------
(* What the operations do to the table of sources.                         *)

\* The monitor's own part of its type.
TableTypeOK ==
  /\ clock \in Instants
  /\ table \subseteq Sources
  /\ health \in [Sources -> State]
  /\ submitting \subseteq Packet /\ inflight \subseteq Packet
  /\ Cardinality(submitting) <= 1

\* The type of the monitor is that of its tracker and its own.
LEMMA TypeParts == MonitorTypeOK <=> TrackerTypeOK /\ TableTypeOK
  BY DEF MonitorTypeOK, TableTypeOK, Instants, State, Counter, Packet

\* An event of source s: the state r and the history l that it leaves.
Changes(s, r, l) ==
  /\ health' = [health EXCEPT ![s] = r] /\ log' = [log EXCEPT ![s] = l]
  /\ r \in State /\ l \in Seq(Event)
  /\ Summarises(r, l)
  /\ r.last_receive <= clock
  /\ table' = table \cup {s} /\ Packets(l) # {}

\* A counted issue of the pipeline in the state of its source.
LEMMA IssueDoes ==
  ASSUME NEW state \in State, NEW counter \in {"dropped", "rejected"},
         NEW time \in Instants
  PROVE  Marked(CountIssue(state, counter, time), state, time)
<1> DEFINE counted == [state EXCEPT ![counter] = Increment(@)]
<1>1. state.dropped \in Counter /\ state.rejected \in Counter
  BY DEF State
<1>2. Increment(state.dropped) \in Counter /\ Increment(state.rejected) \in Counter
  BY <1>1, Counting
<1>3. /\ counted \in State
      /\ counted.received = state.received
      /\ counted.last_receive = state.last_receive
      /\ counted.gap = state.gap /\ counted.duplicate = state.duplicate
      /\ counted.reordered = state.reordered /\ counted.missing = state.missing
      /\ counted.last_issue = state.last_issue
  <2>1. CASE counter = "dropped"
    BY <2>1, <1>2 DEF State
  <2>2. CASE counter = "rejected"
    BY <2>2, <1>2 DEF State
  <2> QED
    BY <2>1, <2>2
<1> HIDE DEF counted
<1>4. Marked(MarkIssue(counted, time), counted, time)
  BY <1>3, MarkDoes
<1>5. Marked(MarkIssue(counted, time), state, time)
  BY <1>3, <1>4 DEF Marked
<1> QED
  BY <1>5 DEF counted, CountIssue

\* An issue of packet p: nothing for a source that has no state.
LEMMA ObserveIssueDoes ==
  ASSUME TableTypeOK, HistoryInv, NEW p \in Packet,
         NEW counter \in {"dropped", "rejected"}, ObserveIssue(p, counter),
         UNCHANGED table
  PROVE  \/ UNCHANGED <<health, log, table>>
         \/ \E r, l : /\ Changes(p.source, r, l)
                      /\ Marked(r, health[p.source], p.time)
                      /\ p.source \in table
<1>1. CASE p.source \notin table
  BY <1>1 DEF ObserveIssue
<1>2. CASE p.source \in table
  <2>1. PICK s, t : s = p.source /\ t = p.time
    OBVIOUS
  <2>2. s \in Sources /\ t \in Instants /\ s \in table
    BY <2>1, <1>2 DEF Packet
  <2>3. /\ health[s] \in State /\ log[s] \in Seq(Event)
        /\ Summarises(health[s], log[s])
        /\ health[s].last_receive <= clock /\ Packets(log[s]) # {}
    BY <2>2 DEF TableTypeOK, HistoryInv
  <2>4. PICK e : e = [packet |-> FALSE, normal |-> FALSE, time |-> t]
    OBVIOUS
  <2>5. e \in Event /\ ~e.packet /\ ~e.normal /\ e.time = t
    BY <2>2, <2>4 DEF Event
  <2>6. PICK r, l : /\ r = CountIssue(health[s], counter, t)
                    /\ l = Append(log[s], e)
    OBVIOUS
  <2>7. health' = [health EXCEPT ![s] = r] /\ log' = [log EXCEPT ![s] = l]
    <3>1. s \in DOMAIN health /\ s \in DOMAIN log
      BY <2>2 DEF TableTypeOK, HistoryInv
    <3>2. /\ health' = [health EXCEPT ![p.source] =
                 CountIssue(health[p.source], counter, p.time)]
          /\ log' = [log EXCEPT ![p.source] = Append(log[p.source],
                 [packet |-> FALSE, normal |-> FALSE, time |-> p.time])]
      BY <1>2 DEF ObserveIssue
    <3> QED
      BY <3>2, <2>1, <2>4, <2>6
  <2>8. Marked(r, health[s], t)
    BY <2>2, <2>3, <2>6, IssueDoes
  <2>9. Longer(l, log[s], e)
    BY <2>3, <2>5, <2>6, Appending
  <2>10. Summarises(r, l)
    BY <2>3, <2>5, <2>8, <2>9, IssueSummarised
  <2>11. Packets(l) = Packets(log[s])
    BY <2>3, <2>5, <2>9, PartsGrow
  <2>12. r.last_receive = health[s].last_receive /\ r \in State
    BY <2>8 DEF Marked
  <2>13. l \in Seq(Event)
    BY <2>9 DEF Longer
  <2>14. table' = table \cup {s}
    BY <2>2
  <2>15. Changes(s, r, l)
    BY <2>3, <2>7, <2>10, <2>11, <2>12, <2>13, <2>14 DEF Changes
  <2> QED
    BY <2>1, <2>2, <2>8, <2>15
<1> QED
  BY <1>1, <1>2

\* A packet: nothing for a source that the tracker does not admit.
LEMMA ObservePacketDoes ==
  ASSUME MonitorTypeOK, PositionInv, HistoryInv,
         NEW s \in Sources, NEW n \in SequenceNumbers, NEW anomaly \in BOOLEAN,
         ObservePacket(s, n, anomaly),
         NEW status, status = Classify(s, n)
  PROVE  /\ clock' = clock /\ tracked' = table'
         /\ \/ UNCHANGED <<health, log, table>> /\ status = "untracked"
            \/ \E r, l, normal :
                 /\ Changes(s, r, l)
                 /\ Recorded(r, health[s], status, Missing(s, n), normal, clock)
                 /\ status # "untracked"
<1>1. TrackerTypeOK /\ TableTypeOK
  BY TypeParts
<1>2. ObservedAs(s, n, status, Position(s, n), Missing(s, n))
  BY <1>1, NumbersClassified
<1>3. Observe(s, n) /\ clock' = clock
  BY DEF ObservePacket
<1>4. tracked' = IF status = "first" THEN tracked \cup {s} ELSE tracked
  BY <1>1, <1>3, ObserveDoes
<1>5. /\ status \in Statuses /\ Missing(s, n) \in Nat
      /\ status \notin {"first", "untracked"} => s \in tracked
  <2>1. Missing(s, n) \in Nat /\ status \in Statuses
    BY <1>1, <1>3, StreamDoes
  <2> QED
    BY <2>1, <1>2 DEF ObservedAs
<1>6. table = tracked
  BY DEF HistoryInv
<1>7. CASE status = "untracked"
  <2>1. UNCHANGED <<health, log, table>>
    BY <1>7 DEF ObservePacket
  <2>2. tracked' = table'
    BY <2>1, <1>4, <1>6, <1>7
  <2> QED
    BY <2>1, <2>2, <1>3, <1>7
<1>8. CASE status # "untracked"
  <2>1. PICK normal \in BOOLEAN : normal <=> ~anomaly /\ status \in {"first", "in_order"}
    OBVIOUS
  <2>2. normal <=> ~anomaly /\ status \notin {"gap", "duplicate", "reordered"}
    BY <2>1, <1>5, <1>8 DEF Statuses
  <2>3. /\ health[s] \in State /\ log[s] \in Seq(Event)
        /\ Summarises(health[s], log[s])
        /\ health[s].last_receive <= clock /\ clock \in Instants
        /\ s \in DOMAIN health /\ s \in DOMAIN log
    BY <1>1 DEF TableTypeOK, HistoryInv
  <2>4. PICK e : e = [packet |-> TRUE, normal |-> normal, time |-> clock]
    OBVIOUS
  <2>5. e \in Event /\ e.packet /\ e.normal = normal /\ e.time = clock
    BY <2>3, <2>4 DEF Event
  <2>6. PICK r, l : /\ r = RecordPacket(health[s], status, Missing(s, n), anomaly, clock)
                    /\ l = Append(log[s], e)
    OBVIOUS
  <2>7. e = [packet |-> TRUE,
             normal |-> ~anomaly /\ status \in {"first", "in_order"},
             time |-> clock]
    BY <2>1, <2>4
  <2>8. /\ health' = [health EXCEPT ![s] = r] /\ log' = [log EXCEPT ![s] = l]
        /\ table' = table \cup {s}
    BY <1>8, <2>3, <2>6, <2>7 DEF ObservePacket
  <2>9. Recorded(r, health[s], status, Missing(s, n), normal, clock)
    BY <1>5, <2>2, <2>3, <2>6, RecordDoes
  <2>10. Longer(l, log[s], e)
    BY <2>3, <2>5, <2>6, Appending
  <2>11. Summarises(r, l)
    <3>1. Recorded(r, health[s], status, Missing(s, n), e.normal, e.time)
      BY <2>5, <2>9
    <3>2. health[s].last_receive <= e.time
      BY <2>3, <2>5
    <3> QED
      BY <3>1, <3>2, <2>3, <2>5, <2>10, PacketSummarised
  <2>12. Packets(l) # {}
    <3>1. PICK i : i = Len(l)
      OBVIOUS
    <3>2. Packets(l) = IF e.packet THEN Packets(log[s]) \cup {i}
                                   ELSE Packets(log[s])
      BY <3>1, <2>3, <2>5, <2>10, PartsGrow
    <3> QED
      BY <3>2, <2>5
  <2>13. r.last_receive <= clock /\ r \in State
    <3>1. r.last_receive = clock /\ r \in State
      BY <2>9 DEF Recorded
    <3> QED
      BY <3>1, <2>3, MonitorAssumption DEF Instants
  <2>14. l \in Seq(Event)
    BY <2>10 DEF Longer
  <2>15. Changes(s, r, l)
    BY <2>8, <2>11, <2>12, <2>13, <2>14 DEF Changes
  <2>16. tracked' = table'
    BY <1>4, <1>5, <1>6, <1>8, <2>8
  <2> QED
    BY <2>9, <2>15, <2>16, <1>3, <1>8
<1> QED
  BY <1>7, <1>8
-----------------------------------------------------------------------------
(* The monitor uses its tracker as the tracker's specification says.       *)

\* Every step of the monitor observes a packet or leaves the tracker alone.
LEMMA TrackerSteps ==
  ASSUME [MonitorNext]_monitorVars
  PROVE  [TrackerNext]_trackerVars
<1>1. CASE UNCHANGED monitorVars
  BY <1>1 DEF monitorVars
<1>2. CASE Tick
  BY <1>2 DEF Tick
<1>3. ASSUME NEW s \in Sources, NEW n \in Numbers, NEW anomaly \in BOOLEAN,
             ObservePacket(s, n, anomaly)
      PROVE  TrackerNext
  <2>1. Observe(s, n) /\ n \in SequenceNumbers
    BY <1>3, MonitorAssumption DEF ObservePacket
  <2> QED
    BY <2>1 DEF TrackerNext
<1>4. ASSUME NEW p, QueueDrops(p) \/ QueueAccepts(p) \/ WorkerRejects(p)
                    \/ WorkerAccepts(p)
      PROVE  UNCHANGED trackerVars
  BY <1>4 DEF QueueDrops, QueueAccepts, WorkerRejects, WorkerAccepts
<1> QED
  BY <1>1, <1>2, <1>3, <1>4 DEF MonitorNext

\* Inside the monitor the tracker behaves as SensorStreamTracker specifies.
THEOREM MonitorRunsTracker == MonitorSpec => TrackerSpec
<1>1. MonitorInit => TrackerInit
  BY DEF MonitorInit
<1>2. [MonitorNext]_monitorVars => [TrackerNext]_trackerVars
  BY TrackerSteps
<1> QED
  BY <1>1, <1>2, PTL DEF MonitorSpec, TrackerSpec
-----------------------------------------------------------------------------
(* The states summarise the histories.                                     *)

\* Nothing happened to any source.
LEMMA HistoryStays ==
  ASSUME HistoryInv, TableTypeOK, UNCHANGED <<health, log, table, tracked>>,
         clock' \in Instants, clock' >= clock
  PROVE  HistoryInv'
<1>1. \A s \in Sources : health[s].last_receive <= clock'
  <2> SUFFICES ASSUME NEW s \in Sources PROVE health[s].last_receive <= clock'
    OBVIOUS
  <2>1. health[s].last_receive \in Int /\ clock \in Int /\ clock' \in Int
    <3>1. health[s] \in State
      BY DEF TableTypeOK
    <3> QED
      BY <3>1, MonitorAssumption DEF TableTypeOK, State, Instants
  <2>2. health[s].last_receive <= clock
    BY DEF HistoryInv
  <2> QED
    BY <2>1, <2>2
<1> QED
  BY <1>1 DEF HistoryInv

\* Something happened to source s.
LEMMA HistoryChanges ==
  ASSUME HistoryInv, TableTypeOK, NEW s \in Sources, NEW r, NEW l,
         Changes(s, r, l), clock' = clock, tracked' = table'
  PROVE  /\ HistoryInv'
         /\ table' \subseteq Sources /\ health' \in [Sources -> State]
<1>1. /\ health' = [health EXCEPT ![s] = r] /\ log' = [log EXCEPT ![s] = l]
      /\ r \in State /\ l \in Seq(Event)
      /\ Summarises(r, l)
      /\ r.last_receive <= clock
      /\ table' = table \cup {s} /\ Packets(l) # {}
  BY DEF Changes
<1>2. health' \in [Sources -> State] /\ table' \subseteq Sources
  BY <1>1 DEF TableTypeOK
<1>3. log' \in [Sources -> Seq(Event)]
  <2>1. log \in [Sources -> Seq(Event)]
    BY DEF HistoryInv
  <2> QED
    BY <2>1, <1>1
<1>4. /\ health'[s] = r /\ log'[s] = l
      /\ \A q \in Sources \ {s} : health'[q] = health[q] /\ log'[q] = log[q]
  <2>1. DOMAIN health = Sources /\ DOMAIN log = Sources
    BY DEF TableTypeOK, HistoryInv
  <2> QED
    BY <2>1, <1>1
<1>5. \A q \in Sources : Summarises(health'[q], log'[q])
  BY <1>1, <1>4 DEF HistoryInv
<1>6. \A q \in Sources : health'[q].last_receive <= clock'
  BY <1>1, <1>4 DEF HistoryInv
<1>7. \A q \in table' : Packets(log'[q]) # {}
  <2> SUFFICES ASSUME NEW q \in table' PROVE Packets(log'[q]) # {}
    OBVIOUS
  <2>1. CASE q = s
    BY <2>1, <1>1, <1>4
  <2>2. CASE q # s
    <3>1. q \in table /\ q \in Sources \ {s}
      BY <2>2, <1>1 DEF TableTypeOK
    <3> QED
      BY <3>1, <1>4 DEF HistoryInv
  <2> QED
    BY <2>1, <2>2
<1>8. \A q \in Sources \ table' : health'[q] = NewSource
  BY <1>1, <1>4 DEF HistoryInv
<1>9. table' = tracked'
  OBVIOUS
<1>10. HistoryInv'
  BY <1>3, <1>5, <1>6, <1>7, <1>8, <1>9 DEF HistoryInv
<1> QED
  BY <1>2, <1>10

\* Every step keeps the type of the table and what the states summarise.
LEMMA MonitorStep ==
  ASSUME MonitorTypeOK, PositionInv, HistoryInv, [MonitorNext]_monitorVars
  PROVE  TableTypeOK' /\ HistoryInv'
<1>1. TableTypeOK
  BY TypeParts
<1>2. /\ clock \in Instants /\ table \subseteq Sources
      /\ health \in [Sources -> State]
      /\ submitting \subseteq Packet /\ inflight \subseteq Packet
      /\ Cardinality(submitting) <= 1 /\ table = tracked
  BY <1>1 DEF TableTypeOK, HistoryInv
<1>3. Cardinality({}) = 0 /\ \A x : Cardinality({x}) = 1
  BY FS_EmptySet, FS_Singleton
<1>4. CASE UNCHANGED monitorVars
  <2>1. UNCHANGED <<clock, table, health, submitting, inflight, log, tracked>>
    BY <1>4 DEF monitorVars, trackerVars
  <2>2. TableTypeOK'
    BY <2>1, <1>2 DEF TableTypeOK
  <2>3. HistoryInv'
    BY <2>1 DEF HistoryInv
  <2> QED
    BY <2>2, <2>3
<1>5. CASE Tick
  <2>1. /\ clock' = clock + 1 /\ clock < MaxTime
        /\ UNCHANGED <<table, health, submitting, inflight, log, tracked>>
    BY <1>5 DEF Tick, trackerVars
  <2>2. clock' \in Instants /\ clock' >= clock
    BY <2>1, <1>2, MonitorAssumption DEF Instants
  <2>3. TableTypeOK'
    BY <2>1, <2>2, <1>2 DEF TableTypeOK
  <2>4. HistoryInv'
    BY <2>1, <2>2, <1>1, HistoryStays
  <2> QED
    BY <2>3, <2>4
<1>6. ASSUME NEW s \in Sources, NEW n \in Numbers, NEW anomaly \in BOOLEAN,
             ObservePacket(s, n, anomaly)
      PROVE  TableTypeOK' /\ HistoryInv'
  <2>0. n \in SequenceNumbers
    BY MonitorAssumption
  <2>1. PICK status : status = Classify(s, n)
    OBVIOUS
  <2>2. /\ clock' = clock /\ tracked' = table'
        /\ \/ UNCHANGED <<health, log, table>>
           \/ \E r, l : Changes(s, r, l)
    BY <2>0, <2>1, <1>6, ObservePacketDoes
  <2>3. /\ submitting' = {[id |-> stream.packets, source |-> s, time |-> clock]}
        /\ inflight' = inflight
    BY <1>6 DEF ObservePacket
  <2>4. stream.packets \in Nat
    <3>1. TrackerTypeOK
      BY TypeParts
    <3> QED
      BY <3>1 DEF TrackerTypeOK
  <2>5. submitting' \subseteq Packet /\ Cardinality(submitting') <= 1
    <3>1. PICK p : p = [id |-> stream.packets, source |-> s, time |-> clock]
      OBVIOUS
    <3>2. p \in Packet /\ submitting' = {p}
      BY <3>1, <2>3, <2>4, <1>2 DEF Packet
    <3>3. Cardinality({p}) = 1
      BY <1>3
    <3> QED
      BY <3>2, <3>3
  <2>6. /\ HistoryInv' /\ table' \subseteq Sources
        /\ health' \in [Sources -> State]
    <3>1. CASE UNCHANGED <<health, log, table>>
      <4>1. UNCHANGED <<health, log, table, tracked>>
        BY <3>1, <2>2, <1>2
      <4>2. clock' \in Instants /\ clock' >= clock
        BY <2>2, <1>2, MonitorAssumption DEF Instants
      <4>3. HistoryInv'
        BY <4>1, <4>2, <1>1, HistoryStays
      <4> QED
        BY <4>1, <4>3, <1>2
    <3>2. ASSUME NEW r, NEW l, Changes(s, r, l)
          PROVE  /\ HistoryInv' /\ table' \subseteq Sources
                 /\ health' \in [Sources -> State]
      BY <3>2, <2>2, <1>1, HistoryChanges
    <3> QED
      BY <3>1, <3>2, <2>2
  <2> QED
    BY <2>2, <2>3, <2>5, <2>6, <1>2 DEF TableTypeOK
<1>7. ASSUME NEW p \in Packet, NEW counter \in {"dropped", "rejected"},
             ObserveIssue(p, counter), UNCHANGED <<trackerVars, clock, table>>,
             submitting' \subseteq Packet, inflight' \subseteq Packet,
             Cardinality(submitting') <= 1
      PROVE  TableTypeOK' /\ HistoryInv'
  <2>1. \/ UNCHANGED <<health, log, table>>
        \/ \E r, l : Changes(p.source, r, l)
    BY <1>7, <1>1, ObserveIssueDoes
  <2>2. clock' = clock /\ tracked' = tracked /\ table' = table /\ tracked' = table'
    BY <1>7, <1>2 DEF trackerVars
  <2>3. p.source \in Sources
    BY DEF Packet
  <2>4. /\ HistoryInv' /\ table' \subseteq Sources
        /\ health' \in [Sources -> State]
    <3>1. CASE UNCHANGED <<health, log, table>>
      <4>1. clock' \in Instants /\ clock' >= clock
        BY <2>2, <1>2, MonitorAssumption DEF Instants
      <4>2. HistoryInv'
        BY <3>1, <4>1, <2>2, <1>1, HistoryStays
      <4> QED
        BY <3>1, <4>2, <1>2
    <3>2. ASSUME NEW r, NEW l, Changes(p.source, r, l)
          PROVE  /\ HistoryInv' /\ table' \subseteq Sources
                 /\ health' \in [Sources -> State]
      BY <3>2, <2>2, <2>3, <1>1, HistoryChanges
    <3> QED
      BY <3>1, <3>2, <2>1
  <2> QED
    BY <2>2, <2>4, <1>2, <1>7 DEF TableTypeOK
<1>8. ASSUME NEW p \in Packet, UNCHANGED <<trackerVars, clock, table, health, log>>,
             submitting' \subseteq Packet, inflight' \subseteq Packet,
             Cardinality(submitting') <= 1
      PROVE  TableTypeOK' /\ HistoryInv'
  <2>1. UNCHANGED <<health, log, table, tracked>> /\ clock' = clock
    BY <1>8 DEF trackerVars
  <2>2. clock' \in Instants /\ clock' >= clock
    BY <2>1, <1>2, MonitorAssumption DEF Instants
  <2>3. HistoryInv'
    BY <2>1, <2>2, <1>1, HistoryStays
  <2> QED
    BY <2>1, <2>2, <2>3, <1>2, <1>8 DEF TableTypeOK
<1>9. ASSUME NEW p \in submitting, QueueDrops(p) \/ QueueAccepts(p)
      PROVE  TableTypeOK' /\ HistoryInv'
  <2>1. p \in Packet /\ submitting' = {} /\ submitting' \subseteq Packet
        /\ Cardinality(submitting') <= 1
    BY <1>2, <1>3, <1>9 DEF QueueDrops, QueueAccepts
  <2>2. CASE QueueDrops(p)
    <3>1. /\ ObserveIssue(p, "dropped") /\ UNCHANGED <<trackerVars, clock, table>>
          /\ inflight' \subseteq Packet
      BY <2>2, <1>2 DEF QueueDrops
    <3> QED
      BY <3>1, <2>1, <1>7
  <2>3. CASE QueueAccepts(p)
    <3>1. /\ UNCHANGED <<trackerVars, clock, table, health, log>>
          /\ inflight' \subseteq Packet
      BY <2>1, <2>3, <1>2 DEF QueueAccepts
    <3> QED
      BY <3>1, <2>1, <1>8
  <2> QED
    BY <1>9, <2>2, <2>3
<1>10. ASSUME NEW p \in inflight, WorkerRejects(p) \/ WorkerAccepts(p)
       PROVE  TableTypeOK' /\ HistoryInv'
  <2>1. /\ p \in Packet /\ inflight' \subseteq Packet
        /\ submitting' = submitting /\ submitting' \subseteq Packet
        /\ Cardinality(submitting') <= 1
    BY <1>2, <1>10 DEF WorkerRejects, WorkerAccepts
  <2>2. CASE WorkerRejects(p)
    <3>1. ObserveIssue(p, "rejected") /\ UNCHANGED <<trackerVars, clock, table>>
      BY <2>2 DEF WorkerRejects
    <3> QED
      BY <3>1, <2>1, <1>7
  <2>3. CASE WorkerAccepts(p)
    <3>1. UNCHANGED <<trackerVars, clock, table, health, log>>
      BY <2>3 DEF WorkerAccepts
    <3> QED
      BY <3>1, <2>1, <1>8
  <2> QED
    BY <1>10, <2>2, <2>3
<1> QED
  BY <1>4, <1>5, <1>6, <1>9, <1>10 DEF MonitorNext

\* It holds in the beginning.
LEMMA MonitorStarts ==
  ASSUME MonitorInit
  PROVE  TableTypeOK /\ HistoryInv
<1>1. /\ clock = 0 /\ table = {} /\ tracked = {}
      /\ health = [s \in Sources |-> NewSource]
      /\ log = [s \in Sources |-> <<>>]
      /\ submitting = {} /\ inflight = {}
  BY DEF MonitorInit, TrackerInit
<1>2. 0 \in Instants /\ Cardinality({}) = 0
  BY MonitorAssumption, FS_EmptySet DEF Instants
<1>3. NewSource \in State /\ NewSource.last_receive = 0
  BY NewSourceFields
<1>4. TableTypeOK
  BY <1>1, <1>2, <1>3 DEF TableTypeOK
<1>5. <<>> \in Seq(Event)
  BY EmptySeq
<1>6. log \in [Sources -> Seq(Event)]
  BY <1>1, <1>5
<1>7. HistoryInv
  BY <1>1, <1>3, <1>6, NothingSummarised DEF HistoryInv
<1> QED
  BY <1>4, <1>7

\* Types, positions and summaries hold in every reachable state.
THEOREM MonitorTyping == MonitorSpec => [](MonitorTypeOK /\ PositionInv /\ HistoryInv)
<1>1. MonitorInit => MonitorTypeOK /\ PositionInv /\ HistoryInv
  BY MonitorStarts, TrackerStarts, TypeParts DEF MonitorInit
<1>2. MonitorTypeOK /\ PositionInv /\ HistoryInv /\ [MonitorNext]_monitorVars
        => MonitorTypeOK' /\ PositionInv' /\ HistoryInv'
  <2> SUFFICES ASSUME MonitorTypeOK, PositionInv, HistoryInv,
                      [MonitorNext]_monitorVars
               PROVE  MonitorTypeOK' /\ PositionInv' /\ HistoryInv'
    OBVIOUS
  <2>1. [TrackerNext]_trackerVars
    BY TrackerSteps
  <2>2. TrackerTypeOK
    BY TypeParts
  <2>3. TrackerTypeOK' /\ PositionInv'
    BY <2>1, <2>2, TrackerTypeStep, PositionStep
  <2>4. TableTypeOK' /\ HistoryInv'
    BY MonitorStep
  <2>5. (MonitorTypeOK <=> TrackerTypeOK /\ TableTypeOK)'
    BY TypeParts, PTL
  <2> QED
    BY <2>3, <2>4, <2>5
<1> QED
  BY <1>1, <1>2, PTL DEF MonitorSpec

\* A report decides every status as the rules do on the complete histories.
THEOREM HealthProved == MonitorSpec => []StatusFollowsHistory
<1>1. ASSUME MonitorTypeOK, HistoryInv, NEW now \in Instants, NEW s \in table
      PROVE  Status(s, now) = StatusByHistory(s, now)
  <2>1. TableTypeOK /\ s \in Sources
    <3>1. TableTypeOK
      BY <1>1, TypeParts
    <3> QED
      BY <3>1 DEF TableTypeOK
  <2>2. PICK events, state : events = log[s] /\ state = health[s]
    OBVIOUS
  <2>3. /\ events \in Seq(Event) /\ state \in State
        /\ Summarises(state, events) /\ Packets(events) # {}
    BY <1>1, <2>1, <2>2 DEF TableTypeOK, HistoryInv
  <2>4. PICK received, healthy, heard, issue :
          /\ received = state.received /\ healthy = state.healthy_since_issue
          /\ heard = state.last_receive /\ issue = state.last_issue
    OBVIOUS
  <2>5. /\ received \in Nat /\ healthy \in Nat /\ heard \in Nat /\ issue \in Nat
        /\ state.issue_seen \in BOOLEAN /\ now \in Nat
    BY <2>3, <2>4, MonitorAssumption, Halves DEF State, Instants, Counter
  <2>6. PICK P, I, F : P = Packets(events) /\ I = Issues(events) /\ F = Fresh(events)
    OBVIOUS
  <2>7. /\ P \in SUBSET DOMAIN events /\ I \in SUBSET DOMAIN events
        /\ Cardinality(P) \in Nat /\ Cardinality(F) \in Nat
    BY <2>3, <2>6, PartsAreFinite
  <2>8. /\ IsLatest(heard, events, P) /\ P # {}
        /\ Capped(received, Cardinality(P))
        /\ state.issue_seen <=> I # {}
        /\ IsLatest(issue, events, I)
        /\ Capped(healthy, Cardinality(F))
    BY <2>3, <2>4, <2>6 DEF Summarises
  <2>9. Max({events[i].time : i \in P}) = heard
    BY <2>3, <2>7, <2>8, LatestIs
  <2>10. I # {} => Max({events[i].time : i \in I}) = issue
    BY <2>3, <2>7, <2>8, LatestIs
  <2>11. /\ received < HealthyAfter <=> Cardinality(P) < HealthyAfter
         /\ healthy < HealthyAfter <=> Cardinality(F) < HealthyAfter
    <3>1. HealthyAfter \in Nat /\ HealthyAfter <= CounterMax /\ CounterMax \in Nat
      BY MonitorAssumption, Halves
    <3>2. /\ received = IF Cardinality(P) > CounterMax THEN CounterMax
                                                       ELSE Cardinality(P)
          /\ healthy = IF Cardinality(F) > CounterMax THEN CounterMax
                                                      ELSE Cardinality(F)
      BY <2>8 DEF Capped
    <3> QED
      BY <3>1, <3>2, <2>7
  <2>12. PICK silence \in Int : silence = IF now >= heard THEN now - heard ELSE 0
    BY <2>5
  <2>13. Max({0, now - heard}) = silence
    <3>1. Max({0, now - heard}) = IF 0 >= now - heard THEN 0 ELSE now - heard
      BY <2>5, MaxOfTwo
    <3> QED
      BY <3>1, <2>5, <2>12
  <2>14. Elapsed(now, issue) < RecoveryAfter <=> now - issue < RecoveryAfter
    BY <2>5, MonitorAssumption DEF Elapsed
  <2>15. PICK recovering \in BOOLEAN :
           recovering <=> I # {} /\ (\/ now - issue < RecoveryAfter
                                     \/ Cardinality(F) < HealthyAfter)
    OBVIOUS
  <2>16. Status(s, now) =
           IF silence >= OfflineAfter THEN "offline"
           ELSE IF silence >= DegradedAfter \/ recovering THEN "degraded"
           ELSE IF Cardinality(P) < HealthyAfter THEN "unknown"
           ELSE "healthy"
    <3>1. /\ Elapsed(now, health[s].last_receive) = silence
          /\ recovering <=>
               /\ health[s].issue_seen
               /\ \/ Elapsed(now, health[s].last_issue) < RecoveryAfter
                  \/ health[s].healthy_since_issue < HealthyAfter
          /\ health[s].received < HealthyAfter <=> Cardinality(P) < HealthyAfter
      BY <2>2, <2>4, <2>8, <2>11, <2>12, <2>14, <2>15 DEF Elapsed
    <3> QED
      BY <3>1 DEF Status
  <2>17. StatusByHistory(s, now) =
           CASE silence >= OfflineAfter -> "offline"
             [] silence >= DegradedAfter /\ silence < OfflineAfter -> "degraded"
             [] silence < DegradedAfter ->
                  IF recovering THEN "degraded"
                  ELSE IF Cardinality(P) < HealthyAfter THEN "unknown"
                  ELSE "healthy"
    <3>1. /\ P = {i \in DOMAIN log[s] : log[s][i].packet}
          /\ I = {i \in DOMAIN log[s] : ~log[s][i].normal}
          /\ F = {i \in DOMAIN log[s] : \A j \in I : i > j}
      BY <2>2, <2>6 DEF Packets, Issues, Fresh
    <3>2. /\ Max({0, now - Max({log[s][i].time : i \in P})}) = silence
          /\ recovering <=> I # {} /\ (\/ now - Max({log[s][i].time : i \in I})
                                            < RecoveryAfter
                                       \/ Cardinality(F) < HealthyAfter)
      BY <2>2, <2>9, <2>10, <2>13, <2>15
    <3> QED
      BY <3>1, <3>2 DEF StatusByHistory
  <2>18. /\ DegradedAfter \in Nat /\ OfflineAfter \in Nat
         /\ OfflineAfter > DegradedAfter /\ silence \in Int
    BY MonitorAssumption
  <2>19. CASE silence >= OfflineAfter
    BY <2>16, <2>17, <2>18, <2>19
  <2>20. CASE silence >= DegradedAfter /\ silence < OfflineAfter
    BY <2>16, <2>17, <2>18, <2>20
  <2>21. CASE silence < DegradedAfter
    BY <2>16, <2>17, <2>18, <2>21
  <2> QED
    BY <2>18, <2>19, <2>20, <2>21
<1>2. MonitorTypeOK /\ HistoryInv => StatusFollowsHistory
  <2> SUFFICES ASSUME MonitorTypeOK, HistoryInv, NEW now \in 0..MaxTime,
                      NEW s \in table
               PROVE  Report(now)[s].status = StatusByHistory(s, now)
    BY DEF StatusFollowsHistory
  <2>1. Report(now)[s].status = Status(s, now)
    BY DEF Report, Snapshot
  <2> QED
    BY <2>1, <1>1 DEF Instants
<1> QED
  BY <1>2, MonitorTyping, PTL
-----------------------------------------------------------------------------
(* Sums of counters over the sources.                                      *)

\* A row of every source in T, as long as its counter in f.
Rows(T, f) == UNION {{s} \X (1..f[s]) : s \in T}
Total(T, f) == Cardinality(Rows(T, f))

\* A total and the counters of the sources agree as far as they can count.
Agree(a, T, f) == Saturated(a) = Saturated(Total(T, f))

\* A number as far as a counter can count.
LEMMA SaturatedIs ==
  ASSUME NEW m \in Int
  PROVE  Saturated(m) = IF m > CounterMax THEN CounterMax ELSE m
<1>1. PICK l : l = IF m > CounterMax THEN CounterMax ELSE m
  OBVIOUS
<1>2. /\ l \in {CounterMax, m} /\ CounterMax \in Nat
      /\ \A y \in {CounterMax, m} : l <= y
  BY <1>1, Halves
<1>3. \A x \in {CounterMax, m} : (\A y \in {CounterMax, m} : x <= y) => x = l
  BY <1>2
<1> QED
  BY <1>1, <1>2, <1>3 DEF Min, Saturated

\* The rows one by one.
LEMMA RowsAre ==
  ASSUME NEW T, NEW f
  PROVE  \A e : e \in Rows(T, f) <=> \E q \in T : \E x \in 1..f[q] : e = <<q, x>>
  BY DEF Rows

\* Finitely many counters have finite rows.
LEMMA RowsFinite ==
  ASSUME NEW T \in SUBSET Sources, IsFiniteSet(T), NEW f \in [Sources -> Counter]
  PROVE  IsFiniteSet(Rows(T, f)) /\ Total(T, f) \in Nat
<1>1. CounterMax \in Nat
  BY Halves
<1>2. IsFiniteSet(1..CounterMax)
  BY <1>1, FS_Interval
<1>3. IsFiniteSet(T \X (1..CounterMax))
  BY <1>2, FS_Product
<1>4. \A q \in T : \A x \in 1..f[q] : x \in 1..CounterMax
  BY <1>1 DEF Counter
<1>5. Rows(T, f) \subseteq T \X (1..CounterMax)
  BY <1>4, RowsAre
<1>6. IsFiniteSet(Rows(T, f))
  BY <1>3, <1>5, FS_Subset
<1> QED
  BY <1>6, FS_CardinalityType DEF Total

\* The row of one source is as long as its counter.
LEMMA RowIs ==
  ASSUME NEW s, NEW v \in Nat
  PROVE  IsFiniteSet({s} \X (1..v)) /\ Cardinality({s} \X (1..v)) = v
<1>1. IsFiniteSet({s}) /\ Cardinality({s}) = 1
  BY FS_Singleton
<1>2. IsFiniteSet(1..v) /\ Cardinality(1..v) = v
  BY FS_Interval
<1>3. /\ IsFiniteSet({s} \X (1..v))
      /\ Cardinality({s} \X (1..v)) = Cardinality({s}) * Cardinality(1..v)
  BY <1>1, <1>2, FS_Product
<1> QED
  BY <1>1, <1>2, <1>3

\* The total is that of the other sources and the counter of one.
LEMMA TotalSplits ==
  ASSUME NEW T \in SUBSET Sources, IsFiniteSet(T), NEW f \in [Sources -> Counter],
         NEW s \in Sources, s \notin T => f[s] = 0
  PROVE  Total(T, f) = Total(T \ {s}, f) + f[s]
<1>1. PICK v \in Nat : v = f[s]
  BY Halves DEF Counter
<1>2. PICK rest : rest = Rows(T \ {s}, f)
  OBVIOUS
<1>3. PICK row : row = {s} \X (1..v)
  OBVIOUS
<1>4. IsFiniteSet(T \ {s}) /\ T \ {s} \in SUBSET Sources
  BY FS_RemoveElement
<1>5. IsFiniteSet(rest) /\ Cardinality(rest) \in Nat
  BY <1>2, <1>4, RowsFinite DEF Total
<1>6. IsFiniteSet(row) /\ Cardinality(row) = v
  BY <1>3, RowIs
<1>7. \A e : e \in row <=> \E x \in 1..v : e = <<s, x>>
  BY <1>3
<1>8. \A e : e \in rest <=> \E q \in T \ {s} : \E x \in 1..f[q] : e = <<q, x>>
  BY <1>2, RowsAre
<1>9. rest \cap row = {}
  BY <1>7, <1>8
<1>10. Rows(T, f) = rest \cup row
  <2>1. \A e : e \in Rows(T, f) <=> \E q \in T : \E x \in 1..f[q] : e = <<q, x>>
    BY RowsAre
  <2>2. CASE s \in T
    BY <2>1, <2>2, <1>1, <1>7, <1>8
  <2>3. CASE s \notin T
    <3>1. v = 0 /\ T \ {s} = T
      BY <2>3, <1>1
    <3>2. row = {}
      BY <3>1, <1>7
    <3> QED
      BY <3>1, <3>2, <1>2
  <2> QED
    BY <2>2, <2>3
<1>11. Cardinality(rest \cup row)
         = Cardinality(rest) + Cardinality(row) - Cardinality(rest \cap row)
  BY <1>5, <1>6, FS_Union
<1>12. Cardinality(rest \cap row) = 0
  BY <1>9, FS_EmptySet
<1>13. Total(T, f) = Cardinality(rest) + v
  BY <1>5, <1>6, <1>10, <1>11, <1>12 DEF Total
<1> QED
  BY <1>1, <1>2, <1>13 DEF Total

\* Counters that agree on the sources of T have the same total.
LEMMA TotalSame ==
  ASSUME NEW T, NEW f, NEW g, \A q \in T : f[q] = g[q]
  PROVE  Total(T, f) = Total(T, g)
<1>1. Rows(T, f) = Rows(T, g)
  BY DEF Rows
<1> QED
  BY <1>1 DEF Total

\* Counting d more of source s, in a total and in its counter.
LEMMA AgreeStep ==
  ASSUME NEW T \in SUBSET Sources, IsFiniteSet(T),
         NEW f \in [Sources -> Counter], NEW g \in [Sources -> Counter],
         NEW s \in Sources, s \notin T => f[s] = 0,
         \A q \in Sources \ {s} : g[q] = f[q],
         NEW d \in Nat, g[s] = SaturatingAdd(f[s], d),
         NEW a \in Nat, NEW b \in Nat, Saturated(b) = Saturated(a + d),
         Agree(a, T, f)
  PROVE  Agree(b, T \cup {s}, g)
<1>1. PICK M \in Nat : M = CounterMax
  BY Halves
<1>2. PICK v \in Nat, w \in Nat : v = f[s] /\ w = g[s]
  BY <1>1 DEF Counter
<1>3. v <= M /\ w = IF v + d > M THEN M ELSE v + d
  <2>1. v <= M
    BY <1>1, <1>2 DEF Counter
  <2>2. w = IF d > M - v THEN M ELSE v + d
    BY <1>1, <1>2 DEF SaturatingAdd
  <2> QED
    BY <2>1, <2>2
<1>4. IsFiniteSet(T \ {s}) /\ T \ {s} \in SUBSET Sources
  BY FS_RemoveElement
<1>5. IsFiniteSet(T \cup {s}) /\ T \cup {s} \in SUBSET Sources
  BY FS_AddElement
<1>6. PICK c \in Nat : c = Total(T \ {s}, f)
  BY <1>4, RowsFinite
<1>7. Total(T, f) = c + v
  BY <1>2, <1>6, TotalSplits
<1>8. Total(T \cup {s}, g) = c + w
  <2>1. Total(T \cup {s}, g) = Total((T \cup {s}) \ {s}, g) + g[s]
    BY <1>5, TotalSplits
  <2>2. (T \cup {s}) \ {s} = T \ {s}
    OBVIOUS
  <2>3. \A q \in T \ {s} : g[q] = f[q]
    OBVIOUS
  <2>4. Total(T \ {s}, g) = c
    BY <2>3, <1>6, TotalSame
  <2> QED
    BY <2>1, <2>2, <2>4, <1>2
<1>9. (IF a > M THEN M ELSE a) = IF c + v > M THEN M ELSE c + v
  <2>1. Saturated(a) = Saturated(c + v)
    BY <1>7 DEF Agree
  <2>2. Saturated(a) = IF a > M THEN M ELSE a
    BY <1>1, SaturatedIs
  <2>3. Saturated(c + v) = IF c + v > M THEN M ELSE c + v
    BY <1>1, SaturatedIs
  <2> QED
    BY <2>1, <2>2, <2>3
<1>10. (IF a + d > M THEN M ELSE a + d) = IF c + w > M THEN M ELSE c + w
  BY <1>3, <1>9
<1>11. Saturated(b) = IF a + d > M THEN M ELSE a + d
  BY <1>1, SaturatedIs
<1>12. Saturated(c + w) = IF c + w > M THEN M ELSE c + w
  BY <1>1, SaturatedIs
<1> QED
  BY <1>8, <1>10, <1>11, <1>12 DEF Agree
-----------------------------------------------------------------------------
(* The counters of the sources and of the stream.                          *)

\* One counter of every source.
Received(h) == [q \in Sources |-> h[q].received]
Gaps(h) == [q \in Sources |-> h[q].gap]
Duplicates(h) == [q \in Sources |-> h[q].duplicate]
LateArrivals(h) == [q \in Sources |-> h[q].reordered]
MissingOf(h) == [q \in Sources |-> h[q].missing]

\* The counters of the sources agree with those of the stream.
AgreeInv ==
  /\ Agree(stream.packets - stream.count["untracked"], table, Received(health))
  /\ Agree(stream.count["gap"], table, Gaps(health))
  /\ Agree(stream.count["duplicate"], table, Duplicates(health))
  /\ Agree(stream.count["reordered"], table, LateArrivals(health))
  /\ Agree(stream.missing, table, MissingOf(health))

\* The counters are functions into the counters.
LEMMA CounterTypes ==
  ASSUME NEW h \in [Sources -> State]
  PROVE  /\ Received(h) \in [Sources -> Counter] /\ Gaps(h) \in [Sources -> Counter]
         /\ Duplicates(h) \in [Sources -> Counter]
         /\ LateArrivals(h) \in [Sources -> Counter]
         /\ MissingOf(h) \in [Sources -> Counter]
<1>1. \A q \in Sources :
        /\ h[q].received \in Counter /\ h[q].gap \in Counter
        /\ h[q].duplicate \in Counter /\ h[q].reordered \in Counter
        /\ h[q].missing \in Counter
  BY DEF State
<1> QED
  BY <1>1 DEF Received, Gaps, Duplicates, LateArrivals, MissingOf

\* Counting one is adding one, or nothing.
LEMMA CountingAdds ==
  ASSUME NEW v \in Counter
  PROVE  /\ Increment(v) = SaturatingAdd(v, 1)
         /\ \A c \in BOOLEAN :
              IncrementIf(v, c) = SaturatingAdd(v, IF c THEN 1 ELSE 0)
         /\ SaturatingAdd(v, 0) = v
<1>1. v \in Nat /\ CounterMax \in Nat /\ v <= CounterMax
  BY Halves DEF Counter
<1>2. /\ Increment(v) = SaturatingAdd(v, 1) /\ SaturatingAdd(v, 0) = v
  BY <1>1 DEF Increment, SaturatingAdd
<1> QED
  BY <1>2 DEF IncrementIf

\* A saturated sum is as far as a counter can count the sum.
LEMMA SaturatingSum ==
  ASSUME NEW a \in Counter, NEW d \in Nat
  PROVE  /\ SaturatingAdd(a, d) \in Nat
         /\ Saturated(SaturatingAdd(a, d)) = Saturated(a + d)
<1>1. a \in Nat /\ CounterMax \in Nat /\ a <= CounterMax
  BY Halves DEF Counter
<1>2. PICK b \in Nat : b = SaturatingAdd(a, d)
  BY <1>1 DEF SaturatingAdd
<1>3. b = IF a + d > CounterMax THEN CounterMax ELSE a + d
  BY <1>1, <1>2 DEF SaturatingAdd
<1>4. Saturated(b) = Saturated(a + d)
  <2>1. Saturated(b) = IF b > CounterMax THEN CounterMax ELSE b
    BY SaturatedIs
  <2>2. Saturated(a + d) = IF a + d > CounterMax THEN CounterMax ELSE a + d
    BY <1>1, SaturatedIs
  <2> QED
    BY <1>1, <1>3, <2>1, <2>2
<1> QED
  BY <1>2, <1>4

\* The packets of the sources admitted.
LEMMA AdmittedPackets ==
  ASSUME TrackerTypeOK, CountsInv
  PROVE  stream.packets - stream.count["untracked"] \in Nat
<1>1. \A st \in Statuses : stream.count[st] \in Nat
  BY DEF TrackerTypeOK
<1>2. /\ stream.count["first"] \in Nat /\ stream.count["in_order"] \in Nat
      /\ stream.count["gap"] \in Nat /\ stream.count["duplicate"] \in Nat
      /\ stream.count["reordered"] \in Nat /\ stream.count["untracked"] \in Nat
  BY <1>1 DEF Statuses
<1> QED
  BY <1>2 DEF CountsInv

\* A packet counted for a source is counted in the stream.
LEMMA PacketAgrees ==
  ASSUME MonitorTypeOK, PositionInv, HistoryInv, CountsInv, AgreeInv,
         NEW s \in Sources, NEW n \in SequenceNumbers, Observe(s, n),
         NEW status, status = Classify(s, n), status # "untracked",
         NEW r, NEW l, NEW normal, Changes(s, r, l),
         Recorded(r, health[s], status, Missing(s, n), normal, clock),
         CountsInv', TrackerTypeOK'
  PROVE  AgreeInv'
<1>1. TrackerTypeOK /\ TableTypeOK
  BY TypeParts
<1>2. /\ health \in [Sources -> State] /\ health[s] \in State
      /\ table \in SUBSET Sources /\ table = tracked /\ IsFiniteSet(table)
  BY <1>1 DEF TableTypeOK, HistoryInv, CountsInv
<1>3. /\ health' = [health EXCEPT ![s] = r] /\ r \in State
      /\ table' = table \cup {s}
  BY DEF Changes
<1>4. health' \in [Sources -> State]
  BY <1>2, <1>3
<1>5. /\ stream'.packets = stream.packets + 1
      /\ stream'.missing = SaturatingAdd(stream.missing, Missing(s, n))
      /\ status \in Statuses
      /\ stream'.count[status] = stream.count[status] + 1
      /\ \A st \in Statuses \ {status} : stream'.count[st] = stream.count[st]
      /\ Missing(s, n) \in Nat
  BY <1>1, StreamDoes
<1>6. s \notin table => health[s] = NewSource
  BY DEF HistoryInv
<1>7. health'[s] = r /\ \A q \in Sources \ {s} : health'[q] = health[q]
  BY <1>2, <1>3
<1>8. /\ health[s].received \in Counter /\ health[s].gap \in Counter
      /\ health[s].duplicate \in Counter /\ health[s].reordered \in Counter
      /\ health[s].missing \in Counter
  BY <1>2 DEF State
<1>9. /\ r.received = SaturatingAdd(health[s].received, 1)
      /\ r.gap = SaturatingAdd(health[s].gap, IF status = "gap" THEN 1 ELSE 0)
      /\ r.duplicate = SaturatingAdd(health[s].duplicate,
                                     IF status = "duplicate" THEN 1 ELSE 0)
      /\ r.reordered = SaturatingAdd(health[s].reordered,
                                     IF status = "reordered" THEN 1 ELSE 0)
      /\ r.missing = SaturatingAdd(health[s].missing, Missing(s, n))
  BY <1>8, CountingAdds DEF Recorded
<1>10. \A st \in Statuses :
         /\ stream.count[st] \in Nat /\ stream'.count[st] \in Nat
         /\ stream'.count[st] = stream.count[st] + IF status = st THEN 1 ELSE 0
  BY <1>1, <1>5 DEF TrackerTypeOK
<1>11. Agree(stream'.count["gap"], table', Gaps(health'))
  <2>1. PICK d \in Nat : d = IF status = "gap" THEN 1 ELSE 0
    OBVIOUS
  <2>2. PICK f, g : f = Gaps(health) /\ g = Gaps(health')
    OBVIOUS
  <2>3. f \in [Sources -> Counter] /\ g \in [Sources -> Counter]
    BY <2>2, <1>2, <1>4, CounterTypes
  <2>4. /\ g[s] = SaturatingAdd(f[s], d)
        /\ s \notin table => f[s] = 0
        /\ \A q \in Sources \ {s} : g[q] = f[q]
    BY <2>1, <2>2, <1>6, <1>7, <1>9, NewSourceFields DEF Gaps
  <2>5. PICK a \in Nat, b \in Nat :
          a = stream.count["gap"] /\ b = stream'.count["gap"] /\ b = a + d
    BY <1>10, <2>1 DEF Statuses
  <2>6. Agree(a, table, f)
    BY <2>2, <2>5 DEF AgreeInv
  <2>7. Agree(b, table \cup {s}, g)
    BY <2>3, <2>4, <2>5, <2>6, <1>2, AgreeStep
  <2> QED
    BY <2>2, <2>5, <2>7, <1>3
<1>12. Agree(stream'.count["duplicate"], table', Duplicates(health'))
  <2>1. PICK d \in Nat : d = IF status = "duplicate" THEN 1 ELSE 0
    OBVIOUS
  <2>2. PICK f, g : f = Duplicates(health) /\ g = Duplicates(health')
    OBVIOUS
  <2>3. f \in [Sources -> Counter] /\ g \in [Sources -> Counter]
    BY <2>2, <1>2, <1>4, CounterTypes
  <2>4. /\ g[s] = SaturatingAdd(f[s], d)
        /\ s \notin table => f[s] = 0
        /\ \A q \in Sources \ {s} : g[q] = f[q]
    BY <2>1, <2>2, <1>6, <1>7, <1>9, NewSourceFields DEF Duplicates
  <2>5. PICK a \in Nat, b \in Nat :
          a = stream.count["duplicate"] /\ b = stream'.count["duplicate"]
            /\ b = a + d
    BY <1>10, <2>1 DEF Statuses
  <2>6. Agree(a, table, f)
    BY <2>2, <2>5 DEF AgreeInv
  <2>7. Agree(b, table \cup {s}, g)
    BY <2>3, <2>4, <2>5, <2>6, <1>2, AgreeStep
  <2> QED
    BY <2>2, <2>5, <2>7, <1>3
<1>13. Agree(stream'.count["reordered"], table', LateArrivals(health'))
  <2>1. PICK d \in Nat : d = IF status = "reordered" THEN 1 ELSE 0
    OBVIOUS
  <2>2. PICK f, g : f = LateArrivals(health) /\ g = LateArrivals(health')
    OBVIOUS
  <2>3. f \in [Sources -> Counter] /\ g \in [Sources -> Counter]
    BY <2>2, <1>2, <1>4, CounterTypes
  <2>4. /\ g[s] = SaturatingAdd(f[s], d)
        /\ s \notin table => f[s] = 0
        /\ \A q \in Sources \ {s} : g[q] = f[q]
    BY <2>1, <2>2, <1>6, <1>7, <1>9, NewSourceFields DEF LateArrivals
  <2>5. PICK a \in Nat, b \in Nat :
          a = stream.count["reordered"] /\ b = stream'.count["reordered"]
            /\ b = a + d
    BY <1>10, <2>1 DEF Statuses
  <2>6. Agree(a, table, f)
    BY <2>2, <2>5 DEF AgreeInv
  <2>7. Agree(b, table \cup {s}, g)
    BY <2>3, <2>4, <2>5, <2>6, <1>2, AgreeStep
  <2> QED
    BY <2>2, <2>5, <2>7, <1>3
<1>14. Agree(stream'.missing, table', MissingOf(health'))
  <2>1. PICK d \in Nat : d = Missing(s, n)
    BY <1>5
  <2>2. PICK f, g : f = MissingOf(health) /\ g = MissingOf(health')
    OBVIOUS
  <2>3. f \in [Sources -> Counter] /\ g \in [Sources -> Counter]
    BY <2>2, <1>2, <1>4, CounterTypes
  <2>4. /\ g[s] = SaturatingAdd(f[s], d)
        /\ s \notin table => f[s] = 0
        /\ \A q \in Sources \ {s} : g[q] = f[q]
    BY <2>1, <2>2, <1>6, <1>7, <1>9, NewSourceFields DEF MissingOf
  <2>5. PICK a \in Counter : a = stream.missing
    BY <1>1 DEF TrackerTypeOK, Counter
  <2>6. PICK b \in Nat : b = stream'.missing /\ Saturated(b) = Saturated(a + d)
    BY <2>1, <2>5, <1>5, SaturatingSum
  <2>7. Agree(a, table, f) /\ a \in Nat
    BY <2>2, <2>5, Counting DEF AgreeInv
  <2>8. Agree(b, table \cup {s}, g)
    BY <2>3, <2>4, <2>6, <2>7, <1>2, AgreeStep
  <2> QED
    BY <2>2, <2>6, <2>8, <1>3
<1>15. Agree(stream'.packets - stream'.count["untracked"], table', Received(health'))
  <2>1. PICK a \in Nat : a = stream.packets - stream.count["untracked"]
    BY <1>1, AdmittedPackets
  <2>2. PICK f, g : f = Received(health) /\ g = Received(health')
    OBVIOUS
  <2>3. f \in [Sources -> Counter] /\ g \in [Sources -> Counter]
    BY <2>2, <1>2, <1>4, CounterTypes
  <2>4. /\ g[s] = SaturatingAdd(f[s], 1)
        /\ s \notin table => f[s] = 0
        /\ \A q \in Sources \ {s} : g[q] = f[q]
    BY <2>2, <1>6, <1>7, <1>9, NewSourceFields DEF Received
  <2>5. stream'.packets - stream'.count["untracked"] = a + 1
    <3>1. /\ stream'.count["untracked"] = stream.count["untracked"]
          /\ stream.count["untracked"] \in Nat
      BY <1>5, <1>10 DEF Statuses
    <3>2. stream.packets \in Nat
      BY <1>1 DEF TrackerTypeOK
    <3> QED
      BY <3>1, <3>2, <2>1, <1>5
  <2>6. Agree(a, table, f)
    BY <2>1, <2>2 DEF AgreeInv
  <2>7. PICK b \in Nat : b = a + 1
    OBVIOUS
  <2>8. Agree(b, table \cup {s}, g)
    BY <2>3, <2>4, <2>6, <2>7, <1>2, AgreeStep
  <2> QED
    BY <2>2, <2>5, <2>7, <2>8, <1>3
<1> QED
  BY <1>11, <1>12, <1>13, <1>14, <1>15 DEF AgreeInv

\* A packet of a source that is not admitted counts for none.
LEMMA UntrackedAgrees ==
  ASSUME MonitorTypeOK, PositionInv, AgreeInv,
         NEW s \in Sources, NEW n \in SequenceNumbers, Observe(s, n),
         Classify(s, n) = "untracked", UNCHANGED <<table, health>>
  PROVE  AgreeInv'
<1>1. TrackerTypeOK
  BY TypeParts
<1>2. PICK status : status = Classify(s, n) /\ status = "untracked"
  OBVIOUS
<1>3. /\ stream'.packets = stream.packets + 1
      /\ stream'.missing = SaturatingAdd(stream.missing, Missing(s, n))
      /\ stream'.count[status] = stream.count[status] + 1
      /\ \A st \in Statuses \ {status} : stream'.count[st] = stream.count[st]
  BY <1>1, <1>2, StreamDoes
<1>4. Missing(s, n) = 0
  <2>1. ObservedAs(s, n, status, Position(s, n), Missing(s, n))
    BY <1>1, <1>2, NumbersClassified
  <2> QED
    BY <1>2, <2>1 DEF ObservedAs
<1>5. stream'.missing = stream.missing
  <2>1. stream.missing \in Counter
    BY <1>1 DEF TrackerTypeOK, Counter
  <2> QED
    BY <2>1, <1>3, <1>4, CountingAdds
<1>6. /\ stream'.count["gap"] = stream.count["gap"]
      /\ stream'.count["duplicate"] = stream.count["duplicate"]
      /\ stream'.count["reordered"] = stream.count["reordered"]
      /\ stream'.count["untracked"] = stream.count["untracked"] + 1
  BY <1>2, <1>3 DEF Statuses
<1>7. stream'.packets - stream'.count["untracked"]
        = stream.packets - stream.count["untracked"]
  <2>1. stream.packets \in Nat /\ stream.count["untracked"] \in Nat
    BY <1>1 DEF TrackerTypeOK, Statuses
  <2> QED
    BY <2>1, <1>3, <1>6
<1> QED
  BY <1>5, <1>6, <1>7 DEF AgreeInv

\* An issue that the pipeline reports is none of these counters.
LEMMA IssueAgrees ==
  ASSUME MonitorTypeOK, HistoryInv, AgreeInv,
         NEW s \in table, NEW r, NEW l, NEW time, Changes(s, r, l),
         Marked(r, health[s], time), UNCHANGED stream
  PROVE  AgreeInv'
<1>1. health \in [Sources -> State] /\ s \in Sources
  <2>1. TableTypeOK
    BY TypeParts
  <2> QED
    BY <2>1 DEF TableTypeOK
<1>2. health' = [health EXCEPT ![s] = r] /\ table' = table
  BY DEF Changes
<1>3. /\ r.received = health[s].received /\ r.gap = health[s].gap
      /\ r.duplicate = health[s].duplicate /\ r.reordered = health[s].reordered
      /\ r.missing = health[s].missing
  BY DEF Marked
<1>4. \A q \in Sources :
        /\ health'[q].received = health[q].received
        /\ health'[q].gap = health[q].gap
        /\ health'[q].duplicate = health[q].duplicate
        /\ health'[q].reordered = health[q].reordered
        /\ health'[q].missing = health[q].missing
  <2> SUFFICES ASSUME NEW q \in Sources
               PROVE  /\ health'[q].received = health[q].received
                      /\ health'[q].gap = health[q].gap
                      /\ health'[q].duplicate = health[q].duplicate
                      /\ health'[q].reordered = health[q].reordered
                      /\ health'[q].missing = health[q].missing
    OBVIOUS
  <2>1. health'[q] = IF q = s THEN r ELSE health[q]
    BY <1>1, <1>2
  <2> QED
    BY <2>1, <1>3
<1>5. /\ Received(health') = Received(health) /\ Gaps(health') = Gaps(health)
      /\ Duplicates(health') = Duplicates(health)
      /\ LateArrivals(health') = LateArrivals(health)
      /\ MissingOf(health') = MissingOf(health)
  BY <1>4 DEF Received, Gaps, Duplicates, LateArrivals, MissingOf
<1> QED
  BY <1>2, <1>5 DEF AgreeInv

\* Every step keeps the counters in agreement.
LEMMA AgreeHolds ==
  ASSUME MonitorTypeOK, PositionInv, HistoryInv, CountsInv, AgreeInv,
         [MonitorNext]_monitorVars
  PROVE  AgreeInv'
<1>1. TrackerTypeOK /\ TableTypeOK
  BY TypeParts
<1>2. [TrackerNext]_trackerVars
  BY TrackerSteps
<1>3. CountsInv' /\ TrackerTypeOK'
  BY <1>1, <1>2, CountsStep, TrackerTypeStep
<1>4. ASSUME UNCHANGED <<stream, table, health>>
      PROVE  AgreeInv'
  BY <1>4 DEF AgreeInv
<1>5. ASSUME NEW s \in Sources, NEW n \in Numbers, NEW anomaly \in BOOLEAN,
             ObservePacket(s, n, anomaly)
      PROVE  AgreeInv'
  <2>1. n \in SequenceNumbers /\ Observe(s, n)
    BY <1>5, MonitorAssumption DEF ObservePacket
  <2>2. PICK status : status = Classify(s, n)
    OBVIOUS
  <2>3. CASE status = "untracked"
    <3>1. UNCHANGED <<table, health>>
      BY <1>5, <2>2, <2>3 DEF ObservePacket
    <3> QED
      BY <2>1, <2>2, <2>3, <3>1, UntrackedAgrees
  <2>4. CASE status # "untracked"
    <3>1. PICK r, l, normal :
            /\ Changes(s, r, l)
            /\ Recorded(r, health[s], status, Missing(s, n), normal, clock)
      BY <1>5, <2>1, <2>2, <2>4, ObservePacketDoes
    <3> QED
      BY <3>1, <2>1, <2>2, <2>4, <1>3, PacketAgrees
  <2> QED
    BY <2>3, <2>4
<1>6. ASSUME NEW p \in Packet, NEW counter \in {"dropped", "rejected"},
             ObserveIssue(p, counter), UNCHANGED <<stream, table>>
      PROVE  AgreeInv'
  <2>1. \/ UNCHANGED <<health, log, table>>
        \/ \E r, l : /\ Changes(p.source, r, l)
                     /\ Marked(r, health[p.source], p.time)
                     /\ p.source \in table
    BY <1>1, <1>6, ObserveIssueDoes
  <2>2. CASE UNCHANGED <<health, log, table>>
    BY <2>2, <1>4, <1>6
  <2>3. ASSUME NEW r, NEW l, Changes(p.source, r, l),
               Marked(r, health[p.source], p.time), p.source \in table
        PROVE  AgreeInv'
    BY <2>3, <1>6, IssueAgrees
  <2> QED
    BY <2>1, <2>2, <2>3
<1>7. CASE UNCHANGED monitorVars
  BY <1>4, <1>7 DEF monitorVars, trackerVars
<1>8. CASE Tick
  BY <1>4, <1>8 DEF Tick, trackerVars
<1>9. ASSUME NEW p \in submitting, QueueDrops(p) \/ QueueAccepts(p)
      PROVE  AgreeInv'
  <2>1. p \in Packet
    BY <1>1 DEF TableTypeOK
  <2>2. CASE QueueDrops(p)
    BY <2>1, <2>2, <1>6 DEF QueueDrops, trackerVars
  <2>3. CASE QueueAccepts(p)
    BY <2>3, <1>4 DEF QueueAccepts, trackerVars
  <2> QED
    BY <1>9, <2>2, <2>3
<1>10. ASSUME NEW p \in inflight, WorkerRejects(p) \/ WorkerAccepts(p)
       PROVE  AgreeInv'
  <2>1. p \in Packet
    BY <1>1 DEF TableTypeOK
  <2>2. CASE WorkerRejects(p)
    BY <2>1, <2>2, <1>6 DEF WorkerRejects, trackerVars
  <2>3. CASE WorkerAccepts(p)
    BY <2>3, <1>4 DEF WorkerAccepts, trackerVars
  <2> QED
    BY <1>10, <2>2, <2>3
<1> QED
  BY <1>5, <1>7, <1>8, <1>9, <1>10 DEF MonitorNext

\* In the beginning there is nothing to count.
LEMMA AgreeStarts ==
  ASSUME MonitorInit
  PROVE  AgreeInv
<1>1. /\ table = {} /\ stream.packets = 0 /\ stream.missing = 0
      /\ stream.count["untracked"] = 0 /\ stream.count["gap"] = 0
      /\ stream.count["duplicate"] = 0 /\ stream.count["reordered"] = 0
  BY DEF MonitorInit, TrackerInit, ZeroStream, Statuses
<1>2. \A f : Total(table, f) = 0
  <2> SUFFICES ASSUME NEW f PROVE Total(table, f) = 0
    OBVIOUS
  <2>1. Rows(table, f) = {}
    BY <1>1, RowsAre
  <2> QED
    BY <2>1, FS_EmptySet DEF Total
<1>3. \A f : Agree(0, table, f)
  BY <1>2 DEF Agree
<1>4. stream.packets - stream.count["untracked"] = 0
  BY <1>1
<1> QED
  BY <1>1, <1>3, <1>4 DEF AgreeInv

\* The monitor and its tracker admit the same sources, and what is counted per
\* source adds up to what is counted for all of them.
THEOREM CountersProved == MonitorSpec => []CountersAgree
<1>1. ASSUME HistoryInv, AgreeInv, MonitorTypeOK
      PROVE  CountersAgree
  <2>1. table \subseteq Sources
    BY <1>1 DEF MonitorTypeOK
  <2>2. \A f : SumOver([s \in table |-> f[s]]) = Total(table, f)
    BY DEF SumOver, Total, Rows
  <2>3. /\ [s \in table |-> Received(health)[s]] = [s \in table |-> health[s].received]
        /\ [s \in table |-> Gaps(health)[s]] = [s \in table |-> health[s].gap]
        /\ [s \in table |-> Duplicates(health)[s]]
             = [s \in table |-> health[s].duplicate]
        /\ [s \in table |-> LateArrivals(health)[s]]
             = [s \in table |-> health[s].reordered]
        /\ [s \in table |-> MissingOf(health)[s]] = [s \in table |-> health[s].missing]
    BY <2>1 DEF Received, Gaps, Duplicates, LateArrivals, MissingOf
  <2>4. /\ SumOver([s \in table |-> health[s].received]) = Total(table, Received(health))
        /\ SumOver([s \in table |-> health[s].gap]) = Total(table, Gaps(health))
        /\ SumOver([s \in table |-> health[s].duplicate])
             = Total(table, Duplicates(health))
        /\ SumOver([s \in table |-> health[s].reordered])
             = Total(table, LateArrivals(health))
        /\ SumOver([s \in table |-> health[s].missing])
             = Total(table, MissingOf(health))
    BY <2>2, <2>3
  <2>5. table = tracked
    BY <1>1 DEF HistoryInv
  <2> QED
    BY <1>1, <2>4, <2>5 DEF CountersAgree, AgreeInv, Agree
<1>2. MonitorSpec => [](CountsInv /\ AgreeInv)
  <2>1. MonitorInit => CountsInv /\ AgreeInv
    BY CountsStart, AgreeStarts DEF MonitorInit
  <2>2. /\ MonitorTypeOK /\ PositionInv /\ HistoryInv
        /\ CountsInv /\ AgreeInv /\ [MonitorNext]_monitorVars
        => CountsInv' /\ AgreeInv'
    <3> SUFFICES ASSUME MonitorTypeOK, PositionInv, HistoryInv, CountsInv, AgreeInv,
                        [MonitorNext]_monitorVars
                 PROVE  CountsInv' /\ AgreeInv'
      OBVIOUS
    <3>1. TrackerTypeOK /\ [TrackerNext]_trackerVars
      BY TypeParts, TrackerSteps
    <3> QED
      BY <3>1, CountsStep, AgreeHolds
  <2> QED
    BY <2>1, <2>2, MonitorTyping, PTL DEF MonitorSpec
<1> QED
  BY <1>1, <1>2, MonitorTyping, PTL
=============================================================================
