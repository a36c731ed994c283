------------------------- MODULE SensorStreamTracker -------------------------
(***************************************************************************)
(* driveflow::runtime::SensorStreamTracker                                 *)
(* (src/runtime/sensor_stream_tracker.cpp): classifies the sequence number *)
(* of every received packet against the highest one seen from its source,  *)
(* in modular arithmetic, with a bitmap of the most recent numbers.  The   *)
(* tracker is called from one thread; observe is one action.               *)
(*                                                                         *)
(* The history variables keep what the code deliberately forgets: the      *)
(* position of every packet on the unbounded line that the sequence        *)
(* numbers wrap around.  A sequence number stands for the position nearest *)
(* to the highest one so far (the lower of two equally near).              *)
(***************************************************************************)
EXTENDS Integers, FiniteSets, FiniteSetsExt

CONSTANTS
  Sources,          \* sensor sources whose packets arrive
  MaxSources,       \* SensorStreamTrackerConfig::max_sources
  SequenceSpace,    \* 2^64, the number of sequence numbers
  RecentCount,      \* kRecentSequenceCount, the bits of recent_sequences
  CounterMax,       \* the largest value of a 64-bit counter
  MaxPackets        \* bound: packets observed in one behaviour

ASSUME TrackerAssumption ==
  /\ MaxSources \in Nat \ {0}
  /\ SequenceSpace \in Nat /\ SequenceSpace % 2 = 0 /\ SequenceSpace >= 4
  /\ RecentCount \in Nat \ {0}
  /\ RecentCount <= SequenceSpace \div 2
  /\ CounterMax \in Nat
  /\ MaxPackets \in Nat

HalfRange == SequenceSpace \div 2
SequenceNumbers == 0..(SequenceSpace - 1)

VARIABLES
  tracked,          \* the sources that have an entry in sources_
  highest,          \* highest_sequence of each entry
  recent,           \* recent_sequences of each entry, as its set of bits
  stream,           \* metrics_
  observed,         \* the SequenceObservation returned last, and for whom
  seen,             \* history: positions that arrived from each source
  top,              \* history: the position of highest
  base              \* history: the position of the first packet

trackerVars == <<tracked, highest, recent, stream, observed, seen, top, base>>

Statuses ==
  {"first", "in_order", "gap", "duplicate", "reordered", "untracked"}

ZeroStream ==
  [packets |-> 0, streams |-> 0, missing |-> 0,
   count |-> [s \in Statuses |-> 0]]

TrackerInit ==
  /\ tracked = {}
  /\ highest = [s \in Sources |-> 0]
  /\ recent = [s \in Sources |-> {}]
  /\ stream = ZeroStream
  /\ observed = {}
  /\ seen = [s \in Sources |-> {}]
  /\ top = [s \in Sources |-> 0]
  /\ base = [s \in Sources |-> 0]

\* Unsigned subtraction of two sequence numbers.
Distance(from, to) ==
  IF to >= from THEN to - from ELSE to - from + SequenceSpace

SaturatingAdd(value, increment) ==
  IF increment > CounterMax - value THEN CounterMax ELSE value + increment

\* A left shift of a RecentCount-bit word; a shift by the whole width or more
\* is undefined in the language and the code resets the word instead.
ShiftLeft(bits, n) == {b \in 0..(RecentCount - 1) : b - n \in bits}

\* Faulty variant: the newest number is not marked.
AdvancedUnmarked(bits, n) ==
  IF n >= RecentCount THEN {} ELSE ShiftLeft(bits, n)

Advanced(bits, n) ==
  IF n >= RecentCount THEN {0} ELSE ShiftLeft(bits, n) \cup {0}

\* Faulty variant: half of the range counts as forward.
ForwardHalfIncluded == 2..HalfRange

\* The forward distances that make a gap; larger ones lie behind.
ForwardJumps == 2..(HalfRange - 1)

\* The status observe returns for number n of source s.
Classify(s, n) ==
  LET forward == Distance(highest[s], n)
      backward == Distance(n, highest[s]) IN
  CASE s \notin tracked ->
         IF Cardinality(tracked) >= MaxSources THEN "untracked" ELSE "first"
    [] s \in tracked /\ forward = 0            -> "duplicate"
    [] s \in tracked /\ forward = 1            -> "in_order"
    [] s \in tracked /\ forward \in ForwardJumps -> "gap"
    [] OTHER -> IF backward < RecentCount /\ backward \in recent[s]
                THEN "duplicate" ELSE "reordered"

\* Faulty variant: the packet that reveals the gap is counted as missing.
MissingInclusive(s, n) ==
  IF Classify(s, n) = "gap" THEN Distance(highest[s], n) ELSE 0

Missing(s, n) ==
  IF Classify(s, n) = "gap" THEN Distance(highest[s], n) - 1 ELSE 0

\* The position that number n of a tracked source stands for.
Nearest(s, n) ==
  CHOOSE p \in (top[s] - HalfRange)..(top[s] + HalfRange - 1) :
    p % SequenceSpace = n

Position(s, n) == IF s \in tracked THEN Nearest(s, n) ELSE n

Remember(s, n, status) ==
  LET p == Position(s, n) IN
  /\ seen' = IF status = "untracked" THEN seen
             ELSE [seen EXCEPT ![s] = @ \cup {p}]
  /\ top' = IF status \in {"first", "in_order", "gap"}
            THEN [top EXCEPT ![s] = p] ELSE top
  /\ base' = IF status = "first" THEN [base EXCEPT ![s] = p] ELSE base

Observe(s, n) ==
  LET status == Classify(s, n)
      forward == Distance(highest[s], n)
      backward == Distance(n, highest[s]) IN
  /\ stream.packets < MaxPackets
  /\ tracked' = IF status = "first" THEN tracked \cup {s} ELSE tracked
  /\ highest' = IF status \in {"first", "in_order", "gap"}
                THEN [highest EXCEPT ![s] = n] ELSE highest
  /\ recent' = CASE status = "first" -> [recent EXCEPT ![s] = {0}]
                 [] status \in {"in_order", "gap"} ->
                      [recent EXCEPT ![s] = Advanced(@, forward)]
                 [] status = "reordered" /\ backward < RecentCount ->
                      [recent EXCEPT ![s] = @ \cup {backward}]
                 [] OTHER -> recent
  /\ stream' = [packets |-> stream.packets + 1,
                streams |-> stream.streams + IF status = "first" THEN 1 ELSE 0,
                missing |-> SaturatingAdd(stream.missing, Missing(s, n)),
                count |-> [stream.count EXCEPT ![status] = @ + 1]]
  /\ observed' = {[source |-> s, number |-> n, status |-> status,
                   missing |-> Missing(s, n)]}
  /\ Remember(s, n, status)

TrackerNext == \E s \in Sources, n \in SequenceNumbers : Observe(s, n)

TrackerSpec == TrackerInit /\ [][TrackerNext]_trackerVars
-----------------------------------------------------------------------------
TrackerTypeOK ==
  /\ tracked \subseteq Sources
  /\ highest \in [Sources -> SequenceNumbers]
  /\ recent \in [Sources -> SUBSET (0..(RecentCount - 1))]
  /\ stream \in [packets : Nat, streams : Nat, missing : 0..CounterMax,
                 count : [Statuses -> Nat]]
  /\ observed \subseteq [source : Sources, number : SequenceNumbers,
                         status : Statuses, missing : Nat]
  /\ seen \in [Sources -> SUBSET Int]
  /\ top \in [Sources -> Int]
  /\ base \in [Sources -> Int]

\* The 64-bit bitmap is exact: through shifts, resets, late arrivals and the
\* wrap of the sequence numbers, bit b of a source is set iff the packet b
\* positions behind its highest one has arrived.
BitmapIsRecentHistory ==
  \A s \in tracked :
    /\ top[s] % SequenceSpace = highest[s]
    /\ \A p \in seen[s] : p <= top[s]
    /\ recent[s] = {b \in 0..(RecentCount - 1) : top[s] - b \in seen[s]}

\* The table of sources is bounded and never recycled, and every packet is
\* counted under exactly one status; the first packet of a stream is the one
\* that admits it.  Every position a source has moved over since then was
\* counted as in order, counted as a gap, or inferred missing (up to where
\* that counter saturates).
StreamCountsAddUp ==
  LET count == stream.count
      moved == UNION {{s} \X ((base[s] + 1)..top[s]) : s \in tracked}
      accounted == count["in_order"] + count["gap"] IN
  /\ stream.packets = count["first"] + count["in_order"] + count["gap"]
                       + count["duplicate"] + count["reordered"]
                       + count["untracked"]
  /\ stream.streams = count["first"]
  /\ stream.streams = Cardinality(tracked)
  /\ stream.streams <= MaxSources
  /\ count["untracked"] > 0 => stream.streams = MaxSources
  /\ stream.missing = Min({CounterMax, Cardinality(moved) - accounted})

\* What observe returns is true of the history: a duplicate was really seen
\* before, a repeat within the recent numbers is never taken for a late
\* arrival, a late arrival never moves the highest number back, and a gap
\* reports exactly the positions skipped.
ObservationIsTruthful ==
  \A o \in observed' :
    o.status \notin {"first", "untracked"} =>
      LET s == o.source
          p == Position(s, o.number) IN
      /\ o.status = "duplicate" <=>
           p \in seen[s] /\ top[s] - p < RecentCount
      /\ o.status = "reordered" =>
           p < top[s] /\ top' = top /\ highest' = highest
      /\ o.status = "in_order" <=> p = top[s] + 1
      /\ o.status = "gap" <=> p > top[s] + 1
      /\ o.missing = Cardinality((top[s] + 1)..(p - 1))

StatusIsTruthful == [][ObservationIsTruthful]_trackerVars
=============================================================================
