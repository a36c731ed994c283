------------------------- MODULE ReceiveMeasurements -------------------------
(***************************************************************************)
(* The bounded measurements a SourceHealthMonitor keeps for one source     *)
(* (src/runtime/source_health_monitor.cpp): the ring of recent receive     *)
(* timestamps from which the rate is computed, and the latencies.  Packets *)
(* come in the order of observe_packet; their receive timestamps are those *)
(* of any caller of that interface and may run backwards.                  *)
(***************************************************************************)
EXTENDS Integers, Sequences, FiniteSets, FiniteSetsExt, SequencesExt

CONSTANTS
  Capacity,         \* kRecentTimestampCapacity
  MaxTime,          \* bound: the largest timestamp
  MaxArrivals       \* bound: packets recorded in one behaviour

ASSUME MeasurementAssumption ==
  /\ Capacity \in Nat \ {0}
  /\ MaxTime \in Nat
  /\ MaxArrivals \in Nat

Times == 0..MaxTime

VARIABLES
  ring,             \* recent_timestamps
  count,            \* recent_timestamp_count
  index,            \* next_timestamp_index
  first,            \* first_receive_timestamp_ns
  last,             \* last_receive_timestamp_ns
  latest,           \* latest_latency_ns
  maximum,          \* maximum_latency_ns
  anomalies,        \* timestamp_anomalies
  arrivals          \* history: the packets, in order

vars == <<ring, count, index, first, last, latest, maximum, anomalies,
          arrivals>>

Init ==
  /\ ring = [i \in 0..(Capacity - 1) |-> 0]
  /\ count = 0 /\ index = 0
  /\ first = 0 /\ last = 0
  /\ latest = 0 /\ maximum = 0 /\ anomalies = 0
  /\ arrivals = <<>>

RecordRecentTimestamp(time) ==
  /\ ring' = [ring EXCEPT ![index] = time]
  /\ index' = (index + 1) % Capacity
  /\ count' = Min({count + 1, Capacity})

\* A packet from the future has no latency.
RecordLatency(receive, source) ==
  IF source > receive
  THEN /\ latest' = 0
       /\ anomalies' = anomalies + 1
       /\ UNCHANGED maximum
  ELSE /\ latest' = receive - source
       /\ maximum' = Max({maximum, latest'})
       /\ UNCHANGED anomalies

RecordPacket(receive, source) ==
  LET time == Max({receive, last}) IN
  /\ Len(arrivals) < MaxArrivals
  /\ first' = IF arrivals = <<>> THEN time ELSE first
  /\ last' = time
  /\ RecordRecentTimestamp(time)
  /\ RecordLatency(receive, source)
  /\ arrivals' = Append(arrivals, [receive |-> receive, source |-> source])

Next == \E receive, source \in Times : RecordPacket(receive, source)

Spec == Init /\ [][Next]_vars

\* Faulty variant: the oldest entry is always taken to be the first.
OldestIsFirst == 0

Oldest == IF count < Capacity THEN 0 ELSE index

\* The quotient current_rate_hz returns, as intervals over elapsed time; no
\* interval stands for the 0.0 Hz of fewer than two distinct timestamps.
CurrentRate ==
  LET elapsed == ring[(index + Capacity - 1) % Capacity] - ring[Oldest]
  IN  IF count < 2 \/ elapsed = 0
      THEN [intervals |-> 0, elapsed |-> 0]
      ELSE [intervals |-> count - 1, elapsed |-> elapsed]
-----------------------------------------------------------------------------
TypeOK ==
  /\ ring \in [0..(Capacity - 1) -> Times]
  /\ count \in 0..Capacity
  /\ index \in 0..(Capacity - 1)
  /\ {first, last, latest, maximum} \subseteq Times
  /\ anomalies \in Nat
  /\ arrivals \in Seq([receive : Times, source : Times])

\* The receive timestamps as the monitor counts them: never before an earlier
\* one of the same source.
Clamped == [i \in DOMAIN arrivals |->
              Max({arrivals[j].receive : j \in 1..i})]

\* docs/source-health-monitoring.md, rate calculation: whatever the ring has
\* overwritten, the rate is that of the most recent timestamps, and a clock
\* that runs backwards never makes the unsigned difference wrap.
RateIsOfRecentWindow ==
  LET n == Len(arrivals)
      window == Min({n, Capacity})
      elapsed == Clamped[n] - Clamped[n - window + 1] IN
  n > 0 =>
    /\ elapsed >= 0
    /\ CurrentRate = IF window < 2 \/ elapsed = 0
                     THEN [intervals |-> 0, elapsed |-> 0]
                     ELSE [intervals |-> window - 1, elapsed |-> elapsed]
    /\ first = Clamped[1] /\ last = Clamped[n]

\* docs/source-health-monitoring.md, latency calculation: the maximum is taken
\* over the packets whose two timestamps can be compared, as received and not
\* as clamped, and every other packet is an anomaly.
LatencyIgnoresAnomalies ==
  LET sane == {i \in DOMAIN arrivals :
                 arrivals[i].source <= arrivals[i].receive}
      latency(i) == arrivals[i].receive - arrivals[i].source IN
  /\ maximum = Max({latency(i) : i \in sane} \cup {0})
  /\ anomalies = Len(arrivals) - Cardinality(sane)
  /\ arrivals # <<>> =>
       latest = IF Len(arrivals) \in sane THEN latency(Len(arrivals)) ELSE 0

\* The bounded state of a source gives the rate and the latencies that the
\* complete history of its packets gives.
MeasurementsFollowHistory == RateIsOfRecentWindow /\ LatencyIgnoresAnomalies
=============================================================================
