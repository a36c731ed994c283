------------------------- MODULE SourceHealthMonitor -------------------------
(***************************************************************************)
(* driveflow::runtime::SourceHealthMonitor                                 *)
(* (src/runtime/source_health_monitor.cpp) with the stream tracker inside  *)
(* it.  Every operation runs under one mutex and is one action.  The I/O   *)
(* thread observes a packet, then offers it to the worker queue: if that   *)
(* is full it reports kQueueDropped, otherwise a worker may report         *)
(* kPayloadRejected for it at any later time, in any order.                *)
(*                                                                         *)
(* Latencies and the receive rate are left out: only whether the source    *)
(* timestamp is later than the receive timestamp influences the health.    *)
(***************************************************************************)
EXTENDS SensorStreamTracker, Sequences, SequencesExt

CONSTANTS
  Numbers,          \* sequence numbers the sources send
  HealthyAfter,     \* healthy_after_packets
  DegradedAfter,    \* degraded_after
  OfflineAfter,     \* offline_after
  RecoveryAfter,    \* recovery_after
  MaxTime           \* bound: the last instant of the clock

\* What validate_config demands.
ASSUME MonitorAssumption ==
  /\ Numbers \subseteq SequenceNumbers
  /\ HealthyAfter \in 1..CounterMax
  /\ DegradedAfter \in Nat \ {0}
  /\ OfflineAfter \in Nat /\ OfflineAfter > DegradedAfter
  /\ RecoveryAfter \in Nat \ {0}
  /\ MaxTime \in Nat

VARIABLES
  clock,            \* the monotonic clock
  table,            \* the sources that have a SourceState in sources_
  health,           \* the SourceState of each of them
  submitting,       \* the packet the I/O thread is about to submit, as a set
  inflight,         \* packets accepted by the pipeline, not yet processed
  log               \* history: what happened to each source, in order

monitorVars == <<trackerVars, clock, table, health, submitting, inflight, log>>

NewSource ==
  [received |-> 0, last_receive |-> 0, anomalies |-> 0, gap |-> 0,
   duplicate |-> 0, reordered |-> 0, missing |-> 0, rejected |-> 0,
   dropped |-> 0, healthy_since_issue |-> 0, last_issue |-> 0,
   issue_seen |-> FALSE]

MonitorInit ==
  /\ TrackerInit
  /\ clock = 0
  /\ table = {}
  /\ health = [s \in Sources |-> NewSource]
  /\ submitting = {}
  /\ inflight = {}
  /\ log = [s \in Sources |-> <<>>]

Increment(value) == IF value # CounterMax THEN value + 1 ELSE value

\* Faulty variant: a counter of record_packet counts every packet.
IncrementAlways(value, condition) == Increment(value)

IncrementIf(value, condition) == IF condition THEN Increment(value) ELSE value

\* Faulty variant: an issue does not restart the recovery.
MarkIssueKeepsStreak(state, time) ==
  [state EXCEPT !.issue_seen = TRUE,
                !.last_issue = Max({@, time})]

MarkIssue(state, time) ==
  [state EXCEPT !.issue_seen = TRUE,
                !.last_issue = Max({@, time}),
                !.healthy_since_issue = 0]

\* record_packet: anomaly says that the source timestamp is in the future.
RecordPacket(state, status, missing, anomaly, time) ==
  LET receive == Max({time, state.last_receive})
      counted == [state EXCEPT
        !.last_receive = receive,
        !.received = Increment(@),
        !.anomalies = IncrementIf(@, anomaly),
        !.gap = IncrementIf(@, status = "gap"),
        !.missing = SaturatingAdd(@, missing),
        !.duplicate = IncrementIf(@, status = "duplicate"),
        !.reordered = IncrementIf(@, status = "reordered")]
  IN  IF anomaly \/ status \in {"gap", "duplicate", "reordered"}
      THEN MarkIssue(counted, receive)
      ELSE [counted EXCEPT !.healthy_since_issue = Increment(@)]

Tick ==
  /\ clock < MaxTime
  /\ clock' = clock + 1
  /\ UNCHANGED <<trackerVars, table, health, submitting, inflight, log>>

ObservePacket(s, n, anomaly) ==
  LET status == Classify(s, n)
      normal == ~anomaly /\ status \in {"first", "in_order"} IN
  /\ submitting = {}
  /\ Observe(s, n)
  /\ IF status = "untracked"
     THEN UNCHANGED <<table, health, log>>
     ELSE /\ table' = table \cup {s}
          /\ health' = [health EXCEPT ![s] =
               RecordPacket(@, status, Missing(s, n), anomaly, clock)]
          /\ log' = [log EXCEPT ![s] = Append(@,
               [packet |-> TRUE, normal |-> normal, time |-> clock])]
  /\ submitting' = {[id |-> stream.packets, source |-> s, time |-> clock]}
  /\ UNCHANGED <<clock, inflight>>

CountIssue(state, counter, time) ==
  MarkIssue([state EXCEPT ![counter] = Increment(@)], time)

\* observe_issue: ignored for a source without a state.
ObserveIssue(p, counter) ==
  IF p.source \notin table
  THEN UNCHANGED <<health, log>>
  ELSE /\ health' = [health EXCEPT ![p.source] = CountIssue(@, counter, p.time)]
       /\ log' = [log EXCEPT ![p.source] = Append(@,
            [packet |-> FALSE, normal |-> FALSE, time |-> p.time])]

QueueDrops(p) ==
  /\ p \in submitting
  /\ submitting' = {}
  /\ ObserveIssue(p, "dropped")
  /\ UNCHANGED <<trackerVars, clock, table, inflight>>

QueueAccepts(p) ==
  /\ p \in submitting
  /\ submitting' = {}
  /\ inflight' = inflight \cup {p}
  /\ UNCHANGED <<trackerVars, clock, table, health, log>>

WorkerRejects(p) ==
  /\ p \in inflight
  /\ inflight' = inflight \ {p}
  /\ ObserveIssue(p, "rejected")
  /\ UNCHANGED <<trackerVars, clock, table, submitting>>

WorkerAccepts(p) ==
  /\ p \in inflight
  /\ inflight' = inflight \ {p}
  /\ UNCHANGED <<trackerVars, clock, table, health, submitting, log>>

MonitorNext ==
  \/ Tick
  \/ \E s \in Sources, n \in Numbers, anomaly \in BOOLEAN :
       ObservePacket(s, n, anomaly)
  \/ \E p \in submitting : QueueDrops(p) \/ QueueAccepts(p)
  \/ \E p \in inflight : WorkerRejects(p) \/ WorkerAccepts(p)

MonitorSpec == MonitorInit /\ [][MonitorNext]_monitorVars

Elapsed(now, then) == IF now >= then THEN now - then ELSE 0

\* evaluate_status, as report(now) applies it to every source of the table.
Status(s, now) ==
  LET state == health[s]
      inactivity == Elapsed(now, state.last_receive)
      recovering ==
        /\ state.issue_seen
        /\ \/ Elapsed(now, state.last_issue) < RecoveryAfter
           \/ state.healthy_since_issue < HealthyAfter
  IN  IF inactivity >= OfflineAfter THEN "offline"
      ELSE IF inactivity >= DegradedAfter \/ recovering THEN "degraded"
      ELSE IF state.received < HealthyAfter THEN "unknown"
      ELSE "healthy"

\* make_snapshot; the measurements are in ReceiveMeasurements.
Snapshot(s, now) ==
  [counters |-> health[s], status |-> Status(s, now),
   inactivity |-> Elapsed(now, health[s].last_receive)]

Report(now) == [s \in table |-> Snapshot(s, now)]
-----------------------------------------------------------------------------
MonitorTypeOK ==
  /\ TrackerTypeOK
  /\ clock \in 0..MaxTime
  /\ table \subseteq Sources
  /\ health \in [Sources ->
       [received : 0..CounterMax, last_receive : 0..MaxTime,
        anomalies : 0..CounterMax, gap : 0..CounterMax,
        duplicate : 0..CounterMax, reordered : 0..CounterMax,
        missing : 0..CounterMax, rejected : 0..CounterMax,
        dropped : 0..CounterMax, healthy_since_issue : 0..CounterMax,
        last_issue : 0..MaxTime, issue_seen : BOOLEAN]]
  /\ submitting \cup inflight \subseteq
       [id : Nat, source : Sources, time : 0..MaxTime]
  /\ Cardinality(submitting) <= 1

Saturated(value) == Min({CounterMax, value})

\* The sum of a counter over the sources: the number of things it counted.
SumOver(counter) ==
  Cardinality(UNION {{s} \X (1..counter[s]) : s \in DOMAIN counter})

\* The monitor and the tracker look up the same source in two tables of the
\* same capacity: they admit the same sources, and the per-source counters
\* add up to the aggregate stream metrics as far as a counter can count.
CountersAgree ==
  LET agree(total, counter) == Saturated(total) = Saturated(SumOver(counter))
  IN  /\ table = tracked
      /\ agree(stream.packets - stream.count["untracked"],
               [s \in table |-> health[s].received])
      /\ agree(stream.count["gap"], [s \in table |-> health[s].gap])
      /\ agree(stream.count["duplicate"], [s \in table |-> health[s].duplicate])
      /\ agree(stream.count["reordered"], [s \in table |-> health[s].reordered])
      /\ agree(stream.missing, [s \in table |-> health[s].missing])

\* The five rules of docs/source-health-monitoring.md over the whole history
\* of a source: normal packets count towards recovery only after the latest
\* issue was recorded, however late a worker reported it.
StatusByHistory(s, now) ==
  LET events == log[s]
      packets == {i \in DOMAIN events : events[i].packet}
      issues == {i \in DOMAIN events : ~events[i].normal}
      latest(is) == Max({events[i].time : i \in is})
      silence == Max({0, now - latest(packets)})
      fresh == {i \in DOMAIN events : \A j \in issues : i > j}
  IN  CASE silence >= OfflineAfter -> "offline"
        [] silence >= DegradedAfter /\ silence < OfflineAfter -> "degraded"
        [] silence < DegradedAfter ->
             IF issues # {} /\ (\/ now - latest(issues) < RecoveryAfter
                                \/ Cardinality(fresh) < HealthyAfter)
             THEN "degraded"
             ELSE IF Cardinality(packets) < HealthyAfter THEN "unknown"
             ELSE "healthy"

\* The constant-size state gives, at every instant a report may be asked for,
\* the status the rules give to the complete history of the source.
StatusFollowsHistory ==
  \A now \in 0..MaxTime :
    LET report == Report(now)
    IN  \A s \in table : report[s].status = StatusByHistory(s, now)
=============================================================================
