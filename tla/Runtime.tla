------------------------------- MODULE Runtime -------------------------------
(***************************************************************************)
(* driveflow::runtime::Runtime::run (src/runtime/runtime.cpp): the I/O     *)
(* thread polls the EpollReceiver, lets the SourceHealthMonitor observe    *)
(* every packet and offers it to the WorkerPipeline, whose workers run     *)
(* SensorSampleProcessor::process (src/runtime/sensor_sample_processor.cpp)*)
(* and report rejected payloads to the monitor.                            *)
(*                                                                         *)
(* The receiver is the module EpollReceiver.  The pipeline is represented  *)
(* by its contract DrainingSink, which WorkerPipeline implements: a packet *)
(* in "pending" waits in the queue until a worker examines it.  Each       *)
(* counter of the processor is a relaxed atomic of its own; workers run    *)
(* its steps interleaved.  Of the monitor only what it was told is kept.   *)
(***************************************************************************)
EXTENDS EpollReceiver

CONSTANTS
  PacketCount,      \* config.packet_count, 0 for no value
  WorkerCount,      \* config.pipeline.worker_count
  QueueCapacity     \* config.pipeline.queue_capacity

ASSUME RuntimeAssumption ==
  /\ PacketCount \in Nat
  /\ WorkerCount \in Nat \ {0}
  /\ QueueCapacity \in Nat \ {0}

Packets == 1..MaxDatagrams

VARIABLES
  stop,             \* what stop_requested() returns from now on
  mark,             \* history: packets and wakeups when stop was requested
  pc,               \* where the I/O thread is in run()
  next,             \* index of the range-for loop over packets
  received,         \* summary.packets_received
  pending,          \* packets the pipeline has accepted and not completed
  completed,        \* packets whose processor call has ended
  open,             \* the pipeline accepts packets
  finished,         \* the pipeline has been drained and joined
  stage,            \* per packet: how far its processor call has come
  metrics,          \* WorkerPipelineMetrics
  samples,          \* counters of the SensorSampleProcessor
  observed,         \* packets given to observe_packet, in order
  issues,           \* calls of observe_issue: packet and issue
  summary           \* the RuntimeSummary run() returned, as a set

io == <<pc, next, received>>
sink == <<pending, completed, open, finished>>
told == <<observed, issues>>
runtimeVars == <<receiverVars, stop, mark, io, sink, stage, metrics, samples,
                 told, summary>>

Pipeline == INSTANCE DrainingSink WITH Bound <- QueueCapacity + WorkerCount

Queued == {k \in pending : stage[k] = "queued"}
Ended == {"done", "failed"}

RuntimeInit ==
  /\ ReceiverInit
  /\ Pipeline!Init
  /\ stop = FALSE /\ mark = [packets |-> 0, wakeups |-> 0]
  /\ pc = "loop" /\ next = 1 /\ received = 0
  /\ metrics = [submitted |-> 0, dropped |-> 0, processed |-> 0,
                failures |-> 0]
  /\ stage = [k \in Packets |-> "queued"]
  /\ samples = [examined |-> 0, decoded |-> 0, typed |-> 0, rejected |-> 0]
  /\ observed = <<>>
  /\ issues = {}
  /\ summary = {}

LimitReached == PacketCount # 0 /\ received >= PacketCount

\* Another thread, or the handler of SIGINT and SIGTERM.  Only a signal that
\* the I/O thread handles inside epoll_wait cuts the wait short; after any
\* other the wait goes on to a datagram or to its timeout.
RequestStop ==
  /\ ~stop /\ pc \notin Ended
  /\ stop' = TRUE
  /\ mark' = [packets |-> Len(observed), wakeups |-> receiver.wakeups]
  /\ UNCHANGED <<receiverVars, io, sink, stage, metrics, samples, told,
                 summary>>

-----------------------------------------------------------------------------
(* The receive loop.                                                       *)

\* The I/O thread goes from one place to the next; the workers' counters,
\* the stop flag and the summary are not its business.
Goto(from, to) ==
  /\ pc = from
  /\ pc' = to
  /\ UNCHANGED <<stop, mark, samples, summary>>

\* A step of the I/O thread that changes nothing but its place.
Moves(from, to) ==
  /\ Goto(from, to)
  /\ UNCHANGED <<receiverVars, next, received, sink, stage, metrics, told>>

LoopPolls ==
  /\ ~stop /\ ~LimitReached
  /\ Goto("loop", "poll")
  /\ PollCalled
  /\ UNCHANGED <<next, received, sink, stage, metrics, told>>

\* Faulty variant: the loop condition does not look at the limit.
LoopIgnoresLimit == stop /\ Moves("loop", "stopping")

LoopEnds == (stop \/ LimitReached) /\ Moves("loop", "stopping")

Receive ==
  /\ PollStep
  /\ UNCHANGED <<stop, mark, io, sink, stage, metrics, samples, told, summary>>

BatchBegins ==
  /\ poll = "returned"
  /\ Goto("poll", "batch")
  /\ next' = 1
  /\ UNCHANGED <<receiverVars, received, sink, stage, metrics, told>>

\* The rest of the batch is given up when stop or the limit is noticed.
BatchEnds ==
  /\ next > Len(packets) \/ stop \/ LimitReached
  /\ Goto("batch", "loop")
  /\ PacketsTaken
  /\ UNCHANGED <<next, received, sink, stage, metrics, told>>

\* Faulty variant: the limit is checked only between polls.
BatchIgnoresLimit ==
  next <= Len(packets) /\ ~stop /\ Moves("batch", "observe")

\* Faulty variant: the stop predicate is checked only between polls.
BatchIgnoresStop ==
  next <= Len(packets) /\ ~LimitReached /\ Moves("batch", "observe")

BatchContinues ==
  /\ next <= Len(packets)
  /\ ~stop /\ ~LimitReached
  /\ Moves("batch", "observe")

ObservePacket ==
  /\ Goto("observe", "submit")
  /\ observed' = Append(observed, packets[next])
  /\ UNCHANGED <<receiverVars, next, received, sink, stage, metrics, issues>>

SubmitAccepted ==
  /\ Goto("submit", "count")
  /\ Cardinality(Queued) < QueueCapacity
  /\ Pipeline!Accept(packets[next])
  /\ metrics' = [metrics EXCEPT !.submitted = @ + 1]
  /\ UNCHANGED <<receiverVars, next, received, stage, told>>

\* try_submit counts the drop and leaves the packet as it is.
Dropped(then) ==
  /\ Goto("submit", then)
  /\ open
  /\ Cardinality(Queued) >= QueueCapacity
  /\ metrics' = [metrics EXCEPT !.dropped = @ + 1]
  /\ UNCHANGED <<receiverVars, next, received, sink, stage, told>>

\* Faulty variant: a queue drop is not reported.
DropUnreported == Dropped("count")

SubmitQueueFull == Dropped("drop")

ReportQueueDrop ==
  /\ Goto("drop", "count")
  /\ issues' = issues \cup {<<packets[next], "queue_dropped">>}
  /\ UNCHANGED <<receiverVars, next, received, sink, stage, metrics, observed>>

CountPacket ==
  /\ Goto("count", "batch")
  /\ received' = received + 1
  /\ next' = next + 1
  /\ UNCHANGED <<receiverVars, sink, stage, metrics, told>>

-----------------------------------------------------------------------------
(* WorkerPipeline's workers and SensorSampleProcessor::process.            *)

Advance(k, from, to) ==
  /\ stage[k] = from
  /\ stage' = [stage EXCEPT ![k] = to]
  /\ UNCHANGED <<receiverVars, stop, mark, io, observed, summary>>

\* A step of process() that ends at one of its counters.
Counted(k, from, to, counter) ==
  /\ Advance(k, from, to)
  /\ samples' = [samples EXCEPT ![counter] = @ + 1]
  /\ UNCHANGED <<sink, metrics, issues>>

Examine(k) ==
  /\ k \in Queued
  /\ Cardinality(pending \ Queued) < WorkerCount
  /\ Counted(k, "queued", "examined", "examined")

RejectPayload(k) == Counted(k, "examined", "rejected", "rejected")

\* The lambda of run() reports what process() returned.
ReportRejection(k) ==
  /\ Advance(k, "rejected", "handled")
  /\ issues' = issues \cup {<<k, "payload_rejected">>}
  /\ UNCHANGED <<sink, metrics, samples>>

DecodePayload(k) == Counted(k, "examined", "decoded", "decoded")

CountType(k) == Counted(k, "decoded", "typed", "typed")

HandlerReturns(k) ==
  Advance(k, "typed", "handled") /\ UNCHANGED <<sink, metrics, samples, issues>>

\* The worker counts the outcome of its processor call.
CallEnds(k, from, to, counter) ==
  /\ Advance(k, from, to)
  /\ Pipeline!Complete(k)
  /\ metrics' = [metrics EXCEPT ![counter] = @ + 1]
  /\ UNCHANGED <<samples, issues>>

HandlerThrows(k) == CallEnds(k, "typed", "failed", "failures")

PacketProcessed(k) == CallEnds(k, "handled", "processed", "processed")

ProcessPacket(k) ==
  \/ Examine(k) \/ RejectPayload(k) \/ ReportRejection(k)
  \/ DecodePayload(k) \/ CountType(k) \/ HandlerReturns(k)
  \/ HandlerThrows(k) \/ PacketProcessed(k)

-----------------------------------------------------------------------------
(* Shutdown: stop() of the pipeline, in run() or in its destructor.        *)

\* Faulty variant: an exception of poll() is ignored.
PollFailureIgnored ==
  /\ poll = "draining"
  /\ poll' = "idle"
  /\ packets' = <<>>
  /\ Goto("poll", "loop")
  /\ UNCHANGED <<arrivals, buffer, events, taken, receiver, delivered, due,
                 share, next, received, sink, stage, metrics, told>>

PollThrowsTo(place) ==
  /\ PollThrows
  /\ Goto("poll", place)
  /\ UNCHANGED <<next, received, sink, stage, metrics, told>>

\* Faulty variant: an exception of poll() bypasses the pipeline's destructor.
PollFailsAbruptly == PollThrowsTo("failed")

\* An exception of poll() leaves the loop: the destructors run.
PollFails == PollThrowsTo("unwinding")

StopMoves(from, to) ==
  /\ Goto(from, to)
  /\ UNCHANGED <<receiverVars, next, received, stage, metrics, told>>

\* Faulty variant: the counters are read before the queue has drained.
CloseWithoutDrain ==
  /\ StopMoves("stopping", "summary") \/ StopMoves("unwinding", "destroying")
  /\ Pipeline!Close

ClosePipeline ==
  /\ StopMoves("stopping", "joining") \/ StopMoves("unwinding", "destroying")
  /\ Pipeline!Close

PipelineStopped ==
  /\ StopMoves("joining", "summary") \/ StopMoves("destroying", "failed")
  /\ Pipeline!Finish

\* The counters are collected only now; then the locals are destroyed.
Summarise ==
  /\ pc = "summary"
  /\ pc' = "done"
  /\ summary' = {[received |-> received, receiver |-> receiver,
                  pipeline |-> metrics, samples |-> samples,
                  observed |-> Len(observed), issues |-> issues]}
  /\ UNCHANGED <<receiverVars, stop, mark, next, received, sink, stage,
                 metrics, samples, told>>

-----------------------------------------------------------------------------
IoStep ==
  \/ LoopPolls \/ LoopEnds \/ Receive \/ BatchBegins \/ BatchEnds
  \/ BatchContinues \/ ObservePacket \/ SubmitAccepted \/ SubmitQueueFull
  \/ ReportQueueDrop \/ CountPacket \/ ClosePipeline \/ PipelineStopped
  \/ Summarise

NetworkStep ==
  /\ pc \notin Ended
  /\ Network
  /\ UNCHANGED <<stop, mark, io, sink, stage, metrics, samples, told, summary>>

Terminated == pc \in Ended /\ UNCHANGED runtimeVars

RuntimeNext ==
  \/ RequestStop \/ NetworkStep \/ IoStep \/ PollFails
  \/ \E k \in pending : ProcessPacket(k)
  \/ Terminated

RuntimeSafeSpec == RuntimeInit /\ [][RuntimeNext]_runtimeVars

\* The I/O thread and the workers keep running (handlers return or throw),
\* and epoll_wait ends at its timeout at the latest.
RuntimeSpec ==
  /\ RuntimeSafeSpec
  /\ WF_runtimeVars(IoStep)
  /\ \A k \in Packets : WF_runtimeVars(k \in pending /\ ProcessPacket(k))
-----------------------------------------------------------------------------
RuntimeTypeOK ==
  /\ ReceiverTypeOK
  /\ stop \in BOOLEAN
  /\ pc \in Ended \cup
       {"loop", "poll", "batch", "observe", "submit", "drop", "count",
        "stopping", "joining", "summary", "unwinding", "destroying"}
  /\ next \in 1..(MaxDatagrams + 1)
  /\ received \in Nat
  /\ mark \in [packets : Nat, wakeups : Nat]
  /\ metrics \in [submitted : Nat, dropped : Nat, processed : Nat,
                  failures : Nat]
  /\ pending \cup completed \subseteq Packets
  /\ open \in BOOLEAN /\ finished \in BOOLEAN
  /\ stage \in [Packets -> {"queued", "examined", "rejected", "decoded",
                            "typed", "handled", "failed", "processed"}]
  /\ samples \in [examined : Nat, decoded : Nat, typed : Nat,
                  rejected : Nat]
  /\ observed \in Seq(Packets)
  /\ issues \subseteq Packets \X {"queue_dropped", "payload_rejected"}
  /\ Cardinality(summary) <= 1

\* docs/runtime-receiver.md, metrics, and docs/sensor-sample-processing.md:
\* the summary is one consistent picture although its parts were counted by
\* several threads and are read one after the other.
SummaryAddsUp ==
  \A s \in summary :
    /\ s.received = s.pipeline.submitted + s.pipeline.dropped
    /\ s.received = s.observed
    /\ s.received <= s.receiver.accepted
    /\ s.pipeline.submitted = s.pipeline.processed + s.pipeline.failures
    /\ s.pipeline.submitted = s.samples.examined
    /\ s.samples.examined = s.samples.decoded + s.samples.rejected
    /\ s.samples.decoded = s.samples.typed
    /\ s.pipeline.processed >= s.samples.rejected

\* The health report misses nothing and invents nothing: it holds one issue
\* for every packet dropped and every payload rejected, those found while
\* draining included.  Whatever the workers do, an issue reaches the monitor
\* after the packet it is about, and a packet is rejected or dropped once,
\* never both.
ReportIsComplete ==
  /\ \A s \in summary :
       LET of(kind) == {i \in s.issues : i[2] = kind} IN
       /\ Cardinality(of("queue_dropped")) = s.pipeline.dropped
       /\ Cardinality(of("payload_rejected")) = s.samples.rejected
       /\ s.issues = issues
  /\ \A i \in issues : i[1] \in Range(observed)
  /\ \A i, j \in issues : i[1] = j[1] => i = j
  /\ \A k \in Packets : stage[k] # "queued" =>
       <<k, "queue_dropped">> \notin issues

\* The monitor observes the packets of every listener in the order in which
\* their datagrams arrived, without a hole, so that it cannot take the
\* scheduling of threads or the batching of polls for a network fault.
ObservedInArrivalOrder ==
  /\ InOrder(observed)
  /\ \A k \in Range(observed) :
       /\ k \in DOMAIN arrivals /\ arrivals[k].valid
       /\ \A i \in 1..k :
            arrivals[i].valid /\ arrivals[i].listener = arrivals[k].listener
              => i \in Range(observed)

\* --count: never more packets than the limit, and exactly as many when
\* nobody requests a stop.
LimitIsExact ==
  /\ PacketCount # 0 => received <= PacketCount
  /\ pc = "done" /\ ~stop => received = PacketCount /\ PacketCount # 0

\* run() has left, by return or exception, and has destroyed the processor
\* and the monitor: no worker is inside them, or can be later.
NoUseAfterReturn ==
  pc \in Ended => pending = {} /\ finished /\ ~open

\* A stop is only a flag, and a signal may set it between the reading of the
\* predicate and epoll_wait, or on another thread, so that the wait is not
\* interrupted.  Wherever it falls, at most one more poll delivers packets
\* and at most one more packet is observed and submitted.
StopIsNoticed ==
  stop => /\ Len(observed) <= mark.packets + 1
          /\ receiver.wakeups <= mark.wakeups + 1

\* A requested stop and a reached limit end run(), also in the middle of a
\* batch, with a full queue or while a poll fails.
StopEndsRun == stop \/ LimitReached ~> pc \in Ended
=============================================================================
