# Verification of DriveFlow Runtime

TLA+ models of the DriveFlow runtime and simulator (C++20, `src/`,
`include/driveflow/`, `apps/`), checked with TLC on small instances, and
theorems about all of them, for every value of the constants, proved with TLAPS.

    tlc -workers 4 -config Runtime.cfg Runtime     # any run of the table below
    tlapm RuntimeProofs.tla                        # any ...Proofs module, minutes

## 1. The system

One process receives sensor packets over UDP, another one simulates sensors.

| Component | State | Operations | What is hard, and what makes it correct |
| --- | --- | --- | --- |
| `WorkerPipeline` | bounded queue, `accepting_`, `stop_requested_`, counters, `std::thread`s; one mutex and condition variable for the queue, one mutex for stop | constructor, `try_submit`, `stop`, destructor, `worker_loop` | any number of producers, stoppers and workers; notifications sent outside the mutex; thread creation that fails half way; a processor that throws. No accepted packet is lost or completed twice, no wakeup is lost, `stop()` drains, returns, and may be called by several threads |
| `SensorStreamTracker` | per source: highest sequence number and a 64-bit bitmap; counters | `observe` | modular arithmetic around 2^64, shifts at the width of the word, a bounded table that is never recycled. The statuses are true of the whole history |
| `SourceHealthMonitor` | per source: counters, latest times, recovery streak, ring of timestamps, latencies; a tracker; one mutex | `observe_packet`, `observe_issue`, `report` | issues of workers arrive late and out of order; clocks that disagree; timeouts with boundaries; saturating counters. The constant-size state gives the status the documented rules give to the whole history |
| `EpollReceiver` | non-blocking sockets, an epoll instance, counters | constructor, destructor, `poll`, `metrics` | a failure between opening, binding and registering one of several sockets; arrivals during a poll, a drain limit per socket, signals, failing system calls. No descriptor is leaked or closed twice, every event names its own listener; order and completeness per listener, fairness between listeners |
| `SensorSampleProcessor` | six relaxed atomic counters | `process`, `metrics` | runs in all workers at once; handler may throw |
| `Runtime` | owns the four above for the time of `run()` | `run` | stop and packet limit in the middle of a batch, exceptions of `poll`, order of shutdown and destruction, counters of several threads in one summary |
| `SensorSimulator` | sequence number, `FaultInjector` with one held packet, counters | `run_simulator` | drop, swap, delay, corruption and duplication of numbered packets interact with one another and with a stop at any instant |
| Packet codec | none | `encode_packet`, `decode_packet`, `crc32` | order of the checks, what the checksum covers |
| Sensor payload codec | none | `encode_sensor_payload`, `decode_sensor_payload` | sizes, non-finite and out-of-range numbers |
| Runtime configuration, simulator options | none | `parse_runtime_config`, `parse_simulator_config` | rules that relate two options, a default that the first of several values replaces, integer conversions at the limits, and the same rules checked again by every constructor. The parsers accept exactly what the documentation allows, and nothing they accept is refused later |
| `UdpSocket` | a file descriptor | `open`, `bind_to`, `set_non_blocking`, `local_endpoint`, `send_to`, `receive`, `try_receive`, move, destructor | every call may fail with the descriptor open; exactly one object owns a descriptor |
| Command-line programs | `stop_requested` (`sig_atomic_t`) | `main`, signal handlers | a signal before, between and after the installation of the handlers; the exit status. A signal is never fatal to a program that has opened a socket |

Interaction: the I/O thread of `Runtime::run` calls `EpollReceiver::poll`,
then, packet by packet, `SourceHealthMonitor::observe_packet` and
`WorkerPipeline::try_submit`, and `observe_issue(kQueueDropped)` when the queue
is full. The workers call the lambda of `run`, which calls
`SensorSampleProcessor::process` and, when the payload is refused,
`observe_issue(kPayloadRejected)`. The monitor's mutex, the pipeline's two and
the atomics are all the synchronisation there is; the stop predicate is read by
the I/O thread only, between packets and between polls.

## 2. Modules

| Module | Models | State and actions against the code |
| --- | --- | --- |
| `DrainingSink` | the contract in `worker_pipeline.hpp` | `Accept`, `Complete`, `Close`, `Finish`, without threads |
| `WorkerPipeline` | `worker_pipeline.cpp` | Members keep their names. A section run under `state_mutex_` is one action, since nothing in it blocks but the wait; `notify_one`, `notify_all`, every `join` and every lock of `lifecycle_mutex_` are actions of their own. `wstate` is the place of a worker in `worker_loop`, `pstate` and `cstate` those of callers of `try_submit` and of `stop`, constructor and destructor |
| `SensorStreamTracker` | `sensor_stream_tracker.cpp` | `observe` is one action; the bitmap is the set of its bits; history variables keep all positions on the unbounded line |
| `SourceHealthMonitor` | `source_health_monitor.cpp`, on top of the tracker | each operation is one action (one mutex); `log` keeps the history of each source. The environment is the I/O thread and the workers of `Runtime` |
| `ReceiveMeasurements` | `record_recent_timestamp`, `record_latency`, `current_rate_hz` | the ring, its index and count, and the latencies of one source |
| `EpollReceiver` | `epoll_receiver.cpp` | `PollCalled`, `WaitReturns...`, `ReceiveDatagram`, `NextListener`, `PollReturns`, `PollThrows`; `Arrive` is the network |
| `Runtime` | `runtime.cpp`, `sensor_sample_processor.cpp` | extends `EpollReceiver`; represents the pipeline by `DrainingSink`, which `WorkerPipeline` is proved to implement; `pc` is the place of the I/O thread in `run`, `stage[k]` that of packet k in `process` |
| `SensorSimulator` | `sensor_simulator.cpp` | one action between two reads of the stop predicate; the configuration is chosen in `Init` |
| `PacketCodec` | `packet.cpp`, `wire.hpp` | encoder and decoder with a checksum computed bit by bit over a scaled wire format, and a path in between that harms datagrams. A byte, and any other bit string, is the set of its one bits: shifts move the members, `^` is the symmetric difference |
| `SensorPayload` | `sensor_payload.cpp` | a payload is its size, its checked fields and its length field; it comes from the encoder or from a foreign sender |
| `CommandLine` | `parse_positive_integer`, `parse_number` | texts as a word and a number, lines as pairs and a word left over |
| `RuntimeConfig` | `runtime_config.cpp` and the `validate_config` functions | the loop over the options is a fold whose state has the locals of the function; `RuntimeAsked` and `RuntimeMayAsk` state the documented options table independently |
| `SimulatorConfig` | `parse_simulator_config`, `validate_runtime_config` | likewise, against `docs/simulator.md` |
| `UdpSocket` | `udp_socket.cpp` and the kernel's descriptor table | a program has at most one local `UdpSocket`, `socket`; a call is one action that succeeds or throws |
| `ListenerSetup` | constructor and destructor of `EpollReceiver`, on top of `UdpSocket` and `RuntimeConfig` | one action per call of the loop; `pc = "unwind"` while destructors run |
| `Programs` | the four files of `apps/`, on top of `ListenerSetup` and `SimulatorConfig` | `main` from the command line to the exit status; `Runtime::run` and `run_simulator` return or throw |
| `MC...` | | symmetry sets and values for TLC |
| `WorkerPipelineProofs`, `SourceHealthMonitorProofs`, `ReceiveMeasurementsProofs`, `RuntimeProofs`, `SensorSimulatorProofs`, `ProgramsProofs`, `PacketCodecProofs`, `SensorPayloadProofs` | theorems about the module of that name | section 5. `SourceHealthMonitorProofs` begins with the tracker's theorems, `RuntimeProofs` with the receiver's |

Operators that a comment calls a *faulty variant* model what the code would be
with a plausible mistake (a dropped guard, a missing reset, a swapped order).
No specification uses them. Each stands next to the action it varies: with it in
place of the action, TLC finds a named property violated, which shows that the
property depends on that line of the code. `PROJECT.json` lists the pairs.

## 3. Runs

| Run | Bounds | What it shows |
| --- | --- | --- |
| `pipeline_safety` (`WorkerPipelineSafety.cfg`) | 3 workers, capacity 2, 2 producers, 2 stoppers and the owner, 5 submissions | conservation of packets, wakeups, draining, stable snapshots, quiescent destruction, exclusive joins, and refinement of `DrainingSink` |
| `pipeline_liveness` (`WorkerPipelineLiveness.cfg`) | 2 workers, capacity 1, 3 submissions | every `stop()`, destructor and constructor returns; the fair `DrainingSink` is implemented, so accepted packets are completed even if nobody calls `stop` |
| `tracker` | 3 sources with room for 2, sequence space 8, bitmap of 3, 5 packets | the bitmap is the exact recent history, statuses are true, counters add up |
| `monitor` | 2 sources with room for 1, counters saturating at 2, 3 packets, times 0..3 | the status follows the rules over the whole history; tracker and monitor agree |
| `measurements` | ring of 3, 5 packets, times 0..2 | the rate is that of the latest window and never wraps; latencies ignore anomalies |
| `receiver` | 2 listeners, drain limit 2, 4 datagrams | order, completeness, counters, fair shares; what a poll leaves is read later |
| `runtime` | 2 listeners, 3 datagrams, packet limit 2, 2 workers, capacity 1 | the summary adds up, the report is complete, issues follow packets, the limit is exact, nothing is used after `run()`, a stop that no wait notices costs at most one poll and one packet, and a stop or the limit ends it. Deadlock is checked |
| `simulator` | all combinations of fault intervals none, 1, 2, 3; counts 3, 5 and continuous; 5 packets | every packet is accounted for, the summary describes the datagrams, swaps are adjacent and disjoint, a stop takes effect at once and ends the run |
| `codec` | bytes of 4 bits, checksum of 8 bits, payloads up to 2 bytes (3 tried), two inverted bits | decoding inverts encoding, harm is noticed, the simulator's corruption is a checksum error |
| `payload` | values on both sides of every limit, payload limit 34 bytes, sizes off by one | encoder and decoder agree on every sample; what is accepted is exactly what the encoder writes |
| `programs` (`MCPrograms`) | 16480 command lines: all pairs of runtime options, all pairs of simulator options after `--sensor`, triples of `--listen` and of the health timeouts, lines with a word too many; 3 descriptors; limits scaled to one digit | the configuration is what was asked for, no accepted configuration is refused later, descriptors have one owner and are closed, events name their listeners, signals are graceful. Deadlock is checked |
| `simulator_totals` | intervals none, 2, 3; count 4 | *expected violation*, section 6 |

Why the bounds are enough to be of interest. Pipeline: three workers and two
producers allow a notification to reach a worker that is not the one the packet
needs, the queue to be full, and two stoppers to meet the destructor's stop
(every stopper calls once; a second call is a stopper more). Tracker: in a
sequence space of 8 with a bitmap of 3, five packets go around the space more
than once and meet every boundary: distances 0, 1, half of the space, the width
of the bitmap and one beside each. Monitor: three packets with two issues of
workers reach a recovery that is restarted, at equality of every timeout; the
counters saturate at 2. Measurements: five packets overwrite a ring of three
twice. Receiver: four datagrams leave a backlog behind a limit of two and keep
the second socket waiting. Runtime: a queue of one with two workers is full
while a packet is being processed; a limit of two ends a run in the middle of a
batch of three. Simulator: intervals up to 3 let every pair of faults meet on
one packet, on the packet before and on the last one. Codec: the polynomial of
degree 8 is primitive like that of CRC-32, so the scaled checksum notices two
inverted bits for the same reason, which is `PolynomialAssumption` of section 5. Programs: no rule of the two parsers relates
more than two options but the repeated ones, which have lines of three; values
lie on both sides of every limit, and milliseconds that fit their integer but
not as nanoseconds exist; two listeners fit the descriptors and a third does
not.

Every module has a type invariant or types its variables in its comments. Only
`TypeOK` of `WorkerPipeline`, which the proofs rest on, is listed in a run; the
others (`MonitorTypeOK`, `RuntimeTypeOK`, ...) document the variables.

`CHECK_DEADLOCK FALSE` is set where the model ends at a bound (the packets of
tracker, monitor, measurements and codecs are used up) or where the caller has
gone (the receiver after an exception).

## 4. Fairness

* Pipeline: threads inside a call go on, and so do workers; a processor call
  ends. These are weak fairness of the constructor, of each caller's stop, of
  each notification and of each worker. Nothing is assumed of who calls
  `try_submit`, `stop` or the destructor, and spurious wakeups need not happen.
  The blocking `join` and mutexes are guards, so fairness never forces them.
* Receiver: the caller polls for ever and a poll does not stop between two
  statements (weak fairness). Signals do not interrupt every `epoll_wait` that
  finds a ready socket: strong fairness of `WaitReturnsReady`, since an
  `EINTR` return disables it again and again.
* Runtime: weak fairness of the I/O thread, whose `epoll_wait` ends at its
  timeout, and of the processing of each packet. No fairness for the network,
  for failures or for who requests a stop.
* Simulator: weak fairness of its only thread; waits end because clocks go on.
* Programs: none; nothing is claimed about when a program ends, which is what
  `StopEndsRun` and `RunEnds` say of the two runs inside.

## 5. Proofs

The theorems hold for every value of the constants that the named assumptions
of the modules admit, not only for the values of a run. A theorem that states a
property of section 3 is about the same formula that TLC checks. Where the
specification of a run has fairness, the theorem is about its safety part (`SafeSpec`,
`ReceiverSafeSpec`, `RuntimeSafeSpec`), which it implies.

### Assumptions

| Module | Assumption | Where the code has it |
| --- | --- | --- |
| `WorkerPipeline` | `ConfigAssumption`, `ThreadAssumption` | `validate_config`; finitely many producers, and an owner that is not a stopper |
| `SensorStreamTracker` | `TrackerAssumption` | the sequence space is even and at least 4, the bitmap at most half of it wide; the code has 2^64 and 64 |
| `SourceHealthMonitor` | `MonitorAssumption` | `validate_config`: an offline timeout above the degraded one, positive durations, a recovery that fits the counter |
| `ReceiveMeasurements` | `MeasurementAssumption` | a ring with room for one timestamp |
| `EpollReceiver` | `ReceiverAssumption` | finitely many listeners, at least one, and a positive drain limit |
| `Runtime` | `RuntimeAssumption` | workers and room in the queue; no limit is 0 |
| `SensorSimulator` | `SimulatorAssumption` | intervals and counts are natural numbers |
| `PacketCodec` | `CodecAssumption`, `SizeAssumption`, `PolynomialAssumption` | positive widths and bytes that are bytes; the length field can hold `kMaxPayloadSize`; what the polynomial is chosen for, see below; at most two inverted bits, since three or more can escape a checksum |
| `SensorPayload` | `PayloadAssumption` | the fixed sizes of the payloads are within `kMaxPayloadSize` |
| `Programs` and below | `CommandLineAssumption`, `RuntimeConfigAssumption`, `SimulatorConfigAssumption`, `UdpSocketAssumption`, `ProgramsAssumption` | the limits of the integer types and constants of the parsers in any scale that keeps their order; a line has at most as many options as an `int` counts, since `argc` is one |

The bounds of the runs (`MaxPackets`, `MaxDatagrams`, `MaxTime` and so on) are
constants of the models too, so "for every value" includes every bound.

`PolynomialAssumption` has three parts: the polynomial fits the checksum, it has
the highest coefficient, and a state with a single bit, taken through any number
of zero bytes up to the longest packet, is never again a state with a single
bit. TLC evaluates it for the polynomial of the
run. For the code, `kCrcPolynomial = 0xedb88320` has bit 31, and the state of a
single bit of a byte was carried through as many zero bytes as a packet has
covered ones, the 28 of the header and the 65475 of `kMaxPayloadSize`, without
becoming a single bit again (computed outside of TLA+; it must be so, because
the polynomial of CRC-32 is primitive and a packet has fewer than 2^32 - 1
bits).

### Worker pipeline (`WorkerPipelineProofs`)

| Theorem | Statement |
| --- | --- |
| `Typing` | `TypeOK` |
| `ExclusiveJoin` | `JoinIsExclusive` |
| `WakeupsArrive` | `WakeupsReachWorkers` (from `Wakeups` and `StopWakesSleepers`) |
| `Watermark` | `WatermarkBounds` |
| `PacketsConserved` | `Conservation` |
| `StoppedMeansDrained` | `DrainedWhenStopped` |
| `DestroyedQuiescent` | `QuiescentAtDestruction` |
| `SnapshotsStable` | `StableSnapshot` |
| `ExitsAreFinal` | `ExitIsFinal` |
| `PipelineImplementsSink` | `ImplementsSink`: every behaviour is one of `DrainingSink!SafeSpec` |

None of the properties is inductive as it stands. The inductive invariant is
built in layers, each proved from those below it:

1. `TypeOK`.
2. `ControlInv`: which of the constructor, the destructor and the stops can be
   where at the same time, that `accepting` is down from `request_stop` on, and
   who holds `lifecycle_mutex_`. It gives `JoinIsExclusive`: either the
   constructor's catch block joins, when there is no other caller yet, or the
   holder of the mutex does.
3. `JoinInv`: the threads before a caller's position in `join_workers` are no
   longer joinable and have exited; a finished stop has passed all of them.
4. `ExitInv`: a worker exits only with stop requested and the queue empty, and
   the queue stays empty, with `StopReachesSleepers`.
5. `NoLostWakeup`, which counts: sleepers present, the queue is no longer than
   ready workers and pending notifications together. Every step that makes a
   packet adds a notification, every notification makes a worker ready or finds
   nobody asleep, and a worker that goes to sleep finds the queue empty.
6. `QueueInv`, `HolderInv`, `CountInv`: the queue holds the latest packets in
   order, every packet taken before them is complete or held by exactly one
   worker, and completions are counted once each. They give `Conservation`.
7. `DrainedWhenStopped`, `QuiescentAtDestruction` and `StableSnapshot`, from 3,
   4 and 6; a finished stop freezes all counters but `rejected_stopped`.
8. The refinement: pending is what was accepted and is not complete, at most
   capacity plus workers; each step is one of the sink's or a stutter.

### Tracker, monitor and measurements (`SourceHealthMonitorProofs`, `ReceiveMeasurementsProofs`)

| Theorem | Statement |
| --- | --- |
| `TrackerTyping` | `TrackerTypeOK` and `PositionInv` |
| `BitmapProved` | `BitmapIsRecentHistory` |
| `StatusProved` | `StatusIsTruthful`, an action property |
| `StreamCountsProved` | `StreamCountsAddUp` |
| `MonitorRunsTracker` | every behaviour of the monitor is one of the tracker |
| `MonitorTyping` | `MonitorTypeOK`, `PositionInv` and `HistoryInv` |
| `HealthProved` | `StatusFollowsHistory` |
| `CountersProved` | `CountersAgree` |
| `MeasurementsTyping` | `TypeOK`, `RingInv` and `LatencyInv` |
| `MeasurementsProved` | `MeasurementsFollowHistory` |

The code of the tracker sees sequence numbers modulo 2^64, the properties speak
of positions on the unbounded line. `PositionInv` ties the two: the highest
number of a source is its highest position modulo the space, and bit b of its
bitmap says whether the position b behind it was received. A new packet moves
by the distance of the two numbers, forward if that is less than half of the
space; that the remainder of the new position is the new number, and that bits
shifted out are positions out of reach, is what the arithmetic lemmas are for.
`StreamCountsAddUp` needs more: `CountsInv` partitions the packets, and
`MissingInv` says that each position a source has moved over (the set `Moved`
of pairs) is the end of a step in order or of a gap, or is counted as missing,
up to saturation.

The constant-size state of the monitor is tied to the whole history by
`Summarises`: latest times are the maxima over the events, saturating counters
the capped cardinalities, the recovery streak the number of packets after the
last issue. From it `StatusFollowsHistory` is a comparison of two readings of
the same numbers. As every step of the monitor is a step of the tracker or none
of its business, `CountersAgree` uses the tracker's invariant inside.

`RingInv` says slot by slot which timestamp the ring holds, for any capacity.
The case that needs it is the wrap: when the ring is full, the oldest entry is
the one the index is about to overwrite.

### Receiver and runtime (`RuntimeProofs`)

| Theorem | Statement |
| --- | --- |
| `ReceiverTyping` | `ReceiverTypeOK` |
| `DrainIsFair` | `SharesAreFair` |
| `ReadingProved` | `ReadingIsExact` |
| `RuntimeDrivesReceiver` | every behaviour of the runtime is one of the receiver |
| `RuntimeTyping` | `RuntimeTypeOK`, `ReadingInv`, `ControlInv` |
| `LimitProved`, `StopIsNoticedProved`, `NoUseAfterReturnProved` | `LimitIsExact`, `StopIsNoticed`, `NoUseAfterReturn` |
| `ArrivalOrderProved` | `ObservedInArrivalOrder` |
| `CountersProved` | `SinkInv`: stages, counters and the sink agree at every step |
| `SummaryProved`, `ReportProved` | `SummaryAddsUp`, `ReportIsComplete` |
| `NeverRefused` | the contract of the pipeline never holds up the I/O thread |
| `RuntimeUsesSink` | every behaviour of the runtime uses `DrainingSink` as it allows |

`SharesAreFair` is about a poll that has returned; `DrainInv` describes one in
the middle of its events: the present listener has had what the local counter
says, the later ones nothing, the earlier ones their share. `ReadingIsExact` is
the statement that, per listener, what was handed out and what is still in the
socket's buffer together are what arrived, in order.

`RuntimeDrivesReceiver` makes both available inside `run`. The place of the I/O
thread determines whether a poll is under way and whether the sink is open
(`ControlInv`). From there each property has a strengthening of its own
(`LimitInv`, `MarkInv`, `ObserveInv`) that says what holds between two
statements, where the property only speaks of some of them. For the summary,
`TallyInv` states for each pair of counters that they differ by the number of
packets on their way from one to the other; at the end of `run` no packet is on
its way. `NeverRefused` and `RuntimeUsesSink`, with `PipelineImplementsSink`,
justify that `Runtime` represents the pipeline by its contract.

### Simulator (`SensorSimulatorProofs`)

| Theorem | Statement |
| --- | --- |
| `SimulatorTyping` | `TypeOK` and `PlaceInv` |
| `PromptProved` | `StopIsPrompt` |
| `PacketsProved` | `PacketsAccounted` |
| `TotalsProved` | `SummaryDescribesDatagrams` |
| `OrderProved` | `OnlyAdjacentSwaps` |

`PlaceInv` bounds what can be held and batched at each place: at most one held
packet, at most two in a batch, and never both. `StopInv` gives every stop one
more thing to do and takes it back when it is done. `Accounted` puts each
packet that is not dropped in one place, with a pending copy taken out of the
batch. For the order, the induction hypothesis `OrderInv` describes the packets
still to leave: a held packet is later than all that have left, and what is
left of a batch is too, but for the second packet of a swap, which is counted
only when its batch ends (`SwapsCounted`). That the datagrams of a packet are
next to each other (`Together`) is needed because a copy may lie between the two
packets of a swap.

### Programs (`ProgramsProofs`)

| Theorem | Statement |
| --- | --- |
| `DescriptorsProved` | `DescriptorsOwned` |
| `SignalsProved` | `SignalsAreGraceful`, an action property |
| `AcceptedProved` | `AcceptedConfigRuns` |
| `ListenersProved` | `ListenersServe` |
| `AskedProved` | `ConfigIsWhatWasAsked` |

`OwnInv` is `DescriptorsOwned` in parts that each step can be matched with, and
`PlaceInv` says which owners there are at which place. `HandlersInv` says that a
server which lacks a handler has opened nothing, and that one which ends without
an exception has its status.

For `AcceptedProved` the loop of each parser, a fold, is shown to be well
defined for every line (`RoundsExist`, `RuntimeFold`, `SimulatorFold`), and what
it has parsed keeps its form in every round (`RuntimeState`, `SimulatorState`):
numbers are positive, in the range of the type of their field after the
conversion (`ConvertedIs`), and there are no more endpoints than options.
`ConfigInv` carries that to all the checks that come later. `CountInv` and
`ServeInv` do the same for the loop of the receiver's constructor: between any
two of its calls the local socket is what the next listener will be.

`AskedProved` compares two loops over the same line: the parser, which works
option by option, and the documentation, which speaks of the line as a whole
(`Given`: the values of one option). `RuntimeKnows` and `SimulatorKnows` say
what the parser has after n rounds: while nothing is refused each field has the
default or the one value its option was given, and the list has the endpoints
given so far; once a pair is refused there is one that the documentation
forbids, whatever follows (`RuntimeFault`, `SimulatorFault`; that more rounds
only add values is `GivenKept`). From the last round `RuntimeAnswer` and
`SimulatorAnswer` conclude in both directions: a line is accepted exactly if it
is allowed, and every field is the one asked for. The check before a conversion
divides the limit and the documentation multiplies the value; that both are the
same bound is `LimitIs`.

### Packet codec (`PacketCodecProofs`)

| Theorem | Statement |
| --- | --- |
| `MoreThanTwo` | equally long datagrams with right checksums differ in more than two bits or not at all |
| `HarmTraced` | `PathInv`, the inductive invariant |
| `DecodeProved` | `DecodeInvertsEncode` |
| `HarmProved` | `HarmIsNoticed` |

The proof goes from the bits upwards.

1. Recursive functions (`NumberOf`, `AbsorbByte`, `UpdateCrc`) are well defined
   and obey their equations (`Course`), numbers of different bytes differ
   (`NumbersDiffer`), and reading and writing a field invert each other
   (`ReadInvertsWrite`, `WriteInvertsRead`).
2. The checksum is linear: the checksum of a difference is the difference of the
   checksums (`CrcBitLinear`, `AbsorbLinear`, `UpdateLinear`), so the initial
   value and everything two datagrams share cancel out.
3. Every step of it is injective (`CrcBitKeeps`), which needs the highest
   coefficient: a difference, once absorbed, never vanishes (`Loud`), and a
   difference in one byte or in one or two bits is still there after the last
   byte (`SeesByte`, `SeesOne`, `SeesTwo`).
4. `MoreThanTwo`, by where the bits are: both in the field of the checksum,
   although nothing it covers has changed; one in it and one among the bytes it
   covers; or both among the latter. In the last two cases the one bit, carried
   through the bytes behind it, would have to become the other, which
   `PolynomialAssumption` excludes.
5. `EncodeIs` says where each byte of an encoded packet is, `DecodeIs` that
   `decode_packet` accepts if and only if every check passes, `EncodedAccepted`
   and `AcceptedIsEncoded` that the two are inverse in both directions.

`HarmIsNoticed` speaks of the end only; `PathInv` says of a datagram on its way
which of the six things has happened to it (`Delivered`) and that they do not
mix. A cut or padded datagram still has the length field it was sent with. For
inverted bits, a datagram that were accepted would be an encoded one of the
same length, two bits away from the one that was sent.

### Sensor payloads (`SensorPayloadProofs`)

| Theorem | Statement |
| --- | --- |
| `PayloadTyping` | `TypedInv` |
| `SamplesProved` | `SamplesAgree` |

`DecodeInverts` and `AcceptedIsEncoded` are the two directions for one payload,
by the decoder: those of the fixed sizes, and the camera's, where the size, the
length field and the limit have to agree. `EndsInv` says that each end did its
half.

### How the models serve the proofs

* Bit strings in `PacketCodec` are sets, not numbers: the provers have no
  powers of two and no bitwise operators, but set algebra gives linearity and
  injectivity directly. `NumberOf` is the only arithmetic left, for the length.
* Sums over sources are cardinalities of unions of pairs, and `DescriptorsOwned`
  speaks of sets and of an injective function rather than of a filtered
  sequence, because the provers know no filter and no recursive sum. The values
  given to an option (`Given`) are collected by a fold, which they can expand.
* Induction over the rounds of a loop is an appeal to the least counterexample
  (`Least`, from the well-foundedness of the natural numbers), since the
  induction theorems of the library take an operator the provers cannot
  instantiate.
* Lemmas named `...Does` or `...Goes` say what an action changes; the proof that
  a step preserves an invariant has one case for each.

### Only model-checked

* Everything under fairness: `CallsReturn`, `ImplementsLiveSink`,
  `BacklogIsRead`, `StopEndsRun`, `RunEnds`. Liveness and `ENABLED` are out of
  the prover's reach.
* `FiniteRunTotals`, which is violated: section 6.

## 6. Finding

`FiniteRunTotals` (`docs/simulator.md:202-205`): the equation between the
summary counters is documented for every finite run "that is not interrupted
during an injected wait". A stop noticed anywhere else breaks it too: before a
packet of a batch is sent, in the rate wait, and after the last packet, when
`finish()` is skipped and the held packet stays behind. The run shows a run of
four packets all of which were generated.

## 7. Not modelled, and why

* What the programs print, the usage texts and the messages of exceptions.
  `Runtime` knows of the two codecs only their verdicts, which are choices
  there; `Programs` knows of the two runs only that they return or throw.
* The move assignments of `UdpSocket` and `FileDescriptor`: no program uses
  them.
* Events without `EPOLLIN`, which `poll()` skips: a socket that never sends
  gets none.
* The length of the simulator's period. For a rate below about 1e-10 Hz the
  conversion of the period to nanoseconds is undefined in C++; the parser
  accepts such a rate, and the models only say that some wait follows.
* Real time: a signal that does not interrupt `epoll_wait` is noticed at its
  timeout; the models say that the run ends, not when. Delays and rates of the
  simulator are waits that pass or are stopped.
* Counters incremented with `++` on 64 bits are unbounded: 2^64 packets are out
  of reach. Those that saturate do so at `CounterMax`.
* Memory exhaustion, and the order of the sources in a report.
* `SensorSampleProcessor::metrics()` during processing: `Runtime` reads it only
  after the workers have ended.

## 8. Plan

Done: the pipeline with its contract, tracker, monitor, measurements, receiver
with its construction, runtime, simulator, packet and payload codecs,
configuration, sockets and programs; the proofs of section 5.

Every safety invariant and every action property that a run checks is stated by
a theorem. Open: a run that puts the full `WorkerPipeline` under `Runtime` in
place of its contract, on an instance small enough.
