--------------------------- MODULE SensorSimulator ---------------------------
(***************************************************************************)
(* driveflow::simulator::run_simulator and its FaultInjector               *)
(* (src/simulator/sensor_simulator.cpp): one thread generates numbered     *)
(* packets at a fixed rate and drops, swaps, delays, corrupts and          *)
(* duplicates some of them by number, while another thread or a signal may *)
(* request stop at any time.                                               *)
(*                                                                         *)
(* The simulator reads the stop predicate only at certain points; between  *)
(* two of them it does not notice a stop.  Every read is an action of its  *)
(* own.  A packet is its sequence number: which faults select it is fixed  *)
(* by the number.                                                          *)
(***************************************************************************)
EXTENDS Integers, Sequences, FiniteSets, SequencesExt,
        FiniteSetsExt

CONSTANTS
  Intervals,        \* the N of the --...-every options, 0 for no value
  Counts,           \* the N of --count, 0 for a continuous run
  MaxPackets        \* bound: packets generated in one run

ASSUME SimulatorAssumption ==
  /\ Intervals \subseteq Nat
  /\ Counts \subseteq 0..MaxPackets
  /\ MaxPackets \in Nat

VARIABLES
  config,           \* SimulatorConfig: the faults and the packet count
  stop,             \* what stop_requested() returns from now on
  pc,               \* where run_simulator is
  held,             \* held_packet_, as a set
  batch,            \* packets of the current InjectionBatch still to send
  swaps,            \* reorder_events of the current InjectionBatch
  flushing,         \* the current InjectionBatch was made by finish()
  summary,          \* SimulationSummary
  sent,             \* history: the numbers of the datagrams sent, in order
  mark,             \* history: the summary when stop was requested
  cut               \* history: a stop interrupted an injected wait

injector == <<held, batch, swaps, flushing>>
history == <<sent, mark, cut>>
vars == <<config, stop, pc, injector, summary, history>>

Final == {"done", "failed"}

\* matches_interval
Matches(interval, n) == interval # 0 /\ n % interval = 0

Init ==
  /\ config \in [count : Counts, drop : Intervals, duplicate : Intervals,
                 reorder : Intervals, delay : Intervals, corrupt : Intervals]
  /\ stop = FALSE
  /\ pc = "loop"
  /\ held = {}
  /\ batch = <<>>
  /\ swaps = 0
  /\ flushing = FALSE
  /\ summary = [generated |-> 0, sent |-> 0, dropped |-> 0, duplicate |-> 0,
                reorder |-> 0, delayed |-> 0, corrupted |-> 0]
  /\ sent = <<>>
  /\ mark = summary
  /\ cut = FALSE

\* Another thread, or the handler of SIGINT and SIGTERM.
RequestStop ==
  /\ ~stop /\ pc \notin Final
  /\ stop' = TRUE
  /\ mark' = summary
  /\ UNCHANGED <<config, pc, injector, summary, sent, cut>>

-----------------------------------------------------------------------------
(* The head of the loop, and FaultInjector::process for the next packet.   *)

CountReached == config.count # 0 /\ summary.generated = config.count

\* A step that changes nothing but the place in run_simulator.
Moves(from, to) ==
  /\ pc = from
  /\ pc' = to
  /\ UNCHANGED <<config, stop, injector, summary, history>>

LoopContinues ==
  /\ ~stop /\ ~CountReached
  /\ summary.generated < MaxPackets
  /\ Moves("loop", "generate")

LoopEnds == (stop \/ CountReached) /\ Moves("loop", "finish")

Fresh == summary.generated + 1
Dropped == Matches(config.drop, Fresh)

\* One packet is generated; the injector drops, holds or batches it.
Generate(dropped, packets, kept) ==
  /\ pc = "generate"
  /\ pc' = "send"
  /\ summary' = [summary EXCEPT !.generated = @ + 1, !.dropped = @ + dropped]
  /\ batch' = packets
  /\ swaps' = IF Len(packets) = 2 THEN 1 ELSE 0
  /\ held' = kept
  /\ UNCHANGED <<config, stop, flushing, history>>

Drop == Dropped /\ Generate(1, <<>>, held)

\* Faulty variant: the held packet is not released.
SwapKeepsHeld ==
  ~Dropped /\ \E h \in held : Generate(0, <<Fresh, h>>, held)

\* Faulty variant: the held packet leaves first.
SwapHeldFirst ==
  ~Dropped /\ \E h \in held : Generate(0, <<h, Fresh>>, {})

Swap ==
  ~Dropped /\ \E h \in held : Generate(0, <<Fresh, h>>, {})

Hold ==
  /\ ~Dropped /\ held = {}
  /\ Matches(config.reorder, Fresh)
  /\ Generate(0, <<>>, {Fresh})

Pass ==
  /\ ~Dropped /\ held = {}
  /\ ~Matches(config.reorder, Fresh)
  /\ Generate(0, <<Fresh>>, {})

-----------------------------------------------------------------------------
(* send_batch, of a generated packet or, when flushing, of the held one.   *)

\* The first statement of every iteration: a stop abandons the batch.
SendStopped == batch # <<>> /\ stop /\ Moves("send", "done")

SendNext ==
  /\ batch # <<>>
  /\ Moves("send", IF Matches(config.delay, Head(batch)) THEN "select"
                                                        ELSE "emit")

\* Faulty variant: stop is not looked at between packets.
SendRegardless == SendNext

SendContinues == ~stop /\ SendNext

StartDelay ==
  /\ pc = "select"
  /\ summary' = [summary EXCEPT !.delayed = @ + 1]
  /\ pc' = "delay"
  /\ UNCHANGED <<config, stop, injector, history>>

DelayCut(then) ==
  /\ pc = "delay"
  /\ stop
  /\ pc' = then
  /\ cut' = TRUE
  /\ UNCHANGED <<config, stop, injector, summary, sent, mark>>

\* Faulty variant: the wait goes on when stop is requested.
DelayGoesOn == DelayCut("delay")

\* wait_until_or_stop looks at the stop predicate before the clock.
DelayStopped == DelayCut("done")

DelayPasses == ~stop /\ Moves("delay", "emit")

\* Faulty variant: the copy of a corrupted packet is not counted.
CorruptedOnce(n, copy) == IF Matches(config.corrupt, n) THEN 1 - copy ELSE 0

\* What a datagram of packet n adds to corrupted_packets_sent.
Corrupted(n, copy) == IF Matches(config.corrupt, n) THEN 1 ELSE 0

\* One datagram with the bytes of packet n, and its counters.
Transmit(n, copy) ==
  /\ sent' = Append(sent, n)
  /\ summary' = [summary EXCEPT !.sent = @ + 1,
                                !.duplicate = @ + copy,
                                !.corrupted = @ + Corrupted(n, copy)]
  /\ UNCHANGED <<config, stop, held, swaps, flushing, mark, cut>>

SendPacket ==
  /\ pc = "emit"
  /\ Transmit(Head(batch), 0)
  /\ IF Matches(config.duplicate, Head(batch))
     THEN pc' = "copy" /\ UNCHANGED batch
     ELSE pc' = "send" /\ batch' = Tail(batch)

SendCopy ==
  /\ pc = "copy"
  /\ Transmit(Head(batch), 1)
  /\ pc' = "send"
  /\ batch' = Tail(batch)

\* send_to throws: the exception leaves run_simulator, without a summary.
SendFails == Moves("emit", "failed") \/ Moves("copy", "failed")

BatchEnds ==
  /\ pc = "send"
  /\ batch = <<>>
  /\ summary' = [summary EXCEPT !.reorder = @ + swaps]
  /\ swaps' = 0
  /\ pc' = CASE flushing -> "done"
             [] ~flushing /\ CountReached -> "finish"
             [] ~flushing /\ ~CountReached -> "wait"
  /\ UNCHANGED <<config, stop, held, batch, flushing, history>>

-----------------------------------------------------------------------------
(* The rest of run_simulator.                                              *)

WaitStopped == stop /\ Moves("wait", "done")

WaitPasses == ~stop /\ Moves("wait", "loop")

\* A stop noticed after the loop still keeps the held packet back.
FinishStopped == stop /\ Moves("finish", "done")

Finish ==
  /\ pc = "finish"
  /\ ~stop
  /\ batch' = SetToSeq(held)
  /\ held' = {}
  /\ flushing' = TRUE
  /\ pc' = "send"
  /\ UNCHANGED <<config, stop, swaps, summary, history>>

Step ==
  \/ LoopContinues \/ LoopEnds \/ Drop \/ Swap \/ Hold \/ Pass
  \/ SendStopped \/ SendContinues \/ StartDelay \/ DelayStopped \/ DelayPasses
  \/ SendPacket \/ SendCopy \/ SendFails \/ BatchEnds
  \/ WaitStopped \/ WaitPasses \/ FinishStopped \/ Finish

Terminated ==
  /\ pc \in Final
  /\ UNCHANGED vars

Next == RequestStop \/ Step \/ Terminated

SafeSpec == Init /\ [][Next]_vars

\* The simulator's thread keeps running; waits end when the clock passes
\* their deadline.  Nobody has to request a stop.
Spec == SafeSpec /\ WF_vars(Step)
-----------------------------------------------------------------------------
Totals ==
  [generated : 0..MaxPackets, sent : Nat, dropped : Nat, duplicate : Nat,
   reorder : Nat, delayed : Nat, corrupted : Nat]

TypeOK ==
  /\ config \in [count : Counts, drop : Intervals, duplicate : Intervals,
                 reorder : Intervals, delay : Intervals, corrupt : Intervals]
  /\ stop \in BOOLEAN
  /\ pc \in {"loop", "generate", "send", "select", "delay", "emit", "copy",
             "wait", "finish", "done", "failed"}
  /\ held \subseteq 1..MaxPackets
  /\ batch \in Seq(1..MaxPackets)
  /\ swaps \in {0, 1}
  /\ flushing \in BOOLEAN
  /\ summary \in Totals
  /\ sent \in Seq(1..MaxPackets)
  /\ mark \in Totals
  /\ cut \in BOOLEAN

Generated == 1..summary.generated
Sendable == {n \in Generated : ~Matches(config.drop, n)}
Sent == ToSet(sent)

\* A packet that is not dropped is in one place: sent, in the rest of the
\* batch or held for a swap, of which there is at most one; drop dominates.
\* A run that nobody stops ends with every one of them sent, the packet held
\* at its end included.
PacketsAccounted ==
  LET rest == ToSet(IF pc = "copy" THEN Tail(batch) ELSE batch) IN
  /\ pc # "failed" =>
       /\ Sent \cup rest \cup held = Sendable
       /\ Sent \cap rest = {} /\ Sent \cap held = {} /\ rest \cap held = {}
       /\ Cardinality(held) + swaps <= 1
  /\ pc = "done" /\ ~stop =>
       Sent = Sendable /\ summary.generated = config.count

\* docs/simulator.md, summary metrics: every counter is what its description
\* says of the datagrams really sent.
SummaryDescribesDatagrams ==
  LET copies == {i \in DOMAIN sent : i > 1 /\ sent[i - 1] = sent[i]} IN
  /\ summary.sent = Len(sent)
  /\ summary.duplicate = Cardinality(copies)
  /\ summary.sent - summary.duplicate = Cardinality(Sent)
  /\ summary.corrupted =
       Cardinality({i \in DOMAIN sent : Matches(config.corrupt, sent[i])})
  /\ summary.dropped = Cardinality(Generated \ Sendable)
  /\ summary.delayed - Cardinality({n \in Sent : Matches(config.delay, n)})
       \in {0, 1}
  /\ pc \notin {"copy", "failed"} => \A n \in Sent :
       Matches(config.duplicate, n) <=> \E i \in copies : sent[i] = n

\* docs/simulator.md, reorder: packets leave in order, except that a selected
\* packet follows the next packet that is not dropped; swaps do not overlap.
\* The reorder counter counts the swaps completed.
OnlyAdjacentSwaps ==
  LET after(n) == {m \in Sendable : m > n}
      late_pairs == {ij \in (DOMAIN sent) \X (DOMAIN sent) :
                       ij[1] < ij[2] /\ sent[ij[1]] > sent[ij[2]]}
      swapped == {<<sent[ij[1]], sent[ij[2]]>> : ij \in late_pairs}
  IN  /\ \A ab \in swapped :
           /\ Matches(config.reorder, ab[2])
           /\ ab[1] = Min(after(ab[2]))
      /\ \A ab, cd \in swapped :
           ab # cd => {ab[1], ab[2]} \cap {cd[1], cd[2]} = {}
      /\ summary.reorder + swaps >= Cardinality(swapped)
      /\ pc \in {"loop", "wait"} =>
           summary.reorder = Cardinality(swapped)

\* Wherever the stop falls, at most one more packet is generated, or held up
\* by an injected delay, or sent (with its copy): never one of each.
StopIsPrompt ==
  LET originals(totals) == totals.sent - totals.duplicate IN
  stop => (summary.generated - mark.generated)
            + (summary.delayed - mark.delayed)
            + (originals(summary) - originals(mark)) <= 1

\* A requested stop ends the run, also during the waits, and a finite run
\* ends by itself.
RunEnds == stop \/ config.count # 0 ~> pc \in Final

\* docs/simulator.md:202-205 "For a finite run that is not interrupted during
\* an injected wait: packets_sent = packets_generated - packets_dropped +
\* duplicate_packets_sent".  A stop that is noticed elsewhere breaks it too,
\* even when it comes after the last packet was generated.
FiniteRunTotals ==
  pc = "done" /\ CountReached /\ ~cut =>
    summary.sent = summary.generated - summary.dropped + summary.duplicate
=============================================================================
