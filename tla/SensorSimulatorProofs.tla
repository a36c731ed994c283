------------------------ MODULE SensorSimulatorProofs ------------------------
(***************************************************************************)
(* Proofs about SensorSimulator, for every set of intervals and any number *)
(* of packets.                                                             *)
(***************************************************************************)
EXTENDS SensorSimulator, FiniteSetTheorems, SequenceTheorems, TLAPS

Numbers == 1..MaxPackets
Config ==
  [count : Counts, drop : Intervals, duplicate : Intervals,
   reorder : Intervals, delay : Intervals, corrupt : Intervals]

\* The places inside send_batch before the bytes leave, and all others.
Sending == {"select", "delay", "emit", "copy"}
Between == {"loop", "generate", "wait", "finish"}

\* Where run_simulator is says what the injector holds and has batched.
PlaceInv ==
  /\ pc \in Sending => batch # <<>>
  /\ pc \in Between => batch = <<>> /\ swaps = 0 /\ ~flushing
  /\ pc = "generate" => summary.generated < MaxPackets /\ ~CountReached
  /\ pc \in {"select", "delay"} => Matches(config.delay, Head(batch))
  /\ pc = "copy" => /\ sent # <<>> /\ sent[Len(sent)] = Head(batch)
                    /\ Matches(config.duplicate, Head(batch))
  /\ held # {} => batch = <<>> /\ swaps = 0 /\ ~flushing
  /\ held = {} \/ \E h \in Numbers : held = {h}
  /\ flushing => swaps = 0 /\ Len(batch) <= 1 /\ CountReached
  /\ Len(batch) <= 1 + swaps
  /\ pc = "finish" /\ ~stop => CountReached
  /\ pc = "done" /\ ~stop => flushing /\ batch = <<>>

\* The one more thing that may happen after a stop is still to come.
StopInv ==
  LET originals(totals) == totals.sent - totals.duplicate IN
  stop => (summary.generated - mark.generated)
            + (summary.delayed - mark.delayed)
            + (originals(summary) - originals(mark))
            + (IF pc \in {"generate", "select", "emit"} THEN 1 ELSE 0) <= 1

\* What is left of the batch once the packet of a pending copy is taken out.
Rest == IF pc = "copy" THEN Tail(batch) ELSE batch

\* Every packet that is not dropped is in exactly one place.
Accounted ==
  pc # "failed" =>
    /\ Sent \cup ToSet(Rest) \cup held = Sendable
    /\ Sent \cap ToSet(Rest) = {}
    /\ Sent \cap held = {}
    /\ ToSet(Rest) \cap held = {}
    /\ Len(batch) = 2 => batch[1] # batch[2]

Copies == {i \in DOMAIN sent : i > 1 /\ sent[i - 1] = sent[i]}
CorruptSent == {i \in DOMAIN sent : Matches(config.corrupt, sent[i])}
DelayedSent == {n \in Sent : Matches(config.delay, n)}

\* The packet under way has been counted as delayed and is not sent yet.
Delaying ==
  pc = "delay" \/ (pc = "emit" /\ Matches(config.delay, Head(batch)))

\* The counters describe the datagrams sent, and a delay is counted before the
\* packet it holds up is sent.
CountersInv ==
  /\ summary.sent = Len(sent)
  /\ summary.duplicate = Cardinality(Copies)
  /\ summary.sent = summary.duplicate + Cardinality(Sent)
  /\ summary.corrupted = Cardinality(CorruptSent)
  /\ summary.dropped = Cardinality(Generated \ Sendable)
  /\ summary.delayed - Cardinality(DelayedSent) \in {0, 1}
  /\ pc \notin Final =>
       summary.delayed = Cardinality(DelayedSent)
         + (IF Delaying THEN 1 ELSE 0)

\* Exactly the packets that are selected for it have a copy, the packet whose
\* copy is about to be sent excepted.
CopiesInv ==
  pc # "failed" => \A n \in Sent :
    (\E i \in Copies : sent[i] = n)
      <=> Matches(config.duplicate, n) /\ ~(pc = "copy" /\ n = Head(batch))

\* Packet a is the first after b that is not dropped, and b was selected to be
\* swapped with it.
Swapped(a, b) ==
  /\ a \in Sendable /\ b \in Sendable /\ b < a
  /\ Matches(config.reorder, b)
  /\ \A m \in Sendable : ~(b < m /\ m < a)

Late(a, b) ==
  b < a /\ \E i, j \in DOMAIN sent : i < j /\ sent[i] = a /\ sent[j] = b

LatePairs == {ab \in Sent \X Sent : Late(ab[1], ab[2])}

\* The datagrams of one packet follow each other directly.
Together ==
  \A i, j, k \in DOMAIN sent :
    i < k /\ k < j /\ sent[i] = sent[j] => sent[k] = sent[i]

\* The packet held for a swap is selected, and later than all that have left.
HeldIsLast ==
  \A h \in held : Matches(config.reorder, h) /\ \A n \in Sent : n < h

\* What is left of the batch is later than all that have left, but for the
\* second packet of a swap.
RestInOrder ==
  /\ \A n \in Sent, m \in ToSet(Rest) :
       m < n => Swapped(n, m) /\ swaps = 1 /\ Len(Rest) = 1
  /\ swaps = 1 /\ Len(Rest) = 1 => \E n \in Sent : Rest[1] < n
  /\ Len(batch) = 2 => Swapped(batch[1], batch[2])

\* A swap is counted when its batch ends, after its second packet has left.
SwapsCounted ==
  Cardinality(LatePairs)
    = summary.reorder + (IF swaps = 1 /\ Rest = <<>> THEN 1 ELSE 0)

\* What has left and what is to leave is in order but for the swaps.
OrderInv ==
  /\ \A a, b \in Sent : Late(a, b) => Swapped(a, b)
  /\ Together
  /\ Cardinality(LatePairs) <= summary.reorder + swaps
  /\ pc # "failed" => HeldIsLast /\ RestInOrder /\ SwapsCounted
-----------------------------------------------------------------------------
(* What the steps do.                                                      *)

\* The summary, counter by counter.
LEMMA TotalsFields ==
  ASSUME NEW t \in Totals
  PROVE  /\ t.generated \in 0..MaxPackets /\ t.generated \in Nat
         /\ t.sent \in Nat /\ t.dropped \in Nat /\ t.duplicate \in Nat
         /\ t.reorder \in Nat /\ t.delayed \in Nat /\ t.corrupted \in Nat
  BY SimulatorAssumption DEF Totals

\* A function on 1..n is a sequence of length n.
LEMMA ListedSequence ==
  ASSUME NEW S, NEW n \in Nat, NEW f \in [1..n -> S]
  PROVE  f \in Seq(S) /\ Len(f) = n
<1>1. f \in Seq(S)
  BY SeqDef
<1>2. Len(f) \in Nat /\ DOMAIN f = 1..Len(f)
  BY <1>1, LenProperties
<1>3. DOMAIN f = 1..n
  OBVIOUS
<1>4. ~(Len(f) < n) /\ ~(n < Len(f))
  <2>1. n \in 1..n <=> n \in 1..Len(f)
    BY <1>2, <1>3
  <2>2. Len(f) \in 1..n <=> Len(f) \in 1..Len(f)
    BY <1>2, <1>3
  <2> QED
    BY <2>1, <2>2, <1>2
<1> QED
  BY <1>1, <1>2, <1>4

\* A packet that the injector holds is a sequence of its own.
LEMMA HeldSequence ==
  /\ SetToSeq({}) = <<>>
  /\ \A h : SetToSeq({h}) = <<h>>
<1>1. SetToSeq({}) = <<>>
  <2>1. Cardinality({}) = 0
    BY FS_EmptySet
  <2>2. \A f : f \in [1..0 -> {}] <=> f = <<>>
    <3>1. <<>> \in [1..0 -> {}]
      OBVIOUS
    <3>2. ASSUME NEW f \in [1..0 -> {}] PROVE f = <<>>
      <4>1. f \in Seq({}) /\ Len(f) = 0
        BY <3>2, ListedSequence
      <4> QED
        BY <4>1, EmptySeq
    <3> QED
      BY <3>1, <3>2
  <2>3. IsInjective(<<>>)
    BY DEF IsInjective
  <2> QED
    BY <2>1, <2>2, <2>3 DEF SetToSeq
<1>2. ASSUME NEW h PROVE SetToSeq({h}) = <<h>>
  <2>1. Cardinality({h}) = 1
    BY FS_Singleton
  <2>2. \A f : f \in [1..1 -> {h}] <=> f = <<h>>
    <3>1. <<h>> \in [1..1 -> {h}]
      OBVIOUS
    <3>2. ASSUME NEW f \in [1..1 -> {h}] PROVE f = <<h>>
      <4>1. f \in Seq({h}) /\ Len(f) = 1
        BY <3>2, ListedSequence
      <4>2. <<h>> \in Seq({h}) /\ Len(<<h>>) = 1
        OBVIOUS
      <4>3. f[1] = h /\ <<h>>[1] = h
        BY <3>2
      <4> QED
        BY <4>1, <4>2, <4>3, SeqEqual
    <3> QED
      BY <3>1, <3>2
  <2>3. IsInjective(<<h>>)
    BY DEF IsInjective
  <2> QED
    BY <2>1, <2>2, <2>3 DEF SetToSeq
<1> QED
  BY <1>1, <1>2

\* The steps that change nothing but the place in run_simulator.
Quiet ==
  \/ LoopContinues \/ LoopEnds \/ SendStopped \/ SendContinues
  \/ DelayStopped \/ DelayPasses \/ SendFails
  \/ WaitStopped \/ WaitPasses \/ FinishStopped

\* They leave the packets, the counters and the history alone.
LEMMA QuietDoes ==
  ASSUME Quiet, TypeOK
  PROVE  /\ UNCHANGED <<config, stop, held, batch, swaps, flushing, summary,
                        sent, mark>>
         /\ cut' \in BOOLEAN
         /\ pc \notin Final
         /\ pc = "copy" => pc' = "failed"
         /\ pc' \in {"generate", "finish", "done", "select", "emit", "failed",
                     "loop"}
  BY DEF Quiet, LoopContinues, LoopEnds, SendStopped, SendContinues, SendNext,
         DelayStopped, DelayPasses, DelayCut, SendFails, WaitStopped,
         WaitPasses, FinishStopped, Moves, injector, history, Final, TypeOK

\* One more packet: dropped, swapped with the held one, held or passed on.
LEMMA GenerateDoes ==
  ASSUME TypeOK, PlaceInv, Drop \/ Swap \/ Hold \/ Pass,
         NEW n, n = summary.generated + 1
  PROVE  /\ pc = "generate" /\ pc' = "send" /\ n \in Numbers
         /\ UNCHANGED <<config, stop, flushing, sent, mark, cut>>
         /\ summary' \in Totals
         /\ summary'.generated = n
         /\ summary'.sent = summary.sent
         /\ summary'.duplicate = summary.duplicate
         /\ summary'.reorder = summary.reorder
         /\ summary'.delayed = summary.delayed
         /\ summary'.corrupted = summary.corrupted
         /\ \/ /\ Matches(config.drop, n)
               /\ summary'.dropped = summary.dropped + 1
               /\ batch' = <<>> /\ swaps' = 0 /\ held' = held
            \/ /\ ~Matches(config.drop, n)
               /\ summary'.dropped = summary.dropped
               /\ \/ \E h \in held : /\ held = {h} /\ h \in Numbers
                                     /\ batch' = <<n, h>>
                                     /\ swaps' = 1 /\ held' = {}
                  \/ /\ held = {} /\ Matches(config.reorder, n)
                     /\ batch' = <<>> /\ swaps' = 0 /\ held' = {n}
                  \/ /\ held = {} /\ held' = {}
                     /\ batch' = <<n>> /\ swaps' = 0
<1>a. summary \in Totals /\ summary.generated \in Nat /\ MaxPackets \in Nat
  BY TotalsFields, SimulatorAssumption DEF TypeOK
<1>1. \E d, p, kept :
        /\ d \in {0, 1} /\ Generate(d, p, kept)
        /\ \/ d = 1 /\ Matches(config.drop, n) /\ p = <<>> /\ kept = held
           \/ /\ d = 0 /\ ~Matches(config.drop, n)
              /\ \/ \E h \in held : p = <<n, h>> /\ kept = {}
                 \/ /\ held = {} /\ Matches(config.reorder, n)
                    /\ p = <<>> /\ kept = {n}
                 \/ held = {} /\ p = <<n>> /\ kept = {}
  BY DEF Drop, Swap, Hold, Pass, Dropped, Fresh
<1>2. PICK d, p, kept :
        /\ d \in {0, 1} /\ Generate(d, p, kept)
        /\ \/ d = 1 /\ Matches(config.drop, n) /\ p = <<>> /\ kept = held
           \/ /\ d = 0 /\ ~Matches(config.drop, n)
              /\ \/ \E h \in held : p = <<n, h>> /\ kept = {}
                 \/ /\ held = {} /\ Matches(config.reorder, n)
                    /\ p = <<>> /\ kept = {n}
                 \/ held = {} /\ p = <<n>> /\ kept = {}
  BY <1>1
<1>3. /\ pc = "generate" /\ pc' = "send"
      /\ summary' = [summary EXCEPT !.generated = @ + 1, !.dropped = @ + d]
      /\ batch' = p /\ held' = kept
      /\ swaps' = IF Len(p) = 2 THEN 1 ELSE 0
      /\ UNCHANGED <<config, stop, flushing, sent, mark, cut>>
  BY <1>2 DEF Generate, history
<1>4. n \in Numbers
  BY <1>a, <1>3 DEF PlaceInv, Numbers
<1>5. /\ summary' \in Totals
      /\ summary'.generated = n
      /\ summary'.sent = summary.sent
      /\ summary'.duplicate = summary.duplicate
      /\ summary'.reorder = summary.reorder
      /\ summary'.delayed = summary.delayed
      /\ summary'.corrupted = summary.corrupted
      /\ summary'.dropped = summary.dropped + d
  <2>1. summary.generated + 1 \in 0..MaxPackets /\ summary.dropped + d \in Nat
    BY <1>4, <1>a, <1>2, TotalsFields DEF Numbers
  <2> QED
    BY <2>1, <1>3, <1>a DEF Totals
<1>6. /\ Len(<<>>) = 0 /\ Len(<<n>>) = 1 /\ \A h : Len(<<n, h>>) = 2
  OBVIOUS
<1>7. CASE d = 1 /\ Matches(config.drop, n) /\ p = <<>> /\ kept = held
  <2>1. batch' = <<>> /\ swaps' = 0 /\ held' = held
        /\ summary'.dropped = summary.dropped + 1
    BY <1>3, <1>5, <1>6, <1>7
  <2> QED
    BY <1>3, <1>4, <1>5, <1>7, <2>1
<1>8. CASE /\ d = 0 /\ ~Matches(config.drop, n)
           /\ \/ \E h \in held : p = <<n, h>> /\ kept = {}
              \/ /\ held = {} /\ Matches(config.reorder, n)
                 /\ p = <<>> /\ kept = {n}
              \/ held = {} /\ p = <<n>> /\ kept = {}
  <2>1. summary'.dropped = summary.dropped
    BY <1>5, <1>8, <1>a, TotalsFields
  <2>2. CASE \E h \in held : p = <<n, h>> /\ kept = {}
    <3>1. PICK h \in held : p = <<n, h>> /\ kept = {}
      BY <2>2
    <3>2. held = {h} /\ h \in Numbers
      BY DEF PlaceInv
    <3>3. batch' = <<n, h>> /\ swaps' = 1 /\ held' = {}
      BY <1>3, <1>6, <3>1
    <3> QED
      BY <1>3, <1>4, <1>5, <1>8, <2>1, <3>2, <3>3
  <2>3. CASE /\ held = {} /\ Matches(config.reorder, n)
             /\ p = <<>> /\ kept = {n}
    BY <1>3, <1>4, <1>5, <1>6, <1>8, <2>1, <2>3
  <2>4. CASE held = {} /\ p = <<n>> /\ kept = {}
    BY <1>3, <1>4, <1>5, <1>6, <1>8, <2>1, <2>4
  <2> QED
    BY <1>8, <2>2, <2>3, <2>4
<1> QED
  BY <1>2, <1>7, <1>8

\* The batches that a step makes.
LEMMA ShortSequences ==
  /\ <<>> \in Seq(Numbers) /\ Len(<<>>) = 0 /\ ToSet(<<>>) = {}
  /\ \A a \in Numbers :
       /\ <<a>> \in Seq(Numbers) /\ Len(<<a>>) = 1 /\ <<a>> # <<>>
       /\ <<a>>[1] = a /\ ToSet(<<a>>) = {a}
  /\ \A a, b \in Numbers :
       /\ <<a, b>> \in Seq(Numbers) /\ Len(<<a, b>>) = 2 /\ <<a, b>> # <<>>
       /\ <<a, b>>[1] = a /\ <<a, b>>[2] = b /\ ToSet(<<a, b>>) = {a, b}
  BY DEF ToSet

\* The first packet of a batch, and the others.
LEMMA BatchParts ==
  ASSUME TypeOK, batch # <<>>
  PROVE  /\ Head(batch) \in Numbers /\ Head(batch) = batch[1]
         /\ Tail(batch) \in Seq(Numbers) /\ Len(Tail(batch)) = Len(batch) - 1
         /\ Len(batch) \in Nat \ {0}
         /\ \A i \in 1..Len(Tail(batch)) : Tail(batch)[i] = batch[i + 1]
<1>1. batch \in Seq(Numbers)
  BY DEF TypeOK, Numbers
<1> QED
  BY <1>1, HeadTailProperties, EmptySeq

\* A datagram leaves, and its counters are counted.
LEMMA TransmitDoes ==
  ASSUME TypeOK, PlaceInv, SendPacket \/ SendCopy,
         NEW n, n = Head(batch), NEW copy, copy = (IF pc = "copy" THEN 1 ELSE 0)
  PROVE  /\ batch # <<>> /\ n \in Numbers
         /\ UNCHANGED <<config, stop, held, swaps, flushing, mark, cut>>
         /\ sent' = Append(sent, n)
         /\ summary' \in Totals
         /\ summary'.generated = summary.generated
         /\ summary'.sent = summary.sent + 1
         /\ summary'.dropped = summary.dropped
         /\ summary'.duplicate = summary.duplicate + copy
         /\ summary'.reorder = summary.reorder
         /\ summary'.delayed = summary.delayed
         /\ summary'.corrupted = summary.corrupted
              + (IF Matches(config.corrupt, n) THEN 1 ELSE 0)
         /\ \/ /\ pc = "emit" /\ pc' = "copy" /\ batch' = batch
               /\ Matches(config.duplicate, n)
            \/ /\ pc = "emit" /\ pc' = "send" /\ batch' = Tail(batch)
               /\ ~Matches(config.duplicate, n)
            \/ pc = "copy" /\ pc' = "send" /\ batch' = Tail(batch)
<1>1. Transmit(n, copy) /\ pc \in {"emit", "copy"} /\ copy \in {0, 1}
  BY DEF SendPacket, SendCopy
<1>2. /\ sent' = Append(sent, n)
      /\ summary' = [summary EXCEPT !.sent = @ + 1, !.duplicate = @ + copy,
                                    !.corrupted = @ + Corrupted(n, copy)]
      /\ UNCHANGED <<config, stop, held, swaps, flushing, mark, cut>>
  BY <1>1 DEF Transmit
<1>3. batch # <<>> /\ n \in Numbers
  <2>1. batch # <<>>
    BY <1>1 DEF PlaceInv, Sending
  <2> QED
    BY <2>1, BatchParts
<1> DEFINE c == Corrupted(n, copy)
<1>4. c = IF Matches(config.corrupt, n) THEN 1 ELSE 0
  BY DEF Corrupted
<1> HIDE DEF c
<1>5. summary \in Totals
  BY DEF TypeOK
<1>6. /\ summary.sent + 1 \in Nat /\ summary.duplicate + copy \in Nat
      /\ summary.corrupted + c \in Nat
  BY <1>1, <1>4, <1>5, TotalsFields
<1>7. /\ summary' \in Totals
      /\ summary'.generated = summary.generated
      /\ summary'.sent = summary.sent + 1
      /\ summary'.dropped = summary.dropped
      /\ summary'.duplicate = summary.duplicate + copy
      /\ summary'.reorder = summary.reorder
      /\ summary'.delayed = summary.delayed
      /\ summary'.corrupted = summary.corrupted + c
  BY <1>2, <1>5, <1>6 DEF Totals, c
<1>8. \/ /\ pc = "emit" /\ pc' = "copy" /\ batch' = batch
         /\ Matches(config.duplicate, n)
      \/ /\ pc = "emit" /\ pc' = "send" /\ batch' = Tail(batch)
         /\ ~Matches(config.duplicate, n)
      \/ pc = "copy" /\ pc' = "send" /\ batch' = Tail(batch)
  BY DEF SendPacket, SendCopy
<1> QED
  BY <1>2, <1>3, <1>4, <1>7, <1>8

\* A delay begins and is counted.
LEMMA DelayDoes ==
  ASSUME TypeOK, StartDelay
  PROVE  /\ pc = "select" /\ pc' = "delay"
         /\ UNCHANGED <<config, stop, held, batch, swaps, flushing, sent, mark, cut>>
         /\ summary' \in Totals
         /\ summary'.generated = summary.generated
         /\ summary'.sent = summary.sent
         /\ summary'.dropped = summary.dropped
         /\ summary'.duplicate = summary.duplicate
         /\ summary'.reorder = summary.reorder
         /\ summary'.delayed = summary.delayed + 1
         /\ summary'.corrupted = summary.corrupted
<1>1. /\ pc = "select" /\ pc' = "delay"
      /\ summary' = [summary EXCEPT !.delayed = @ + 1]
      /\ UNCHANGED <<config, stop, held, batch, swaps, flushing, sent, mark, cut>>
  BY DEF StartDelay, injector, history
<1>2. summary \in Totals
  BY DEF TypeOK
<1>3. summary.delayed + 1 \in Nat
  BY <1>2, TotalsFields
<1> QED
  BY <1>1, <1>2, <1>3 DEF Totals

\* A batch has been sent, and its swap counts as completed.
LEMMA BatchDoes ==
  ASSUME TypeOK, BatchEnds
  PROVE  /\ pc = "send" /\ batch = <<>> /\ swaps' = 0
         /\ UNCHANGED <<config, stop, held, batch, flushing, sent, mark, cut>>
         /\ summary' \in Totals
         /\ summary'.generated = summary.generated
         /\ summary'.sent = summary.sent
         /\ summary'.dropped = summary.dropped
         /\ summary'.duplicate = summary.duplicate
         /\ summary'.reorder = summary.reorder + swaps
         /\ summary'.delayed = summary.delayed
         /\ summary'.corrupted = summary.corrupted
         /\ \/ flushing /\ pc' = "done"
            \/ ~flushing /\ CountReached /\ pc' = "finish"
            \/ ~flushing /\ ~CountReached /\ pc' = "wait"
<1>1. /\ pc = "send" /\ batch = <<>> /\ swaps' = 0
      /\ summary' = [summary EXCEPT !.reorder = @ + swaps]
      /\ UNCHANGED <<config, stop, held, batch, flushing, sent, mark, cut>>
  BY DEF BatchEnds, history
<1>2. summary \in Totals /\ swaps \in {0, 1}
  BY DEF TypeOK
<1>3. summary.reorder + swaps \in Nat
  BY <1>2, TotalsFields
<1>4. /\ summary' \in Totals
      /\ summary'.generated = summary.generated
      /\ summary'.sent = summary.sent
      /\ summary'.dropped = summary.dropped
      /\ summary'.duplicate = summary.duplicate
      /\ summary'.reorder = summary.reorder + swaps
      /\ summary'.delayed = summary.delayed
      /\ summary'.corrupted = summary.corrupted
  BY <1>1, <1>2, <1>3 DEF Totals
<1>5. pc' = CASE flushing -> "done"
             [] ~flushing /\ CountReached -> "finish"
             [] ~flushing /\ ~CountReached -> "wait"
  BY DEF BatchEnds
<1>6. \/ flushing /\ pc' = "done"
      \/ ~flushing /\ CountReached /\ pc' = "finish"
      \/ ~flushing /\ ~CountReached /\ pc' = "wait"
  BY <1>5
<1> QED
  BY <1>1, <1>4, <1>6

\* The packet held at the end of a run becomes the last batch.
LEMMA FinishDoes ==
  ASSUME TypeOK, PlaceInv, Finish
  PROVE  /\ pc = "finish" /\ pc' = "send" /\ ~stop /\ CountReached
         /\ UNCHANGED <<config, stop, swaps, summary, sent, mark, cut>>
         /\ swaps = 0 /\ batch = <<>> /\ held' = {} /\ flushing' = TRUE
         /\ \/ held = {} /\ batch' = <<>>
            \/ \E h \in Numbers : held = {h} /\ batch' = <<h>>
<1>1. /\ pc = "finish" /\ pc' = "send" /\ ~stop
      /\ batch' = SetToSeq(held) /\ held' = {} /\ flushing' = TRUE
      /\ UNCHANGED <<config, stop, swaps, summary, sent, mark, cut>>
  BY DEF Finish, history
<1>2. CountReached /\ swaps = 0 /\ batch = <<>>
  BY <1>1 DEF PlaceInv, Between
<1>3. \/ held = {} /\ batch' = <<>>
      \/ \E h \in Numbers : held = {h} /\ batch' = <<h>>
  BY <1>1, HeldSequence DEF PlaceInv
<1> QED
  BY <1>1, <1>2, <1>3

\* A stop is requested, or nothing happens.
LEMMA StopDoes ==
  ASSUME RequestStop \/ Terminated \/ UNCHANGED vars
  PROVE  /\ UNCHANGED <<config, pc, held, batch, swaps, flushing, summary, sent,
                        cut>>
         /\ \/ ~stop /\ stop' = TRUE /\ mark' = summary /\ pc \notin Final
            \/ UNCHANGED <<stop, mark>>
  BY DEF RequestStop, Terminated, vars, injector, history

\* Every step is one of these.
LEMMA StepCases ==
  ASSUME [Next]_vars
  PROVE  \/ Quiet
         \/ Drop \/ Swap \/ Hold \/ Pass
         \/ SendPacket \/ SendCopy
         \/ StartDelay \/ BatchEnds \/ Finish
         \/ RequestStop \/ Terminated \/ UNCHANGED vars
  BY DEF Next, Step, Quiet
-----------------------------------------------------------------------------
\* Every variable keeps its type.
LEMMA TypeStep ==
  ASSUME TypeOK, PlaceInv, [Next]_vars
  PROVE  TypeOK'
<1>a. /\ batch \in Seq(Numbers) /\ sent \in Seq(Numbers)
      /\ summary \in Totals /\ mark \in Totals /\ config \in Config
      /\ held \subseteq Numbers /\ swaps \in {0, 1}
      /\ stop \in BOOLEAN /\ flushing \in BOOLEAN /\ cut \in BOOLEAN
  BY DEF TypeOK, Numbers, Config
<1> DEFINE Typed ==
      /\ batch' \in Seq(Numbers) /\ sent' \in Seq(Numbers)
      /\ summary' \in Totals /\ mark' \in Totals /\ config' \in Config
      /\ held' \subseteq Numbers /\ swaps' \in {0, 1}
      /\ stop' \in BOOLEAN /\ flushing' \in BOOLEAN /\ cut' \in BOOLEAN
      /\ pc' \in {"loop", "generate", "send", "select", "delay", "emit", "copy",
                  "wait", "finish", "done", "failed"}
<1>b. Typed => TypeOK'
  BY DEF TypeOK, Numbers, Config
<1>c. pc \in {"loop", "generate", "send", "select", "delay", "emit", "copy",
              "wait", "finish", "done", "failed"}
  BY DEF TypeOK
<1>1. CASE Quiet
  BY <1>1, <1>a, QuietDoes, <1>b
<1>2. CASE Drop \/ Swap \/ Hold \/ Pass
  <2> DEFINE n == summary.generated + 1
  <2>1. /\ pc' = "send" /\ n \in Numbers
        /\ UNCHANGED <<config, stop, flushing, sent, mark, cut>>
        /\ summary' \in Totals
        /\ \/ batch' = <<>> /\ swaps' = 0 /\ held' = held
           \/ \E h \in Numbers : /\ batch' = <<n, h>>
                                 /\ swaps' = 1 /\ held' = {}
           \/ batch' = <<>> /\ swaps' = 0 /\ held' = {n}
           \/ batch' = <<n>> /\ swaps' = 0 /\ held' = {}
    BY <1>2, GenerateDoes
  <2> HIDE DEF n
  <2>2. batch' \in Seq(Numbers)
    <3>1. /\ n \in Numbers
          /\ batch' = <<>> \/ batch' = <<n>> \/ \E h \in Numbers : batch' = <<n, h>>
      BY <2>1
    <3>2. \A h \in Numbers : <<n, h>> \in Seq(Numbers)
      BY <3>1, ShortSequences
    <3>3. <<n>> \in Seq(Numbers) /\ <<>> \in Seq(Numbers)
      BY <3>1, ShortSequences
    <3> QED
      BY <3>1, <3>2, <3>3
  <2>3. held' \subseteq Numbers /\ swaps' \in {0, 1}
    BY <2>1, <1>a
  <2> QED
    BY <2>1, <2>2, <2>3, <1>a, <1>b
<1>3. CASE SendPacket \/ SendCopy
  <2> DEFINE n == Head(batch)
  <2>1. /\ n \in Numbers /\ batch # <<>>
        /\ sent' = Append(sent, n) /\ summary' \in Totals
        /\ UNCHANGED <<config, stop, held, swaps, flushing, mark, cut>>
        /\ pc' \in {"copy", "send"}
        /\ batch' \in {batch, Tail(batch)}
    BY <1>3, TransmitDoes
  <2> HIDE DEF n
  <2>2. sent' \in Seq(Numbers)
    BY <2>1, <1>a, AppendProperties
  <2>3. batch' \in Seq(Numbers)
    BY <2>1, <1>a, BatchParts
  <2> QED
    BY <2>1, <2>2, <2>3, <1>a, <1>b
<1>4. CASE StartDelay
  BY <1>4, <1>a, <1>b, DelayDoes
<1>5. CASE BatchEnds
  BY <1>5, <1>a, <1>b, BatchDoes
<1>6. CASE Finish
  <2>1. /\ pc' = "send" /\ held' = {} /\ flushing' = TRUE
        /\ UNCHANGED <<config, stop, swaps, summary, sent, mark, cut>>
        /\ \/ batch' = <<>>
           \/ \E h \in Numbers : batch' = <<h>>
    BY <1>6, FinishDoes
  <2>2. batch' \in Seq(Numbers)
    BY <2>1, ShortSequences
  <2> QED
    BY <2>1, <2>2, <1>a, <1>b
<1>7. CASE RequestStop \/ Terminated \/ UNCHANGED vars
  BY <1>7, <1>a, <1>b, <1>c, StopDoes
<1> QED
  BY <1>1, <1>2, <1>3, <1>4, <1>5, <1>6, <1>7, StepCases

\* Where the quiet steps lead, and when they are taken.
LEMMA QuietMoves ==
  ASSUME Quiet
  PROVE  \/ /\ pc = "loop" /\ pc' = "generate" /\ ~stop
            /\ ~CountReached /\ summary.generated < MaxPackets
         \/ pc = "loop" /\ pc' = "finish" /\ (stop \/ CountReached)
         \/ pc = "send" /\ pc' = "done" /\ stop
         \/ /\ pc = "send" /\ pc' = "select" /\ ~stop /\ batch # <<>>
            /\ Matches(config.delay, Head(batch))
         \/ /\ pc = "send" /\ pc' = "emit" /\ ~stop /\ batch # <<>>
            /\ ~Matches(config.delay, Head(batch))
         \/ pc = "delay" /\ pc' = "done" /\ stop
         \/ pc = "delay" /\ pc' = "emit" /\ ~stop
         \/ pc \in {"emit", "copy"} /\ pc' = "failed"
         \/ pc = "wait" /\ pc' = "done" /\ stop
         \/ pc = "wait" /\ pc' = "loop" /\ ~stop
         \/ pc = "finish" /\ pc' = "done" /\ stop
  BY DEF Quiet, LoopContinues, LoopEnds, SendStopped, SendContinues, SendNext,
         DelayStopped, DelayPasses, DelayCut, SendFails, WaitStopped,
         WaitPasses, FinishStopped, Moves

\* The injector and the batch are where the place in run_simulator says.
LEMMA PlaceStep ==
  ASSUME TypeOK, PlaceInv, [Next]_vars
  PROVE  PlaceInv'
<1>a. /\ batch \in Seq(Numbers) /\ Len(batch) \in Nat /\ swaps \in {0, 1}
      /\ Len(sent) \in Nat /\ sent \in Seq(Numbers)
  BY DEF TypeOK, Numbers
<1>1. CASE Quiet
  <2>1. /\ UNCHANGED <<config, stop, held, batch, swaps, flushing, summary, sent>>
        /\ CountReached' <=> CountReached
    BY <1>1, QuietDoes DEF CountReached
  <2> QED
    BY <1>1, <2>1, QuietMoves DEF PlaceInv, Sending, Between
<1>2. CASE Drop \/ Swap \/ Hold \/ Pass
  <2> DEFINE n == summary.generated + 1
  <2>1. /\ pc = "generate" /\ pc' = "send" /\ n \in Numbers
        /\ UNCHANGED <<stop, flushing>>
        /\ \/ batch' = <<>> /\ swaps' = 0 /\ held' = held
           \/ \E h \in Numbers : /\ batch' = <<n, h>>
                                 /\ swaps' = 1 /\ held' = {}
           \/ batch' = <<>> /\ swaps' = 0 /\ held' = {n}
           \/ batch' = <<n>> /\ swaps' = 0 /\ held' = {}
    BY <1>2, GenerateDoes
  <2> HIDE DEF n
  <2>2. ~flushing
    BY <2>1 DEF PlaceInv, Between
  <2>3. /\ Len(batch') <= 1 + swaps'
        /\ held' # {} => batch' = <<>> /\ swaps' = 0
    <3>1. CASE batch' = <<>>
      BY <2>1, <3>1
    <3>2. CASE batch' = <<n>> /\ swaps' = 0 /\ held' = {}
      BY <3>2
    <3>3. ASSUME NEW h, batch' = <<n, h>>, swaps' = 1, held' = {}
          PROVE  Len(batch') <= 1 + swaps'
      BY <3>3
    <3> QED
      BY <2>1, <3>1, <3>2, <3>3
  <2>4. held' = {} \/ \E h \in Numbers : held' = {h}
    BY <2>1 DEF PlaceInv
  <2> QED
    BY <2>1, <2>2, <2>3, <2>4 DEF PlaceInv, Sending, Between
<1>3. CASE SendPacket \/ SendCopy
  <2> DEFINE n == Head(batch)
  <2>1. /\ n \in Numbers /\ batch # <<>>
        /\ sent' = Append(sent, n)
        /\ summary'.generated = summary.generated
        /\ UNCHANGED <<config, stop, held, swaps, flushing>>
        /\ \/ /\ pc = "emit" /\ pc' = "copy" /\ batch' = batch
              /\ Matches(config.duplicate, n)
           \/ pc' = "send" /\ batch' = Tail(batch)
    BY <1>3, TransmitDoes
  <2>2. sent' # <<>> /\ sent'[Len(sent')] = n
    BY <2>1, <1>a, AppendProperties
  <2>3. Len(batch') <= Len(batch) /\ Len(batch') \in Nat
    BY <2>1, <1>a, BatchParts
  <2>4. held = {} /\ held' = {}
    BY <2>1 DEF PlaceInv
  <2>5. CountReached' <=> CountReached
    BY <2>1 DEF CountReached
  <2>6. pc' = "copy" => /\ batch' # <<>> /\ sent'[Len(sent')] = Head(batch')
                        /\ Matches(config'.duplicate, Head(batch'))
    BY <2>1, <2>2
  <2>7. /\ flushing' => swaps' = 0 /\ Len(batch') <= 1 /\ CountReached'
        /\ Len(batch') <= 1 + swaps'
    BY <2>1, <2>3, <2>5, <1>a DEF PlaceInv
  <2>8. pc' \in {"copy", "send"}
    BY <2>1
  <2> QED
    BY <2>2, <2>4, <2>6, <2>7, <2>8 DEF PlaceInv, Sending, Between
<1>4. CASE StartDelay
  <2>1. /\ pc = "select" /\ pc' = "delay"
        /\ UNCHANGED <<config, stop, held, batch, swaps, flushing>>
        /\ summary'.generated = summary.generated
    BY <1>4, DelayDoes
  <2>2. CountReached' <=> CountReached
    BY <2>1 DEF CountReached
  <2> QED
    BY <2>1, <2>2 DEF PlaceInv, Sending, Between
<1>5. CASE BatchEnds
  <2>1. /\ batch = <<>> /\ swaps' = 0
        /\ UNCHANGED <<config, stop, held, batch, flushing>>
        /\ summary'.generated = summary.generated
        /\ \/ flushing /\ pc' = "done"
           \/ ~flushing /\ CountReached /\ pc' = "finish"
           \/ ~flushing /\ ~CountReached /\ pc' = "wait"
    BY <1>5, BatchDoes
  <2>2. CountReached' <=> CountReached
    BY <2>1 DEF CountReached
  <2>3. Len(batch') <= 1 + swaps' /\ Len(batch') <= 1
    BY <2>1
  <2> QED
    BY <2>1, <2>2, <2>3 DEF PlaceInv, Sending, Between
<1>6. CASE Finish
  <2>1. /\ pc' = "send" /\ held' = {} /\ flushing' = TRUE
        /\ UNCHANGED <<config, stop, swaps, summary>> /\ swaps = 0
        /\ CountReached
        /\ batch' = <<>> \/ \E h \in Numbers : batch' = <<h>>
    BY <1>6, FinishDoes
  <2>2. CountReached'
    BY <2>1 DEF CountReached
  <2>3. Len(batch') <= 1
    <3>1. CASE batch' = <<>>
      BY <3>1
    <3>2. ASSUME NEW h, batch' = <<h>> PROVE Len(batch') <= 1
      BY <3>2
    <3> QED
      BY <2>1, <3>1, <3>2
  <2> QED
    BY <2>1, <2>2, <2>3 DEF PlaceInv, Sending, Between
<1>7. CASE RequestStop \/ Terminated \/ UNCHANGED vars
  <2>1. /\ UNCHANGED <<config, pc, held, batch, swaps, flushing, summary, sent>>
        /\ stop' = TRUE \/ stop' = stop
        /\ CountReached' <=> CountReached
    BY <1>7, StopDoes DEF CountReached
  <2> QED
    BY <2>1 DEF PlaceInv
<1> QED
  BY <1>1, <1>2, <1>3, <1>4, <1>5, <1>6, <1>7, StepCases

\* After a stop at most one more thing happens.
LEMMA StopStep ==
  ASSUME TypeOK, PlaceInv, StopInv, [Next]_vars
  PROVE  StopInv'
<1>a. /\ summary.generated \in Nat /\ summary.sent \in Nat
      /\ summary.delayed \in Nat /\ summary.duplicate \in Nat
      /\ mark.generated \in Nat /\ mark.sent \in Nat
      /\ mark.delayed \in Nat /\ mark.duplicate \in Nat
  BY TotalsFields DEF TypeOK
<1>1. CASE Quiet
  <2>1. UNCHANGED <<stop, summary, mark>>
    BY <1>1, QuietDoes
  <2>2. stop => pc' \notin {"generate", "select", "emit"}
    BY <1>1, QuietMoves
  <2> QED
    BY <2>1, <2>2, <1>a DEF StopInv
<1>2. CASE Drop \/ Swap \/ Hold \/ Pass
  <2>1. /\ pc = "generate" /\ pc' = "send"
        /\ UNCHANGED <<stop, mark>>
        /\ summary'.generated = summary.generated + 1
        /\ summary'.sent = summary.sent
        /\ summary'.duplicate = summary.duplicate
        /\ summary'.delayed = summary.delayed
    BY <1>2, GenerateDoes
  <2> QED
    BY <2>1, <1>a DEF StopInv
<1>3. CASE SendPacket \/ SendCopy
  <2>1. /\ UNCHANGED <<stop, mark>>
        /\ summary'.generated = summary.generated
        /\ summary'.sent = summary.sent + 1
        /\ summary'.duplicate = summary.duplicate + (IF pc = "copy" THEN 1 ELSE 0)
        /\ summary'.delayed = summary.delayed
        /\ pc \in {"emit", "copy"} /\ pc' \in {"copy", "send"}
    BY <1>3, TransmitDoes
  <2>2. CASE pc = "emit"
    BY <2>1, <2>2, <1>a DEF StopInv
  <2>3. CASE pc = "copy"
    BY <2>1, <2>3, <1>a DEF StopInv
  <2> QED
    BY <2>1, <2>2, <2>3
<1>4. CASE StartDelay
  <2>1. /\ pc = "select" /\ pc' = "delay"
        /\ UNCHANGED <<stop, mark>>
        /\ summary'.generated = summary.generated
        /\ summary'.sent = summary.sent
        /\ summary'.duplicate = summary.duplicate
        /\ summary'.delayed = summary.delayed + 1
    BY <1>4, DelayDoes
  <2> QED
    BY <2>1, <1>a DEF StopInv
<1>5. CASE BatchEnds \/ Finish
  <2>1. /\ pc' \in {"done", "finish", "wait", "send"}
        /\ pc \in {"send", "finish"}
        /\ UNCHANGED <<stop, mark>>
        /\ summary'.generated = summary.generated
        /\ summary'.sent = summary.sent
        /\ summary'.duplicate = summary.duplicate
        /\ summary'.delayed = summary.delayed
    BY <1>5, BatchDoes, FinishDoes
  <2> QED
    BY <2>1, <1>a DEF StopInv
<1>6. CASE RequestStop \/ Terminated \/ UNCHANGED vars
  <2>1. /\ UNCHANGED <<pc, summary>>
        /\ mark' = summary \/ UNCHANGED <<stop, mark>>
    BY <1>6, StopDoes
  <2>2. CASE mark' = summary
    <3>1. /\ summary'.generated - mark'.generated = 0
          /\ summary'.delayed - mark'.delayed = 0
          /\ (summary'.sent - summary'.duplicate)
                - (mark'.sent - mark'.duplicate) = 0
      BY <2>1, <2>2, <1>a
    <3> QED
      BY <3>1 DEF StopInv
  <2>3. CASE UNCHANGED <<stop, mark>>
    BY <2>1, <2>3 DEF StopInv
  <2> QED
    BY <2>1, <2>2, <2>3
<1> QED
  BY <1>1, <1>2, <1>3, <1>4, <1>5, <1>6, StepCases

\* Nothing is generated, held or batched at the beginning.
LEMMA SimulatorStarts ==
  ASSUME Init
  PROVE  TypeOK /\ PlaceInv /\ StopInv
<1>1. /\ config \in Config /\ stop = FALSE /\ pc = "loop" /\ held = {}
      /\ batch = <<>> /\ swaps = 0 /\ flushing = FALSE /\ sent = <<>>
      /\ summary = [generated |-> 0, sent |-> 0, dropped |-> 0, duplicate |-> 0,
                    reorder |-> 0, delayed |-> 0, corrupted |-> 0]
      /\ mark = summary /\ cut = FALSE
  BY DEF Init, Config
<1>2. summary \in Totals
  BY <1>1, SimulatorAssumption DEF Totals
<1>3. TypeOK
  <2>1. batch \in Seq(1..MaxPackets) /\ sent \in Seq(1..MaxPackets)
    BY <1>1, EmptySeq
  <2> QED
    BY <1>1, <1>2, <2>1 DEF TypeOK, Config
<1>4. PlaceInv
  BY <1>1 DEF PlaceInv, Sending, Between
<1>5. StopInv
  BY <1>1 DEF StopInv
<1> QED
  BY <1>3, <1>4, <1>5

\* The variables of the simulator keep their types, and the packet held and
\* the batch are where the place in run_simulator says.
THEOREM SimulatorTyping == SafeSpec => [](TypeOK /\ PlaceInv)
  BY SimulatorStarts, TypeStep, PlaceStep, PTL DEF SafeSpec

\* Wherever a stop falls, at most one more packet is generated, delayed or
\* sent: never one of each.
THEOREM PromptProved == SafeSpec => []StopIsPrompt
<1>1. TypeOK /\ PlaceInv /\ StopInv => StopIsPrompt
  <2> SUFFICES ASSUME TypeOK, StopInv PROVE StopIsPrompt
    OBVIOUS
  <2>a. /\ summary.generated \in Nat /\ summary.sent \in Nat
        /\ summary.delayed \in Nat /\ summary.duplicate \in Nat
        /\ mark.generated \in Nat /\ mark.sent \in Nat
        /\ mark.delayed \in Nat /\ mark.duplicate \in Nat
    BY TotalsFields DEF TypeOK
  <2> QED
    BY <2>a DEF StopInv, StopIsPrompt
<1> QED
  BY <1>1, SimulatorStarts, SimulatorTyping, StopStep, PTL DEF SafeSpec
-----------------------------------------------------------------------------
(* Where the packets are.                                                  *)

\* The elements of a sequence with one more at its end, and without its head.
LEMMA Elements ==
  ASSUME NEW S, NEW s \in Seq(S)
  PROVE  /\ \A n \in S : ToSet(Append(s, n)) = ToSet(s) \cup {n}
         /\ s # <<>> => ToSet(s) = {Head(s)} \cup ToSet(Tail(s))
         /\ \A x : x \in ToSet(s) <=> \E i \in 1..Len(s) : s[i] = x
<1>a. Len(s) \in Nat /\ DOMAIN s = 1..Len(s)
  BY LenProperties
<1>1. ASSUME NEW n \in S PROVE ToSet(Append(s, n)) = ToSet(s) \cup {n}
  <2> DEFINE q == Append(s, n)
  <2>1. /\ q \in Seq(S) /\ Len(q) = Len(s) + 1 /\ q[Len(s) + 1] = n
        /\ \A i \in 1..Len(s) : q[i] = s[i]
    BY AppendProperties
  <2>2. DOMAIN q = 1..(Len(s) + 1)
    BY <2>1, LenProperties
  <2> HIDE DEF q
  <2>3. \A x : x \in ToSet(q) <=> x \in ToSet(s) \/ x = n
    <3>1. \A i \in DOMAIN q : i \in DOMAIN s \/ i = Len(s) + 1
      BY <2>2, <1>a
    <3>2. DOMAIN s \subseteq DOMAIN q /\ Len(s) + 1 \in DOMAIN q
      BY <2>2, <1>a
    <3> QED
      BY <3>1, <3>2, <2>1, <1>a DEF ToSet
  <2> QED
    BY <2>3 DEF q
<1>2. ASSUME s # <<>> PROVE ToSet(s) = {Head(s)} \cup ToSet(Tail(s))
  <2> DEFINE q == Tail(s)
  <2>1. /\ q \in Seq(S) /\ Len(q) = Len(s) - 1 /\ Len(s) \in Nat \ {0}
        /\ \A i \in 1..Len(q) : q[i] = s[i + 1]
        /\ Head(s) = s[1]
    BY <1>2, HeadTailProperties, EmptySeq
  <2>2. DOMAIN q = 1..Len(q) /\ Len(q) \in Nat
    BY <2>1, LenProperties
  <2> HIDE DEF q
  <2>3. \A x : x \in ToSet(s) => x = Head(s) \/ x \in ToSet(q)
    <3> SUFFICES ASSUME NEW i \in DOMAIN s PROVE s[i] = Head(s) \/ s[i] \in ToSet(q)
      BY DEF ToSet
    <3>1. CASE i = 1
      BY <3>1, <2>1
    <3>2. CASE i # 1
      <4>1. i - 1 \in DOMAIN q /\ (i - 1) + 1 = i
        BY <3>2, <2>1, <2>2, <1>a
      <4>2. q[i - 1] = s[i]
        BY <4>1, <2>1, <2>2
      <4> QED
        BY <4>1, <4>2 DEF ToSet
    <3> QED
      BY <3>1, <3>2
  <2>4. Head(s) \in ToSet(s)
    <3>1. 1 \in DOMAIN s
      BY <2>1, <1>a
    <3> QED
      BY <3>1, <2>1 DEF ToSet
  <2>5. \A x \in ToSet(q) : x \in ToSet(s)
    <3> SUFFICES ASSUME NEW i \in DOMAIN q PROVE q[i] \in ToSet(s)
      BY DEF ToSet
    <3>1. i + 1 \in DOMAIN s /\ q[i] = s[i + 1]
      BY <2>1, <2>2, <1>a
    <3> QED
      BY <3>1 DEF ToSet
  <2> QED
    BY <2>3, <2>4, <2>5 DEF q
<1>3. \A x : x \in ToSet(s) <=> \E i \in 1..Len(s) : s[i] = x
  BY <1>a DEF ToSet
<1> QED
  BY <1>1, <1>2, <1>3

\* The packet about to be sent is none of the others of its batch.
LEMMA HeadApart ==
  ASSUME TypeOK, PlaceInv, batch # <<>>, Len(batch) = 2 => batch[1] # batch[2]
  PROVE  /\ ToSet(batch) = {Head(batch)} \cup ToSet(Tail(batch))
         /\ Head(batch) \notin ToSet(Tail(batch))
         /\ Len(Tail(batch)) <= 1
<1>a. /\ batch \in Seq(Numbers) /\ Len(batch) \in Nat \ {0}
      /\ Tail(batch) \in Seq(Numbers) /\ Len(Tail(batch)) = Len(batch) - 1
      /\ Head(batch) = batch[1]
      /\ \A i \in 1..Len(Tail(batch)) : Tail(batch)[i] = batch[i + 1]
  BY BatchParts DEF TypeOK, Numbers
<1>b. Len(batch) <= 2
  BY <1>a DEF PlaceInv, TypeOK
<1>1. ToSet(batch) = {Head(batch)} \cup ToSet(Tail(batch))
  BY <1>a, Elements
<1>2. ASSUME Head(batch) \in ToSet(Tail(batch)) PROVE FALSE
  <2>1. PICK i \in 1..Len(Tail(batch)) : Tail(batch)[i] = Head(batch)
    <3> DEFINE t == Tail(batch)
    <3>1. t \in Seq(Numbers) /\ Head(batch) \in ToSet(t)
      BY <1>2, <1>a
    <3> HIDE DEF t
    <3>2. \E i \in 1..Len(t) : t[i] = Head(batch)
      BY <3>1, Elements
    <3> QED
      BY <3>2 DEF t
  <2>2. Len(batch) = 2 /\ i = 1
    BY <1>a, <1>b
  <2>3. Tail(batch)[1] = batch[2]
    BY <1>a, <2>2
  <2> QED
    BY <2>1, <2>2, <2>3, <1>a
<1> QED
  BY <1>a, <1>b, <1>1, <1>2

\* The packets that are not dropped, when one more is generated.
LEMMA SendableGrows ==
  ASSUME TypeOK, config' = config, NEW n, n = summary.generated + 1,
         summary'.generated = n
  PROVE  /\ n \notin Generated /\ Generated' = Generated \cup {n}
         /\ Matches(config.drop, n) => Sendable' = Sendable
         /\ ~Matches(config.drop, n) => Sendable' = Sendable \cup {n}
         /\ Sendable \subseteq Generated
         /\ \A m \in Sendable : m < n
<1>1. summary.generated \in Nat
  BY TotalsFields DEF TypeOK
<1>2. n \notin Generated /\ Generated' = Generated \cup {n}
  BY <1>1 DEF Generated
<1>3. Sendable \subseteq Generated /\ \A m \in Generated : m < n
  BY <1>1 DEF Sendable, Generated
<1>4. Sendable' = {m \in Generated' : ~Matches(config.drop, m)}
  BY DEF Sendable
<1> QED
  BY <1>2, <1>3, <1>4 DEF Sendable

\* No packet gets lost and none is kept twice.
LEMMA AccountedStep ==
  ASSUME TypeOK, PlaceInv, Accounted, [Next]_vars
  PROVE  Accounted'
<1>a. batch \in Seq(Numbers) /\ sent \in Seq(Numbers)
  BY DEF TypeOK, Numbers
<1>1. CASE Quiet
  <2>1. CASE pc' = "failed"
    BY <2>1 DEF Accounted
  <2>2. CASE pc' # "failed"
    <3>1. /\ UNCHANGED <<config, held, batch, summary, sent>>
          /\ pc # "failed" /\ pc # "copy" /\ pc' # "copy"
      BY <1>1, <2>2, QuietDoes DEF Final
    <3>2. Rest' = Rest /\ Sent' = Sent /\ Sendable' = Sendable
      BY <3>1 DEF Rest, Sent, Sendable, Generated
    <3> QED
      BY <3>1, <3>2 DEF Accounted
  <2> QED
    BY <2>1, <2>2
<1>2. CASE Drop \/ Swap \/ Hold \/ Pass
  <2> DEFINE n == summary.generated + 1
  <2>1. /\ pc = "generate" /\ pc' = "send" /\ n \in Numbers
        /\ UNCHANGED <<config, sent>> /\ summary'.generated = n
        /\ \/ /\ Matches(config.drop, n) /\ batch' = <<>> /\ held' = held
           \/ /\ ~Matches(config.drop, n)
              /\ \/ \E h \in Numbers : /\ held = {h} /\ batch' = <<n, h>>
                                       /\ held' = {}
                 \/ held = {} /\ batch' = <<>> /\ held' = {n}
                 \/ held = {} /\ batch' = <<n>> /\ held' = {}
    BY <1>2, GenerateDoes
  <2>2. /\ n \notin Generated /\ Sendable \subseteq Generated
        /\ Matches(config.drop, n) => Sendable' = Sendable
        /\ ~Matches(config.drop, n) => Sendable' = Sendable \cup {n}
    BY <2>1, SendableGrows
  <2> HIDE DEF n
  <2>3. batch = <<>> /\ Rest = <<>> /\ ToSet(Rest) = {}
    BY <2>1, ShortSequences DEF PlaceInv, Between, Rest
  <2>4. Sent \cup held = Sendable /\ Sent \cap held = {}
    BY <2>1, <2>3 DEF Accounted
  <2>5. Rest' = batch' /\ Sent' = Sent
    BY <2>1 DEF Rest, Sent
  <2>6. CASE Matches(config.drop, n) /\ batch' = <<>> /\ held' = held
    <3>1. ToSet(Rest') = {} /\ Len(batch') = 0
      BY <2>5, <2>6, ShortSequences
    <3> QED
      BY <2>2, <2>4, <2>5, <2>6, <3>1 DEF Accounted
  <2>7. CASE ~Matches(config.drop, n)
    <3>1. ASSUME NEW h \in Numbers, held = {h}, batch' = <<n, h>>, held' = {}
          PROVE  Accounted'
      <4>1. ToSet(Rest') = {n, h} /\ batch'[1] = n /\ batch'[2] = h
        BY <2>1, <2>5, <3>1, ShortSequences
      <4> QED
        BY <2>2, <2>4, <2>5, <2>7, <3>1, <4>1 DEF Accounted
    <3>2. CASE held = {} /\ batch' = <<>> /\ held' = {n}
      <4>1. ToSet(Rest') = {} /\ Len(batch') = 0
        BY <2>5, <3>2, ShortSequences
      <4> QED
        BY <2>2, <2>4, <2>5, <2>7, <3>2, <4>1 DEF Accounted
    <3>3. CASE held = {} /\ batch' = <<n>> /\ held' = {}
      <4>1. ToSet(Rest') = {n} /\ Len(batch') = 1
        BY <2>1, <2>5, <3>3, ShortSequences
      <4> QED
        BY <2>2, <2>4, <2>5, <2>7, <3>3, <4>1 DEF Accounted
    <3> QED
      BY <2>1, <2>7, <3>1, <3>2, <3>3
  <2> QED
    BY <2>1, <2>6, <2>7
<1>3. CASE SendPacket \/ SendCopy
  <2> DEFINE n == Head(batch)
  <2>1. /\ n \in Numbers /\ batch # <<>>
        /\ sent' = Append(sent, n)
        /\ summary'.generated = summary.generated
        /\ UNCHANGED <<config, held>>
        /\ pc \in {"emit", "copy"}
        /\ \/ pc = "emit" /\ pc' = "copy" /\ batch' = batch
           \/ pc' = "send" /\ batch' = Tail(batch)
    BY <1>3, TransmitDoes
  <2>2. Sent' = Sent \cup {n}
    BY <2>1, <1>a, Elements DEF Sent
  <2>3. Rest' = Tail(batch) /\ (Len(batch') = 2 => batch' = batch)
    <3>1. Len(Tail(batch)) # 2
      <4>1. Len(Tail(batch)) <= 1 /\ Len(Tail(batch)) \in Nat
        BY <2>1, HeadApart, BatchParts, EmptySeq DEF Accounted
      <4> QED
        BY SMTT(60), <4>1
    <3>2. Rest' = Tail(batch)
      BY <2>1 DEF Rest
    <3> QED
      BY <2>1, <3>1, <3>2
  <2>4. /\ ToSet(batch) = {n} \cup ToSet(Tail(batch))
        /\ n \notin ToSet(Tail(batch))
    BY <2>1, HeadApart DEF Accounted
  <2>5. held = {} /\ Sendable' = Sendable
    BY <2>1 DEF PlaceInv, Sendable, Generated
  <2>6. CASE pc = "emit"
    <3>1. /\ Sent \cup ToSet(batch) = Sendable
          /\ Sent \cap ToSet(batch) = {}
      BY <2>5, <2>6 DEF Accounted, Rest
    <3> QED
      BY <3>1, <2>1, <2>2, <2>3, <2>4, <2>5 DEF Accounted
  <2>7. CASE pc = "copy"
    <3>1. /\ Sent \cup ToSet(Tail(batch)) = Sendable
          /\ Sent \cap ToSet(Tail(batch)) = {}
      BY <2>5, <2>7 DEF Accounted, Rest
    <3>2. n \in Sent
      <4>1. Len(sent) \in DOMAIN sent /\ sent[Len(sent)] = n
        BY <2>7, <1>a, EmptySeq, LenProperties DEF PlaceInv
      <4> QED
        BY <4>1 DEF Sent, ToSet
    <3>3. batch' = Tail(batch)
      BY <2>1, <2>7
    <3> QED
      BY <3>1, <3>2, <2>1, <2>2, <2>3, <2>4, <2>5 DEF Accounted
  <2> QED
    BY <2>1, <2>6, <2>7
<1>4. CASE StartDelay \/ BatchEnds
  <2>1. /\ pc \notin {"failed", "copy"} /\ pc' \notin {"failed", "copy"}
        /\ UNCHANGED <<config, held, batch, sent>>
        /\ summary'.generated = summary.generated
    BY <1>4, DelayDoes, BatchDoes
  <2>2. Rest' = Rest /\ Sent' = Sent /\ Sendable' = Sendable
    BY <2>1 DEF Rest, Sent, Sendable, Generated
  <2> QED
    BY <2>1, <2>2 DEF Accounted
<1>5. CASE Finish
  <2>1. /\ pc = "finish" /\ pc' = "send" /\ UNCHANGED <<config, summary, sent>>
        /\ batch = <<>> /\ held' = {}
        /\ \/ held = {} /\ batch' = <<>>
           \/ \E h \in Numbers : held = {h} /\ batch' = <<h>>
    BY <1>5, FinishDoes
  <2>2. /\ Rest' = batch' /\ Rest = <<>> /\ Sent' = Sent /\ Sendable' = Sendable
    BY <2>1 DEF Rest, Sent, Sendable, Generated
  <2>3. ToSet(batch') = held /\ Len(batch') # 2
    <3>1. CASE held = {} /\ batch' = <<>>
      BY <3>1, ShortSequences
    <3>2. ASSUME NEW h \in Numbers, held = {h}, batch' = <<h>>
          PROVE  ToSet(batch') = held /\ Len(batch') # 2
      BY <3>2, ShortSequences
    <3> QED
      BY <2>1, <3>1, <3>2
  <2>4. Sent \cup held = Sendable /\ Sent \cap held = {}
    BY <2>1, <2>2, ShortSequences DEF Accounted
  <2> QED
    BY <2>1, <2>2, <2>3, <2>4 DEF Accounted
<1>6. CASE RequestStop \/ Terminated \/ UNCHANGED vars
  <2>1. UNCHANGED <<pc, config, held, batch, summary, sent>>
    BY <1>6, StopDoes
  <2> QED
    BY <2>1 DEF Accounted, Rest, Sent, Sendable, Generated
<1> QED
  BY <1>1, <1>2, <1>3, <1>4, <1>5, <1>6, StepCases

\* No packet has been generated and none is anywhere.
LEMMA AccountedStarts ==
  ASSUME Init
  PROVE  Accounted
<1>1. /\ pc = "loop" /\ held = {} /\ batch = <<>> /\ sent = <<>>
      /\ summary.generated = 0
  BY DEF Init
<1>2. Sendable = {}
  BY <1>1 DEF Sendable, Generated
<1>3. Rest = <<>> /\ Sent = {} /\ ToSet(Rest) = {} /\ Len(batch) = 0
  BY <1>1, ShortSequences DEF Rest, Sent
<1> QED
  BY <1>1, <1>2, <1>3 DEF Accounted

\* Every packet generated and not dropped is sent, waiting in the batch or
\* held, and a run that nobody stops has sent every one of them.
THEOREM PacketsProved == SafeSpec => []PacketsAccounted
<1>1. TypeOK /\ PlaceInv /\ Accounted => PacketsAccounted
  <2> SUFFICES ASSUME TypeOK, PlaceInv, Accounted PROVE PacketsAccounted
    OBVIOUS
  <2>1. Cardinality(held) + swaps <= 1
    <3>1. CASE held = {}
      <4>1. Cardinality(held) = 0 /\ swaps \in {0, 1}
        BY <3>1, FS_EmptySet DEF TypeOK
      <4> QED
        BY <4>1
    <3>2. CASE held # {}
      <4>1. Cardinality(held) = 1 /\ swaps = 0
        BY <3>2, FS_Singleton DEF PlaceInv
      <4> QED
        BY <4>1
    <3> QED
      BY <3>1, <3>2
  <2>2. pc = "done" /\ ~stop => Sent = Sendable /\ summary.generated = config.count
    <3> SUFFICES ASSUME pc = "done", ~stop
                 PROVE  Sent = Sendable /\ summary.generated = config.count
      OBVIOUS
    <3>1. flushing /\ batch = <<>> /\ held = {} /\ CountReached
      BY DEF PlaceInv
    <3>2. Rest = <<>> /\ ToSet(Rest) = {}
      BY <3>1, ShortSequences DEF Rest
    <3> QED
      BY <3>1, <3>2 DEF Accounted, CountReached
  <2> QED
    BY <2>1, <2>2 DEF PacketsAccounted, Accounted, Rest
<1> QED
  BY <1>1, SimulatorTyping, AccountedStarts, AccountedStep, PTL DEF SafeSpec
-----------------------------------------------------------------------------
(* The counters of the summary.                                            *)

\* One element more.
LEMMA OneMore ==
  ASSUME NEW S, IsFiniteSet(S), NEW x, NEW T, T = S \cup {x}
  PROVE  /\ Cardinality(S) \in Nat
         /\ x \notin S => Cardinality(T) = Cardinality(S) + 1
         /\ x \in S => Cardinality(T) = Cardinality(S)
  BY FS_AddElement, FS_CardinalityType

\* Everything that is counted is finite.
LEMMA SentFinite ==
  ASSUME TypeOK
  PROVE  /\ IsFiniteSet(Sent) /\ IsFiniteSet(Copies) /\ IsFiniteSet(CorruptSent)
         /\ IsFiniteSet(DelayedSent) /\ IsFiniteSet(Generated \ Sendable)
<1>1. sent \in Seq(Numbers) /\ Len(sent) \in Nat /\ DOMAIN sent = 1..Len(sent)
  BY LenProperties DEF TypeOK, Numbers
<1>2. IsFiniteSet(1..Len(sent)) /\ IsFiniteSet(Numbers)
  BY <1>1, FS_Interval, SimulatorAssumption DEF Numbers
<1>3. summary.generated \in Nat
  BY TotalsFields DEF TypeOK
<1>4. IsFiniteSet(Generated)
  BY <1>3, FS_Interval DEF Generated
<1>5. /\ Sent \in SUBSET Numbers /\ DelayedSent \in SUBSET Numbers
      /\ Copies \in SUBSET (1..Len(sent)) /\ CorruptSent \in SUBSET (1..Len(sent))
      /\ Generated \ Sendable \in SUBSET Generated
  <2>1. \A i \in 1..Len(sent) : sent[i] \in Numbers
    BY <1>1, ElementOfSeq
  <2> QED
    BY <1>1, <2>1 DEF Sent, DelayedSent, Copies, CorruptSent, ToSet
<1> QED
  BY <1>2, <1>4, <1>5, FS_Subset

\* A datagram more, and everything that is said about the datagrams.
LEMMA SentGrows ==
  ASSUME TypeOK, config' = config, NEW n \in Numbers, sent' = Append(sent, n),
         NEW m, m = Len(sent) + 1
  PROVE  /\ Len(sent') = m /\ sent'[m] = n
         /\ m \notin DOMAIN sent /\ DOMAIN sent' = (DOMAIN sent) \cup {m}
         /\ \A i \in DOMAIN sent : sent'[i] = sent[i] /\ i < m /\ i \in Nat
         /\ m \in Nat
         /\ Sent' = Sent \cup {n}
         /\ CorruptSent' = CorruptSent
                             \cup (IF Matches(config.corrupt, n) THEN {m} ELSE {})
         /\ DelayedSent' = DelayedSent
                             \cup (IF Matches(config.delay, n) THEN {n} ELSE {})
         /\ sent # <<>> /\ sent[Len(sent)] = n => Copies' = Copies \cup {m}
         /\ n \notin Sent => Copies' = Copies
         /\ m \notin Copies /\ m \notin CorruptSent
<1>a. sent \in Seq(Numbers) /\ Len(sent) \in Nat /\ DOMAIN sent = 1..Len(sent)
  BY LenProperties DEF TypeOK, Numbers
<1> DEFINE q == Append(sent, n)
<1>1. /\ q \in Seq(Numbers) /\ Len(q) = m /\ q[m] = n /\ DOMAIN q = 1..m
      /\ \A i \in 1..Len(sent) : q[i] = sent[i]
  BY <1>a, AppendProperties, LenProperties
<1>2. q = sent'
  OBVIOUS
<1> HIDE DEF q
<1>3. /\ Len(sent') = m /\ sent'[m] = n
      /\ m \notin DOMAIN sent /\ DOMAIN sent' = (DOMAIN sent) \cup {m}
      /\ \A i \in DOMAIN sent : sent'[i] = sent[i] /\ i < m /\ i \in Nat
      /\ m \in Nat
  BY <1>a, <1>1, <1>2
<1>4. Sent' = Sent \cup {n}
  BY <1>a, Elements DEF Sent
<1>5. CorruptSent' = CorruptSent
                       \cup (IF Matches(config.corrupt, n) THEN {m} ELSE {})
  BY <1>3 DEF CorruptSent
<1>6. DelayedSent' = DelayedSent
                       \cup (IF Matches(config.delay, n) THEN {n} ELSE {})
  BY <1>4 DEF DelayedSent
<1>7. \A i \in DOMAIN sent : i > 1 => i - 1 \in DOMAIN sent
  BY <1>a
<1>8. \A i \in DOMAIN sent : i \in Copies' <=> i \in Copies
  BY <1>3, <1>7 DEF Copies
<1>9. m \in Copies' <=> m > 1 /\ sent'[m - 1] = n
  BY <1>3 DEF Copies
<1>10. m > 1 <=> sent # <<>>
  BY <1>a, EmptySeq
<1>11. m > 1 => /\ m - 1 \in DOMAIN sent /\ sent'[m - 1] = sent[Len(sent)]
                /\ sent[Len(sent)] \in Sent
  <2> SUFFICES ASSUME m > 1
               PROVE  /\ m - 1 \in DOMAIN sent /\ sent'[m - 1] = sent[Len(sent)]
                      /\ sent[Len(sent)] \in Sent
    OBVIOUS
  <2>1. m - 1 = Len(sent) /\ Len(sent) \in DOMAIN sent
    BY <1>a
  <2> QED
    BY <2>1, <1>3 DEF Sent, ToSet
<1>12. \A i \in Copies' : i \in DOMAIN sent \/ i = m
  BY <1>3 DEF Copies
<1>13. \A i \in Copies : i \in DOMAIN sent
  BY DEF Copies
<1>14. sent # <<>> /\ sent[Len(sent)] = n => Copies' = Copies \cup {m}
  BY <1>8, <1>9, <1>10, <1>11, <1>12, <1>13
<1>15. n \notin Sent => Copies' = Copies
  BY <1>8, <1>9, <1>11, <1>12, <1>13
<1>16. m \notin Copies /\ m \notin CorruptSent
  BY <1>3 DEF Copies, CorruptSent
<1> QED
  BY <1>3, <1>4, <1>5, <1>6, <1>14, <1>15, <1>16

\* A packet about to be sent has not been sent yet; a packet about to be sent
\* again was sent last.
LEMMA SendingNow ==
  ASSUME TypeOK, PlaceInv, Accounted
  PROVE  /\ pc = "emit" => Head(batch) \notin Sent
         /\ pc = "copy" => /\ Head(batch) \in Sent
                           /\ sent # <<>> /\ sent[Len(sent)] = Head(batch)
<1>1. ASSUME pc = "emit" PROVE Head(batch) \notin Sent
  <2>1. batch # <<>> /\ Rest = batch
    BY <1>1 DEF PlaceInv, Sending, Rest
  <2>2. Head(batch) \in ToSet(batch)
    BY <2>1, <1>1, HeadApart DEF Accounted
  <2> QED
    BY <1>1, <2>1, <2>2 DEF Accounted
<1>2. ASSUME pc = "copy"
      PROVE  /\ Head(batch) \in Sent
             /\ sent # <<>> /\ sent[Len(sent)] = Head(batch)
  <2>1. sent # <<>> /\ sent[Len(sent)] = Head(batch)
    BY <1>2 DEF PlaceInv
  <2>2. Len(sent) \in DOMAIN sent
    BY <2>1, EmptySeq, LenProperties DEF TypeOK
  <2> QED
    BY <2>1, <2>2 DEF Sent, ToSet
<1> QED
  BY <1>1, <1>2

\* The counters go on describing the datagrams.
LEMMA CountersStep ==
  ASSUME TypeOK, PlaceInv, Accounted, CountersInv, [Next]_vars
  PROVE  CountersInv'
<1>a. /\ Cardinality(Sent) \in Nat /\ Cardinality(Copies) \in Nat
      /\ Cardinality(CorruptSent) \in Nat /\ Cardinality(DelayedSent) \in Nat
      /\ Cardinality(Generated \ Sendable) \in Nat
      /\ Len(sent) \in Nat
  BY SentFinite, FS_CardinalityType DEF TypeOK
<1>b. /\ summary.sent \in Nat /\ summary.dropped \in Nat
      /\ summary.duplicate \in Nat /\ summary.delayed \in Nat
      /\ summary.corrupted \in Nat /\ summary.generated \in Nat
  BY TotalsFields DEF TypeOK
<1>1. CASE Quiet
  <2>1. UNCHANGED <<config, summary, sent, batch>> /\ pc \notin Final
    BY <1>1, QuietDoes
  <2>2. /\ Sent' = Sent /\ Copies' = Copies /\ CorruptSent' = CorruptSent
        /\ DelayedSent' = DelayedSent
        /\ (Generated \ Sendable)' = Generated \ Sendable
    BY <2>1 DEF Sent, Copies, CorruptSent, DelayedSent, Generated, Sendable
  <2>3. pc' \notin Final => (Delaying' <=> Delaying)
    BY <1>1, <2>1, QuietMoves DEF Delaying, PlaceInv, Final
  <2> QED
    BY <2>1, <2>2, <2>3 DEF CountersInv
<1>2. CASE Drop \/ Swap \/ Hold \/ Pass
  <2> DEFINE n == summary.generated + 1
  <2>1. /\ pc = "generate" /\ pc' = "send" /\ n \in Numbers
        /\ UNCHANGED <<config, sent>>
        /\ summary'.generated = n
        /\ summary'.sent = summary.sent
        /\ summary'.duplicate = summary.duplicate
        /\ summary'.delayed = summary.delayed
        /\ summary'.corrupted = summary.corrupted
        /\ \/ Matches(config.drop, n) /\ summary'.dropped = summary.dropped + 1
           \/ ~Matches(config.drop, n) /\ summary'.dropped = summary.dropped
    BY <1>2, GenerateDoes
  <2>2. /\ n \notin Generated /\ Generated' = Generated \cup {n}
        /\ Sendable \subseteq Generated
        /\ Matches(config.drop, n) => Sendable' = Sendable
        /\ ~Matches(config.drop, n) => Sendable' = Sendable \cup {n}
    BY <2>1, SendableGrows
  <2> HIDE DEF n
  <2>3. /\ Sent' = Sent /\ Copies' = Copies /\ CorruptSent' = CorruptSent
        /\ DelayedSent' = DelayedSent
    BY <2>1 DEF Sent, Copies, CorruptSent, DelayedSent
  <2>4. ~Delaying /\ ~Delaying' /\ pc \notin Final
    BY <2>1 DEF Delaying, Final
  <2>5. summary'.dropped = Cardinality((Generated \ Sendable)')
    <3>1. summary.dropped = Cardinality(Generated \ Sendable)
      BY DEF CountersInv
    <3>2. CASE Matches(config.drop, n)
      <4>1. /\ Generated' \ Sendable' = (Generated \ Sendable) \cup {n}
            /\ n \notin Generated \ Sendable
        BY <2>2, <3>2
      <4>2. Cardinality(Generated' \ Sendable') = Cardinality(Generated \ Sendable) + 1
        BY <4>1, SentFinite, OneMore
      <4> QED
        BY <3>1, <3>2, <4>2, <2>1
    <3>3. CASE ~Matches(config.drop, n)
      <4>1. Generated' \ Sendable' = Generated \ Sendable
        BY <2>2, <3>3
      <4> QED
        BY <3>1, <3>3, <4>1, <2>1
    <3> QED
      BY <3>2, <3>3
  <2> QED
    BY <2>1, <2>3, <2>4, <2>5 DEF CountersInv
<1>3. CASE SendPacket \/ SendCopy
  <2> DEFINE n == Head(batch)
             m == Len(sent) + 1
  <2>1. /\ n \in Numbers /\ batch # <<>>
        /\ sent' = Append(sent, n)
        /\ UNCHANGED config
        /\ summary'.generated = summary.generated
        /\ summary'.sent = summary.sent + 1
        /\ summary'.dropped = summary.dropped
        /\ summary'.duplicate = summary.duplicate
                                  + (IF pc = "copy" THEN 1 ELSE 0)
        /\ summary'.delayed = summary.delayed
        /\ summary'.corrupted = summary.corrupted
              + (IF Matches(config.corrupt, n) THEN 1 ELSE 0)
        /\ pc \in {"emit", "copy"} /\ pc' \in {"copy", "send"}
    BY <1>3, TransmitDoes
  <2>2. /\ Len(sent') = m
        /\ Sent' = Sent \cup {n}
        /\ CorruptSent' = CorruptSent
                            \cup (IF Matches(config.corrupt, n) THEN {m} ELSE {})
        /\ DelayedSent' = DelayedSent
                            \cup (IF Matches(config.delay, n) THEN {n} ELSE {})
        /\ sent # <<>> /\ sent[Len(sent)] = n => Copies' = Copies \cup {m}
        /\ n \notin Sent => Copies' = Copies
        /\ m \notin Copies /\ m \notin CorruptSent
    BY <2>1, SentGrows
  <2>3. /\ pc = "emit" => n \notin Sent
        /\ pc = "copy" => n \in Sent /\ sent # <<>> /\ sent[Len(sent)] = n
    BY SendingNow
  <2>4. m = Len(sent) + 1
    OBVIOUS
  <2>5. Delaying <=> pc = "emit" /\ Matches(config.delay, n)
    BY <2>1 DEF Delaying
  <2> HIDE DEF n, m
  <2>6. summary'.sent = Len(sent')
    BY <2>1, <2>2, <2>4, <1>a DEF CountersInv
  <2>7. summary'.corrupted = Cardinality(CorruptSent')
    <3>1. summary.corrupted = Cardinality(CorruptSent)
      BY DEF CountersInv
    <3>2. CASE Matches(config.corrupt, n)
      <4>1. Cardinality(CorruptSent') = Cardinality(CorruptSent) + 1
        BY <2>2, <3>2, SentFinite, OneMore
      <4> QED
        BY <3>1, <3>2, <4>1, <2>1
    <3>3. CASE ~Matches(config.corrupt, n)
      BY <3>1, <3>3, <2>1, <2>2, <1>b
    <3> QED
      BY <3>2, <3>3
  <2>8. /\ summary'.dropped = Cardinality((Generated \ Sendable)')
    <3>1. (Generated \ Sendable)' = Generated \ Sendable
      BY <2>1 DEF Generated, Sendable
    <3> QED
      BY <2>1, <3>1 DEF CountersInv
  <2>9. ~Delaying' /\ pc \notin Final /\ pc' \notin Final
    BY <2>1 DEF Delaying, Final
  <2>10. CASE pc = "emit"
    <3>1. Cardinality(Sent') = Cardinality(Sent) + 1
      BY <2>2, <2>3, <2>10, SentFinite, OneMore
    <3>2. Copies' = Copies
      BY <2>2, <2>3, <2>10
    <3>3. summary'.delayed = Cardinality(DelayedSent')
      <4>1. CASE Matches(config.delay, n)
        <5>1. n \notin DelayedSent
          BY <2>3, <2>10 DEF DelayedSent
        <5>2. Cardinality(DelayedSent') = Cardinality(DelayedSent) + 1
          BY <2>2, <4>1, <5>1, SentFinite, OneMore
        <5>3. summary.delayed = Cardinality(DelayedSent) + 1
          BY <2>5, <2>9, <2>10, <4>1 DEF CountersInv
        <5> QED
          BY <2>1, <5>2, <5>3
      <4>2. CASE ~Matches(config.delay, n)
        <5>1. summary.delayed = Cardinality(DelayedSent) + 0
          BY <2>5, <2>9, <2>10, <4>2 DEF CountersInv
        <5> QED
          BY <2>1, <2>2, <4>2, <5>1, <1>a
      <4> QED
        BY <4>1, <4>2
    <3>4. summary'.duplicate = Cardinality(Copies')
      BY <2>1, <2>10, <3>2, <1>b DEF CountersInv
    <3>5. summary'.sent = summary'.duplicate + Cardinality(Sent')
      <4>1. summary.sent = summary.duplicate + Cardinality(Sent)
        BY DEF CountersInv
      <4>2. summary'.duplicate = summary.duplicate /\ summary'.sent = summary.sent + 1
        BY <2>1, <2>10, <1>b
      <4> QED
        BY SMTT(60), <3>1, <4>1, <4>2, <1>a, <1>b
    <3>6. /\ summary'.delayed - Cardinality(DelayedSent') = 0
          /\ summary'.delayed = Cardinality(DelayedSent') + 0
      BY <3>3, <2>1, <1>b
    <3> QED
      BY <2>6, <2>7, <2>8, <2>9, <3>4, <3>5, <3>6 DEF CountersInv
  <2>11. CASE pc = "copy"
    <3>1. Sent' = Sent /\ Copies' = Copies \cup {m}
      BY <2>2, <2>3, <2>11
    <3>2. Cardinality(Copies') = Cardinality(Copies) + 1
      BY <2>2, <3>1, SentFinite, OneMore
    <3>3. DelayedSent' = DelayedSent
      BY <3>1, <2>1 DEF DelayedSent
    <3>4. summary.delayed = Cardinality(DelayedSent) + 0
      BY <2>5, <2>9, <2>11 DEF CountersInv
    <3>5. /\ summary'.delayed - Cardinality(DelayedSent') = 0
          /\ summary'.delayed = Cardinality(DelayedSent') + 0
      BY <2>1, <3>3, <3>4, <1>a
    <3>6. summary'.duplicate = Cardinality(Copies')
      BY <2>1, <2>11, <3>2, <1>b DEF CountersInv
    <3>7. summary'.sent = summary'.duplicate + Cardinality(Sent')
      <4>1. summary.sent = summary.duplicate + Cardinality(Sent)
        BY DEF CountersInv
      <4>2. summary'.duplicate = summary.duplicate + 1 /\ summary'.sent = summary.sent + 1
        BY <2>1, <2>11
      <4> QED
        BY <3>1, <4>1, <4>2, <1>a, <1>b
    <3> QED
      BY <2>6, <2>7, <2>8, <2>9, <3>5, <3>6, <3>7 DEF CountersInv
  <2> QED
    BY <2>1, <2>10, <2>11
<1>4. CASE StartDelay
  <2>1. /\ pc = "select" /\ pc' = "delay"
        /\ UNCHANGED <<config, sent>>
        /\ summary'.generated = summary.generated
        /\ summary'.sent = summary.sent
        /\ summary'.dropped = summary.dropped
        /\ summary'.duplicate = summary.duplicate
        /\ summary'.delayed = summary.delayed + 1
        /\ summary'.corrupted = summary.corrupted
    BY <1>4, DelayDoes
  <2>2. /\ Sent' = Sent /\ Copies' = Copies /\ CorruptSent' = CorruptSent
        /\ DelayedSent' = DelayedSent
        /\ (Generated \ Sendable)' = Generated \ Sendable
    BY <2>1 DEF Sent, Copies, CorruptSent, DelayedSent, Generated, Sendable
  <2>3. ~Delaying /\ Delaying' /\ pc \notin Final
    BY <2>1 DEF Delaying, Final
  <2>4. summary.delayed = Cardinality(DelayedSent) + 0
    BY <2>3 DEF CountersInv
  <2>5. /\ summary'.delayed = Cardinality(DelayedSent') + 1
        /\ summary'.delayed - Cardinality(DelayedSent') = 1
    BY <2>1, <2>2, <2>4, <1>a
  <2> QED
    BY <2>1, <2>2, <2>3, <2>5 DEF CountersInv
<1>5. CASE BatchEnds \/ Finish
  <2>1. /\ UNCHANGED <<config, sent>>
        /\ pc \in {"send", "finish"} /\ pc' \in {"done", "finish", "wait", "send"}
        /\ summary'.generated = summary.generated
        /\ summary'.sent = summary.sent
        /\ summary'.dropped = summary.dropped
        /\ summary'.duplicate = summary.duplicate
        /\ summary'.delayed = summary.delayed
        /\ summary'.corrupted = summary.corrupted
    BY <1>5, BatchDoes, FinishDoes
  <2>2. /\ Sent' = Sent /\ Copies' = Copies /\ CorruptSent' = CorruptSent
        /\ DelayedSent' = DelayedSent
        /\ (Generated \ Sendable)' = Generated \ Sendable
    BY <2>1 DEF Sent, Copies, CorruptSent, DelayedSent, Generated, Sendable
  <2>3. ~Delaying /\ ~Delaying' /\ pc \notin Final
    BY <2>1 DEF Delaying, Final
  <2> QED
    BY <2>1, <2>2, <2>3 DEF CountersInv
<1>6. CASE RequestStop \/ Terminated \/ UNCHANGED vars
  <2>1. UNCHANGED <<pc, config, batch, summary, sent>>
    BY <1>6, StopDoes
  <2> QED
    BY <2>1 DEF CountersInv, Sent, Copies, CorruptSent, DelayedSent, Generated,
                Sendable, Delaying
<1> QED
  BY <1>1, <1>2, <1>3, <1>4, <1>5, <1>6, StepCases

\* Exactly the packets selected for it are duplicated.
LEMMA CopiesStep ==
  ASSUME TypeOK, PlaceInv, Accounted, CopiesInv, [Next]_vars
  PROVE  CopiesInv'
<1>1. CASE \/ Quiet \/ Drop \/ Swap \/ Hold \/ Pass \/ StartDelay \/ BatchEnds
           \/ Finish \/ RequestStop \/ Terminated \/ UNCHANGED vars
  <2>1. /\ UNCHANGED <<config, sent>>
        /\ pc' # "failed" => pc # "failed" /\ (pc = "copy" <=> pc' = "copy")
        /\ pc' = "copy" => batch' = batch
    <3>1. CASE Quiet
      BY <3>1, QuietDoes DEF Final
    <3>2. CASE Drop \/ Swap \/ Hold \/ Pass
      BY <3>2, GenerateDoes
    <3>3. CASE StartDelay \/ BatchEnds \/ Finish
      BY <3>3, DelayDoes, BatchDoes, FinishDoes
    <3>4. CASE RequestStop \/ Terminated \/ UNCHANGED vars
      BY <3>4, StopDoes
    <3> QED
      BY <1>1, <3>1, <3>2, <3>3, <3>4
  <2>2. Sent' = Sent /\ Copies' = Copies
    BY <2>1 DEF Sent, Copies
  <2> QED
    BY <2>1, <2>2 DEF CopiesInv
<1>2. CASE SendPacket \/ SendCopy
  <2> DEFINE n == Head(batch)
             m == Len(sent) + 1
  <2>1. /\ n \in Numbers /\ batch # <<>>
        /\ sent' = Append(sent, n)
        /\ UNCHANGED config
        /\ \/ /\ pc = "emit" /\ pc' = "copy" /\ batch' = batch
              /\ Matches(config.duplicate, n)
           \/ /\ pc = "emit" /\ pc' = "send"
              /\ ~Matches(config.duplicate, n)
           \/ pc = "copy" /\ pc' = "send"
    BY <1>2, TransmitDoes
  <2>2. /\ sent'[m] = n
        /\ \A i \in DOMAIN sent : sent'[i] = sent[i]
        /\ Sent' = Sent \cup {n}
        /\ sent # <<>> /\ sent[Len(sent)] = n => Copies' = Copies \cup {m}
        /\ n \notin Sent => Copies' = Copies
    BY <2>1, SentGrows
  <2>3. /\ pc = "emit" => n \notin Sent
        /\ pc = "copy" => n \in Sent /\ sent # <<>> /\ sent[Len(sent)] = n
    BY SendingNow
  <2>4. pc = "copy" => Matches(config.duplicate, n)
    BY DEF PlaceInv
  <2>5. \A i \in Copies : i \in DOMAIN sent /\ sent[i] \in Sent
    BY DEF Copies, Sent, ToSet
  <2>6. \A k \in Sent : (\E i \in Copies : sent[i] = k)
          <=> Matches(config.duplicate, k) /\ ~(pc = "copy" /\ k = n)
    BY <2>1 DEF CopiesInv
  <2>7. pc' = "copy" => Head(batch') = n
    BY <2>1
  <2> HIDE DEF n, m
  <2>8. CASE pc = "emit"
    <3>1. Copies' = Copies /\ n \notin Sent
      BY <2>2, <2>3, <2>8
    <3>2. \A k : (\E i \in Copies' : sent'[i] = k) <=> (\E i \in Copies : sent[i] = k)
      BY <2>2, <2>5, <3>1
    <3>3. ~\E i \in Copies' : sent'[i] = n
      BY <2>5, <3>1, <3>2
    <3>4. \A k \in Sent' : (\E i \in Copies' : sent'[i] = k)
            <=> Matches(config.duplicate, k) /\ ~(pc' = "copy" /\ k = n)
      BY <2>1, <2>2, <2>6, <2>8, <3>1, <3>2, <3>3
    <3> QED
      BY <3>4, <2>1, <2>7 DEF CopiesInv
  <2>9. CASE pc = "copy"
    <3>1. Copies' = Copies \cup {m} /\ n \in Sent /\ Sent' = Sent
      BY <2>2, <2>3, <2>9
    <3>2. \A k : (\E i \in Copies' : sent'[i] = k)
                   <=> k = n \/ (\E i \in Copies : sent[i] = k)
      BY <2>2, <2>5, <3>1
    <3>3. \A k \in Sent' : (\E i \in Copies' : sent'[i] = k)
            <=> Matches(config.duplicate, k)
      BY <2>4, <2>6, <2>9, <3>1, <3>2
    <3> QED
      BY <3>3, <2>1, <2>9 DEF CopiesInv
  <2> QED
    BY <2>1, <2>8, <2>9
<1> QED
  BY <1>1, <1>2, StepCases

\* Nothing has been sent.
LEMMA CountersStart ==
  ASSUME Init
  PROVE  CountersInv /\ CopiesInv
<1>1. /\ pc = "loop" /\ sent = <<>>
      /\ summary.generated = 0 /\ summary.sent = 0 /\ summary.dropped = 0
      /\ summary.duplicate = 0 /\ summary.delayed = 0 /\ summary.corrupted = 0
  BY DEF Init
<1>2. /\ Sent = {} /\ Copies = {} /\ CorruptSent = {} /\ DelayedSent = {}
      /\ Generated \ Sendable = {}
  BY <1>1, ShortSequences
     DEF Sent, Copies, CorruptSent, DelayedSent, Generated
<1>3. Cardinality({}) = 0 /\ Len(sent) = 0 /\ ~Delaying
  BY <1>1, FS_EmptySet DEF Delaying
<1>4. /\ Cardinality(Sent) = 0 /\ Cardinality(Copies) = 0
      /\ Cardinality(CorruptSent) = 0 /\ Cardinality(DelayedSent) = 0
      /\ Cardinality(Generated \ Sendable) = 0
  BY <1>2, <1>3
<1>5. CountersInv
  <2>1. /\ 0 = 0 + 0 /\ 0 - 0 \in {0, 1}
        /\ 0 = 0 + (IF Delaying THEN 1 ELSE 0)
    BY <1>3
  <2> QED
    BY <1>1, <1>3, <1>4, <2>1, Zenon DEF CountersInv
<1>6. CopiesInv
  BY <1>1, <1>2 DEF CopiesInv
<1> QED
  BY <1>5, <1>6

\* Every counter of the summary is what its description says of the datagrams
\* really sent.
THEOREM TotalsProved == SafeSpec => []SummaryDescribesDatagrams
<1>1. TypeOK /\ CountersInv /\ CopiesInv => SummaryDescribesDatagrams
  <2> SUFFICES ASSUME TypeOK, CountersInv, CopiesInv
               PROVE  SummaryDescribesDatagrams
    OBVIOUS
  <2>1. summary.sent - summary.duplicate = Cardinality(Sent)
    <3>1. /\ summary.duplicate \in Nat /\ Cardinality(Sent) \in Nat
          /\ summary.sent = summary.duplicate + Cardinality(Sent)
      BY TotalsFields, SentFinite, FS_CardinalityType DEF TypeOK, CountersInv
    <3> QED
      BY <3>1
  <2>2. /\ summary.sent = Len(sent)
        /\ summary.duplicate = Cardinality(Copies)
        /\ summary.corrupted = Cardinality(CorruptSent)
        /\ summary.dropped = Cardinality(Generated \ Sendable)
        /\ summary.delayed - Cardinality(DelayedSent) \in {0, 1}
    BY DEF CountersInv
  <2>3. pc \notin {"copy", "failed"} => \A n \in Sent :
          Matches(config.duplicate, n) <=> \E i \in Copies : sent[i] = n
    BY DEF CopiesInv
  <2> QED
    BY <2>1, <2>2, <2>3
       DEF SummaryDescribesDatagrams, Copies, CorruptSent, DelayedSent
<1> QED
  BY <1>1, SimulatorTyping, AccountedStarts, AccountedStep, CountersStart,
     CountersStep, CopiesStep, PTL DEF SafeSpec
-----------------------------------------------------------------------------
(* The order of the datagrams.                                             *)

\* A pair of packets that is out of order is a pair of two packets sent.
LEMMA LateFinite ==
  ASSUME TypeOK
  PROVE  IsFiniteSet(LatePairs) /\ Cardinality(LatePairs) \in Nat
<1>1. IsFiniteSet(Sent \X Sent)
  BY SentFinite, FS_Product
<1>2. LatePairs \in SUBSET (Sent \X Sent)
  BY DEF LatePairs
<1> QED
  BY <1>1, <1>2, FS_Subset, FS_CardinalityType

\* A packet is the first after at most one other, and has one first after it.
LEMMA SwappedOnce ==
  ASSUME TypeOK, NEW a, NEW b, NEW c
  PROVE  /\ Swapped(a, b) /\ Swapped(a, c) => b = c
         /\ Swapped(a, b) /\ Swapped(c, b) => a = c
         /\ Swapped(a, b) /\ Swapped(c, a) => ~Swapped(c, b)
<1>1. Sendable \subseteq Int
  <2>1. summary.generated \in Nat
    BY TotalsFields DEF TypeOK
  <2> QED
    BY <2>1 DEF Sendable, Generated
<1>2. ASSUME Swapped(a, b), Swapped(a, c) PROVE b = c
  <2>1. /\ a \in Sendable /\ b \in Sendable /\ c \in Sendable /\ b < a /\ c < a
        /\ \A m \in Sendable : ~(b < m /\ m < a)
        /\ \A m \in Sendable : ~(c < m /\ m < a)
    BY <1>2 DEF Swapped
  <2>2. ~(b < c) /\ ~(c < b)
    BY <2>1
  <2> QED
    BY <2>1, <2>2, <1>1
<1>3. ASSUME Swapped(a, b), Swapped(c, b) PROVE a = c
  <2>1. /\ a \in Sendable /\ b \in Sendable /\ c \in Sendable /\ b < a /\ b < c
        /\ \A m \in Sendable : ~(b < m /\ m < a)
        /\ \A m \in Sendable : ~(b < m /\ m < c)
    BY <1>3 DEF Swapped
  <2>2. ~(a < c) /\ ~(c < a)
    BY <2>1
  <2> QED
    BY <2>1, <2>2, <1>1
<1>4. Swapped(a, b) /\ Swapped(c, a) => ~Swapped(c, b)
  BY DEF Swapped
<1> QED
  BY <1>2, <1>3, <1>4

\* One more datagram, of a packet n, is later than those before it.
LEMMA LateGrows ==
  ASSUME TypeOK, config' = config, NEW n \in Numbers, sent' = Append(sent, n)
  PROVE  \A a, b : Late(a, b)' <=> \/ Late(a, b)
                                   \/ b = n /\ n < a /\ a \in Sent
<1> DEFINE m == Len(sent) + 1
<1>1. /\ sent'[m] = n /\ m \notin DOMAIN sent
      /\ DOMAIN sent' = (DOMAIN sent) \cup {m}
      /\ \A i \in DOMAIN sent : sent'[i] = sent[i] /\ i < m /\ i \in Nat
      /\ m \in Nat
  BY SentGrows
<1> HIDE DEF m
<1> SUFFICES ASSUME NEW a, NEW b
             PROVE  Late(a, b)' <=> \/ Late(a, b)
                                    \/ b = n /\ n < a /\ a \in Sent
  OBVIOUS
<1>2. ASSUME Late(a, b)' PROVE Late(a, b) \/ (b = n /\ n < a /\ a \in Sent)
  <2>1. b < a
    BY <1>2 DEF Late
  <2>2. PICK i, j \in DOMAIN sent' : i < j /\ sent'[i] = a /\ sent'[j] = b
    BY <1>2 DEF Late
  <2>3. i \in DOMAIN sent
    <3>1. i = m => FALSE
      <4>1. ~(m < m) /\ \A k \in DOMAIN sent : ~(m < k)
        BY <1>1
      <4> QED
        BY <4>1, <2>2, <1>1
    <3> QED
      BY <3>1, <1>1
  <2>4. CASE j = m
    BY <2>1, <2>2, <2>3, <2>4, <1>1 DEF Sent, ToSet
  <2>5. CASE j \in DOMAIN sent
    BY <2>1, <2>2, <2>3, <2>5, <1>1 DEF Late
  <2> QED
    BY <2>4, <2>5, <1>1
<1>3. ASSUME Late(a, b) PROVE Late(a, b)'
  <2>1. b < a
    BY <1>3 DEF Late
  <2>2. PICK i, j \in DOMAIN sent : i < j /\ sent[i] = a /\ sent[j] = b
    BY <1>3 DEF Late
  <2>3. i \in DOMAIN sent' /\ j \in DOMAIN sent' /\ sent'[i] = a /\ sent'[j] = b
    BY <2>2, <1>1
  <2> QED
    BY <2>1, <2>2, <2>3 DEF Late
<1>4. ASSUME b = n, n < a, a \in Sent PROVE Late(a, b)'
  <2>1. PICK i \in DOMAIN sent : sent[i] = a
    BY <1>4 DEF Sent, ToSet
  <2>2. /\ i \in DOMAIN sent' /\ m \in DOMAIN sent' /\ i < m
        /\ sent'[i] = a /\ sent'[m] = b
    BY <2>1, <1>1, <1>4
  <2> QED
    BY <2>2, <1>4 DEF Late
<1> QED
  BY <1>2, <1>3, <1>4

\* A step that leaves the packets where they are keeps their order.
LEMMA OrderFrame ==
  ASSUME OrderInv, UNCHANGED <<config, sent, held, batch, swaps>>,
         summary'.generated = summary.generated,
         summary'.reorder = summary.reorder,
         pc' # "failed" => pc # "failed" /\ Rest' = Rest
  PROVE  OrderInv'
<1>1. /\ Sent' = Sent /\ Sendable' = Sendable
      /\ \A a, b : Late(a, b)' <=> Late(a, b)
  BY DEF Sent, Sendable, Generated, Late
<1>2. \A a, b : Swapped(a, b)' <=> Swapped(a, b)
  BY <1>1 DEF Swapped
<1>3. LatePairs' = LatePairs /\ (Together' <=> Together)
  BY <1>1 DEF LatePairs, Together
<1>4. HeldIsLast' <=> HeldIsLast
  BY <1>1 DEF HeldIsLast
<1>5. Rest' = Rest => (RestInOrder' <=> RestInOrder) /\ (SwapsCounted' <=> SwapsCounted)
  BY <1>1, <1>2, <1>3 DEF RestInOrder, SwapsCounted
<1> QED
  BY <1>1, <1>2, <1>3, <1>4, <1>5 DEF OrderInv

\* A packet more to send does not come between two others.
LEMMA SwappedStays ==
  ASSUME TypeOK, config' = config, NEW n, n = summary.generated + 1,
         summary'.generated = n, NEW a, NEW b, Swapped(a, b)
  PROVE  Swapped(a, b)'
<1>1. /\ a \in Sendable /\ b \in Sendable /\ b < a
      /\ Matches(config.reorder, b)
      /\ \A m \in Sendable : ~(b < m /\ m < a)
  BY DEF Swapped
<1>2. /\ Sendable' = Sendable \/ Sendable' = Sendable \cup {n}
      /\ a < n /\ a \in Int /\ n \in Int
  <2>1. /\ Sendable' = Sendable \/ Sendable' = Sendable \cup {n}
        /\ a < n /\ a \in Generated
    BY <1>1, SendableGrows
  <2>2. summary.generated \in Nat
    BY TotalsFields DEF TypeOK
  <2> QED
    BY <2>1, <2>2 DEF Generated
<1>3. \A m \in Sendable' : ~(b < m /\ m < a)
  <2> SUFFICES ASSUME NEW m \in Sendable', b < m, m < a PROVE FALSE
    OBVIOUS
  <2>1. m # n
    BY <1>2
  <2>2. m \in Sendable
    BY <2>1, <1>2
  <2> QED
    BY <2>2, <1>1
<1>4. a \in Sendable' /\ b \in Sendable'
  BY <1>1, <1>2
<1> QED
  BY <1>1, <1>3, <1>4 DEF Swapped

\* A packet generated is later than all the others; the one it overtakes is
\* the latest of them.
LEMMA OrderGenerates ==
  ASSUME TypeOK, PlaceInv, Accounted, OrderInv, Drop \/ Swap \/ Hold \/ Pass
  PROVE  OrderInv'
<1>0. PICK n : n = summary.generated + 1
  OBVIOUS
<1>1. /\ pc = "generate" /\ pc' = "send" /\ n \in Numbers
      /\ UNCHANGED <<config, sent>>
      /\ summary'.generated = n
      /\ summary'.reorder = summary.reorder
      /\ \/ /\ batch' = <<>> /\ swaps' = 0 /\ held' = held
         \/ /\ ~Matches(config.drop, n)
            /\ \/ \E h \in held : /\ held = {h} /\ h \in Numbers
                                  /\ batch' = <<n, h>>
                                  /\ swaps' = 1 /\ held' = {}
               \/ /\ Matches(config.reorder, n)
                  /\ batch' = <<>> /\ swaps' = 0 /\ held' = {n}
               \/ held' = {} /\ batch' = <<n>> /\ swaps' = 0
  BY <1>0, GenerateDoes
<1>2. \A m \in Sendable : m < n
  BY <1>0, <1>1, SendableGrows
<1>3. ~Matches(config.drop, n) => Sendable' = Sendable \cup {n}
  BY <1>0, <1>1, SendableGrows
<1>4. \A a, b : Swapped(a, b) => Swapped(a, b)'
  BY <1>0, <1>1, SwappedStays
<1>5. batch = <<>> /\ swaps = 0 /\ Rest = <<>> /\ ToSet(Rest) = {}
  BY <1>1, ShortSequences DEF PlaceInv, Between, Rest
<1>6. Sent \cup held = Sendable /\ Sent \cap held = {}
  BY <1>1, <1>5 DEF Accounted
<1>7. /\ Sent' = Sent /\ \A a, b : Late(a, b)' <=> Late(a, b)
  BY <1>1 DEF Sent, Late
<1>8. LatePairs' = LatePairs /\ (Together' <=> Together) /\ Rest' = batch'
  BY <1>1, <1>7 DEF LatePairs, Together, Rest
<1>9. HeldIsLast /\ Cardinality(LatePairs) = summary.reorder
  <2>1. HeldIsLast /\ SwapsCounted
    BY <1>1 DEF OrderInv
  <2>2. Cardinality(LatePairs) = summary.reorder + 0 /\ summary.reorder \in Nat
    BY <1>5, <2>1, TotalsFields DEF SwapsCounted, TypeOK
  <2> QED
    BY <2>1, <2>2
<1>10. \A x \in Sent : x < n /\ x \in Sendable
  BY <1>2, <1>6
<1>11. HeldIsLast'
  BY <1>1, <1>7, <1>9, <1>10 DEF HeldIsLast
<1>12. Cardinality(LatePairs') <= summary'.reorder + swaps'
  <2>1. summary.reorder \in Nat /\ swaps' \in {0, 1}
    BY <1>1, TotalsFields DEF TypeOK
  <2> QED
    BY <1>1, <1>8, <1>9, <2>1
<1>13. SwapsCounted'
  <2>1. ~(swaps' = 1 /\ Rest' = <<>>)
    <3> SUFFICES ASSUME swaps' = 1 PROVE batch' # <<>>
      BY <1>8
    <3>1. PICK h \in Numbers : batch' = <<n, h>>
      BY <1>1
    <3> QED
      BY <3>1, <1>1, ShortSequences
  <2>2. summary.reorder \in Nat
    BY TotalsFields DEF TypeOK
  <2>3. Cardinality(LatePairs') = summary'.reorder + 0
    BY <1>1, <1>8, <1>9, <2>2
  <2> QED
    BY <2>1, <2>3 DEF SwapsCounted
<1>14. RestInOrder'
  <2>1. \A x \in Numbers : x \in Int
    BY SimulatorAssumption DEF Numbers
  <2>2. Sent \subseteq Numbers
    <3>1. \A i \in DOMAIN sent : sent[i] \in Numbers
      BY ElementOfSeq, LenProperties DEF TypeOK, Numbers
    <3> QED
      BY <3>1 DEF Sent, ToSet
  <2>3. CASE batch' = <<>> /\ swaps' = 0
    BY <2>3, <1>8, ShortSequences DEF RestInOrder
  <2>4. CASE batch' = <<n>> /\ swaps' = 0
    <3>1. ToSet(Rest') = {n} /\ Len(batch') = 1
      BY <2>4, <1>1, <1>8, ShortSequences
    <3>2. \A x \in Sent' : ~(n < x)
      BY <1>7, <1>10, <1>1, <2>1, <2>2
    <3> QED
      BY <2>4, <3>1, <3>2 DEF RestInOrder
  <2>5. ASSUME ~Matches(config.drop, n), NEW h \in Numbers, held = {h},
               batch' = <<n, h>>, swaps' = 1
        PROVE  RestInOrder'
    <3>1. /\ ToSet(Rest') = {n, h} /\ Len(Rest') = 2
          /\ batch'[1] = n /\ batch'[2] = h
      BY <2>5, <1>1, <1>8, ShortSequences
    <3>2. \A x \in Sent' : ~(n < x) /\ ~(h < x)
      <4>1. \A x \in Sent : x < h
        BY <2>5, <1>9 DEF HeldIsLast
      <4> QED
        BY <4>1, <1>7, <1>10, <1>1, <2>1, <2>2
    <3>3. Swapped(n, h)'
      <4>1. h \in Sendable /\ h < n /\ Matches(config.reorder, h)
        BY <2>5, <1>2, <1>6, <1>9 DEF HeldIsLast
      <4>2. \A m \in Sendable' : ~(h < m /\ m < n)
        <5> SUFFICES ASSUME NEW m \in Sendable', h < m, m < n PROVE FALSE
          OBVIOUS
        <5>1. m = n \/ m = h \/ m \in Sent
          BY <1>3, <1>6, <2>5
        <5>2. m \in Sent => ~(h < m)
          BY <3>2, <1>7
        <5> QED
          BY <5>1, <5>2, <1>1, <2>1
      <4>3. n \in Sendable' /\ h \in Sendable'
        BY <4>1, <1>3, <2>5
      <4> QED
        BY <4>1, <4>2, <4>3, <1>1 DEF Swapped
    <3>4. Swapped(batch[1], batch[2])'
      <4>1. Swapped(n, h)' <=> Swapped(batch[1], batch[2])'
        BY <3>1 DEF Swapped
      <4> QED
        BY <3>3, <4>1
    <3> QED
      BY <3>1, <3>2, <3>4 DEF RestInOrder
  <2> QED
    BY <1>1, <2>3, <2>4, <2>5
<1>15. \A a, b \in Sent' : Late(a, b)' => Swapped(a, b)'
  BY <1>4, <1>7 DEF OrderInv
<1> QED
  BY <1>8, <1>11, <1>12, <1>13, <1>14, <1>15 DEF OrderInv

\* The packet held at the end is the latest of all.
LEMMA OrderFinishes ==
  ASSUME TypeOK, PlaceInv, OrderInv, Finish
  PROVE  OrderInv'
<1>1. /\ pc = "finish" /\ pc' = "send"
      /\ UNCHANGED <<config, swaps, summary, sent>>
      /\ swaps = 0 /\ batch = <<>> /\ held' = {}
      /\ \/ batch' = <<>>
         \/ \E h \in Numbers : held = {h} /\ batch' = <<h>>
  BY FinishDoes
<1>2. /\ Sent' = Sent /\ Sendable' = Sendable
      /\ \A a, b : Late(a, b)' <=> Late(a, b)
  BY <1>1 DEF Sent, Sendable, Generated, Late
<1>3. \A a, b : Swapped(a, b)' <=> Swapped(a, b)
  BY <1>1, <1>2 DEF Swapped
<1>4. LatePairs' = LatePairs /\ (Together' <=> Together) /\ Rest' = batch'
  BY <1>1, <1>2 DEF LatePairs, Together, Rest
<1>5. HeldIsLast'
  BY <1>1 DEF HeldIsLast
<1>6. SwapsCounted'
  <2>1. SwapsCounted
    BY <1>1 DEF OrderInv
  <2>2. Cardinality(LatePairs) = summary.reorder + 0
    BY <1>1, <2>1 DEF SwapsCounted
  <2> QED
    BY <1>1, <1>4, <2>2 DEF SwapsCounted
<1>7. RestInOrder'
  <2>1. CASE batch' = <<>>
    BY <2>1, <1>1, <1>4, ShortSequences DEF RestInOrder
  <2>2. ASSUME NEW h \in Numbers, held = {h}, batch' = <<h>>
        PROVE  RestInOrder'
    <3>1. ToSet(Rest') = {h} /\ Len(batch') = 1
      BY <2>2, <1>4, ShortSequences
    <3>2. \A x \in Sent' : ~(h < x)
      <4>1. \A x \in Sent : x < h /\ x \in Int
        <5>1. \A x \in Sent : x < h
          BY <1>1, <2>2 DEF OrderInv, HeldIsLast
        <5>2. \A i \in DOMAIN sent : sent[i] \in Numbers
          BY ElementOfSeq, LenProperties DEF TypeOK, Numbers
        <5> QED
          BY <5>1, <5>2, SimulatorAssumption DEF Sent, ToSet, Numbers
      <4>2. h \in Int
        BY SimulatorAssumption DEF Numbers
      <4> QED
        BY <4>1, <4>2, <1>2
    <3> QED
      BY <3>1, <3>2, <1>1 DEF RestInOrder
  <2> QED
    BY <1>1, <2>1, <2>2
<1> QED
  BY <1>1, <1>2, <1>3, <1>4, <1>5, <1>6, <1>7 DEF OrderInv

\* A batch ends, and its swap with it.
LEMMA OrderCounts ==
  ASSUME TypeOK, OrderInv, BatchEnds
  PROVE  OrderInv'
<1>1. /\ pc = "send" /\ pc' \in {"done", "finish", "wait"}
      /\ batch = <<>> /\ swaps' = 0
      /\ UNCHANGED <<config, held, batch, sent>>
      /\ summary'.generated = summary.generated
      /\ summary'.reorder = summary.reorder + swaps
  BY BatchDoes
<1>2. /\ Sent' = Sent /\ Sendable' = Sendable
      /\ \A a, b : Late(a, b)' <=> Late(a, b)
  BY <1>1 DEF Sent, Sendable, Generated, Late
<1>3. \A a, b : Swapped(a, b)' <=> Swapped(a, b)
  BY <1>1, <1>2 DEF Swapped
<1>4. /\ LatePairs' = LatePairs /\ (Together' <=> Together)
      /\ (HeldIsLast' <=> HeldIsLast)
      /\ Rest = <<>> /\ Rest' = <<>>
  BY <1>1, <1>2 DEF LatePairs, Together, Rest, HeldIsLast
<1>5. Cardinality(LatePairs') = summary'.reorder
  <2>1. SwapsCounted /\ swaps \in {0, 1}
    BY <1>1 DEF OrderInv, TypeOK
  <2>2. Cardinality(LatePairs) = summary.reorder + swaps
    BY <1>4, <2>1 DEF SwapsCounted
  <2> QED
    BY <1>1, <1>4, <2>2
<1>6. summary'.reorder \in Nat
  <2>1. summary.reorder \in Nat /\ swaps \in {0, 1}
    BY TotalsFields DEF TypeOK
  <2> QED
    BY <1>1, <2>1
<1>7. SwapsCounted' /\ Cardinality(LatePairs') <= summary'.reorder + swaps'
  <2>1. /\ summary'.reorder = summary'.reorder + 0
        /\ summary'.reorder <= summary'.reorder + 0
    BY <1>6
  <2> QED
    BY <1>1, <1>5, <2>1 DEF SwapsCounted
<1>8. RestInOrder'
  BY <1>1, <1>4, ShortSequences DEF RestInOrder
<1> QED
  BY <1>1, <1>2, <1>3, <1>4, <1>7, <1>8 DEF OrderInv

\* The packets of a swap leave the later one first, and only they are out of
\* order.
LEMMA OrderSends ==
  ASSUME TypeOK, PlaceInv, Accounted, OrderInv, SendPacket
  PROVE  OrderInv'
<1>0. PICK n : n = Head(batch)
  OBVIOUS
<1>1. /\ n \in Numbers /\ batch # <<>> /\ pc = "emit"
      /\ sent' = Append(sent, n)
      /\ UNCHANGED <<config, held, swaps>>
      /\ summary'.generated = summary.generated
      /\ summary'.reorder = summary.reorder
      /\ \/ pc' = "copy" /\ batch' = batch
         \/ pc' = "send" /\ batch' = Tail(batch)
  <2>1. pc = "emit"
    BY DEF SendPacket
  <2>2. PICK copy : copy = (IF pc = "copy" THEN 1 ELSE 0)
    OBVIOUS
  <2> QED
    BY <1>0, <2>1, <2>2, TransmitDoes
<1>2. PICK m : m = Len(sent) + 1
  OBVIOUS
<1>3. /\ sent'[m] = n /\ m \notin DOMAIN sent /\ m \in Nat
      /\ DOMAIN sent' = (DOMAIN sent) \cup {m}
      /\ \A i \in DOMAIN sent : sent'[i] = sent[i] /\ i < m /\ i \in Nat
      /\ Sent' = Sent \cup {n}
  BY <1>1, <1>2, SentGrows
<1>4. \A a, b : Late(a, b)' <=> Late(a, b) \/ (b = n /\ n < a /\ a \in Sent)
  BY <1>1, LateGrows
<1>5. Sendable' = Sendable /\ held = {}
  BY <1>1 DEF Sendable, Generated, PlaceInv
<1>6. \A a, b : Swapped(a, b)' <=> Swapped(a, b)
  BY <1>1, <1>5 DEF Swapped
<1>7. /\ n \notin Sent /\ Rest = batch /\ Rest' = Tail(batch)
      /\ n \in ToSet(batch)
      /\ \A x \in ToSet(Tail(batch)) : x \in ToSet(batch)
  <2>1. ToSet(batch) = {n} \cup ToSet(Tail(batch))
    BY <1>0, <1>1, HeadApart DEF Accounted
  <2>2. n \notin Sent
    BY <1>0, <1>1, SendingNow
  <2>3. Rest = batch /\ Rest' = Tail(batch)
    BY <1>1 DEF Rest
  <2> QED
    BY <2>1, <2>2, <2>3
<1>8. /\ Len(batch) \in {1, 2} /\ Len(Tail(batch)) = Len(batch) - 1
      /\ Len(batch) = 2 => swaps = 1
      /\ n = batch[1] /\ Tail(batch) \in Seq(Numbers)
      /\ Len(batch) = 2 => Tail(batch)[1] = batch[2]
      /\ Tail(batch) = <<>> <=> Len(batch) = 1
  <2>1. /\ Len(batch) \in Nat \ {0} /\ swaps \in {0, 1} /\ Len(batch) <= 1 + swaps
        /\ n = batch[1] /\ Len(Tail(batch)) = Len(batch) - 1
        /\ Tail(batch) \in Seq(Numbers)
        /\ \A i \in 1..Len(Tail(batch)) : Tail(batch)[i] = batch[i + 1]
    BY <1>0, <1>1, BatchParts DEF PlaceInv, TypeOK
  <2>2. Tail(batch) = <<>> <=> Len(Tail(batch)) = 0
    BY <2>1, EmptySeq
  <2>3. Len(batch) = 2 => Tail(batch)[1] = batch[2]
    BY <2>1
  <2> QED
    BY <2>1, <2>2, <2>3
<1>9. /\ \A a, b \in Sent : Late(a, b) => Swapped(a, b)
      /\ Together /\ RestInOrder /\ SwapsCounted
  BY <1>1 DEF OrderInv
<1>10. \A a \in Sent : n < a => Swapped(a, n) /\ swaps = 1 /\ Len(batch) = 1
  BY <1>7, <1>9 DEF RestInOrder
<1>11. \A a, b \in Sent' : Late(a, b)' => Swapped(a, b)'
  <2> SUFFICES ASSUME NEW a, NEW b, a \in Sent', b \in Sent', Late(a, b)'
               PROVE  Swapped(a, b)
    BY <1>6
  <2>1. CASE Late(a, b)
    <3>1. a \in Sent /\ b \in Sent
      BY <2>1 DEF Late, Sent, ToSet
    <3> QED
      BY <3>1, <2>1, <1>9
  <2>2. CASE b = n /\ n < a /\ a \in Sent
    BY <2>2, <1>10
  <2> QED
    BY <2>1, <2>2, <1>4
<1>12. Together'
  <2> SUFFICES ASSUME NEW i, NEW j, NEW k,
                      i \in DOMAIN sent', j \in DOMAIN sent', k \in DOMAIN sent',
                      i < k, k < j, sent'[i] = sent'[j]
               PROVE  sent'[k] = sent'[i]
    BY DEF Together
  <2>1. i # m /\ k # m
    BY <1>3
  <2>2. i \in DOMAIN sent /\ k \in DOMAIN sent
    BY <2>1, <1>3
  <2>3. CASE j = m
    <3>1. sent[i] = n
      BY <2>2, <2>3, <1>3
    <3> QED
      BY <3>1, <2>2, <1>7 DEF Sent, ToSet
  <2>4. CASE j \in DOMAIN sent
    <3>1. sent[i] = sent[j] /\ sent'[i] = sent[i] /\ sent'[k] = sent[k]
      BY <2>2, <2>4, <1>3
    <3> QED
      BY <3>1, <2>2, <2>4, <1>9 DEF Together
  <2> QED
    BY <2>3, <2>4, <1>3
<1>13. SwapsCounted'
  <2>1. /\ Cardinality(LatePairs) = summary.reorder + 0
        /\ summary.reorder \in Nat
    BY <1>1, <1>7, <1>9, TotalsFields DEF SwapsCounted, TypeOK
  <2>2. CASE swaps = 1 /\ Len(batch) = 1
    <3>1. PICK x \in Sent : n < x
      BY <2>2, <1>7, <1>8, <1>9 DEF RestInOrder
    <3>2. \A a \in Sent : n < a => a = x
      BY <3>1, <1>10, SwappedOnce
    <3>3. LatePairs' = LatePairs \cup {<<x, n>>}
      <4>1. \A ab \in LatePairs' : ab \in LatePairs \/ ab = <<x, n>>
        <5> SUFFICES ASSUME NEW a, NEW b, a \in Sent', b \in Sent', Late(a, b)'
                     PROVE  <<a, b>> \in LatePairs \/ <<a, b>> = <<x, n>>
          BY DEF LatePairs
        <5>1. CASE Late(a, b)
          <6>1. a \in Sent /\ b \in Sent
            BY <5>1 DEF Late, Sent, ToSet
          <6> QED
            BY <6>1, <5>1 DEF LatePairs
        <5>2. CASE b = n /\ n < a /\ a \in Sent
          BY <5>2, <3>2
        <5> QED
          BY <5>1, <5>2, <1>4
      <4>2. <<x, n>> \in LatePairs'
        <5>1. Late(x, n)'
          BY <3>1, <1>4
        <5> QED
          BY <5>1, <3>1, <1>3 DEF LatePairs
      <4>3. \A ab \in LatePairs : ab \in LatePairs'
        BY <1>3, <1>4 DEF LatePairs
      <4> QED
        BY <4>1, <4>2, <4>3
    <3>4. <<x, n>> \notin LatePairs
      BY <1>7 DEF LatePairs
    <3>5. Cardinality(LatePairs') = Cardinality(LatePairs) + 1
      BY <3>3, <3>4, LateFinite, OneMore
    <3>6. swaps' = 1 /\ Rest' = <<>>
      BY <2>2, <1>1, <1>7, <1>8
    <3>7. Cardinality(LatePairs') = summary'.reorder + 1
      BY <3>5, <2>1, <1>1
    <3> QED
      BY <3>6, <3>7 DEF SwapsCounted
  <2>3. CASE ~(swaps = 1 /\ Len(batch) = 1)
    <3>1. \A a, b : Late(a, b)' <=> Late(a, b)
      BY <2>3, <1>4, <1>10
    <3>2. \A a, b : Late(a, b) => a \in Sent /\ b \in Sent
      BY DEF Late, Sent, ToSet
    <3>3. LatePairs' = LatePairs
      BY <3>1, <3>2, <1>3 DEF LatePairs
    <3>4. ~(swaps' = 1 /\ Rest' = <<>>)
      BY <2>3, <1>1, <1>7, <1>8
    <3> QED
      BY <3>3, <3>4, <2>1, <1>1 DEF SwapsCounted
  <2> QED
    BY <2>2, <2>3
<1>14. Cardinality(LatePairs') <= summary'.reorder + swaps'
  <2>1. summary'.reorder \in Nat /\ swaps' \in {0, 1}
    BY <1>1, TotalsFields DEF TypeOK
  <2>2. \/ swaps' = 1 /\ Cardinality(LatePairs') = summary'.reorder + 1
        \/ Cardinality(LatePairs') = summary'.reorder + 0
    BY <1>13 DEF SwapsCounted
  <2> QED
    BY <2>1, <2>2
<1>15. HeldIsLast'
  BY <1>1, <1>5 DEF HeldIsLast
<1>16. RestInOrder'
  <2>1. ASSUME Len(batch) = 1 PROVE RestInOrder'
    <3>1. Rest' = <<>> /\ ToSet(Rest') = {} /\ Len(Rest') = 0
      BY <2>1, <1>7, <1>8, ShortSequences
    <3>2. Len(batch') # 2
      <4>1. Len(batch) # 2 /\ Len(Tail(batch)) # 2
        BY <2>1, <1>8
      <4> QED
        BY <4>1, <1>1
    <3> QED
      BY <3>1, <3>2 DEF RestInOrder
  <2>2. ASSUME Len(batch) = 2 PROVE RestInOrder'
    <3>1. Swapped(n, batch[2]) /\ batch[2] < n
      BY <2>2, <1>8, <1>9 DEF RestInOrder, Swapped
    <3>2. swaps' = 1 /\ Len(Rest') = 1 /\ Rest'[1] = batch[2]
      BY <2>2, <1>1, <1>7, <1>8
    <3>3. ToSet(Rest') = {batch[2]}
      <4>1. \A y : y \in ToSet(Rest') <=> \E i \in 1..Len(Rest') : Rest'[i] = y
        <5> DEFINE t == Tail(batch)
        <5>1. t \in Seq(Numbers)
          BY <1>8
        <5> HIDE DEF t
        <5>2. \A y : y \in ToSet(t) <=> \E i \in 1..Len(t) : t[i] = y
          BY <5>1, Elements
        <5> QED
          BY <5>2, <1>7 DEF t
      <4>2. \A y : y \in ToSet(Rest') <=> Rest'[1] = y
        BY <3>2, <4>1
      <4> QED
        BY <3>2, <4>2
    <3>4. \A x \in Sent : ~(batch[2] < x)
      <4>1. batch[2] \in ToSet(batch)
        BY <1>7, <3>3
      <4> QED
        BY <2>2, <4>1, <1>7, <1>9 DEF RestInOrder
    <3>5. \A x \in Sent', y \in ToSet(Rest') : y < x => Swapped(x, y)'
      BY <3>1, <3>3, <3>4, <1>3, <1>6
    <3>6. \E x \in Sent' : Rest'[1] < x
      BY <3>1, <3>2, <1>3
    <3>7. Len(batch') = 2 => Swapped(batch[1], batch[2])'
      <4> SUFFICES ASSUME Len(batch') = 2 PROVE Swapped(batch[1], batch[2])'
        OBVIOUS
      <4>1. batch' = batch
        <5>1. Len(Tail(batch)) # 2
          BY SMTT(60), <2>2, <1>8
        <5> QED
          BY <5>1, <1>1
      <4> QED
        BY <4>1, <3>1, <1>1, <1>5, <1>8 DEF Swapped
    <3> QED
      BY <3>2, <3>5, <3>6, <3>7 DEF RestInOrder
  <2> QED
    BY <2>1, <2>2, <1>8
<1> QED
  BY <1>11, <1>12, <1>13, <1>14, <1>15, <1>16 DEF OrderInv

\* A copy follows the datagram it is a copy of.
LEMMA OrderCopies ==
  ASSUME TypeOK, PlaceInv, Accounted, OrderInv, SendCopy
  PROVE  OrderInv'
<1>0. PICK n : n = Head(batch)
  OBVIOUS
<1>1. /\ n \in Numbers /\ batch # <<>> /\ pc = "copy" /\ pc' = "send"
      /\ sent' = Append(sent, n)
      /\ UNCHANGED <<config, held, swaps>>
      /\ summary'.generated = summary.generated
      /\ summary'.reorder = summary.reorder
      /\ batch' = Tail(batch)
  <2>1. pc = "copy"
    BY DEF SendCopy
  <2>2. PICK copy : copy = (IF pc = "copy" THEN 1 ELSE 0)
    OBVIOUS
  <2> QED
    BY <1>0, <2>1, <2>2, TransmitDoes
<1>2. PICK m : m = Len(sent) + 1
  OBVIOUS
<1>3. /\ sent'[m] = n /\ m \notin DOMAIN sent /\ m \in Nat
      /\ DOMAIN sent' = (DOMAIN sent) \cup {m}
      /\ \A i \in DOMAIN sent : sent'[i] = sent[i] /\ i < m /\ i \in Nat
      /\ Sent' = Sent \cup {n}
  BY <1>1, <1>2, SentGrows
<1>4. \A a, b : Late(a, b)' <=> Late(a, b) \/ (b = n /\ n < a /\ a \in Sent)
  BY <1>1, LateGrows
<1>5. Sendable' = Sendable /\ held = {}
  BY <1>1 DEF Sendable, Generated, PlaceInv
<1>6. \A a, b : Swapped(a, b)' <=> Swapped(a, b)
  BY <1>1, <1>5 DEF Swapped
<1>7. /\ n \in Sent /\ Sent' = Sent
      /\ Len(sent) \in DOMAIN sent /\ sent[Len(sent)] = n
      /\ \A i \in DOMAIN sent : i <= Len(sent)
  <2>1. n \in Sent /\ sent # <<>> /\ sent[Len(sent)] = n
    BY <1>0, <1>1, SendingNow
  <2>2. Len(sent) \in Nat /\ DOMAIN sent = 1..Len(sent) /\ Len(sent) # 0
    BY <2>1, EmptySeq, LenProperties DEF TypeOK
  <2> QED
    BY <2>1, <2>2, <1>3
<1>8. Rest = Tail(batch) /\ Rest' = Rest /\ Len(batch') # 2
  <2>1. Len(Tail(batch)) <= 1 /\ Len(Tail(batch)) \in Nat
    BY <1>1, HeadApart, BatchParts, EmptySeq DEF Accounted
  <2>2. Len(Tail(batch)) # 2
    BY <2>1
  <2> QED
    BY <1>1, <2>2 DEF Rest
<1>9. /\ \A a, b \in Sent : Late(a, b) => Swapped(a, b)
      /\ Together /\ HeldIsLast /\ RestInOrder /\ SwapsCounted
      /\ Cardinality(LatePairs) <= summary.reorder + swaps
  BY <1>1 DEF OrderInv
<1>10. \A a, b : Late(a, b)' <=> Late(a, b)
  <2>1. ASSUME NEW a \in Sent, n < a PROVE Late(a, n)
    <3>1. PICK i \in DOMAIN sent : sent[i] = a
      BY DEF Sent, ToSet
    <3>2. i # Len(sent)
      <4>1. a # n
        BY <2>1, SimulatorAssumption, <1>1 DEF Numbers
      <4> QED
        BY <4>1, <3>1, <1>7
    <3>3. i < Len(sent)
      BY <3>1, <3>2, <1>3, <1>7
    <3> QED
      BY <3>1, <3>3, <2>1, <1>7 DEF Late
  <2> QED
    BY <2>1, <1>4
<1>11. LatePairs' = LatePairs
  BY <1>7, <1>10 DEF LatePairs
<1>12. Together'
  <2> SUFFICES ASSUME NEW i, NEW j, NEW k,
                      i \in DOMAIN sent', j \in DOMAIN sent', k \in DOMAIN sent',
                      i < k, k < j, sent'[i] = sent'[j]
               PROVE  sent'[k] = sent'[i]
    BY DEF Together
  <2>1. i # m /\ k # m
    BY <1>3
  <2>2. i \in DOMAIN sent /\ k \in DOMAIN sent /\ sent'[i] = sent[i]
        /\ sent'[k] = sent[k]
    BY <2>1, <1>3
  <2>3. CASE j = m
    <3>1. sent[i] = n
      BY <2>2, <2>3, <1>3
    <3>2. k = Len(sent) \/ k < Len(sent)
      BY <2>2, <1>3, <1>7
    <3> QED
      BY <3>1, <3>2, <2>2, <1>7, <1>9 DEF Together
  <2>4. CASE j \in DOMAIN sent
    <3>1. sent[i] = sent[j]
      BY <2>2, <2>4, <1>3
    <3> QED
      BY <3>1, <2>2, <2>4, <1>9 DEF Together
  <2> QED
    BY <2>3, <2>4, <1>3
<1>13. SwapsCounted' /\ Cardinality(LatePairs') <= summary'.reorder + swaps'
  BY <1>1, <1>8, <1>9, <1>11 DEF SwapsCounted
<1>14. HeldIsLast'
  BY <1>1, <1>5 DEF HeldIsLast
<1>15. RestInOrder'
  BY <1>1, <1>6, <1>7, <1>8, <1>9 DEF RestInOrder
<1>16. \A a, b \in Sent' : Late(a, b)' => Swapped(a, b)'
  BY <1>6, <1>7, <1>9, <1>10
<1> QED
  BY <1>12, <1>13, <1>14, <1>15, <1>16 DEF OrderInv

\* The packets go on leaving in order.
LEMMA OrderStep ==
  ASSUME TypeOK, PlaceInv, Accounted, OrderInv, [Next]_vars
  PROVE  OrderInv'
<1>1. CASE Quiet
  <2>1. /\ UNCHANGED <<config, sent, held, batch, swaps, summary>>
        /\ pc # "failed"
        /\ pc' = "failed" \/ (pc # "copy" /\ pc' # "copy")
    BY <1>1, QuietDoes DEF Final
  <2>2. pc' # "failed" => Rest' = Rest
    BY <2>1 DEF Rest
  <2> QED
    BY <2>1, <2>2, OrderFrame
<1>2. CASE StartDelay
  <2>1. /\ UNCHANGED <<config, sent, held, batch, swaps>>
        /\ summary'.generated = summary.generated
        /\ summary'.reorder = summary.reorder
        /\ pc = "select" /\ pc' = "delay"
    BY <1>2, DelayDoes
  <2>2. Rest' = Rest
    BY <2>1 DEF Rest
  <2> QED
    BY <2>1, <2>2, OrderFrame
<1>3. CASE RequestStop \/ Terminated \/ UNCHANGED vars
  <2>1. UNCHANGED <<pc, config, sent, held, batch, swaps, summary>>
    BY <1>3, StopDoes
  <2>2. Rest' = Rest
    BY <2>1 DEF Rest
  <2> QED
    BY <2>1, <2>2, OrderFrame
<1>4. CASE Drop \/ Swap \/ Hold \/ Pass
  BY <1>4, OrderGenerates
<1> QED
  BY <1>1, <1>2, <1>3, <1>4, OrderSends, OrderCopies, OrderCounts, OrderFinishes,
     StepCases

\* Nothing has left.
LEMMA OrderStarts ==
  ASSUME Init
  PROVE  OrderInv
<1>1. /\ pc = "loop" /\ held = {} /\ batch = <<>> /\ sent = <<>> /\ swaps = 0
      /\ summary.reorder = 0
  BY DEF Init
<1>2. /\ Sent = {} /\ LatePairs = {} /\ DOMAIN sent = {}
      /\ Rest = <<>> /\ ToSet(Rest) = {} /\ Len(batch) = 0
  BY <1>1, ShortSequences DEF Sent, LatePairs, Rest
<1>3. Cardinality(LatePairs) = 0
  BY <1>2, FS_EmptySet
<1>4. Together /\ HeldIsLast /\ RestInOrder
  BY <1>1, <1>2 DEF Together, HeldIsLast, RestInOrder
<1>5. SwapsCounted /\ Cardinality(LatePairs) <= summary.reorder + swaps
  <2>1. 0 = 0 + 0 /\ 0 <= 0 + 0
    OBVIOUS
  <2> QED
    BY <1>1, <1>3, <2>1 DEF SwapsCounted
<1> QED
  BY <1>2, <1>4, <1>5 DEF OrderInv

\* The packets leave in order but for swaps of a selected packet with the next
\* one, swaps do not overlap, and the reorder counter counts them.
THEOREM OrderProved == SafeSpec => []OnlyAdjacentSwaps
<1>1. TypeOK /\ PlaceInv /\ Accounted /\ OrderInv => OnlyAdjacentSwaps
  <2> SUFFICES ASSUME TypeOK, PlaceInv, Accounted, OrderInv
               PROVE  OnlyAdjacentSwaps
    OBVIOUS
  <2> DEFINE after(n) == {m \in Sendable : m > n}
             late_pairs == {ij \in (DOMAIN sent) \X (DOMAIN sent) :
                              ij[1] < ij[2] /\ sent[ij[1]] > sent[ij[2]]}
             swapped == {<<sent[ij[1]], sent[ij[2]]>> : ij \in late_pairs}
  <2>1. /\ Sendable \subseteq Int
        /\ \A i \in DOMAIN sent : i \in Nat /\ sent[i] \in Int
    <3>1. summary.generated \in Nat
      BY TotalsFields DEF TypeOK
    <3>2. /\ sent \in Seq(Numbers) /\ Len(sent) \in Nat
          /\ DOMAIN sent = 1..Len(sent)
      BY LenProperties DEF TypeOK, Numbers
    <3>3. \A i \in DOMAIN sent : i \in Nat /\ sent[i] \in Numbers
      BY <3>2, ElementOfSeq
    <3> QED
      BY <3>1, <3>3, SimulatorAssumption DEF Sendable, Generated, Numbers
  <2>2. swapped = LatePairs
    <3>1. ASSUME NEW i \in DOMAIN sent, NEW j \in DOMAIN sent,
                 i < j, sent[i] > sent[j]
          PROVE  <<sent[i], sent[j]>> \in LatePairs
      <4>1. sent[i] \in Sent /\ sent[j] \in Sent /\ sent[j] < sent[i]
        BY <3>1, <2>1 DEF Sent, ToSet
      <4>2. Late(sent[i], sent[j])
        BY <3>1, <4>1 DEF Late
      <4> QED
        BY <4>1, <4>2 DEF LatePairs
    <3>2. \A ij \in late_pairs : <<sent[ij[1]], sent[ij[2]]>> \in LatePairs
      BY <3>1
    <3>3. ASSUME NEW ab \in LatePairs PROVE ab \in swapped
      <4>1. PICK i, j \in DOMAIN sent :
              i < j /\ sent[i] = ab[1] /\ sent[j] = ab[2] /\ ab[2] < ab[1]
        BY DEF LatePairs, Late
      <4>2. ab = <<sent[i], sent[j]>>
        BY <4>1 DEF LatePairs
      <4>3. <<i, j>> \in late_pairs
        BY <4>1, <2>1
      <4>4. <<i, j>>[1] = i /\ <<i, j>>[2] = j
        OBVIOUS
      <4> HIDE DEF late_pairs
      <4> QED
        BY <4>2, <4>3, <4>4
    <3> QED
      BY <3>2, <3>3
  <2>3. \A ab \in LatePairs : /\ Late(ab[1], ab[2]) /\ Swapped(ab[1], ab[2])
                              /\ ab[1] \in Sent /\ ab[2] \in Sent
                              /\ ab = <<ab[1], ab[2]>>
    BY DEF LatePairs, OrderInv
  <2>4. ASSUME NEW a, NEW b, Swapped(a, b)
        PROVE  Matches(config.reorder, b) /\ a = Min(after(b))
    <3>1. /\ Matches(config.reorder, b) /\ a \in after(b)
          /\ \A m \in after(b) : a <= m
      BY <2>1, <2>4 DEF Swapped
    <3>2. \A x \in after(b) : (\A m \in after(b) : x <= m) => x = a
      <4> SUFFICES ASSUME NEW x \in after(b), \A m \in after(b) : x <= m
                   PROVE  x = a
        OBVIOUS
      <4>1. x <= a /\ a <= x /\ x \in Int /\ a \in Int
        BY <3>1, <2>1
      <4> QED
        BY <4>1
    <3> HIDE DEF after
    <3>3. a = CHOOSE x \in after(b) : \A m \in after(b) : x <= m
      BY <3>1, <3>2
    <3> QED
      BY <3>1, <3>3 DEF Min
  <2>5. \A ab, cd \in LatePairs :
          ab # cd => {ab[1], ab[2]} \cap {cd[1], cd[2]} = {}
    <3> SUFFICES ASSUME NEW ab \in LatePairs, NEW cd \in LatePairs, ab # cd
                 PROVE  {ab[1], ab[2]} \cap {cd[1], cd[2]} = {}
      OBVIOUS
    <3>1. /\ Swapped(ab[1], ab[2]) /\ Swapped(cd[1], cd[2])
          /\ ab = <<ab[1], ab[2]>> /\ cd = <<cd[1], cd[2]>>
          /\ Late(ab[1], ab[2]) /\ Late(cd[1], cd[2])
      BY <2>3
    <3>2. ab[1] # cd[1]
      <4>1. ab[1] = cd[1] => ab[2] = cd[2]
        BY <3>1, SwappedOnce
      <4> QED
        BY <4>1, <3>1
    <3>3. ab[2] # cd[2]
      <4>1. ab[2] = cd[2] => ab[1] = cd[1]
        BY <3>1, SwappedOnce
      <4> QED
        BY <4>1, <3>1
    <3>4. ASSUME NEW a, NEW b, NEW c, Late(a, b), Late(c, a) PROVE FALSE
      <4>1. PICK i, j \in DOMAIN sent : i < j /\ sent[i] = a /\ sent[j] = b /\ b < a
        BY <3>4 DEF Late
      <4>2. PICK k, l \in DOMAIN sent : k < l /\ sent[k] = c /\ sent[l] = a /\ a < c
        BY <3>4 DEF Late
      <4>3. a \in Sent /\ b \in Sent /\ c \in Sent
        BY <4>1, <4>2 DEF Sent, ToSet
      <4>4. a \in Int /\ b \in Int /\ c \in Int
        BY <2>1, <4>1, <4>2
      <4>5. k < i
        <5>1. k # i
          BY <4>1, <4>2, <4>4
        <5>2. ~(i < k)
          <6>1. i < k => sent[k] = a
            BY <4>1, <4>2 DEF OrderInv, Together
          <6> QED
            BY <6>1, <4>2, <4>4
        <5> QED
          BY <5>1, <5>2, <2>1
      <4>6. k < j /\ b < c
        BY <4>1, <4>2, <4>4, <4>5, <2>1
      <4>7. Late(c, b)
        BY <4>1, <4>2, <4>6 DEF Late
      <4>8. Swapped(a, b) /\ Swapped(c, a) /\ Swapped(c, b)
        BY <3>4, <4>3, <4>7 DEF OrderInv
      <4> QED
        BY <4>8, SwappedOnce
    <3>5. ab[1] # cd[2] /\ ab[2] # cd[1]
      BY <3>1, <3>4
    <3> QED
      BY <3>2, <3>3, <3>5
  <2>6. summary.reorder + swaps >= Cardinality(LatePairs)
    <3>1. /\ summary.reorder \in Nat /\ swaps \in {0, 1}
          /\ Cardinality(LatePairs) \in Nat
          /\ Cardinality(LatePairs) <= summary.reorder + swaps
      BY LateFinite, TotalsFields DEF TypeOK, OrderInv
    <3> QED
      BY <3>1
  <2>7. pc \in {"loop", "wait"} => summary.reorder = Cardinality(LatePairs)
    <3> SUFFICES ASSUME pc \in {"loop", "wait"}
                 PROVE  summary.reorder = Cardinality(LatePairs)
      OBVIOUS
    <3>1. swaps = 0 /\ SwapsCounted
      BY DEF PlaceInv, Between, OrderInv
    <3>2. Cardinality(LatePairs) = summary.reorder + 0 /\ summary.reorder \in Nat
      BY <3>1, TotalsFields DEF SwapsCounted, TypeOK
    <3> QED
      BY <3>2
  <2>8. \A ab \in LatePairs : /\ Matches(config.reorder, ab[2])
                              /\ ab[1] = Min(after(ab[2]))
    BY <2>3, <2>4
  <2> HIDE DEF swapped, after
  <2>9. /\ \A ab \in swapped : /\ Matches(config.reorder, ab[2])
                               /\ ab[1] = Min(after(ab[2]))
        /\ \A ab, cd \in swapped :
             ab # cd => {ab[1], ab[2]} \cap {cd[1], cd[2]} = {}
        /\ summary.reorder + swaps >= Cardinality(swapped)
        /\ pc \in {"loop", "wait"} => summary.reorder = Cardinality(swapped)
    BY <2>2, <2>5, <2>6, <2>7, <2>8
  <2> QED
    BY <2>9 DEF OnlyAdjacentSwaps, swapped, after
<1> QED
  BY <1>1, SimulatorTyping, AccountedStarts, AccountedStep, OrderStarts, OrderStep,
     PTL DEF SafeSpec
=============================================================================
