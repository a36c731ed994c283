---------------------------- MODULE RuntimeProofs ----------------------------
(***************************************************************************)
(* Proofs about EpollReceiver, for every set of listeners, every drain     *)
(* limit and any number of datagrams; and about Runtime, which drives the  *)
(* receiver, for every packet limit, every number of workers and every     *)
(* queue capacity.                                                         *)
(***************************************************************************)
EXTENDS Runtime, FiniteSetTheorems, SequenceTheorems, TLAPS
-----------------------------------------------------------------------------
(* The receiver.                                                           *)

\* The metrics of the receiver.
Metrics == [wakeups : Nat, datagrams : Nat, accepted : Nat, rejected : Nat]
-----------------------------------------------------------------------------
\* Counting a datagram keeps the metrics record well typed.
LEMMA CountTyped ==
  ASSUME receiver \in Metrics, NEW valid
  PROVE  Count(valid) \in Metrics
<1>1. /\ receiver.datagrams + 1 \in Nat
      /\ receiver.accepted + 1 \in Nat
      /\ receiver.rejected + 1 \in Nat
  BY DEF Metrics
<1> QED
  BY <1>1 DEF Count, Metrics

\* The events epoll_wait reports are the ready listeners, each once.
LEMMA ReportedOnce ==
  ASSUME NEW es \in Reported, Ready \subseteq Listeners
  PROVE  /\ es \in Seq(Listeners)
         /\ \A i, j \in DOMAIN es : es[i] = es[j] => i = j
         /\ Range(es) = Ready
<1>1. IsFiniteSet(Ready)
  BY ReceiverAssumption, FS_Subset
<1> DEFINE n == Cardinality(Ready)
<1>2. n \in Nat
  BY <1>1, FS_CardinalityType
<1>3. es \in [1..n -> Ready] /\ \A i, j \in 1..n : i # j => es[i] # es[j]
  BY DEF Reported, SetToSeqs
<1>4. es \in Seq(Listeners)
  BY <1>2, <1>3
<1>5. Range(es) = Ready
  <2>1. IsInjective(es)
    BY <1>3 DEF IsInjective
  <2>2. es \in Injection(1..n, Ready)
    BY <1>3, <2>1 DEF Injection
  <2>3. QED
    <3>1. Cardinality(1..n) = n
      BY <1>2, FS_Interval
    <3>2. es \in Surjection(1..n, Ready)
      BY <1>1, <2>2, <3>1, FS_Injection
    <3> QED
      BY <3>2 DEF Surjection, Range
<1> QED
  BY <1>3, <1>4, <1>5

\* The variables keep their types in every step of the receiver.
THEOREM ReceiverTyping == ReceiverSafeSpec => []ReceiverTypeOK
<1>1. ReceiverInit => ReceiverTypeOK
  BY ReceiverAssumption DEF ReceiverInit, ReceiverTypeOK
<1>2. ReceiverTypeOK /\ [ReceiverNext]_receiverVars => ReceiverTypeOK'
  <2> SUFFICES ASSUME ReceiverTypeOK, [ReceiverNext]_receiverVars
               PROVE  ReceiverTypeOK'
    OBVIOUS
  <2> DEFINE Ids == Seq(1..MaxDatagrams)
  <2>a. arrivals \in Seq([listener : Listeners, valid : BOOLEAN])
    BY DEF ReceiverTypeOK
  <2>b. buffer \in [Listeners -> Ids]
    BY DEF ReceiverTypeOK
  <2>c. events \in Seq(Listeners)
    BY DEF ReceiverTypeOK
  <2>d. taken \in 0..MaxPerPoll
    BY DEF ReceiverTypeOK
  <2>e. packets \in Ids /\ delivered \in Ids
    BY DEF ReceiverTypeOK
  <2>f. receiver \in Metrics
    BY DEF ReceiverTypeOK, Metrics
  <2>g. due \in [Listeners -> Nat] /\ share \in [Listeners -> Nat]
    BY DEF ReceiverTypeOK
  <2>1. ASSUME NEW l \in Listeners, NEW valid \in BOOLEAN, Arrive(l, valid)
        PROVE  ReceiverTypeOK'
    <3>1. Len(arrivals) + 1 \in 1..MaxDatagrams
      BY <2>1, <2>a, ReceiverAssumption DEF Arrive
    <3>2. arrivals' \in Seq([listener : Listeners, valid : BOOLEAN])
      BY <2>1, <2>a DEF Arrive
    <3>3. buffer' \in [Listeners -> Ids]
      BY <2>1, <2>b, <3>1 DEF Arrive
    <3> QED
      BY <2>1, <3>2, <3>3 DEF Arrive, ReceiverTypeOK, reading
  <2>2. CASE PollCalled
    BY <2>2 DEF PollCalled, ReceiverTypeOK
  <2>3. CASE WaitReturnsEmpty
    BY <2>3 DEF WaitReturnsEmpty, PollMoves, ReceiverTypeOK
  <2>4. CASE WaitReturnsReady
    <3>1. events' \in Seq(Listeners)
      BY <2>4, ReportedOnce DEF WaitReturnsReady, Ready
    <3>2. due' \in [Listeners -> Nat]
      BY <2>4, <2>b DEF WaitReturnsReady
    <3>3. receiver' \in Metrics
      BY <2>4, <2>f DEF WaitReturnsReady, Metrics
    <3>4. /\ UNCHANGED <<arrivals, buffer, packets, delivered, share>>
          /\ taken' \in 0..MaxPerPoll /\ poll' = "draining"
      BY <2>4, ReceiverAssumption DEF WaitReturnsReady
    <3> QED
      BY <3>1, <3>2, <3>3, <3>4 DEF ReceiverTypeOK, Metrics
  <2>5. CASE ReceiveDatagram
    <3> DEFINE l == Head(events)
               i == Head(buffer[l])
    <3>0. /\ share' = [share EXCEPT ![l] = share[l] + 1]
          /\ receiver' = Count(arrivals[i].valid)
          /\ packets' = Append(packets, i) \/ packets' = packets
      BY <2>5 DEF ReceiveDatagram
    <3>1. l \in Listeners
      BY <2>5, <2>c, HeadTailProperties DEF ReceiveDatagram
    <3>2. i \in 1..MaxDatagrams /\ Tail(buffer[l]) \in Ids
      BY <2>5, <2>b, <3>1, HeadTailProperties DEF ReceiveDatagram
    <3>3. buffer' \in [Listeners -> Ids]
      BY <2>5, <2>b, <3>2 DEF ReceiveDatagram
    <3>4. receiver' \in Metrics
      BY <2>f, <3>0, CountTyped
    <3>5. packets' \in Ids
      <4>1. ASSUME NEW S, NEW q \in Seq(S), NEW e \in S
            PROVE  Append(q, e) \in Seq(S)
        OBVIOUS
      <4> HIDE DEF i
      <4> QED
        BY <2>e, <3>0, <3>2, <4>1
    <3>6. share' \in [Listeners -> Nat]
      BY <2>g, <3>0, <3>1
    <3>7. taken' \in 0..MaxPerPoll
      BY <2>5, <2>d, ReceiverAssumption DEF ReceiveDatagram
    <3>8. UNCHANGED <<arrivals, poll, events, delivered, due>>
      BY <2>5 DEF ReceiveDatagram
    <3> HIDE DEF l, i
    <3> QED
      BY <3>3, <3>4, <3>5, <3>6, <3>7, <3>8 DEF ReceiverTypeOK, Metrics
  <2>6. CASE NextListener
    <3>1. events' \in Seq(Listeners)
      BY <2>6, <2>c, HeadTailProperties DEF NextListener, Rest
    <3>2. /\ UNCHANGED <<arrivals, buffer, poll, packets, receiver,
                         delivered, due, share>>
          /\ taken' \in 0..MaxPerPoll
      BY <2>6, ReceiverAssumption DEF NextListener
    <3> QED
      BY <3>1, <3>2 DEF ReceiverTypeOK
  <2>7. CASE PollReturns
    BY <2>7 DEF PollReturns, PollMoves, ReceiverTypeOK
  <2>8. CASE PollThrows
    BY <2>8 DEF PollThrows, PollMoves, ReceiverTypeOK
  <2>9. CASE PacketsTaken
    BY <2>9, <2>e DEF PacketsTaken, ReceiverTypeOK
  <2>10. CASE UNCHANGED receiverVars
    BY <2>10 DEF receiverVars, reading, ReceiverTypeOK
  <2> QED
    BY <2>1, <2>2, <2>3, <2>4, <2>5, <2>6, <2>7, <2>8, <2>9, <2>10
       DEF ReceiverNext, Network, PollStep
<1> QED
  BY <1>1, <1>2, PTL DEF ReceiverSafeSpec
-----------------------------------------------------------------------------
(* The drain limit.                                                        *)

\* All that a listener was due when epoll_wait returned, up to its share.
Served(l) ==
  due[l] > 0 => share[l] >= (IF due[l] < MaxPerPoll THEN due[l] ELSE MaxPerPoll)

\* While the events are handled, the present listener has had what taken
\* says, the later ones nothing, and those no longer listed have been served.
DrainInv ==
  /\ \A i, j \in DOMAIN events : events[i] = events[j] => i = j
  /\ events # <<>> => share[events[1]] = taken
  /\ \A i \in DOMAIN events : i > 1 => share[events[i]] = 0
  /\ \A l \in Range(events) : share[l] + Len(buffer[l]) >= due[l]
  /\ \A l \in Listeners \ Range(events) : Served(l)

\* The inductive form of SharesAreFair.
SharesInv ==
  /\ \A l \in Listeners : share[l] <= MaxPerPoll
  /\ poll = "waiting" => \A l \in Listeners : due[l] = 0 /\ share[l] = 0
  /\ poll = "draining" => DrainInv
  /\ poll = "returned" => \A l \in Listeners : Served(l)

\* The tail of a sequence holds the same elements, one place earlier.
LEMMA TailShifts ==
  ASSUME NEW S, NEW q \in Seq(S), q # <<>>
  PROVE  /\ Len(q) \in Nat \ {0} /\ Len(Tail(q)) = Len(q) - 1
         /\ DOMAIN Tail(q) = 1..(Len(q) - 1) /\ DOMAIN q = 1..Len(q)
         /\ \A i \in DOMAIN Tail(q) : i + 1 \in DOMAIN q /\ Tail(q)[i] = q[i + 1]
         /\ Head(q) = q[1]
         /\ Range(q) = {Head(q)} \cup Range(Tail(q))
<1>1. /\ Len(q) \in Nat \ {0} /\ Len(Tail(q)) = Len(q) - 1
      /\ DOMAIN Tail(q) = 1..(Len(q) - 1) /\ DOMAIN q = 1..Len(q)
      /\ Tail(q) \in Seq(S)
  BY HeadTailProperties, LenProperties, EmptySeq
<1>2. \A i \in DOMAIN Tail(q) : i + 1 \in DOMAIN q /\ Tail(q)[i] = q[i + 1]
  BY <1>1
<1>3. Head(q) = q[1]
  OBVIOUS
<1>4. \A i \in DOMAIN q : i = 1 \/ i - 1 \in DOMAIN Tail(q)
  BY <1>1
<1>5. \A i \in DOMAIN q : q[i] = Head(q) \/ q[i] \in Range(Tail(q))
  BY <1>1, <1>2, <1>3, <1>4 DEF Range
<1>6. 1 \in DOMAIN q
  BY <1>1
<1> QED
  BY SMTT(60), <1>1, <1>2, <1>3, <1>5, <1>6 DEF Range

\* A step of the receiver keeps the shares as SharesInv says.
LEMMA SharesStep ==
  ASSUME ReceiverTypeOK, SharesInv, [ReceiverNext]_receiverVars
  PROVE  SharesInv'
<1>a. buffer \in [Listeners -> Seq(1..MaxDatagrams)]
  BY DEF ReceiverTypeOK
<1>b. events \in Seq(Listeners)
  BY DEF ReceiverTypeOK
<1>c. taken \in 0..MaxPerPoll /\ MaxPerPoll \in Nat \ {0}
  BY ReceiverAssumption DEF ReceiverTypeOK
<1>d. due \in [Listeners -> Nat] /\ share \in [Listeners -> Nat]
  BY DEF ReceiverTypeOK
<1>e. \A l \in Listeners : Len(buffer[l]) \in Nat /\ due[l] \in Nat /\ share[l] \in Nat
  BY <1>a, <1>d
<1>f. \A l \in Listeners : share[l] <= MaxPerPoll
  BY DEF SharesInv
<1>g. DOMAIN events = 1..Len(events) /\ Len(events) \in Nat
  BY <1>b
<1>h. Range(events) \subseteq Listeners
  BY <1>b, <1>g, ElementOfSeq DEF Range
<1>1. ASSUME NEW l \in Listeners, NEW valid \in BOOLEAN, Arrive(l, valid)
      PROVE  SharesInv'
  <2>1. UNCHANGED <<poll, events, taken, due, share>>
    BY <1>1 DEF Arrive, reading
  <2>2. \A r \in Listeners : Len(buffer'[r]) >= Len(buffer[r])
                             /\ Len(buffer'[r]) \in Nat
    <3>1. Len(arrivals) \in Nat
      BY DEF ReceiverTypeOK
    <3>2. buffer' = [buffer EXCEPT ![l] = Append(buffer[l], Len(arrivals) + 1)]
      BY <1>1 DEF Arrive
    <3>3. Len(Append(buffer[l], Len(arrivals) + 1)) = Len(buffer[l]) + 1
      BY <1>a
    <3>4. \A r \in Listeners : Len(buffer'[r]) = Len(buffer[r]) \/ Len(buffer'[r]) = Len(buffer[r]) + 1
      BY <3>2, <3>3, <1>a
    <3> QED
      BY <3>4, <1>e
  <2>3. \A r \in Range(events) : share[r] + Len(buffer[r]) >= due[r]
                => share[r] + Len(buffer'[r]) >= due[r]
    BY <2>2, <1>e, <1>h
  <2>4. DrainInv => DrainInv'
    BY <2>1, <2>3 DEF DrainInv, Served
  <2> QED
    BY <2>1, <2>4 DEF SharesInv, Served
<1>2. CASE PollCalled
  <2>1. poll' = "waiting" /\ \A l \in Listeners : due'[l] = 0 /\ share'[l] = 0
    BY <1>2 DEF PollCalled
  <2> QED
    BY <2>1, <1>c DEF SharesInv
<1>3. CASE WaitReturnsEmpty
  <2>1. UNCHANGED <<due, share>> /\ poll' = "returned" /\ poll = "waiting"
    BY <1>3 DEF WaitReturnsEmpty, PollMoves
  <2> QED
    BY <2>1, <1>c DEF SharesInv, Served
<1>4. CASE WaitReturnsReady
  <2>1. /\ events' \in Reported /\ taken' = 0 /\ share' = share /\ buffer' = buffer
        /\ due' = [l \in Listeners |-> Len(buffer[l])]
        /\ poll' = "draining" /\ poll = "waiting"
    BY <1>4 DEF WaitReturnsReady
  <2>2. /\ events' \in Seq(Listeners) /\ Range(events') = Ready
        /\ \A i, j \in DOMAIN events' : events'[i] = events'[j] => i = j
    <3>1. Ready \subseteq Listeners
      BY DEF Ready
    <3> QED
      BY <2>1, <3>1, ReportedOnce
  <2>3. \A l \in Listeners : share[l] = 0
    BY <2>1 DEF SharesInv
  <2>4. \A i \in DOMAIN events' : events'[i] \in Listeners
    BY <2>2, ElementOfSeq, LenProperties
  <2>5. events' # <<>> => events'[1] \in Listeners
    <3>1. events' # <<>> => 1 \in 1..Len(events')
      BY <2>2
    <3> QED
      BY <3>1, <2>2, ElementOfSeq
  <2>6. \A l \in Listeners : due'[l] = Len(buffer[l])
    BY <2>1
  <2>7. \A l \in Ready : l \in Listeners
    BY DEF Ready
  <2>8. \A l \in Listeners \ Ready : due'[l] = 0
    BY <2>6, <1>a, EmptySeq DEF Ready
  <2>9. \A l \in Ready : share'[l] + Len(buffer'[l]) >= due'[l]
    <3> SUFFICES ASSUME NEW l \in Ready
                 PROVE  share'[l] + Len(buffer'[l]) >= due'[l]
      OBVIOUS
    <3>1. share'[l] = 0 /\ buffer'[l] = buffer[l] /\ due'[l] = Len(buffer[l])
      BY <2>1, <2>3, <2>6, <2>7
    <3> QED
      BY <3>1, <2>7, <1>e
  <2>10. \A l \in Listeners \ Ready : Served(l)'
    BY <2>8 DEF Served
  <2>11. DrainInv'
    BY <2>1, <2>2, <2>3, <2>4, <2>5, <2>9, <2>10 DEF DrainInv
  <2> QED
    BY <2>1, <2>11, <1>f DEF SharesInv
<1>5. CASE ReceiveDatagram
  <2> DEFINE h == events[1]
  <2>1. /\ poll = "draining" /\ poll' = "draining"
        /\ events # <<>> /\ events' = events /\ due' = due
        /\ taken < MaxPerPoll /\ taken' = taken + 1
    BY <1>5 DEF ReceiveDatagram
  <2>2. DrainInv
    BY <2>1 DEF SharesInv
  <2>3. h = Head(events) /\ 1 \in DOMAIN events
    BY <2>1, <1>b, TailShifts DEF Range
  <2>4. h \in Listeners /\ h \in Range(events)
    BY <2>3, <1>h DEF Range
  <2>5. /\ buffer[h] # <<>>
        /\ buffer' = [buffer EXCEPT ![h] = Tail(buffer[h])]
        /\ share' = [share EXCEPT ![h] = share[h] + 1]
    BY <1>5, <2>3 DEF ReceiveDatagram
  <2> HIDE DEF h
  <2>6. share[h] = taken
    BY <2>1, <2>2 DEF DrainInv, h
  <2>7. /\ share'[h] = taken + 1
        /\ \A l \in Listeners : l # h => share'[l] = share[l]
    BY <2>4, <2>5, <2>6, <1>d
  <2>8. /\ Len(buffer'[h]) = Len(buffer[h]) - 1
        /\ \A l \in Listeners : l # h => buffer'[l] = buffer[l]
    <3>1. buffer[h] \in Seq(1..MaxDatagrams)
      BY <2>4, <1>a
    <3>2. Len(Tail(buffer[h])) = Len(buffer[h]) - 1
      BY <3>1, <2>5, TailShifts
    <3> QED
      BY <3>2, <2>4, <2>5, <1>a
  <2>9. \A l \in Listeners : share'[l] <= MaxPerPoll
    BY <2>1, <2>7, <1>c, <1>f
  <2>10. \A i \in DOMAIN events : i > 1 => events[i] # h
    BY <2>2, <2>3, <1>g DEF DrainInv, h
  <2>11. DrainInv'
    <3>1. \A i, j \in DOMAIN events' : events'[i] = events'[j] => i = j
      BY <2>1, <2>2 DEF DrainInv
    <3>2. share'[events'[1]] = taken'
      BY <2>1, <2>7 DEF h
    <3>3. \A i \in DOMAIN events' : i > 1 => share'[events'[i]] = 0
      <4> SUFFICES ASSUME NEW i \in DOMAIN events, i > 1
                   PROVE  share'[events[i]] = 0
        BY <2>1
      <4>1. events[i] # h /\ events[i] \in Listeners /\ share[events[i]] = 0
        BY <2>2, <2>10, <1>h DEF DrainInv, Range
      <4> QED
        BY <4>1, <2>7
    <3>4. \A l \in Range(events') : share'[l] + Len(buffer'[l]) >= due'[l]
      <4> SUFFICES ASSUME NEW l \in Range(events)
                   PROVE  share'[l] + Len(buffer'[l]) >= due[l]
        BY <2>1
      <4>1. l \in Listeners /\ share[l] + Len(buffer[l]) >= due[l]
        BY <2>2, <1>h DEF DrainInv
      <4>2. CASE l = h
        <5>1. /\ share'[h] = taken + 1 /\ Len(buffer'[h]) = Len(buffer[h]) - 1
              /\ taken + Len(buffer[h]) >= due[h]
          BY <4>1, <4>2, <2>6, <2>7, <2>8
        <5>2. taken \in Nat /\ Len(buffer[h]) \in Nat /\ due[h] \in Nat
          BY <2>4, <1>c, <1>e
        <5>3. \A t, n, d \in Nat : t + n >= d => (t + 1) + (n - 1) >= d
          OBVIOUS
        <5>4. (taken + 1) + (Len(buffer[h]) - 1) >= due[h]
          BY <5>1, <5>2, <5>3
        <5> QED
          BY <4>2, <5>1, <5>4, Zenon
      <4>3. CASE l # h
        BY <4>1, <4>3, <2>7, <2>8
      <4> QED
        BY <4>2, <4>3
    <3>5. \A l \in Listeners \ Range(events') : Served(l)'
      <4> SUFFICES ASSUME NEW l \in Listeners \ Range(events)
                   PROVE  Served(l)'
        BY <2>1
      <4>1. l # h /\ Served(l)
        BY <2>2, <2>4 DEF DrainInv
      <4> QED
        BY <4>1, <2>1, <2>7 DEF Served
    <3> QED
      BY <3>1, <3>2, <3>3, <3>4, <3>5 DEF DrainInv
  <2> QED
    BY <2>1, <2>9, <2>11 DEF SharesInv
<1>6. CASE NextListener
  <2> DEFINE h == Head(events)
  <2>1. /\ poll = "draining" /\ poll' = "draining"
        /\ events # <<>> /\ events' = Tail(events) /\ taken' = 0
        /\ taken = MaxPerPoll \/ buffer[h] = <<>>
        /\ UNCHANGED <<buffer, due, share>>
    BY <1>6 DEF NextListener, Rest
  <2>2. DrainInv
    BY <2>1 DEF SharesInv
  <2>3. /\ DOMAIN events' = 1..(Len(events) - 1)
        /\ \A i \in DOMAIN events' : i + 1 \in DOMAIN events /\ events'[i] = events[i + 1]
        /\ h = events[1] /\ Range(events) = {h} \cup Range(events')
        /\ events' \in Seq(Listeners)
    BY <2>1, <1>b, TailShifts, HeadTailProperties
  <2> HIDE DEF h
  <2>4. h \in Listeners /\ Served(h)
    <3>1. h \in Listeners /\ share[h] = taken /\ share[h] + Len(buffer[h]) >= due[h]
      BY <2>1, <2>2, <2>3, <1>h DEF DrainInv
    <3>2. buffer[h] = <<>> => share[h] >= due[h]
      BY <3>1, <1>e, EmptySeq
    <3> QED
      BY <3>1, <3>2, <2>1, <1>c, <1>e DEF Served
  <2>5. \A i, j \in DOMAIN events' : events'[i] = events'[j] => i = j
    <3> SUFFICES ASSUME NEW i \in DOMAIN events', NEW j \in DOMAIN events',
                        events'[i] = events'[j]
                 PROVE  i = j
      OBVIOUS
    <3>1. i + 1 = j + 1
      BY <2>2, <2>3 DEF DrainInv
    <3> QED
      BY <3>1, <2>3, <1>g
  <2>6. \A i \in DOMAIN events' : share[events'[i]] = 0
    <3> SUFFICES ASSUME NEW i \in DOMAIN events'
                 PROVE  share[events'[i]] = 0
      OBVIOUS
    <3>1. i + 1 \in DOMAIN events /\ i + 1 > 1 /\ events'[i] = events[i + 1]
      BY <2>3, <1>g
    <3> QED
      BY <3>1, <2>2 DEF DrainInv
  <2>7. events' # <<>> => 1 \in DOMAIN events'
    BY <2>3
  <2>8. DrainInv'
    <3>1. events' # <<>> => share[events'[1]] = 0
      BY <2>6, <2>7
    <3>2. \A l \in Range(events') : share[l] + Len(buffer[l]) >= due[l]
      BY <2>2, <2>3 DEF DrainInv
    <3>3. \A l \in Listeners \ Range(events') : Served(l)
      BY <2>2, <2>3, <2>4 DEF DrainInv
    <3> QED
      BY <3>1, <3>2, <3>3, <2>1, <2>5, <2>6 DEF DrainInv, Served
  <2> QED
    BY <2>1, <2>8 DEF SharesInv
<1>7. CASE PollReturns
  <2>1. /\ poll = "draining" /\ poll' = "returned" /\ events = <<>>
        /\ UNCHANGED <<due, share>>
    BY <1>7 DEF PollReturns, PollMoves
  <2>2. Range(events) = {}
    BY <2>1 DEF Range
  <2> QED
    BY <2>1, <2>2 DEF SharesInv, DrainInv, Served
<1>8. CASE PollThrows
  <2>1. poll' = "thrown" /\ UNCHANGED share
    BY <1>8 DEF PollThrows, PollMoves
  <2> QED
    BY <2>1 DEF SharesInv
<1>9. CASE PacketsTaken
  <2>1. poll' = "idle" /\ UNCHANGED share
    BY <1>9 DEF PacketsTaken
  <2> QED
    BY <2>1 DEF SharesInv
<1>10. CASE UNCHANGED receiverVars
  BY <1>10 DEF receiverVars, reading, SharesInv, DrainInv, Served
<1> QED
  BY <1>1, <1>2, <1>3, <1>4, <1>5, <1>6, <1>7, <1>8, <1>9, <1>10
     DEF ReceiverNext, Network, PollStep

\* A poll that returns has given every listener that was ready its share,
\* and no listener more: epoll_receiver.cpp's drain limit.
THEOREM DrainIsFair == ReceiverSafeSpec => []SharesAreFair
<1>1. ReceiverInit => SharesInv
  BY ReceiverAssumption DEF ReceiverInit, SharesInv
<1>2. SharesInv => SharesAreFair
  BY DEF SharesInv, SharesAreFair, Served
<1> QED
  BY <1>1, <1>2, SharesStep, ReceiverTyping, PTL DEF ReceiverSafeSpec
-----------------------------------------------------------------------------
(* The order of a listener's datagrams.                                    *)

\* InOrder for any record of the arrivals.
Ordered(ids, arr) ==
  \A a, b \in DOMAIN ids :
    a < b /\ arr[ids[a]].listener = arr[ids[b]].listener => ids[a] < ids[b]

\* Every identifier of xs came before those of ys from the same listener.
Precede(xs, ys, arr) ==
  \A x \in xs, y \in ys : arr[x].listener = arr[y].listener => x < y

\* ListenerOrderKept in parts, of given arrivals, buffers and packets.
Kept(arr, buf, out) ==
  /\ Ordered(out, arr)
  /\ \A l \in Listeners : Ordered(buf[l], arr)
  /\ \A l \in Listeners : Precede(Range(out), Range(buf[l]), arr)
  /\ \A l \in Listeners : \A i \in Range(buf[l]) :
       i \in DOMAIN arr /\ arr[i].listener = l
  /\ Range(out) \subseteq DOMAIN arr
  /\ \A i \in DOMAIN arr :
       i \in Range(out) <=> arr[i].valid /\ i \notin Range(buf[arr[i].listener])

\* Append adds one element to the range, at the end.
LEMMA AppendAdds ==
  ASSUME NEW S, NEW q \in Seq(S), NEW e \in S
  PROVE  /\ Append(q, e) \in Seq(S)
         /\ DOMAIN q = 1..Len(q) /\ Len(q) \in Nat
         /\ DOMAIN Append(q, e) = 1..(Len(q) + 1)
         /\ \A i \in DOMAIN q : Append(q, e)[i] = q[i]
         /\ Append(q, e)[Len(q) + 1] = e
         /\ Range(Append(q, e)) = Range(q) \cup {e}
<1>1. /\ Append(q, e) \in Seq(S)
      /\ DOMAIN q = 1..Len(q) /\ Len(q) \in Nat
      /\ DOMAIN Append(q, e) = 1..(Len(q) + 1)
      /\ \A i \in DOMAIN q : Append(q, e)[i] = q[i]
      /\ Append(q, e)[Len(q) + 1] = e
  OBVIOUS
<1>2. \A i \in DOMAIN Append(q, e) : i \in DOMAIN q \/ i = Len(q) + 1
  BY <1>1
<1>3. DOMAIN q \subseteq DOMAIN Append(q, e) /\ Len(q) + 1 \in DOMAIN Append(q, e)
  BY <1>1
<1> DEFINE p == Append(q, e)
           n == Len(q) + 1
<1> HIDE DEF p, n
<1>4. Range(p) = Range(q) \cup {e}
  BY <1>1, <1>2, <1>3 DEF Range, p, n
<1> QED
  BY <1>1, <1>4 DEF p

\* AppendAdds for sequences of identifiers.
LEMMA AppendNat ==
  \A q \in Seq(Nat), e \in Nat :
    /\ DOMAIN q = 1..Len(q) /\ Len(q) \in Nat
    /\ DOMAIN Append(q, e) = 1..(Len(q) + 1)
    /\ \A i \in DOMAIN q : Append(q, e)[i] = q[i]
    /\ Append(q, e)[Len(q) + 1] = e
    /\ Range(Append(q, e)) = Range(q) \cup {e}
  BY AppendAdds

\* A concatenation holds the elements of both sequences, and is in order when
\* both are and the first precedes the second.
LEMMA ConcatOrdered ==
  ASSUME NEW arr, NEW p \in Seq(Nat), NEW q \in Seq(Nat)
  PROVE  /\ Range(p \o q) = Range(p) \cup Range(q)
         /\ Ordered(p \o q, arr) <=>
              /\ Ordered(p, arr) /\ Ordered(q, arr)
              /\ Precede(Range(p), Range(q), arr)
<1> DEFINE m == Len(p)
           n == Len(q)
           pq == p \o q
<1>1. /\ m \in Nat /\ n \in Nat /\ DOMAIN p = 1..m /\ DOMAIN q = 1..n
      /\ DOMAIN pq = 1..(m + n)
      /\ \A i \in 1..m : pq[i] = p[i]
      /\ \A i \in 1..n : pq[m + i] = q[i]
  OBVIOUS
<1> HIDE DEF m, n, pq
<1>2. \A i \in 1..(m + n) : i \in 1..m \/ (i - m \in 1..n /\ i = m + (i - m))
  BY <1>1
<1>3. \A i \in 1..n : m + i \in 1..(m + n)
  BY <1>1
<1>4. \A i \in 1..m : i \in 1..(m + n)
  BY <1>1
<1>5. Range(pq) = Range(p) \cup Range(q)
  <2>1. \A i \in DOMAIN pq : pq[i] \in Range(p) \cup Range(q)
    <3> SUFFICES ASSUME NEW i \in 1..(m + n)
                 PROVE  pq[i] \in Range(p) \cup Range(q)
      BY <1>1
    <3>1. CASE i \in 1..m
      BY <3>1, <1>1 DEF Range
    <3>2. CASE i - m \in 1..n /\ i = m + (i - m)
      <4>1. pq[i] = q[i - m]
        BY <3>2, <1>1
      <4> QED
        BY <4>1, <3>2, <1>1 DEF Range
    <3> QED
      BY <3>1, <3>2, <1>2
  <2>2. \A i \in DOMAIN p : p[i] \in Range(pq)
    BY <1>1, <1>4 DEF Range
  <2>3. \A i \in DOMAIN q : q[i] \in Range(pq)
    BY <1>1, <1>3 DEF Range
  <2> QED
    BY <2>1, <2>2, <2>3 DEF Range
<1>6. ASSUME Ordered(pq, arr)
      PROVE  Ordered(p, arr) /\ Ordered(q, arr) /\ Precede(Range(p), Range(q), arr)
  <2>1. Ordered(p, arr)
    BY <1>6, <1>1, <1>4 DEF Ordered
  <2>2. Ordered(q, arr)
    <3> SUFFICES ASSUME NEW a \in 1..n, NEW b \in 1..n, a < b,
                        arr[q[a]].listener = arr[q[b]].listener
                 PROVE  q[a] < q[b]
      BY <1>1 DEF Ordered
    <3>1. m + a < m + b
      BY <1>1
    <3> QED
      <4>1. m + a \in DOMAIN pq /\ m + b \in DOMAIN pq
        BY <1>1, <1>3
      <4>2. pq[m + a] = q[a] /\ pq[m + b] = q[b]
        BY <1>1
      <4> QED
        BY <4>1, <4>2, <3>1, <1>6 DEF Ordered
  <2>3. Precede(Range(p), Range(q), arr)
    <3> SUFFICES ASSUME NEW a \in 1..m, NEW b \in 1..n,
                        arr[p[a]].listener = arr[q[b]].listener
                 PROVE  p[a] < q[b]
      BY <1>1 DEF Precede, Range
    <3>1. a < m + b
      BY <1>1
    <3> QED
      BY <3>1, <1>6, <1>1, <1>3, <1>4 DEF Ordered
  <2> QED
    BY <2>1, <2>2, <2>3
<1>7. ASSUME Ordered(p, arr), Ordered(q, arr), Precede(Range(p), Range(q), arr)
      PROVE  Ordered(pq, arr)
  <2> SUFFICES ASSUME NEW a \in 1..(m + n), NEW b \in 1..(m + n), a < b,
                      arr[pq[a]].listener = arr[pq[b]].listener
               PROVE  pq[a] < pq[b]
    BY <1>1 DEF Ordered
  <2>1. CASE b \in 1..m
    <3>1. a \in 1..m
      BY <2>1, <1>1
    <3> QED
      BY <3>1, <2>1, <1>7, <1>1 DEF Ordered
  <2>2. CASE b - m \in 1..n /\ b = m + (b - m)
    <3>1. pq[b] = q[b - m]
      BY <2>2, <1>1
    <3>2. CASE a \in 1..m
      <4>1. pq[a] = p[a] /\ p[a] \in Range(p) /\ q[b - m] \in Range(q)
        BY <3>2, <2>2, <1>1 DEF Range
      <4> QED
        BY <4>1, <3>1, <1>7 DEF Precede
    <3>3. CASE a - m \in 1..n /\ a = m + (a - m)
      <4>1. pq[a] = q[a - m] /\ a - m < b - m
        <5>1. pq[m + (a - m)] = q[a - m]
          BY <3>3, <1>1
        <5>2. a - m < b - m
          BY <1>1
        <5> QED
          BY <5>1, <5>2, <3>3
      <4> QED
        <5>1. q[a - m] < q[b - m]
          <6>1. arr[q[a - m]].listener = arr[q[b - m]].listener
            BY <4>1, <3>1
          <6> QED
            BY <6>1, <4>1, <3>3, <2>2, <1>7, <1>1 DEF Ordered
        <5> QED
          BY <5>1, <4>1, <3>1
    <3> QED
      BY <3>2, <3>3, <1>2
  <2> QED
    BY <2>1, <2>2, <1>2
<1> QED
  BY <1>5, <1>6, <1>7 DEF pq

\* The packets handed out, and the contents of every buffer, are sequences of
\* identifiers.
LEMMA OutTyped ==
  ASSUME ReceiverTypeOK
  PROVE  /\ Out \in Seq(1..MaxDatagrams) /\ Out \in Seq(Nat)
         /\ \A l \in Listeners : buffer[l] \in Seq(Nat)
         /\ arrivals \in Seq([listener : Listeners, valid : BOOLEAN])
<1>1. 1..MaxDatagrams \subseteq Nat
  OBVIOUS
<1>2. delivered \in Seq(1..MaxDatagrams) /\ packets \in Seq(1..MaxDatagrams)
  BY DEF ReceiverTypeOK
<1>3. Out \in Seq(1..MaxDatagrams)
  BY <1>2, ConcatProperties DEF Out
<1>4. \A l \in Listeners : buffer[l] \in Seq(1..MaxDatagrams)
  BY DEF ReceiverTypeOK
<1> QED
  BY <1>1, <1>3, <1>4, SeqMonotonic DEF ReceiverTypeOK

\* Kept says what ListenerOrderKept says.
LEMMA KeptMeans ==
  ReceiverTypeOK => (ListenerOrderKept <=> Kept(arrivals, buffer, Out))
<1> SUFFICES ASSUME ReceiverTypeOK
             PROVE  ListenerOrderKept <=> Kept(arrivals, buffer, Out)
  OBVIOUS
<1>1. \A ids : InOrder(ids) <=> Ordered(ids, arrivals)
  BY DEF InOrder, Ordered
<1>2. \A l \in Listeners : InOrder(Out \o buffer[l]) <=>
        /\ Ordered(Out, arrivals) /\ Ordered(buffer[l], arrivals)
        /\ Precede(Range(Out), Range(buffer[l]), arrivals)
  BY <1>1, OutTyped, ConcatOrdered
<1>3. Listeners # {}
  BY ReceiverAssumption
<1> QED
  BY <1>2, <1>3 DEF ListenerOrderKept, Kept

\* A datagram that arrives is the last of its listener.
LEMMA ArrivalKeeps ==
  ASSUME NEW arr \in Seq([listener : Listeners, valid : BOOLEAN]),
         NEW buf \in [Listeners -> Seq(Nat)], NEW out \in Seq(Nat),
         NEW l \in Listeners, NEW v \in BOOLEAN,
         Kept(arr, buf, out)
  PROVE  Kept(Append(arr, [listener |-> l, valid |-> v]),
              [buf EXCEPT ![l] = Append(buf[l], Len(arr) + 1)], out)
<1> DEFINE r == [listener |-> l, valid |-> v]
           n == Len(arr) + 1
           arr2 == Append(arr, r)
           last == Append(buf[l], n)
           buf2 == [buf EXCEPT ![l] = last]
<1>1. /\ Len(arr) \in Nat /\ DOMAIN arr = 1..Len(arr) /\ DOMAIN arr2 = 1..n
      /\ \A i \in DOMAIN arr : arr2[i] = arr[i]
      /\ arr2[n] = r
  <2>1. r \in [listener : Listeners, valid : BOOLEAN]
    OBVIOUS
  <2> QED
    BY <2>1, AppendAdds
<1>2. /\ n \in Nat /\ n \notin DOMAIN arr /\ n \in DOMAIN arr2
      /\ \A i \in DOMAIN arr : i < n /\ i \in DOMAIN arr2
      /\ \A i \in DOMAIN arr2 : i = n \/ i \in DOMAIN arr
  BY <1>1
<1>3. r.listener = l /\ r.valid = v
  OBVIOUS
<1>4. /\ DOMAIN buf[l] = 1..Len(buf[l]) /\ Len(buf[l]) \in Nat
      /\ DOMAIN last = 1..(Len(buf[l]) + 1)
      /\ \A i \in DOMAIN buf[l] : last[i] = buf[l][i]
      /\ last[Len(buf[l]) + 1] = n
      /\ Range(last) = Range(buf[l]) \cup {n}
  <2>2. buf[l] \in Seq(Nat) /\ n \in Nat
    BY <1>2
  <2> HIDE DEF n
  <2> QED
    BY <2>2, AppendNat
<1>5. /\ buf2[l] = last
      /\ \A k \in Listeners : k # l => buf2[k] = buf[k]
  OBVIOUS
<1>6. /\ \A i \in DOMAIN out : out[i] \in DOMAIN arr
      /\ \A k \in Listeners : \A i \in DOMAIN buf[k] : buf[k][i] \in DOMAIN arr
  BY DEF Kept, Range
<1> HIDE DEF r, n, arr2, last, buf2
<1>7. Ordered(out, arr2)
  BY <1>1, <1>6 DEF Kept, Ordered
<1>8. \A k \in Listeners : Ordered(buf[k], arr2)
  BY <1>1, <1>6 DEF Kept, Ordered
<1>9. Ordered(last, arr2)
  <2> SUFFICES ASSUME NEW a \in DOMAIN last, NEW b \in DOMAIN last, a < b,
                      arr2[last[a]].listener = arr2[last[b]].listener
               PROVE  last[a] < last[b]
    BY DEF Ordered
  <2>1. a \in DOMAIN buf[l]
    BY <1>4
  <2>2. CASE b \in DOMAIN buf[l]
    BY <2>1, <2>2, <1>4, <1>8 DEF Ordered
  <2>3. CASE b = Len(buf[l]) + 1
    BY <2>1, <2>3, <1>2, <1>4, <1>6
  <2> QED
    BY <2>2, <2>3, <1>4
<1>10. \A k \in Listeners : Precede(Range(out), Range(buf2[k]), arr2)
  <2> SUFFICES ASSUME NEW k \in Listeners, NEW x \in Range(out),
                      NEW y \in Range(buf2[k]),
                      arr2[x].listener = arr2[y].listener
               PROVE  x < y
    BY DEF Precede
  <2>1. x \in DOMAIN arr
    BY DEF Kept
  <2>2. CASE y = n
    BY <2>1, <2>2, <1>2
  <2>3. CASE y \in Range(buf[k])
    <3>1. y \in DOMAIN arr
      BY <2>3 DEF Kept
    <3> QED
      BY <2>1, <2>3, <3>1, <1>1 DEF Kept, Precede
  <2> QED
    BY <2>2, <2>3, <1>4, <1>5
<1>11. \A k \in Listeners : \A i \in Range(buf2[k]) :
         i \in DOMAIN arr2 /\ arr2[i].listener = k
  <2> SUFFICES ASSUME NEW k \in Listeners, NEW i \in Range(buf2[k])
               PROVE  i \in DOMAIN arr2 /\ arr2[i].listener = k
    OBVIOUS
  <2>1. CASE i \in Range(buf[k])
    <3>1. i \in DOMAIN arr /\ arr[i].listener = k
      BY <2>1 DEF Kept
    <3> QED
      BY <3>1, <1>1, <1>2
  <2>2. CASE k = l /\ i = n
    BY <2>2, <1>1, <1>2, <1>3
  <2> QED
    BY <2>1, <2>2, <1>4, <1>5
<1>12. n \notin Range(out) /\ Range(out) \subseteq DOMAIN arr2
  BY <1>2 DEF Kept
<1>13. \A i \in DOMAIN arr2 :
         i \in Range(out) <=> /\ arr2[i].valid
                              /\ i \notin Range(buf2[arr2[i].listener])
  <2>1. n \in Range(buf2[arr2[n].listener])
    BY <1>1, <1>3, <1>4, <1>5
  <2>2. ASSUME NEW i \in DOMAIN arr
        PROVE  i \in Range(buf2[arr[i].listener])
                 <=> i \in Range(buf[arr[i].listener])
    <3>1. arr[i] \in [listener : Listeners, valid : BOOLEAN] /\ i # n
      BY <1>1, <1>2, ElementOfSeq
    <3> QED
      BY <3>1, <1>4, <1>5
  <2>3. ASSUME NEW i \in DOMAIN arr
        PROVE  i \in Range(out) <=> /\ arr2[i].valid
                                    /\ i \notin Range(buf2[arr2[i].listener])
    BY <2>2, <1>1 DEF Kept
  <2> QED
    BY <2>1, <2>3, <1>2, <1>12
<1>14. \A k \in Listeners : Ordered(buf2[k], arr2)
  BY <1>5, <1>8, <1>9
<1>15. Kept(arr2, buf2, out)
  BY <1>7, <1>10, <1>11, <1>12, <1>13, <1>14 DEF Kept
<1> QED
  BY <1>15 DEF arr2, buf2, last, n, r

\* The datagram at the head of a buffer is the next one of its listener.
LEMMA ReadKeeps ==
  ASSUME NEW arr \in Seq([listener : Listeners, valid : BOOLEAN]),
         NEW buf \in [Listeners -> Seq(Nat)], NEW out \in Seq(Nat),
         NEW l \in Listeners, buf[l] # <<>>,
         NEW out2, out2 = (IF arr[Head(buf[l])].valid
                           THEN Append(out, Head(buf[l])) ELSE out),
         Kept(arr, buf, out)
  PROVE  Kept(arr, [buf EXCEPT ![l] = Tail(buf[l])], out2)
<1> DEFINE h == Head(buf[l])
           rest == Tail(buf[l])
           buf2 == [buf EXCEPT ![l] = rest]
<1>1. /\ Len(buf[l]) \in Nat \ {0}
      /\ DOMAIN rest = 1..(Len(buf[l]) - 1) /\ DOMAIN buf[l] = 1..Len(buf[l])
      /\ \A i \in DOMAIN rest : i + 1 \in DOMAIN buf[l] /\ rest[i] = buf[l][i + 1]
      /\ h = buf[l][1]
      /\ Range(buf[l]) = {h} \cup Range(rest)
      /\ h \in Nat
  BY TailShifts, HeadTailProperties
<1>2. /\ buf2[l] = rest
      /\ \A k \in Listeners : k # l => buf2[k] = buf[k]
  OBVIOUS
<1>3. /\ h \in DOMAIN arr /\ arr[h].listener = l
      /\ \A i \in Range(rest) : i \in DOMAIN arr /\ arr[i].listener = l
  BY <1>1 DEF Kept
<1>4. \/ arr[h].valid /\ out2 = Append(out, h)
      \/ ~arr[h].valid /\ out2 = out
  OBVIOUS
<1>5. /\ DOMAIN out = 1..Len(out) /\ Len(out) \in Nat
      /\ DOMAIN Append(out, h) = 1..(Len(out) + 1)
      /\ \A i \in DOMAIN out : Append(out, h)[i] = out[i]
      /\ Append(out, h)[Len(out) + 1] = h
      /\ Range(Append(out, h)) = Range(out) \cup {h}
  BY <1>1, AppendAdds
<1> HIDE DEF h, rest, buf2
<1>6. \A i \in Range(rest) : h < i
  <2> SUFFICES ASSUME NEW j \in DOMAIN rest
               PROVE  h < rest[j]
    BY DEF Range
  <2>1. 1 \in DOMAIN buf[l] /\ 1 < j + 1 /\ j + 1 \in DOMAIN buf[l]
    BY <1>1
  <2>2. arr[buf[l][1]].listener = arr[buf[l][j + 1]].listener
    <3>1. rest[j] \in Range(rest)
      BY DEF Range
    <3> QED
      BY <3>1, <1>1, <1>3
  <2>3. Ordered(buf[l], arr)
    BY DEF Kept
  <2>4. buf[l][1] < buf[l][j + 1]
    BY <2>1, <2>2, <2>3 DEF Ordered
  <2> QED
    BY <2>4, <1>1
<1>7. Ordered(rest, arr)
  <2> SUFFICES ASSUME NEW a \in DOMAIN rest, NEW b \in DOMAIN rest, a < b,
                      arr[rest[a]].listener = arr[rest[b]].listener
               PROVE  rest[a] < rest[b]
    BY DEF Ordered
  <2>1. a + 1 < b + 1
    BY <1>1
  <2>2. Ordered(buf[l], arr)
    BY DEF Kept
  <2>3. /\ a + 1 \in DOMAIN buf[l] /\ rest[a] = buf[l][a + 1]
        /\ b + 1 \in DOMAIN buf[l] /\ rest[b] = buf[l][b + 1]
    BY <1>1
  <2> QED
    BY <2>1, <2>2, <2>3 DEF Ordered
<1>8. \A x \in Range(out) : arr[x].listener = l => x < h
  <2>1. Precede(Range(out), Range(buf[l]), arr) /\ h \in Range(buf[l])
    BY <1>1 DEF Kept
  <2> QED
    BY <2>1, <1>3 DEF Precede
<1>9. Ordered(Append(out, h), arr)
  <2> DEFINE q == Append(out, h)
  <2> HIDE DEF q
  <2> SUFFICES ASSUME NEW a \in DOMAIN q, NEW b \in DOMAIN q, a < b,
                      arr[q[a]].listener = arr[q[b]].listener
               PROVE  q[a] < q[b]
    BY DEF Ordered, q
  <2>1. a \in DOMAIN out /\ (b \in DOMAIN out \/ b = Len(out) + 1)
    BY <1>5 DEF q
  <2>2. CASE b \in DOMAIN out
    BY <2>1, <2>2, <1>5 DEF Kept, Ordered, q
  <2>3. CASE b = Len(out) + 1
    <3>1. q[b] = h /\ q[a] = out[a] /\ out[a] \in Range(out)
      BY <2>1, <2>3, <1>5 DEF Range, q
    <3> QED
      BY <3>1, <1>3, <1>8
  <2> QED
    BY <2>1, <2>2, <2>3
<1>10. Ordered(out2, arr)
  BY <1>4, <1>9 DEF Kept
<1>11. \A k \in Listeners : Ordered(buf2[k], arr)
  BY <1>2, <1>7 DEF Kept
<1>12. Range(out2) \subseteq Range(out) \cup {h} /\ Range(out) \subseteq Range(out2)
  BY <1>4, <1>5
<1>13. \A k \in Listeners : Range(buf2[k]) \subseteq Range(buf[k])
  BY <1>1, <1>2
<1>14. \A k \in Listeners : Precede(Range(out2), Range(buf2[k]), arr)
  <2> SUFFICES ASSUME NEW k \in Listeners, NEW x \in Range(out2),
                      NEW y \in Range(buf2[k]),
                      arr[x].listener = arr[y].listener
               PROVE  x < y
    BY DEF Precede
  <2>1. CASE x \in Range(out)
    BY <2>1, <1>13 DEF Kept, Precede
  <2>2. CASE x = h
    <3>1. k = l
      BY <2>2, <1>3, <1>13 DEF Kept
    <3> QED
      BY <2>2, <3>1, <1>2, <1>6
  <2> QED
    BY <2>1, <2>2, <1>12
<1>15. \A k \in Listeners : \A i \in Range(buf2[k]) :
         i \in DOMAIN arr /\ arr[i].listener = k
  BY <1>13 DEF Kept
<1>16. Range(out2) \subseteq DOMAIN arr
  BY <1>3, <1>12 DEF Kept
<1>17. \A i \in DOMAIN arr :
         i \in Range(out2) <=> /\ arr[i].valid
                               /\ i \notin Range(buf2[arr[i].listener])
  <2> SUFFICES ASSUME NEW i \in DOMAIN arr
               PROVE  i \in Range(out2) <=>
                        /\ arr[i].valid
                        /\ i \notin Range(buf2[arr[i].listener])
    OBVIOUS
  <2>1. CASE i = h
    <3>1. h \notin Range(rest)
      BY <1>1, <1>6
    <3>2. ~arr[h].valid => h \notin Range(out)
      BY <1>3 DEF Kept
    <3> QED
      BY <2>1, <3>1, <3>2, <1>2, <1>3, <1>4, <1>5
  <2>2. CASE i # h
    <3>1. i \in Range(out2) <=> i \in Range(out)
      BY <2>2, <1>12
    <3>2. arr[i] \in [listener : Listeners, valid : BOOLEAN]
      BY ElementOfSeq, LenProperties
    <3>3. i \in Range(buf2[arr[i].listener]) <=> i \in Range(buf[arr[i].listener])
      BY <2>2, <3>2, <1>1, <1>2
    <3> QED
      BY <3>1, <3>3 DEF Kept
  <2> QED
    BY <2>1, <2>2
<1>18. Kept(arr, buf2, out2)
  BY <1>10, <1>11, <1>14, <1>15, <1>16, <1>17 DEF Kept
<1> QED
  BY <1>18 DEF buf2, rest

\* The datagrams that are still in a buffer.
HeldIn(arr, buf) == {i \in DOMAIN arr : i \in Range(buf[arr[i].listener])}

\* HeldIn is the union of the buffers.
LEMMA HeldMeans ==
  ReceiverTypeOK /\ ListenerOrderKept
    => UNION {Range(buffer[l]) : l \in Ready} = HeldIn(arrivals, buffer)
<1> SUFFICES ASSUME ReceiverTypeOK, ListenerOrderKept
             PROVE  UNION {Range(buffer[l]) : l \in Ready} = HeldIn(arrivals, buffer)
  OBVIOUS
<1>1. \A l \in Ready : l \in Listeners
  BY DEF Ready
<1>2. \A l \in Listeners : \A i \in Range(buffer[l]) :
        i \in DOMAIN arrivals /\ arrivals[i].listener = l
  BY DEF ListenerOrderKept
<1>3. \A i \in HeldIn(arrivals, buffer) : arrivals[i].listener \in Ready
  <2> SUFFICES ASSUME NEW i \in HeldIn(arrivals, buffer)
               PROVE  arrivals[i].listener \in Ready
    OBVIOUS
  <2> DEFINE l == arrivals[i].listener
  <2>1. arrivals[i] \in [listener : Listeners, valid : BOOLEAN]
    BY OutTyped, ElementOfSeq, LenProperties DEF HeldIn
  <2>2. l \in Listeners /\ i \in Range(buffer[l])
    BY <2>1 DEF HeldIn
  <2>3. buffer[l] # <<>>
    <3>1. Range(<<>>) = {}
      BY DEF Range
    <3> QED
      BY <2>2, <3>1
  <2> QED
    BY <2>2, <2>3 DEF Ready
<1>4. \A i \in HeldIn(arrivals, buffer) : i \in Range(buffer[arrivals[i].listener])
  BY DEF HeldIn
<1>5. \A l \in Ready : \A i \in Range(buffer[l]) : i \in HeldIn(arrivals, buffer)
  BY <1>1, <1>2 DEF HeldIn
<1> QED
  BY <1>3, <1>4, <1>5

\* One more datagram is held after a step.
HoldsOneMore(arr, buf, arr2, buf2) ==
  /\ Cardinality(HeldIn(arr, buf)) \in Nat
  /\ Cardinality(HeldIn(arr2, buf2)) = Cardinality(HeldIn(arr, buf)) + 1

\* An arrival adds one datagram to those held.
LEMMA ArrivalHeld ==
  ASSUME NEW arr \in Seq([listener : Listeners, valid : BOOLEAN]),
         NEW buf \in [Listeners -> Seq(Nat)], NEW out \in Seq(Nat),
         NEW l \in Listeners, NEW v \in BOOLEAN,
         Kept(arr, buf, out),
         NEW arr2, arr2 = Append(arr, [listener |-> l, valid |-> v]),
         NEW buf2, buf2 = [buf EXCEPT ![l] = Append(buf[l], Len(arr) + 1)]
  PROVE  HoldsOneMore(arr, buf, arr2, buf2)
<1> DEFINE r == [listener |-> l, valid |-> v]
           n == Len(arr) + 1
           last == Append(buf[l], n)
           held == HeldIn(arr, buf)
           held2 == HeldIn(arr2, buf2)
<1>1. /\ Len(arr) \in Nat /\ DOMAIN arr = 1..Len(arr) /\ DOMAIN arr2 = 1..n
      /\ \A i \in DOMAIN arr : arr2[i] = arr[i]
      /\ arr2[n] = r
  <2>1. r \in [listener : Listeners, valid : BOOLEAN]
    OBVIOUS
  <2> QED
    BY <2>1, AppendAdds
<1>2. /\ n \in Nat /\ n \notin DOMAIN arr /\ n \in DOMAIN arr2
      /\ \A i \in DOMAIN arr : i \in DOMAIN arr2 /\ i # n
      /\ \A i \in DOMAIN arr2 : i = n \/ i \in DOMAIN arr
  BY <1>1
<1>3. Range(last) = Range(buf[l]) \cup {n}
  <2>1. buf[l] \in Seq(Nat)
    OBVIOUS
  <2> HIDE DEF n
  <2> QED
    BY <2>1, <1>2, AppendNat
<1>4. /\ buf2[l] = last
      /\ \A k \in Listeners : k # l => buf2[k] = buf[k]
  OBVIOUS
<1>5. r.listener = l
  OBVIOUS
<1>6. \A i \in DOMAIN arr : arr[i].listener \in Listeners
  <2>1. \A i \in DOMAIN arr : arr[i] \in [listener : Listeners, valid : BOOLEAN]
    BY ElementOfSeq, LenProperties
  <2> QED
    BY <2>1
<1> HIDE DEF r, n, last
<1>7. held2 = held \cup {n}
  <2>1. n \in held2
    BY <1>1, <1>2, <1>3, <1>4, <1>5 DEF HeldIn
  <2>2. ASSUME NEW i \in DOMAIN arr
        PROVE  i \in held2 <=> i \in held
    <3>1. i # n /\ arr2[i] = arr[i] /\ i \in DOMAIN arr2
      BY <1>1, <1>2
    <3>2. i \in Range(buf2[arr[i].listener]) <=> i \in Range(buf[arr[i].listener])
      BY <3>1, <1>3, <1>4, <1>6
    <3> QED
      BY <3>1, <3>2 DEF HeldIn
  <2>3. \A i \in held2 : i = n \/ i \in DOMAIN arr
    BY <1>2 DEF HeldIn
  <2>4. \A i \in held : i \in DOMAIN arr
    BY DEF HeldIn
  <2> QED
    BY <2>1, <2>2, <2>3, <2>4
<1>8. n \notin held /\ IsFiniteSet(held)
  <2>1. held \in SUBSET (1..Len(arr)) /\ n \notin held
    BY <1>1, <1>2 DEF HeldIn
  <2>2. IsFiniteSet(1..Len(arr))
    <3>1. PICK k : k = Len(arr) /\ k \in Int
      BY <1>1
    <3> QED
      BY <3>1, FS_Interval
  <2> QED
    BY <2>1, <2>2, FS_Subset
<1> HIDE DEF held, held2
<1>9. Cardinality(held) \in Nat /\ Cardinality(held2) = Cardinality(held) + 1
  BY <1>7, <1>8, FS_AddElement, FS_CardinalityType
<1> QED
  BY <1>9 DEF held, held2, HoldsOneMore

\* Reading takes one datagram from those held.
LEMMA ReadHeld ==
  ASSUME NEW arr \in Seq([listener : Listeners, valid : BOOLEAN]),
         NEW buf \in [Listeners -> Seq(Nat)], NEW out \in Seq(Nat),
         NEW l \in Listeners, buf[l] # <<>>,
         Kept(arr, buf, out)
  PROVE  /\ Cardinality(HeldIn(arr, buf)) \in Nat
         /\ Cardinality(HeldIn(arr, [buf EXCEPT ![l] = Tail(buf[l])]))
              = Cardinality(HeldIn(arr, buf)) - 1
<1> DEFINE h == Head(buf[l])
           rest == Tail(buf[l])
           buf2 == [buf EXCEPT ![l] = rest]
           held == HeldIn(arr, buf)
           held2 == HeldIn(arr, buf2)
<1>1. /\ Len(buf[l]) \in Nat \ {0}
      /\ DOMAIN rest = 1..(Len(buf[l]) - 1) /\ DOMAIN buf[l] = 1..Len(buf[l])
      /\ \A i \in DOMAIN rest : i + 1 \in DOMAIN buf[l] /\ rest[i] = buf[l][i + 1]
      /\ h = buf[l][1]
      /\ Range(buf[l]) = {h} \cup Range(rest)
  BY TailShifts
<1>2. /\ buf2[l] = rest
      /\ \A k \in Listeners : k # l => buf2[k] = buf[k]
  OBVIOUS
<1>3. h \in DOMAIN arr /\ arr[h].listener = l
  BY <1>1 DEF Kept
<1> HIDE DEF h, rest, buf2
<1>4. h \notin Range(rest)
  <2> SUFFICES ASSUME NEW j \in DOMAIN rest, rest[j] = h
               PROVE  FALSE
    BY DEF Range
  <2>1. 1 \in DOMAIN buf[l] /\ 1 < j + 1 /\ j + 1 \in DOMAIN buf[l]
    BY <1>1
  <2>2. Ordered(buf[l], arr) /\ buf[l][j + 1] = h /\ buf[l][1] = h
    BY <1>1 DEF Kept
  <2>3. h < h
    BY <2>1, <2>2 DEF Ordered
  <2>4. h \in Nat
    BY <1>3, LenProperties
  <2> QED
    BY <2>3, <2>4
<1>5. \A i \in DOMAIN arr : arr[i].listener \in Listeners
  <2>1. \A i \in DOMAIN arr : arr[i] \in [listener : Listeners, valid : BOOLEAN]
    BY ElementOfSeq, LenProperties
  <2> QED
    BY <2>1
<1>6. held2 = held \ {h}
  <2>1. h \notin held2
    BY <1>2, <1>3, <1>4 DEF HeldIn
  <2>2. ASSUME NEW i \in DOMAIN arr, i # h
        PROVE  i \in held2 <=> i \in held
    <3>1. i \in Range(buf2[arr[i].listener]) <=> i \in Range(buf[arr[i].listener])
      BY <2>2, <1>1, <1>2, <1>5
    <3> QED
      BY <3>1 DEF HeldIn
  <2>3. \A i \in held \cup held2 : i \in DOMAIN arr
    BY DEF HeldIn
  <2> QED
    BY <2>1, <2>2, <2>3
<1>7. h \in held /\ IsFiniteSet(held)
  <2>1. held \in SUBSET (1..Len(arr)) /\ h \in held
    BY <1>1, <1>3, LenProperties DEF HeldIn
  <2>2. IsFiniteSet(1..Len(arr))
    BY LenProperties, FS_Interval
  <2> QED
    BY <2>1, <2>2, FS_Subset
<1> HIDE DEF held, held2
<1>8. Cardinality(held) \in Nat /\ Cardinality(held2) = Cardinality(held) - 1
  BY <1>6, <1>7, FS_RemoveElement, FS_CardinalityType
<1> QED
  BY <1>8 DEF held, held2, buf2, rest

\* Appending to the second of two sequences appends to both.
LEMMA ConcatAppend ==
  ASSUME NEW S, NEW p \in Seq(S), NEW q \in Seq(S), NEW e \in S
  PROVE  p \o Append(q, e) = Append(p \o q, e)
<1>1. <<e>> \in Seq(S) /\ p \o q \in Seq(S)
  BY ConcatProperties
<1>2. Append(q, e) = q \o <<e>> /\ Append(p \o q, e) = (p \o q) \o <<e>>
  BY <1>1, AppendIsConcat
<1> QED
  BY <1>1, <1>2, ConcatAssociative

\* The counters, with the datagrams held counted as HeldIn.
CountsHold ==
  /\ receiver.datagrams = receiver.accepted + receiver.rejected
  /\ receiver.accepted = Len(delivered) + Len(packets)
  /\ receiver.datagrams = Len(arrivals) - Cardinality(HeldIn(arrivals, buffer))

\* The inductive form of ReadingIsExact: between two calls of poll() no packet
\* is on its way.
ReadingInv ==
  /\ Kept(arrivals, buffer, Out)
  /\ CountsHold
  /\ poll = "idle" => packets = <<>>
  /\ Len(arrivals) <= MaxDatagrams

\* A step of the receiver neither loses nor reorders a datagram.
LEMMA ReadingStep ==
  ASSUME ReceiverTypeOK, ReadingInv, [ReceiverNext]_receiverVars
  PROVE  ReadingInv'
<1> DEFINE held == Cardinality(HeldIn(arrivals, buffer))
<1>a. /\ arrivals \in Seq([listener : Listeners, valid : BOOLEAN])
      /\ Len(arrivals) \in Nat
  BY DEF ReceiverTypeOK
<1>b. buffer \in [Listeners -> Seq(Nat)]
  BY OutTyped DEF ReceiverTypeOK
<1>c. Out \in Seq(Nat)
  BY OutTyped
<1>d. Kept(arrivals, buffer, Out)
  BY DEF ReadingInv
<1>e. receiver \in Metrics
  BY DEF ReceiverTypeOK, Metrics
<1>f. /\ packets \in Seq(1..MaxDatagrams) /\ delivered \in Seq(1..MaxDatagrams)
      /\ Len(packets) \in Nat /\ Len(delivered) \in Nat
  BY DEF ReceiverTypeOK
<1> HIDE DEF held
<1>g. /\ receiver.datagrams = receiver.accepted + receiver.rejected
      /\ receiver.accepted = Len(delivered) + Len(packets)
      /\ receiver.datagrams = Len(arrivals) - held
  BY DEF ReadingInv, CountsHold, held
<1>1. ASSUME NEW l \in Listeners, NEW v \in BOOLEAN, Arrive(l, v)
      PROVE  ReadingInv'
  <2>1. /\ arrivals' = Append(arrivals, [listener |-> l, valid |-> v])
        /\ buffer' = [buffer EXCEPT ![l] = Append(buffer[l], Len(arrivals) + 1)]
        /\ UNCHANGED <<poll, packets, delivered, receiver>>
    BY <1>1 DEF Arrive, reading
  <2>2. Kept(arrivals', buffer', Out')
    BY <2>1, <1>a, <1>b, <1>c, <1>d, ArrivalKeeps DEF Out
  <2>3. held \in Nat /\ held' = held + 1
    <3>1. HoldsOneMore(arrivals, buffer, arrivals', buffer')
      BY <2>1, <1>a, <1>b, <1>c, <1>d, ArrivalHeld
    <3> QED
      BY <3>1 DEF HoldsOneMore, held
  <2>4. Len(arrivals') = Len(arrivals) + 1
    <3>1. [listener |-> l, valid |-> v] \in [listener : Listeners, valid : BOOLEAN]
      OBVIOUS
    <3> QED
      BY <3>1, <2>1, <1>a, AppendProperties
  <2>5. receiver.datagrams = Len(arrivals') - held'
    BY <2>3, <2>4, <1>a, <1>g
  <2>6. Len(arrivals') <= MaxDatagrams
    BY <2>4, <1>1, <1>a, ReceiverAssumption DEF Arrive
  <2> QED
    BY <2>1, <2>2, <2>5, <2>6, <1>g DEF ReadingInv, CountsHold, held
<1>2. CASE ReceiveDatagram
  <2> DEFINE l == Head(events)
             h == Head(buffer[l])
  <2>1. /\ buffer[l] # <<>> /\ arrivals' = arrivals /\ delivered' = delivered
        /\ poll' = "draining"
        /\ buffer' = [buffer EXCEPT ![l] = Tail(buffer[l])]
        /\ receiver' = Count(arrivals[h].valid)
        /\ packets' = IF arrivals[h].valid THEN Append(packets, h) ELSE packets
    BY <1>2 DEF ReceiveDatagram
  <2>2. l \in Listeners
    BY <1>2, HeadTailProperties DEF ReceiveDatagram, ReceiverTypeOK
  <2>3. h \in 1..MaxDatagrams
    <3>1. buffer[l] \in Seq(1..MaxDatagrams)
      BY <2>2 DEF ReceiverTypeOK
    <3> QED
      BY <3>1, <2>1, HeadTailProperties
  <2> HIDE DEF l
  <2>4. Out' = IF arrivals[h].valid THEN Append(Out, h) ELSE Out
    <3>1. delivered \o Append(packets, h) = Append(delivered \o packets, h)
      BY <2>3, <1>f, ConcatAppend
    <3> HIDE DEF h
    <3> QED
      BY <2>1, <3>1 DEF Out
  <2>5. Kept(arrivals', buffer', Out')
    BY <2>1, <2>2, <2>4, <1>a, <1>b, <1>c, <1>d, ReadKeeps
  <2>6. held \in Nat /\ held' = held - 1
    BY <2>1, <2>2, <1>a, <1>b, <1>c, <1>d, ReadHeld DEF held
  <2> HIDE DEF h
  <2>7. /\ receiver'.datagrams = receiver.datagrams + 1
        /\ arrivals[h].valid =>
             /\ receiver'.accepted = receiver.accepted + 1
             /\ receiver'.rejected = receiver.rejected
        /\ ~arrivals[h].valid =>
             /\ receiver'.accepted = receiver.accepted
             /\ receiver'.rejected = receiver.rejected + 1
    BY <2>1, <1>e DEF Count, Metrics
  <2>8. Len(packets') = IF arrivals[h].valid THEN Len(packets) + 1 ELSE Len(packets)
    BY <2>1, <2>3, <1>f, AppendProperties
  <2>9. /\ receiver.datagrams \in Nat /\ receiver.accepted \in Nat
        /\ receiver.rejected \in Nat
    BY <1>e DEF Metrics
  <2>10. /\ receiver'.datagrams = receiver'.accepted + receiver'.rejected
         /\ receiver'.datagrams = Len(arrivals) - held'
    BY <2>6, <2>7, <2>9, <1>a, <1>g
  <2>11. receiver'.accepted = Len(delivered) + Len(packets')
    BY <2>7, <2>8, <2>9, <1>f, <1>g
  <2> QED
    BY <2>1, <2>5, <2>10, <2>11 DEF ReadingInv, CountsHold, held
<1>3. CASE PacketsTaken
  <2>1. /\ delivered' = Out /\ packets' = <<>>
        /\ UNCHANGED <<arrivals, buffer, receiver>>
    BY <1>3 DEF PacketsTaken, Out
  <2>2. Out' = Out
    <3>1. Out' = Out \o <<>>
      BY <2>1 DEF Out
    <3> QED
      BY <3>1, <1>c, ConcatEmptySeq
  <2>3. Len(delivered') = Len(delivered) + Len(packets) /\ Len(packets') = 0
    BY <2>1, <1>f, ConcatProperties DEF Out
  <2>4. receiver.accepted = Len(delivered') + Len(packets')
    BY <2>3, <1>f, <1>g
  <2> QED
    BY <2>1, <2>2, <2>4, <1>d, <1>g DEF ReadingInv, CountsHold, held
<1>4. CASE PollCalled
  <2>1. /\ poll = "idle" /\ packets' = <<>> /\ poll' = "waiting"
        /\ UNCHANGED <<arrivals, buffer, delivered, receiver>>
    BY <1>4 DEF PollCalled
  <2>2. packets' = packets
    BY <2>1 DEF ReadingInv
  <2> QED
    BY <2>1, <2>2 DEF ReadingInv, CountsHold, Out
<1>5. CASE WaitReturnsReady
  <2>1. /\ poll' = "draining"
        /\ receiver' = [receiver EXCEPT !.wakeups = receiver.wakeups + 1]
        /\ UNCHANGED <<arrivals, buffer, delivered, packets>>
    BY <1>5 DEF WaitReturnsReady
  <2>2. /\ receiver'.datagrams = receiver.datagrams
        /\ receiver'.accepted = receiver.accepted
        /\ receiver'.rejected = receiver.rejected
    BY <2>1, <1>e DEF Metrics
  <2> QED
    BY <2>1, <2>2 DEF ReadingInv, CountsHold, Out
<1>6. CASE NextListener
  <2>1. poll = "draining"
        /\ UNCHANGED <<arrivals, buffer, delivered, packets, receiver, poll>>
    BY <1>6 DEF NextListener
  <2> QED
    BY <2>1 DEF ReadingInv, CountsHold, Out
<1>7. CASE WaitReturnsEmpty \/ PollReturns \/ PollThrows
  <2>1. /\ poll' \in {"returned", "thrown"}
        /\ UNCHANGED <<arrivals, buffer, delivered, packets, receiver>>
    BY <1>7 DEF WaitReturnsEmpty, PollReturns, PollThrows, PollMoves
  <2> QED
    BY <2>1 DEF ReadingInv, CountsHold, Out
<1>8. CASE UNCHANGED receiverVars
  BY <1>8 DEF receiverVars, reading, ReadingInv, CountsHold, Out
<1> QED
  BY <1>1, <1>2, <1>3, <1>4, <1>5, <1>6, <1>7, <1>8
     DEF ReceiverNext, Network, PollStep

\* ReadingInv is what ReadingIsExact says, and a little more.
LEMMA ReadingImplies == ReceiverTypeOK /\ ReadingInv => ReadingIsExact
  BY KeptMeans, HeldMeans
     DEF ReadingInv, CountsHold, ReadingIsExact, ReceiverCountsAddUp

\* The initial state satisfies ReadingInv.
LEMMA ReadingInit == ReceiverInit => ReadingInv
<1> SUFFICES ASSUME ReceiverInit PROVE ReadingInv
  OBVIOUS
<1>1. /\ arrivals = <<>> /\ buffer = [l \in Listeners |-> <<>>]
      /\ delivered = <<>> /\ packets = <<>>
      /\ receiver = [wakeups |-> 0, datagrams |-> 0, accepted |-> 0, rejected |-> 0]
  BY DEF ReceiverInit
<1>2. Out = <<>>
  BY <1>1 DEF Out
<1>3. DOMAIN arrivals = {} /\ DOMAIN Out = {} /\ \A l \in Listeners : DOMAIN buffer[l] = {}
  BY <1>1, <1>2
<1>4. Range(Out) = {} /\ \A l \in Listeners : Range(buffer[l]) = {}
  BY <1>3 DEF Range
<1>5. Kept(arrivals, buffer, Out)
  BY <1>3, <1>4 DEF Kept, Ordered, Precede
<1>6. HeldIn(arrivals, buffer) = {}
  BY <1>3 DEF HeldIn
<1>7. CountsHold
  <2>1. Cardinality(HeldIn(arrivals, buffer)) = 0 /\ Len(arrivals) = 0
        /\ Len(delivered) = 0 /\ Len(packets) = 0
    BY <1>1, <1>6, FS_EmptySet
  <2>2. receiver.datagrams = 0 /\ receiver.accepted = 0 /\ receiver.rejected = 0
    BY <1>1
  <2> QED
    BY <2>1, <2>2 DEF CountsHold
<1>8. Len(arrivals) <= MaxDatagrams
  BY <1>1, ReceiverAssumption
<1> QED
  BY <1>1, <1>5, <1>7, <1>8 DEF ReadingInv

\* No poll() returns more packets than datagrams have arrived.
LEMMA PacketsBounded ==
  ASSUME ReceiverTypeOK, ReadingInv
  PROVE  /\ Len(packets) \in 0..MaxDatagrams
         /\ Len(Out) = receiver.accepted
         /\ Len(Out) = Len(delivered) + Len(packets)
<1>1. /\ packets \in Seq(1..MaxDatagrams) /\ delivered \in Seq(1..MaxDatagrams)
      /\ Len(packets) \in Nat /\ Len(delivered) \in Nat /\ Len(arrivals) \in Nat
      /\ receiver.accepted \in Nat /\ receiver.rejected \in Nat
  BY DEF ReceiverTypeOK
<1>2. Cardinality(HeldIn(arrivals, buffer)) \in Nat
  <2>1. IsFiniteSet(DOMAIN arrivals)
    <3>1. DOMAIN arrivals = 1..Len(arrivals)
      BY DEF ReceiverTypeOK
    <3> QED
      BY <3>1, <1>1, FS_Interval
  <2>2. HeldIn(arrivals, buffer) \in SUBSET DOMAIN arrivals
    BY DEF HeldIn
  <2> QED
    BY <2>1, <2>2, FS_Subset, FS_CardinalityType
<1>3. /\ receiver.accepted + receiver.rejected
           = Len(arrivals) - Cardinality(HeldIn(arrivals, buffer))
      /\ receiver.accepted = Len(delivered) + Len(packets)
      /\ Len(arrivals) <= MaxDatagrams
  BY DEF ReadingInv, CountsHold
<1>4. Len(Out) = Len(delivered) + Len(packets)
  BY <1>1, ConcatProperties DEF Out
<1> QED
  BY <1>1, <1>2, <1>3, <1>4, ReceiverAssumption

\* poll() hands every valid datagram to its caller, once and in the order of
\* arrival within its listener, and its counters agree with what it handed out.
THEOREM ReadingProved == ReceiverSafeSpec => []ReadingIsExact
  BY ReadingInit, ReadingStep, ReadingImplies, ReceiverTyping, PTL
     DEF ReceiverSafeSpec

-----------------------------------------------------------------------------
(* The runtime.                                                            *)

\* The metrics of the pipeline and the counters of the processor.
SinkMetrics ==
  [submitted : Nat, dropped : Nat, processed : Nat, failures : Nat]
Samples == [examined : Nat, decoded : Nat, typed : Nat, rejected : Nat]

\* The places between the loop over the packets and the end of its body.
InBody == {"observe", "submit", "drop", "count"}
Leaving == {"stopping", "joining", "summary", "done"}
Unwound == {"unwinding", "destroying", "failed"}

\* Where the I/O thread is says what the receiver and the sink are doing.
ControlInv ==
  /\ pc = "loop" \/ pc \in Leaving => poll = "idle"
  /\ pc = "poll" => poll \in {"waiting", "draining", "returned"}
  /\ pc = "batch" \/ pc \in InBody => poll = "returned"
  /\ pc \in Unwound => poll = "thrown"
  /\ open <=> pc \notin Ended \cup {"joining", "summary", "destroying"}
  /\ finished <=> pc \in Ended \cup {"summary"}
  /\ finished => pending = {}
  /\ pc = "batch" => next <= Len(packets) + 1
  /\ pc \in InBody => next <= Len(packets)

\* The limit is looked at before every packet, and the loop ends only for a
\* reason.
LimitInv ==
  /\ PacketCount # 0 => received <= PacketCount
  /\ PacketCount # 0 /\ pc \in InBody => received < PacketCount
  /\ pc \in Leaving => stop \/ LimitReached

\* After a stop nobody starts another poll or another packet.
MarkInv ==
  stop => /\ Len(observed) <= mark.packets + 1
          /\ pc = "observe" => Len(observed) <= mark.packets
          /\ receiver.wakeups <= mark.wakeups + 1
          /\ poll = "waiting" => receiver.wakeups <= mark.wakeups

\* What has been observed is the beginning of what poll() handed out, as far
\* as the loop over the packets has come.
ObserveInv ==
  /\ Len(observed) <= Len(Out)
  /\ \A i \in DOMAIN observed : observed[i] = Out[i]
  /\ pc = "loop" /\ ~stop /\ ~LimitReached => Len(observed) = Len(delivered)
  /\ pc = "poll" => Len(observed) = Len(delivered)
  /\ pc \in {"batch", "observe"} => Len(observed) + 1 = Len(delivered) + next
  /\ pc \in {"submit", "drop", "count"} => Len(observed) = Len(delivered) + next

\* A packet is observed, then accepted or dropped, then counted.
ReceivedInv ==
  /\ Len(observed) =
       received + (IF pc \in {"submit", "drop", "count"} THEN 1 ELSE 0)
  /\ Len(observed) = metrics.submitted + metrics.dropped
                       + (IF pc = "submit" THEN 1 ELSE 0)

\* The packets observed whose fate has been decided.
Handed == {observed[i] : i \in
             1..(Len(observed) - (IF pc \in {"submit", "drop"} THEN 1 ELSE 0))}

\* The stage of a packet says where it is, and an issue is never about the
\* wrong packet.
StageInv ==
  /\ pending \cap completed = {}
  /\ pending \cup completed \subseteq Handed
  /\ \A k \in Packets :
       /\ stage[k] # "queued" => k \in pending \cup completed
       /\ k \in completed <=> stage[k] \in {"processed", "failed"}
       /\ <<k, "payload_rejected">> \in issues =>
            stage[k] \in {"handled", "processed"}
       /\ <<k, "queue_dropped">> \in issues =>
            k \in Handed /\ k \notin pending \cup completed

At(s) == {k \in Packets : stage[k] = s}
Issues(kind) == {i \in issues : i[2] = kind}
Running == pending \ Queued

\* The payload rejections that belong to packets already processed.
Settled == {i \in Issues("payload_rejected") : stage[i[1]] = "processed"}

\* Every counter, by the packets on their way from it to the next one.
TallyInv ==
  /\ metrics.submitted = metrics.processed + metrics.failures
                           + Cardinality(pending)
  /\ metrics.submitted = samples.examined + Cardinality(Queued)
  /\ samples.examined = samples.decoded + samples.rejected
                          + Cardinality(At("examined"))
  /\ samples.decoded = samples.typed + Cardinality(At("decoded"))
  /\ samples.rejected = Cardinality(Issues("payload_rejected"))
                          + Cardinality(At("rejected"))
  /\ metrics.dropped = Cardinality(Issues("queue_dropped"))
                         + (IF pc = "drop" THEN 1 ELSE 0)
  /\ metrics.processed >= Cardinality(Settled)
  /\ Cardinality(Running) <= WorkerCount

\* The summary is what the counters say at the end.
SummaryInv ==
  /\ summary # {} => pc = "done"
  /\ \A s \in summary :
       s = [received |-> received, receiver |-> receiver,
            pipeline |-> metrics, samples |-> samples,
            observed |-> Len(observed), issues |-> issues]

\* The contract of the pipeline never holds up the I/O thread: a packet for
\* which the queue has room can be accepted.
SinkNeverRefuses ==
  pc = "submit" /\ Cardinality(Queued) < QueueCapacity =>
    /\ open
    /\ packets[next] \notin pending \cup completed
    /\ Cardinality(pending) < QueueCapacity + WorkerCount
-----------------------------------------------------------------------------
\* Every step of run() is a step of the receiver, or none of its business.
LEMMA ReceiverMoves ==
  [RuntimeNext]_runtimeVars => [ReceiverNext]_receiverVars
<1> SUFFICES ASSUME [RuntimeNext]_runtimeVars PROVE [ReceiverNext]_receiverVars
  OBVIOUS
<1>1. CASE NetworkStep
  BY <1>1 DEF NetworkStep, ReceiverNext
<1>2. CASE LoopPolls
  BY <1>2 DEF LoopPolls, ReceiverNext
<1>3. CASE Receive
  BY <1>3 DEF Receive, ReceiverNext
<1>4. CASE BatchEnds
  BY <1>4 DEF BatchEnds, ReceiverNext
<1>5. CASE PollFails
  BY <1>5 DEF PollFails, PollThrowsTo, ReceiverNext
<1>6. CASE RequestStop
  BY <1>6 DEF RequestStop
<1>7. CASE LoopEnds \/ BatchContinues
  BY <1>7 DEF LoopEnds, BatchContinues, Moves
<1>8. CASE BatchBegins \/ ObservePacket \/ SubmitAccepted \/ SubmitQueueFull
             \/ ReportQueueDrop \/ CountPacket
  BY <1>8 DEF BatchBegins, ObservePacket, SubmitAccepted, SubmitQueueFull,
              Dropped, ReportQueueDrop, CountPacket
<1>9. CASE ClosePipeline \/ PipelineStopped
  BY <1>9 DEF ClosePipeline, PipelineStopped, StopMoves
<1>10. CASE Summarise
  BY <1>10 DEF Summarise
<1>11. ASSUME NEW k \in pending, ProcessPacket(k)
       PROVE  UNCHANGED receiverVars
  BY <1>11 DEF ProcessPacket, Examine, RejectPayload, ReportRejection,
               DecodePayload, CountType, HandlerReturns, HandlerThrows,
               PacketProcessed, CallEnds, Counted, Advance
<1>12. CASE UNCHANGED runtimeVars
  BY <1>12 DEF runtimeVars
<1> QED
  BY <1>1, <1>2, <1>3, <1>4, <1>5, <1>6, <1>7, <1>8, <1>9, <1>10, <1>11, <1>12
     DEF RuntimeNext, IoStep, Terminated

\* run() drives the receiver as a caller of poll() may: what is proved about
\* the receiver alone holds inside the runtime.
THEOREM RuntimeDrivesReceiver == RuntimeSafeSpec => ReceiverSafeSpec
<1>1. RuntimeInit => ReceiverInit
  BY DEF RuntimeInit
<1> QED
  BY <1>1, ReceiverMoves, PTL DEF RuntimeSafeSpec, ReceiverSafeSpec

\* The receiver's invariants, in every state of the runtime.
LEMMA ReceiverInvariants ==
  RuntimeSafeSpec => [](ReceiverTypeOK /\ ReadingInv)
<1>1. ReceiverSafeSpec => [](ReceiverTypeOK /\ ReadingInv)
  BY ReadingInit, ReadingStep, ReceiverTyping, PTL DEF ReceiverSafeSpec
<1> QED
  BY <1>1, RuntimeDrivesReceiver, PTL

\* What a step of poll() does to its place, its packets and its wakeups.
LEMMA PollStepDoes ==
  ASSUME ReceiverTypeOK, PollStep
  PROVE  /\ poll \in {"waiting", "draining"} /\ poll' \in {"draining", "returned"}
         /\ delivered' = delivered
         /\ packets' = packets \/ \E i \in Packets : packets' = Append(packets, i)
         /\ \/ receiver'.wakeups = receiver.wakeups
            \/ poll = "waiting" /\ receiver'.wakeups = receiver.wakeups + 1
<1>a. receiver \in Metrics
  BY DEF ReceiverTypeOK, Metrics
<1>1. CASE ReceiveDatagram
  <2> DEFINE l == Head(events)
             i == Head(buffer[l])
  <2>1. /\ events # <<>> /\ buffer[l] # <<>>
        /\ poll = "draining" /\ poll' = "draining" /\ delivered' = delivered
        /\ packets' = Append(packets, i) \/ packets' = packets
        /\ receiver' = Count(arrivals[i].valid)
    BY <1>1 DEF ReceiveDatagram
  <2>2. l \in Listeners
    BY <2>1, HeadTailProperties DEF ReceiverTypeOK
  <2>3. i \in Packets
    <3>1. buffer[l] \in Seq(1..MaxDatagrams)
      BY <2>2 DEF ReceiverTypeOK
    <3> QED
      BY <3>1, <2>1, HeadTailProperties DEF Packets
  <2> HIDE DEF i
  <2>4. receiver'.wakeups = receiver.wakeups
    BY <2>1, <1>a DEF Count, Metrics
  <2> QED
    BY <2>1, <2>3, <2>4
<1>2. CASE WaitReturnsReady
  <2>1. receiver' = [receiver EXCEPT !.wakeups = receiver.wakeups + 1]
    BY <1>2 DEF WaitReturnsReady
  <2>2. receiver'.wakeups = receiver.wakeups + 1
    BY <2>1, <1>a DEF Metrics
  <2> QED
    BY <2>2, <1>2 DEF WaitReturnsReady
<1>3. CASE WaitReturnsEmpty \/ NextListener \/ PollReturns
  BY <1>3 DEF WaitReturnsEmpty, NextListener, PollReturns, PollMoves
<1> QED
  BY <1>1, <1>2, <1>3 DEF PollStep
-----------------------------------------------------------------------------
\* Reports of workers and of the network leave the I/O thread where it is.
LEMMA OthersDo ==
  ASSUME NetworkStep \/ (\E k \in pending : ProcessPacket(k))
           \/ UNCHANGED runtimeVars
  PROVE  UNCHANGED <<poll, packets, delivered, receiver, stop, mark, pc, next,
                     received, open, finished, observed, summary>>
<1>1. CASE NetworkStep
  BY <1>1 DEF NetworkStep, Network, Arrive, reading, io, sink, told
<1>2. ASSUME NEW k \in pending, ProcessPacket(k)
      PROVE  UNCHANGED <<poll, packets, delivered, receiver, stop, mark, pc,
                         next, received, open, finished, observed, summary>>
  <2>1. UNCHANGED <<receiverVars, stop, mark, io, observed, summary>>
    BY <1>2 DEF ProcessPacket, Examine, RejectPayload, ReportRejection,
                DecodePayload, CountType, HandlerReturns, HandlerThrows,
                PacketProcessed, CallEnds, Counted, Advance
  <2>2. UNCHANGED <<open, finished>>
    BY <1>2 DEF ProcessPacket, Examine, RejectPayload, ReportRejection,
                DecodePayload, CountType, HandlerReturns, HandlerThrows,
                PacketProcessed, CallEnds, Counted, Pipeline!Complete, sink
  <2> QED
    BY <2>1, <2>2 DEF receiverVars, reading, io
<1>3. CASE UNCHANGED runtimeVars
  BY <1>3 DEF runtimeVars, receiverVars, reading, io, sink, told
<1> QED
  BY <1>1, <1>2, <1>3

\* A worker completes a packet it has, or leaves the sink alone.
LEMMA WorkersShrink ==
  ASSUME NetworkStep \/ (\E k \in pending : ProcessPacket(k))
           \/ UNCHANGED runtimeVars
  PROVE  pending' \subseteq pending
<1>1. CASE NetworkStep
  BY <1>1 DEF NetworkStep, sink
<1>2. ASSUME NEW k \in pending, ProcessPacket(k)
      PROVE  pending' \subseteq pending
  BY <1>2 DEF ProcessPacket, Examine, RejectPayload, ReportRejection,
              DecodePayload, CountType, HandlerReturns, HandlerThrows,
              PacketProcessed, CallEnds, Counted, Pipeline!Complete, sink
<1>3. CASE UNCHANGED runtimeVars
  BY <1>3 DEF runtimeVars, sink
<1> QED
  BY <1>1, <1>2, <1>3

\* The places of the I/O thread, the receiver and the sink stay in step.
LEMMA ControlStep ==
  ASSUME RuntimeTypeOK, ControlInv, [RuntimeNext]_runtimeVars
  PROVE  ControlInv'
<1>a. /\ next \in Nat /\ Len(packets) \in Nat
      /\ packets \in Seq(1..MaxDatagrams)
  BY DEF RuntimeTypeOK, ReceiverTypeOK
<1>1. CASE NetworkStep \/ (\E k \in pending : ProcessPacket(k))
             \/ UNCHANGED runtimeVars
  <2>1. /\ UNCHANGED <<poll, packets, pc, next, open, finished>>
        /\ pending' \subseteq pending
    BY <1>1, OthersDo, WorkersShrink
  <2>2. finished' => pending' = {}
    BY <2>1 DEF ControlInv
  <2> QED
    BY <2>1, <2>2 DEF ControlInv
<1>2. CASE RequestStop
  BY <1>2 DEF RequestStop, io, sink, receiverVars, reading, ControlInv
<1>3. CASE LoopPolls
  <2>1. /\ pc = "loop" /\ pc' = "poll" /\ poll' = "waiting"
        /\ UNCHANGED <<pending, open, finished>>
    BY <1>3 DEF LoopPolls, Goto, PollCalled, sink
  <2> QED
    BY <2>1 DEF ControlInv, InBody, Leaving, Unwound, Ended
<1>4. CASE LoopEnds
  <2>1. /\ pc = "loop" /\ pc' = "stopping"
        /\ UNCHANGED <<poll, pending, open, finished>>
    BY <1>4 DEF LoopEnds, Moves, Goto, sink, receiverVars, reading
  <2> QED
    BY <2>1 DEF ControlInv, InBody, Leaving, Unwound, Ended
<1>5. CASE Receive
  <2>1. /\ poll \in {"waiting", "draining"} /\ poll' \in {"draining", "returned"}
        /\ UNCHANGED <<pc, pending, open, finished>>
    BY <1>5, PollStepDoes DEF Receive, RuntimeTypeOK, io, sink
  <2>2. pc = "poll"
    BY <2>1 DEF ControlInv, RuntimeTypeOK, InBody, Leaving, Unwound, Ended
  <2> QED
    BY <2>1, <2>2 DEF ControlInv, InBody, Leaving, Unwound, Ended
<1>6. CASE BatchBegins
  <2>1. /\ pc = "poll" /\ pc' = "batch" /\ poll = "returned" /\ next' = 1
        /\ UNCHANGED <<poll, packets, pending, open, finished>>
    BY <1>6 DEF BatchBegins, Goto, sink, receiverVars, reading
  <2> QED
    BY <2>1, <1>a DEF ControlInv, InBody, Leaving, Unwound, Ended
<1>7. CASE BatchEnds
  <2>1. /\ pc = "batch" /\ pc' = "loop" /\ poll' = "idle"
        /\ UNCHANGED <<pending, open, finished>>
    BY <1>7 DEF BatchEnds, Goto, PacketsTaken, sink
  <2> QED
    BY <2>1 DEF ControlInv, InBody, Leaving, Unwound, Ended
<1>8. CASE BatchContinues
  <2>1. /\ pc = "batch" /\ pc' = "observe" /\ next <= Len(packets)
        /\ UNCHANGED <<poll, packets, next, pending, open, finished>>
    BY <1>8 DEF BatchContinues, Moves, Goto, sink, receiverVars, reading
  <2> QED
    BY <2>1 DEF ControlInv, InBody, Leaving, Unwound, Ended
<1>9. CASE ObservePacket \/ SubmitQueueFull \/ ReportQueueDrop
  <2>1. /\ pc \in InBody /\ pc' \in InBody
        /\ UNCHANGED <<poll, packets, next, pending, open, finished>>
    BY <1>9 DEF ObservePacket, SubmitQueueFull, Dropped, ReportQueueDrop,
                Goto, sink, receiverVars, reading, InBody
  <2> QED
    BY <2>1 DEF ControlInv, InBody, Leaving, Unwound, Ended
<1>10. CASE SubmitAccepted
  <2>1. /\ pc = "submit" /\ pc' = "count" /\ open
        /\ UNCHANGED <<poll, packets, next, open, finished>>
    BY <1>10 DEF SubmitAccepted, Goto, Pipeline!Accept, receiverVars, reading
  <2> QED
    BY <2>1 DEF ControlInv, InBody, Leaving, Unwound, Ended
<1>11. CASE CountPacket
  <2>1. /\ pc = "count" /\ pc' = "batch" /\ next' = next + 1
        /\ UNCHANGED <<poll, packets, pending, open, finished>>
    BY <1>11 DEF CountPacket, Goto, sink, receiverVars, reading
  <2> QED
    BY <2>1, <1>a DEF ControlInv, InBody, Leaving, Unwound, Ended
<1>12. CASE ClosePipeline
  <2>1. /\ \/ pc = "stopping" /\ pc' = "joining"
           \/ pc = "unwinding" /\ pc' = "destroying"
        /\ ~open'
        /\ UNCHANGED <<poll, pending, finished>>
    BY <1>12 DEF ClosePipeline, StopMoves, Goto, Pipeline!Close, receiverVars,
                 reading
  <2> QED
    BY <2>1 DEF ControlInv, InBody, Leaving, Unwound, Ended
<1>13. CASE PipelineStopped
  <2>1. /\ \/ pc = "joining" /\ pc' = "summary"
           \/ pc = "destroying" /\ pc' = "failed"
        /\ finished' /\ ~open /\ pending = {}
        /\ UNCHANGED <<poll, pending, open>>
    BY <1>13 DEF PipelineStopped, StopMoves, Goto, Pipeline!Finish,
                 receiverVars, reading
  <2> QED
    BY <2>1 DEF ControlInv, InBody, Leaving, Unwound, Ended
<1>14. CASE Summarise
  <2>1. /\ pc = "summary" /\ pc' = "done"
        /\ UNCHANGED <<poll, pending, open, finished>>
    BY <1>14 DEF Summarise, sink, receiverVars, reading
  <2> QED
    BY <2>1 DEF ControlInv, InBody, Leaving, Unwound, Ended
<1>15. CASE PollFails
  <2>1. /\ pc = "poll" /\ pc' = "unwinding" /\ poll' = "thrown"
        /\ UNCHANGED <<pending, open, finished>>
    BY <1>15 DEF PollFails, PollThrowsTo, PollThrows, PollMoves, Goto, sink
  <2> QED
    BY <2>1 DEF ControlInv, InBody, Leaving, Unwound, Ended
<1> QED
  BY <1>1, <1>2, <1>3, <1>4, <1>5, <1>6, <1>7, <1>8, <1>9, <1>10, <1>11, <1>12,
     <1>13, <1>14, <1>15 DEF RuntimeNext, IoStep, Terminated
-----------------------------------------------------------------------------

\* The limit is respected in every step.
LEMMA LimitStep ==
  ASSUME RuntimeTypeOK, LimitInv, [RuntimeNext]_runtimeVars
  PROVE  LimitInv'
<1>a. received \in Nat /\ PacketCount \in Nat
  BY RuntimeAssumption DEF RuntimeTypeOK
<1>1. CASE \/ NetworkStep \/ (\E k \in pending : ProcessPacket(k))
           \/ UNCHANGED runtimeVars
  BY <1>1, OthersDo DEF LimitInv, LimitReached
<1>2. CASE RequestStop
  <2>1. stop' /\ UNCHANGED <<pc, received>>
    BY <1>2 DEF RequestStop, io
  <2> QED
    BY <2>1 DEF LimitInv, LimitReached
<1>3. CASE LoopPolls \/ BatchBegins \/ BatchEnds \/ PollFails \/ Receive
  <2>1. pc' \in {"poll", "batch", "loop", "unwinding"} \/ pc' = pc
    BY <1>3 DEF LoopPolls, BatchBegins, BatchEnds, PollFails, PollThrowsTo, Goto,
                Receive, io
  <2>2. UNCHANGED <<received, stop>>
    BY <1>3 DEF LoopPolls, BatchBegins, BatchEnds, PollFails, PollThrowsTo, Goto,
                Receive, io
  <2> QED
    BY <2>1, <2>2 DEF LimitInv, LimitReached, InBody, Leaving
<1>4. CASE LoopEnds
  <2>1. (stop \/ LimitReached) /\ UNCHANGED <<received, stop>> /\ pc' = "stopping"
    BY <1>4 DEF LoopEnds, Moves, Goto
  <2> QED
    BY <2>1 DEF LimitInv, LimitReached, InBody, Leaving
<1>5. CASE BatchContinues
  <2>1. ~LimitReached /\ UNCHANGED <<received, stop>> /\ pc' = "observe"
    BY <1>5 DEF BatchContinues, Moves, Goto
  <2> QED
    BY <2>1, <1>a DEF LimitInv, LimitReached, InBody, Leaving
<1>6. CASE ObservePacket \/ SubmitAccepted \/ SubmitQueueFull \/ ReportQueueDrop
  <2>1. pc \in InBody /\ pc' \in InBody /\ UNCHANGED <<received, stop>>
    BY <1>6 DEF ObservePacket, SubmitAccepted, SubmitQueueFull, Dropped,
                ReportQueueDrop, Goto, InBody
  <2> QED
    BY <2>1 DEF LimitInv, LimitReached, InBody, Leaving
<1>7. CASE CountPacket
  <2>1. pc = "count" /\ pc' = "batch" /\ received' = received + 1
    BY <1>7 DEF CountPacket, Goto
  <2> QED
    BY <2>1, <1>a DEF LimitInv, LimitReached, InBody, Leaving
<1>8. CASE ClosePipeline \/ PipelineStopped \/ Summarise
  <2>1. /\ \/ pc \in Leaving
           \/ pc' \in {"destroying", "failed"}
        /\ UNCHANGED <<received, stop>>
        /\ pc' \notin InBody
    BY <1>8 DEF ClosePipeline, PipelineStopped, StopMoves, Summarise, Goto,
                Leaving, InBody
  <2> QED
    BY <2>1 DEF LimitInv, LimitReached, Leaving
<1> QED
  BY <1>1, <1>2, <1>3, <1>4, <1>5, <1>6, <1>7, <1>8
     DEF RuntimeNext, IoStep, Terminated

\* After a stop, at most one poll and one packet were under way.
LEMMA MarkStep ==
  ASSUME RuntimeTypeOK, ControlInv, MarkInv, [RuntimeNext]_runtimeVars
  PROVE  MarkInv'
<1>a. /\ observed \in Seq(Packets) /\ Len(observed) \in Nat
      /\ mark.packets \in Nat /\ mark.wakeups \in Nat
      /\ receiver.wakeups \in Nat
  BY DEF RuntimeTypeOK, ReceiverTypeOK
<1>1. CASE \/ NetworkStep \/ (\E k \in pending : ProcessPacket(k))
           \/ UNCHANGED runtimeVars
  BY <1>1, OthersDo DEF MarkInv
<1>2. CASE RequestStop
  <2>1. /\ mark' = [packets |-> Len(observed), wakeups |-> receiver.wakeups]
        /\ UNCHANGED <<pc, poll, receiver, observed>>
    BY <1>2 DEF RequestStop, io, told, receiverVars, reading
  <2>2. mark'.packets = Len(observed) /\ mark'.wakeups = receiver.wakeups
    BY <2>1
  <2> QED
    BY <2>1, <2>2, <1>a DEF MarkInv
<1>3. CASE LoopPolls
  BY <1>3 DEF LoopPolls, Goto, MarkInv
<1>4. CASE Receive
  <2>1. /\ UNCHANGED <<stop, mark, pc, observed>>
        /\ poll' \in {"draining", "returned"}
        /\ \/ receiver'.wakeups = receiver.wakeups
           \/ poll = "waiting" /\ receiver'.wakeups = receiver.wakeups + 1
    BY <1>4, PollStepDoes DEF Receive, RuntimeTypeOK, io, told
  <2> QED
    BY <2>1, <1>a DEF MarkInv
<1>5. CASE BatchContinues
  BY <1>5 DEF BatchContinues, Moves, Goto, MarkInv
<1>6. CASE BatchEnds \/ PollFails
  <2>1. /\ UNCHANGED <<stop, mark, observed, receiver>>
        /\ pc' # "observe" /\ poll' # "waiting"
    BY <1>6 DEF BatchEnds, PollFails, PollThrowsTo, PollThrows, PollMoves, Goto,
                PacketsTaken, told
  <2> QED
    BY <2>1 DEF MarkInv
<1>7. CASE ObservePacket
  <2>1. /\ UNCHANGED <<stop, mark, receiver, poll>>
        /\ pc = "observe" /\ pc' = "submit"
        /\ Len(observed') = Len(observed) + 1
    BY <1>7, <1>a DEF ObservePacket, Goto, receiverVars, reading
  <2> QED
    BY <2>1, <1>a DEF MarkInv
<1>8. CASE LoopEnds \/ BatchBegins \/ SubmitAccepted \/ SubmitQueueFull
             \/ ReportQueueDrop \/ CountPacket
  <2>1. /\ UNCHANGED <<stop, mark, observed, receiver, poll>>
        /\ pc' # "observe"
    BY <1>8 DEF LoopEnds, BatchBegins, SubmitAccepted, SubmitQueueFull, Dropped,
                ReportQueueDrop, CountPacket, Moves, Goto, told, receiverVars,
                reading
  <2> QED
    BY <2>1 DEF MarkInv
<1>9. CASE ClosePipeline \/ PipelineStopped \/ Summarise
  <2>1. /\ UNCHANGED <<stop, mark, observed, receiver, poll>>
        /\ pc' # "observe"
    BY <1>9 DEF ClosePipeline, PipelineStopped, StopMoves, Summarise, Goto, told,
                receiverVars, reading
  <2> QED
    BY <2>1 DEF MarkInv
<1> QED
  BY <1>1, <1>2, <1>3, <1>4, <1>5, <1>6, <1>7, <1>8, <1>9
     DEF RuntimeNext, IoStep, Terminated

\* A packet is counted where it is observed, accepted or dropped.
LEMMA ReceivedStep ==
  ASSUME RuntimeTypeOK, ReceivedInv, [RuntimeNext]_runtimeVars
  PROVE  ReceivedInv'
<1>a. /\ observed \in Seq(Packets) /\ Len(observed) \in Nat /\ received \in Nat
      /\ metrics \in SinkMetrics
      /\ metrics.submitted \in Nat /\ metrics.dropped \in Nat
  BY DEF RuntimeTypeOK, SinkMetrics
<1>1. CASE \/ NetworkStep \/ UNCHANGED runtimeVars
  BY <1>1, OthersDo DEF ReceivedInv, NetworkStep, runtimeVars
<1>2. ASSUME NEW k \in pending, ProcessPacket(k)
      PROVE  ReceivedInv'
  <2>1. UNCHANGED <<pc, received, observed>>
    BY <1>2, OthersDo
  <2>2. \/ metrics' = metrics
        \/ metrics' = [metrics EXCEPT !["processed"] = @ + 1]
        \/ metrics' = [metrics EXCEPT !["failures"] = @ + 1]
    BY <1>2 DEF ProcessPacket, Examine, RejectPayload, ReportRejection,
                DecodePayload, CountType, HandlerReturns, HandlerThrows,
                PacketProcessed, CallEnds, Counted
  <2>3. /\ metrics'.submitted = metrics.submitted
        /\ metrics'.dropped = metrics.dropped
    BY <2>2, <1>a DEF SinkMetrics
  <2> QED
    BY <2>1, <2>3 DEF ReceivedInv
<1>3. CASE RequestStop
  BY <1>3 DEF RequestStop, io, told, ReceivedInv
<1>4. CASE Receive
  BY <1>4 DEF Receive, io, told, ReceivedInv
<1>5. CASE LoopPolls \/ LoopEnds \/ BatchBegins \/ BatchEnds \/ BatchContinues
             \/ PollFails
  <2>1. /\ UNCHANGED <<received, observed, metrics>>
        /\ pc \notin {"submit", "drop", "count"}
        /\ pc' \notin {"submit", "drop", "count"}
    BY <1>5 DEF LoopPolls, LoopEnds, BatchBegins, BatchEnds, BatchContinues,
                PollFails, PollThrowsTo, Moves, Goto, told
  <2> QED
    BY <2>1 DEF ReceivedInv
<1>6. CASE ClosePipeline \/ PipelineStopped \/ Summarise
  <2>1. /\ UNCHANGED <<received, observed, metrics>>
        /\ pc \notin {"submit", "drop", "count"}
        /\ pc' \notin {"submit", "drop", "count"}
    BY <1>6 DEF ClosePipeline, PipelineStopped, StopMoves, Summarise, Goto, told
  <2> QED
    BY <2>1 DEF ReceivedInv
<1>7. CASE ObservePacket
  <2>1. /\ UNCHANGED <<received, metrics>>
        /\ pc = "observe" /\ pc' = "submit"
        /\ Len(observed') = Len(observed) + 1
    BY <1>7, <1>a DEF ObservePacket, Goto
  <2> QED
    BY <2>1, <1>a DEF ReceivedInv
<1>8. CASE SubmitAccepted
  <2>1. /\ UNCHANGED <<received, observed>> /\ pc = "submit" /\ pc' = "count"
        /\ metrics' = [metrics EXCEPT !.submitted = metrics.submitted + 1]
    BY <1>8 DEF SubmitAccepted, Goto, told
  <2>2. /\ metrics'.submitted = metrics.submitted + 1
        /\ metrics'.dropped = metrics.dropped
    BY <2>1, <1>a DEF SinkMetrics
  <2> QED
    BY <2>1, <2>2, <1>a DEF ReceivedInv
<1>9. CASE SubmitQueueFull
  <2>1. /\ UNCHANGED <<received, observed>> /\ pc = "submit" /\ pc' = "drop"
        /\ metrics' = [metrics EXCEPT !.dropped = metrics.dropped + 1]
    BY <1>9 DEF SubmitQueueFull, Dropped, Goto, told
  <2>2. /\ metrics'.submitted = metrics.submitted
        /\ metrics'.dropped = metrics.dropped + 1
    BY <2>1, <1>a DEF SinkMetrics
  <2> QED
    BY <2>1, <2>2, <1>a DEF ReceivedInv
<1>10. CASE ReportQueueDrop
  <2>1. /\ UNCHANGED <<received, observed, metrics>>
        /\ pc = "drop" /\ pc' = "count"
    BY <1>10 DEF ReportQueueDrop, Goto
  <2> QED
    BY <2>1 DEF ReceivedInv
<1>11. CASE CountPacket
  <2>1. /\ UNCHANGED <<observed, metrics>> /\ pc = "count" /\ pc' = "batch"
        /\ received' = received + 1
    BY <1>11 DEF CountPacket, Goto, told
  <2> QED
    BY <2>1, <1>a DEF ReceivedInv
<1> QED
  BY <1>1, <1>2, <1>3, <1>4, <1>5, <1>6, <1>7, <1>8, <1>9, <1>10, <1>11
     DEF RuntimeNext, IoStep, Terminated
-----------------------------------------------------------------------------
\* Where the packets of the present poll stand in Out.
LEMMA OutEnds ==
  ASSUME ReceiverTypeOK
  PROVE  /\ Out \in Seq(Packets) /\ packets \in Seq(Packets)
         /\ Len(delivered) \in Nat /\ Len(packets) \in Nat
         /\ Len(Out) = Len(delivered) + Len(packets)
         /\ \A i \in 1..Len(packets) : Out[Len(delivered) + i] = packets[i]
<1>1. /\ delivered \in Seq(Packets) /\ packets \in Seq(Packets)
  BY DEF ReceiverTypeOK, Packets
<1> DEFINE m == Len(delivered)
           n == Len(packets)
<1>2. /\ m \in Nat /\ n \in Nat
      /\ Out \in Seq(Packets) /\ Len(Out) = m + n
      /\ \A i \in 1..n : Out[m + i] = packets[i]
  BY <1>1 DEF Out
<1> QED
  BY <1>1, <1>2

\* What poll() reads goes to the end of Out, what was there stays.
LEMMA OutGrows ==
  ASSUME ReceiverTypeOK, delivered' = delivered, packets' = packets
           \/ \E i \in Packets : packets' = Append(packets, i)
  PROVE  /\ Len(Out') \in Nat /\ Len(Out') >= Len(Out)
         /\ \A j \in 1..Len(Out) : Out'[j] = Out[j]
<1>1. /\ delivered \in Seq(Packets) /\ packets \in Seq(Packets)
  BY DEF ReceiverTypeOK, Packets
<1>2. CASE packets' = packets
  BY <1>2, OutEnds DEF Out
<1>3. ASSUME NEW i \in Packets, packets' = Append(packets, i)
      PROVE  /\ Len(Out') \in Nat /\ Len(Out') >= Len(Out)
             /\ \A j \in 1..Len(Out) : Out'[j] = Out[j]
  <2>1. Out' = Append(Out, i)
    BY <1>1, <1>3, ConcatAppend DEF Out
  <2>2. Out \in Seq(Packets)
    BY OutEnds
  <2>3. Len(Append(Out, i)) = Len(Out) + 1
        /\ \A j \in 1..Len(Out) : Append(Out, i)[j] = Out[j]
    BY <2>2, AppendProperties
  <2> QED
    BY <2>1, <2>2, <2>3
<1> QED
  BY <1>2, <1>3

\* The monitor sees the packets in the order in which poll() returns them.
LEMMA ObserveStep ==
  ASSUME RuntimeTypeOK, ReadingInv, ControlInv, ObserveInv,
         [RuntimeNext]_runtimeVars
  PROVE  ObserveInv'
<1>a. /\ observed \in Seq(Packets) /\ Len(observed) \in Nat
      /\ DOMAIN observed = 1..Len(observed) /\ next \in Nat
      /\ Out \in Seq(Packets) /\ Len(delivered) \in Nat /\ Len(packets) \in Nat
      /\ Len(Out) = Len(delivered) + Len(packets)
  BY OutEnds DEF RuntimeTypeOK
<1>b. /\ Len(observed) <= Len(Out)
      /\ \A i \in DOMAIN observed : observed[i] = Out[i]
  BY DEF ObserveInv
<1>1. CASE \/ NetworkStep \/ (\E k \in pending : ProcessPacket(k))
           \/ UNCHANGED runtimeVars
  BY <1>1, OthersDo DEF ObserveInv, Out, LimitReached
<1>2. CASE RequestStop
  <2>1. stop' /\ UNCHANGED <<pc, next, received, observed, delivered, packets>>
    BY <1>2 DEF RequestStop, io, told, receiverVars, reading
  <2> QED
    BY <2>1 DEF ObserveInv, Out, LimitReached
<1>3. CASE LoopPolls
  <2>1. /\ pc = "loop" /\ pc' = "poll" /\ packets' = <<>> /\ poll = "idle"
        /\ ~stop /\ ~LimitReached /\ UNCHANGED <<delivered, observed>>
    BY <1>3 DEF LoopPolls, Goto, PollCalled, told
  <2>2. packets' = packets
    BY <2>1 DEF ReadingInv
  <2> QED
    BY <2>1, <2>2 DEF ObserveInv, Out
<1>4. CASE LoopEnds
  <2>1. pc' = "stopping" /\ UNCHANGED <<delivered, packets, observed>>
    BY <1>4 DEF LoopEnds, Moves, Goto, told, receiverVars, reading
  <2> QED
    BY <2>1 DEF ObserveInv, Out
<1>5. CASE Receive
  <2>1. /\ poll \in {"waiting", "draining"} /\ delivered' = delivered
        /\ packets' = packets \/ \E i \in Packets : packets' = Append(packets, i)
        /\ UNCHANGED <<pc, observed>>
    BY <1>5, PollStepDoes DEF Receive, RuntimeTypeOK, io, told
  <2>2. pc = "poll"
    BY <2>1 DEF ControlInv, RuntimeTypeOK, InBody, Leaving, Unwound, Ended
  <2>3. /\ Len(Out') \in Nat /\ Len(Out') >= Len(Out)
        /\ \A j \in 1..Len(Out) : Out'[j] = Out[j]
    BY <2>1, OutGrows DEF RuntimeTypeOK
  <2>4. Len(observed) <= Len(Out')
    BY <2>3, <1>a, <1>b
  <2>5. \A i \in DOMAIN observed : observed[i] = Out'[i]
    <3> SUFFICES ASSUME NEW i \in DOMAIN observed
                 PROVE  observed[i] = Out'[i]
      OBVIOUS
    <3>1. i \in 1..Len(Out)
      BY <1>a, <1>b
    <3> QED
      BY <3>1, <2>3, <1>b
  <2> QED
    BY <2>1, <2>2, <2>4, <2>5 DEF ObserveInv
<1>6. CASE BatchBegins
  <2>1. /\ pc = "poll" /\ pc' = "batch" /\ next' = 1
        /\ UNCHANGED <<delivered, packets, observed>>
    BY <1>6 DEF BatchBegins, Goto, told, receiverVars, reading
  <2> QED
    BY <2>1 DEF ObserveInv, Out
<1>7. CASE BatchEnds
  <2>1. /\ pc = "batch" /\ pc' = "loop" /\ delivered' = Out /\ packets' = <<>>
        /\ next > Len(packets) \/ stop \/ LimitReached
        /\ UNCHANGED <<observed, stop, received>>
    BY <1>7 DEF BatchEnds, Goto, PacketsTaken, told, Out
  <2>2. Out' = Out
    BY <2>1, <1>a, ConcatEmptySeq DEF Out
  <2>3. next > Len(packets) => Len(observed) = Len(delivered')
    <3>1. next <= Len(packets) + 1 /\ Len(observed) + 1 = Len(delivered) + next
      BY <2>1 DEF ControlInv, ObserveInv
    <3>2. next > Len(packets) => Len(observed) = Len(Out)
      <4>1. \A o, d, n, p, q \in Nat :
              p <= n + 1 /\ o + 1 = d + p /\ q = d + n /\ p > n => o = q
        OBVIOUS
      <4>2. Len(Out) \in Nat
        BY <1>a
      <4> QED
        BY <3>1, <1>a, <4>1, <4>2, Zenon
    <3> QED
      BY <3>2, <2>1
  <2> QED
    BY <2>1, <2>2, <2>3, <1>b DEF ObserveInv, LimitReached
<1>8. CASE BatchContinues
  <2>1. /\ pc = "batch" /\ pc' = "observe"
        /\ UNCHANGED <<next, delivered, packets, observed>>
    BY <1>8 DEF BatchContinues, Moves, Goto, told, receiverVars, reading
  <2> QED
    BY <2>1 DEF ObserveInv, Out
<1>9. CASE ObservePacket
  <2> DEFINE k == packets[next]
  <2>1. /\ pc = "observe" /\ pc' = "submit"
        /\ observed' = Append(observed, k)
        /\ UNCHANGED <<next, delivered, packets>>
    BY <1>9 DEF ObservePacket, Goto, receiverVars, reading
  <2>2. next \in 1..Len(packets)
    BY <2>1, <1>a DEF ControlInv, InBody, RuntimeTypeOK
  <2>3. k \in Packets /\ Out[Len(delivered) + next] = k
    <3>1. packets \in Seq(Packets)
      BY OutEnds DEF RuntimeTypeOK
    <3> QED
      BY <3>1, <2>2, OutEnds, ElementOfSeq DEF RuntimeTypeOK
  <2> HIDE DEF k
  <2>4. Len(observed) + 1 = Len(delivered) + next
    BY <2>1 DEF ObserveInv
  <2>5. /\ Len(observed') = Len(observed) + 1
        /\ DOMAIN observed' = 1..(Len(observed) + 1)
        /\ \A i \in DOMAIN observed : observed'[i] = observed[i]
        /\ observed'[Len(observed) + 1] = k
    BY <2>1, <2>3, <1>a, AppendAdds
  <2>6. \A i \in DOMAIN observed' : observed'[i] = Out[i]
    <3> SUFFICES ASSUME NEW i \in DOMAIN observed'
                 PROVE  observed'[i] = Out[i]
      OBVIOUS
    <3>1. i \in DOMAIN observed \/ i = Len(observed) + 1
      BY <2>5, <1>a
    <3>2. Out[Len(observed) + 1] = k
      BY <2>3, <2>4
    <3> QED
      BY <3>1, <3>2, <2>5, <1>b
  <2>7. Len(observed') <= Len(Out)
    BY <2>2, <2>4, <2>5, <1>a
  <2>8. Len(observed') = Len(delivered) + next
    BY <2>4, <2>5
  <2> QED
    BY <2>1, <2>6, <2>7, <2>8 DEF ObserveInv, Out
<1>10. CASE SubmitAccepted \/ SubmitQueueFull \/ ReportQueueDrop
  <2>1. /\ pc \in {"submit", "drop"} /\ pc' \in {"drop", "count"}
        /\ UNCHANGED <<next, delivered, packets, observed>>
    BY <1>10 DEF SubmitAccepted, SubmitQueueFull, Dropped, ReportQueueDrop,
                 Goto, told, receiverVars, reading
  <2> QED
    BY <2>1 DEF ObserveInv, Out
<1>11. CASE CountPacket
  <2>1. /\ pc = "count" /\ pc' = "batch" /\ next' = next + 1
        /\ UNCHANGED <<delivered, packets, observed>>
    BY <1>11 DEF CountPacket, Goto, told, receiverVars, reading
  <2>2. Len(observed) + 1 = Len(delivered) + (next + 1)
    <3>1. Len(observed) = Len(delivered) + next
      BY <2>1 DEF ObserveInv
    <3>2. \A o, d, n \in Nat : o = d + n => o + 1 = d + (n + 1)
      OBVIOUS
    <3> QED
      BY <3>1, <3>2, <1>a
  <2> QED
    BY <2>1, <2>2 DEF ObserveInv, Out
<1>12. CASE ClosePipeline \/ PipelineStopped \/ Summarise
  <2>1. /\ pc' \in {"joining", "destroying", "summary", "failed", "done"}
        /\ UNCHANGED <<delivered, packets, observed>>
    BY <1>12 DEF ClosePipeline, PipelineStopped, StopMoves, Summarise, Goto,
                 told, receiverVars, reading
  <2> QED
    BY <2>1 DEF ObserveInv, Out
<1>13. CASE PollFails
  <2>1. /\ pc' = "unwinding"
        /\ UNCHANGED <<delivered, packets, observed>>
    BY <1>13 DEF PollFails, PollThrowsTo, PollThrows, PollMoves, Goto, told
  <2> QED
    BY <2>1 DEF ObserveInv, Out
<1> QED
  BY <1>1, <1>2, <1>3, <1>4, <1>5, <1>6, <1>7, <1>8, <1>9, <1>10, <1>11, <1>12,
     <1>13 DEF RuntimeNext, IoStep, Terminated
-----------------------------------------------------------------------------
(* The types.                                                              *)

Places == Ended \cup
  {"loop", "poll", "batch", "observe", "submit", "drop", "count",
   "stopping", "joining", "summary", "unwinding", "destroying"}

Stages == {"queued", "examined", "rejected", "decoded", "typed", "handled",
           "failed", "processed"}

\* The part of RuntimeTypeOK about the I/O thread.
IoTyped ==
  /\ stop \in BOOLEAN
  /\ pc \in Places
  /\ next \in 1..(MaxDatagrams + 1)
  /\ received \in Nat
  /\ mark \in [packets : Nat, wakeups : Nat]
  /\ observed \in Seq(Packets)

\* The part of RuntimeTypeOK about the sink and the workers.
SinkTyped ==
  /\ metrics \in SinkMetrics
  /\ pending \cup completed \subseteq Packets
  /\ open \in BOOLEAN /\ finished \in BOOLEAN
  /\ stage \in [Packets -> Stages]
  /\ samples \in Samples
  /\ issues \subseteq Packets \X {"queue_dropped", "payload_rejected"}
  /\ Cardinality(summary) <= 1

\* RuntimeTypeOK, split in three.
LEMMA TypeSplits == RuntimeTypeOK <=> ReceiverTypeOK /\ IoTyped /\ SinkTyped
  BY DEF RuntimeTypeOK, IoTyped, SinkTyped, Places, Stages, SinkMetrics, Samples

\* The packet under the I/O thread's hands is one that poll() returned.
LEMMA PresentPacket ==
  ASSUME RuntimeTypeOK, ControlInv, pc \in InBody
  PROVE  next \in 1..Len(packets) /\ packets[next] \in Packets
<1>1. packets \in Seq(Packets) /\ Len(packets) \in Nat
  BY OutEnds DEF RuntimeTypeOK
<1>2. next \in 1..Len(packets)
  BY <1>1 DEF ControlInv, RuntimeTypeOK
<1> QED
  BY <1>1, <1>2, ElementOfSeq

\* The I/O thread's variables keep their types.
LEMMA IoTypeStep ==
  ASSUME RuntimeTypeOK, ReadingInv, ControlInv, [RuntimeNext]_runtimeVars
  PROVE  IoTyped'
<1>a. IoTyped /\ ReceiverTypeOK
  BY TypeSplits
<1>1. CASE \/ NetworkStep \/ (\E k \in pending : ProcessPacket(k))
           \/ UNCHANGED runtimeVars
  BY <1>1, <1>a, OthersDo DEF IoTyped
<1>2. CASE RequestStop
  <2>1. /\ stop' = TRUE /\ UNCHANGED <<pc, next, received, observed>>
        /\ mark' = [packets |-> Len(observed), wakeups |-> receiver.wakeups]
    BY <1>2 DEF RequestStop, io, told
  <2>2. Len(observed) \in Nat /\ receiver.wakeups \in Nat
    BY <1>a DEF IoTyped, ReceiverTypeOK
  <2> QED
    BY <2>1, <2>2, <1>a DEF IoTyped
<1>3. CASE Receive
  BY <1>3, <1>a DEF Receive, io, told, IoTyped
<1>4. CASE LoopPolls \/ LoopEnds \/ BatchContinues \/ BatchEnds \/ PollFails
             \/ SubmitAccepted \/ SubmitQueueFull \/ ReportQueueDrop
  <2>1. UNCHANGED <<stop, mark, next, received, observed>>
    BY <1>4 DEF LoopPolls, LoopEnds, BatchContinues, BatchEnds, PollFails,
                PollThrowsTo, SubmitAccepted, SubmitQueueFull, Dropped,
                ReportQueueDrop, Moves, Goto, told
  <2>2. pc' \in Places
    BY <1>4 DEF LoopPolls, LoopEnds, BatchContinues, BatchEnds, PollFails,
                PollThrowsTo, SubmitAccepted, SubmitQueueFull, Dropped,
                ReportQueueDrop, Moves, Goto, Places
  <2> QED
    BY <2>1, <2>2, <1>a DEF IoTyped
<1>5. CASE BatchBegins
  <2>1. /\ UNCHANGED <<stop, mark, received, observed>>
        /\ next' = 1 /\ pc' = "batch"
    BY <1>5 DEF BatchBegins, Goto, told
  <2>2. next' \in 1..(MaxDatagrams + 1)
    BY <2>1, ReceiverAssumption
  <2> QED
    BY <2>1, <2>2, <1>a DEF IoTyped, Places
<1>6. CASE ObservePacket
  <2>1. /\ UNCHANGED <<stop, mark, next, received>> /\ pc = "observe"
        /\ observed' = Append(observed, packets[next]) /\ pc' = "submit"
    BY <1>6 DEF ObservePacket, Goto
  <2>2. packets[next] \in Packets
    BY <2>1, PresentPacket DEF InBody
  <2>3. observed' \in Seq(Packets)
    BY <2>1, <2>2, <1>a DEF IoTyped
  <2> QED
    BY <2>1, <2>3, <1>a DEF IoTyped, Places
<1>7. CASE CountPacket
  <2>1. /\ UNCHANGED <<stop, mark, observed>> /\ pc = "count"
        /\ received' = received + 1 /\ next' = next + 1 /\ pc' = "batch"
    BY <1>7 DEF CountPacket, Goto, told
  <2>2. next \in 1..Len(packets) /\ Len(packets) \in 0..MaxDatagrams
    BY <2>1, <1>a, PresentPacket, PacketsBounded DEF InBody
  <2>3. next' \in 1..(MaxDatagrams + 1) /\ received' \in Nat
    BY <2>1, <2>2, <1>a, ReceiverAssumption DEF IoTyped
  <2> QED
    BY <2>1, <2>3, <1>a DEF IoTyped, Places
<1>8. CASE ClosePipeline \/ PipelineStopped \/ Summarise
  <2>1. /\ UNCHANGED <<stop, mark, next, received, observed>>
        /\ pc' \in Places
    BY <1>8 DEF ClosePipeline, PipelineStopped, StopMoves, Summarise, Goto,
                told, Places, Ended
  <2> QED
    BY <2>1, <1>a DEF IoTyped
<1> QED
  BY <1>1, <1>2, <1>3, <1>4, <1>5, <1>6, <1>7, <1>8
     DEF RuntimeNext, IoStep, Terminated

\* A worker's step keeps the types of the sink's variables.
LEMMA WorkerTypes ==
  ASSUME RuntimeTypeOK, NEW k \in pending, ProcessPacket(k)
  PROVE  SinkTyped'
<1>a. SinkTyped
  BY TypeSplits
<1>b. k \in Packets
  BY <1>a DEF SinkTyped
<1>1. \E to \in Stages : stage' = [stage EXCEPT ![k] = to]
  BY DEF ProcessPacket, Examine, RejectPayload, ReportRejection, DecodePayload,
         CountType, HandlerReturns, HandlerThrows, PacketProcessed, CallEnds,
         Counted, Advance, Stages
<1>2. stage' \in [Packets -> Stages]
  BY <1>1, <1>a DEF SinkTyped
<1>3. \/ metrics' = metrics
      \/ metrics' = [metrics EXCEPT !["processed"] = @ + 1]
      \/ metrics' = [metrics EXCEPT !["failures"] = @ + 1]
  BY DEF ProcessPacket, Examine, RejectPayload, ReportRejection, DecodePayload,
         CountType, HandlerReturns, HandlerThrows, PacketProcessed, CallEnds,
         Counted
<1>4. metrics' \in SinkMetrics
  <2>1. /\ metrics \in SinkMetrics
        /\ metrics.processed + 1 \in Nat /\ metrics.failures + 1 \in Nat
    BY <1>a DEF SinkTyped, SinkMetrics
  <2> QED
    BY <2>1, <1>3 DEF SinkMetrics
<1>5. \/ samples' = samples
      \/ samples' = [samples EXCEPT !["examined"] = @ + 1]
      \/ samples' = [samples EXCEPT !["decoded"] = @ + 1]
      \/ samples' = [samples EXCEPT !["typed"] = @ + 1]
      \/ samples' = [samples EXCEPT !["rejected"] = @ + 1]
  BY DEF ProcessPacket, Examine, RejectPayload, ReportRejection, DecodePayload,
         CountType, HandlerReturns, HandlerThrows, PacketProcessed, CallEnds,
         Counted
<1>6. samples' \in Samples
  <2>1. /\ samples \in Samples
        /\ samples.examined + 1 \in Nat /\ samples.decoded + 1 \in Nat
        /\ samples.typed + 1 \in Nat /\ samples.rejected + 1 \in Nat
    BY <1>a DEF SinkTyped, Samples
  <2> QED
    BY <2>1, <1>5 DEF Samples
<1>7. issues' = issues \/ issues' = issues \cup {<<k, "payload_rejected">>}
  BY DEF ProcessPacket, Examine, RejectPayload, ReportRejection, DecodePayload,
         CountType, HandlerReturns, HandlerThrows, PacketProcessed, CallEnds,
         Counted
<1>8. issues' \subseteq Packets \X {"queue_dropped", "payload_rejected"}
  BY <1>7, <1>a, <1>b DEF SinkTyped
<1>9. pending' \cup completed' \subseteq pending \cup completed
  BY DEF ProcessPacket, Examine, RejectPayload, ReportRejection, DecodePayload,
         CountType, HandlerReturns, HandlerThrows, PacketProcessed, CallEnds,
         Counted, Pipeline!Complete, sink
<1>10. UNCHANGED <<open, finished, summary>>
  BY OthersDo
<1>11. pending' \cup completed' \subseteq Packets
  BY <1>9, <1>a DEF SinkTyped
<1> QED
  BY <1>2, <1>4, <1>6, <1>8, <1>10, <1>11, <1>a DEF SinkTyped

\* The sink's variables keep their types.
LEMMA SinkTypeStep ==
  ASSUME RuntimeTypeOK, ControlInv, [RuntimeNext]_runtimeVars
  PROVE  SinkTyped'
<1>a. SinkTyped
  BY TypeSplits
<1>b. /\ metrics \in SinkMetrics
      /\ metrics.submitted + 1 \in Nat /\ metrics.dropped + 1 \in Nat
  BY <1>a DEF SinkTyped, SinkMetrics
<1>1. CASE \E k \in pending : ProcessPacket(k)
  BY <1>1, WorkerTypes
<1>2. CASE RequestStop \/ NetworkStep \/ Receive \/ UNCHANGED runtimeVars
  BY <1>2, <1>a DEF RequestStop, NetworkStep, Receive, runtimeVars, sink, told,
                    SinkTyped
<1>3. CASE LoopPolls \/ LoopEnds \/ BatchContinues \/ BatchBegins \/ BatchEnds
             \/ PollFails \/ CountPacket \/ ObservePacket
  <2>1. UNCHANGED <<sink, stage, metrics, samples, issues, summary>>
    BY <1>3 DEF LoopPolls, LoopEnds, BatchContinues, BatchBegins, BatchEnds,
                PollFails, PollThrowsTo, CountPacket, ObservePacket, Moves, Goto,
                told
  <2> QED
    BY <2>1, <1>a DEF sink, SinkTyped
<1>4. CASE SubmitAccepted
  <2>1. /\ pc = "submit" /\ pending' = pending \cup {packets[next]}
        /\ metrics' = [metrics EXCEPT !.submitted = metrics.submitted + 1]
        /\ UNCHANGED <<completed, open, finished, stage, samples, issues, summary>>
    BY <1>4 DEF SubmitAccepted, Goto, Pipeline!Accept, told
  <2>2. packets[next] \in Packets
    BY <2>1, PresentPacket DEF InBody
  <2>3. metrics' \in SinkMetrics
    BY <2>1, <1>b DEF SinkMetrics
  <2>4. pending' \cup completed' \subseteq Packets
    BY <2>1, <2>2, <1>a DEF SinkTyped
  <2> QED
    BY <2>1, <2>3, <2>4, <1>a DEF SinkTyped
<1>5. CASE SubmitQueueFull
  <2>1. /\ metrics' = [metrics EXCEPT !.dropped = metrics.dropped + 1]
        /\ UNCHANGED <<pending, completed, open, finished, stage, samples,
                       issues, summary>>
    BY <1>5 DEF SubmitQueueFull, Dropped, Goto, told, sink
  <2>2. metrics' \in SinkMetrics
    BY <2>1, <1>b DEF SinkMetrics
  <2> QED
    BY <2>1, <2>2, <1>a DEF SinkTyped
<1>6. CASE ReportQueueDrop
  <2>1. /\ pc = "drop" /\ issues' = issues \cup {<<packets[next], "queue_dropped">>}
        /\ UNCHANGED <<pending, completed, open, finished, stage, samples,
                       metrics, summary>>
    BY <1>6 DEF ReportQueueDrop, Goto, sink
  <2>2. packets[next] \in Packets
    BY <2>1, PresentPacket DEF InBody
  <2>3. issues' \subseteq Packets \X {"queue_dropped", "payload_rejected"}
    BY <2>1, <2>2, <1>a DEF SinkTyped
  <2> QED
    BY <2>1, <2>3, <1>a DEF SinkTyped
<1>7. CASE ClosePipeline \/ PipelineStopped
  <2>1. /\ UNCHANGED <<pending, completed, stage, samples, metrics, issues, summary>>
        /\ open' \in {FALSE, open} /\ finished' \in {TRUE, finished}
    BY <1>7 DEF ClosePipeline, PipelineStopped, StopMoves, Goto, told,
                Pipeline!Close, Pipeline!Finish
  <2> QED
    BY <2>1, <1>a DEF SinkTyped
<1>8. CASE Summarise
  <2>1. /\ UNCHANGED <<pending, completed, open, finished, stage, samples,
                       metrics, issues>>
        /\ \E s : summary' = {s}
    BY <1>8 DEF Summarise, told, sink
  <2>2. Cardinality(summary') <= 1
    <3>1. PICK s : summary' = {s}
      BY <2>1
    <3>2. Cardinality({s}) = 1
      BY FS_Singleton
    <3> QED
      BY <3>1, <3>2
  <2> QED
    BY <2>1, <2>2, <1>a DEF SinkTyped
<1> QED
  BY <1>1, <1>2, <1>3, <1>4, <1>5, <1>6, <1>7, <1>8
     DEF RuntimeNext, IoStep, Terminated

\* The initial state is well typed, and the places are in step.
LEMMA RuntimeStarts ==
  ASSUME RuntimeInit, ReceiverTypeOK
  PROVE  /\ RuntimeTypeOK /\ ControlInv /\ LimitInv /\ MarkInv
         /\ ObserveInv /\ ReceivedInv
<1>1. /\ stop = FALSE /\ mark = [packets |-> 0, wakeups |-> 0]
      /\ pc = "loop" /\ next = 1 /\ received = 0
      /\ metrics = [submitted |-> 0, dropped |-> 0, processed |-> 0,
                    failures |-> 0]
      /\ stage = [k \in Packets |-> "queued"]
      /\ samples = [examined |-> 0, decoded |-> 0, typed |-> 0, rejected |-> 0]
      /\ observed = <<>> /\ issues = {} /\ summary = {}
  BY DEF RuntimeInit
<1>2. pending = {} /\ completed = {} /\ open = TRUE /\ finished = FALSE
  BY DEF RuntimeInit, Pipeline!Init
<1>3. poll = "idle" /\ delivered = <<>> /\ packets = <<>>
  BY DEF RuntimeInit, ReceiverInit
<1>4. Out = <<>> /\ Len(Out) = 0 /\ Len(observed) = 0 /\ Len(delivered) = 0
      /\ DOMAIN observed = {}
  BY <1>1, <1>3 DEF Out
<1>5. IoTyped
  <2>1. next \in 1..(MaxDatagrams + 1) /\ observed \in Seq(Packets)
    BY <1>1, ReceiverAssumption
  <2>2. mark \in [packets : Nat, wakeups : Nat]
    BY <1>1
  <2> QED
    BY <1>1, <2>1, <2>2 DEF IoTyped, Places
<1>6. SinkTyped
  <2>1. metrics \in SinkMetrics
    BY <1>1 DEF SinkMetrics
  <2>2. samples \in Samples
    BY <1>1 DEF Samples
  <2>3. stage \in [Packets -> Stages]
    BY <1>1 DEF Stages
  <2>4. Cardinality(summary) <= 1
    BY <1>1, FS_EmptySet
  <2> QED
    BY <1>1, <1>2, <2>1, <2>2, <2>3, <2>4 DEF SinkTyped
<1>7. ControlInv
  BY <1>1, <1>2, <1>3 DEF ControlInv, InBody, Leaving, Unwound, Ended
<1>8. LimitInv
  BY <1>1, RuntimeAssumption DEF LimitInv, InBody, Leaving
<1>9. MarkInv
  BY <1>1 DEF MarkInv
<1>10. ObserveInv
  BY <1>1, <1>4 DEF ObserveInv
<1>11. ReceivedInv
  BY <1>1, <1>4 DEF ReceivedInv
<1> QED
  BY <1>5, <1>6, <1>7, <1>8, <1>9, <1>10, <1>11, TypeSplits

\* The part of the invariant that the threads and the batches need.
ThreadInv == RuntimeTypeOK /\ ReadingInv /\ ControlInv

\* The variables of the runtime keep their types, and the I/O thread, the
\* receiver and the pipeline are where they expect each other to be.
THEOREM RuntimeTyping == RuntimeSafeSpec => []ThreadInv
<1>1. RuntimeInit /\ ReceiverTypeOK => RuntimeTypeOK /\ ControlInv
  BY RuntimeStarts
<1>2. /\ RuntimeTypeOK /\ ControlInv /\ ReadingInv /\ [RuntimeNext]_runtimeVars
      /\ ReceiverTypeOK'
      => RuntimeTypeOK' /\ ControlInv'
  <2> SUFFICES ASSUME RuntimeTypeOK, ControlInv, ReadingInv,
                      [RuntimeNext]_runtimeVars, ReceiverTypeOK'
               PROVE  RuntimeTypeOK' /\ ControlInv'
    OBVIOUS
  <2>1. IoTyped' /\ SinkTyped' /\ ControlInv'
    BY IoTypeStep, SinkTypeStep, ControlStep
  <2>2. (ReceiverTypeOK /\ IoTyped /\ SinkTyped => RuntimeTypeOK)'
    BY TypeSplits, PTL
  <2> QED
    BY <2>1, <2>2
<1> QED
  BY <1>1, <1>2, ReceiverInvariants, PTL DEF RuntimeSafeSpec, ThreadInv

\* --count: the limit is exact; runtime.cpp's check in both loops.
THEOREM LimitProved == RuntimeSafeSpec => []LimitIsExact
<1>1. RuntimeInit /\ ReceiverTypeOK => LimitInv
  BY RuntimeStarts
<1>2. RuntimeTypeOK /\ LimitInv /\ [RuntimeNext]_runtimeVars => LimitInv'
  BY LimitStep
<1>3. RuntimeTypeOK /\ LimitInv => LimitIsExact
  <2> SUFFICES ASSUME RuntimeTypeOK, LimitInv PROVE LimitIsExact
    OBVIOUS
  <2>1. received \in Nat /\ PacketCount \in Nat
    BY RuntimeAssumption DEF RuntimeTypeOK
  <2> QED
    BY <2>1 DEF LimitInv, LimitIsExact, LimitReached, Leaving
<1> QED
  BY <1>1, <1>2, <1>3, RuntimeTyping, ReceiverInvariants, PTL
     DEF RuntimeSafeSpec, ThreadInv

\* When run() has left, by return or by exception, the pipeline has been
\* closed, drained and joined: no worker can touch what run() has destroyed.
THEOREM NoUseAfterReturnProved == RuntimeSafeSpec => []NoUseAfterReturn
<1>1. ControlInv => NoUseAfterReturn
  BY DEF ControlInv, NoUseAfterReturn, Ended
<1> QED
  BY <1>1, RuntimeTyping, PTL DEF ThreadInv

\* A requested stop lets at most one more poll deliver packets and at most one
\* more packet through, wherever the signal falls.
THEOREM StopIsNoticedProved == RuntimeSafeSpec => []StopIsNoticed
<1>1. RuntimeInit /\ ReceiverTypeOK => MarkInv
  BY RuntimeStarts
<1>2. RuntimeTypeOK /\ ControlInv /\ MarkInv /\ [RuntimeNext]_runtimeVars
        => MarkInv'
  BY MarkStep
<1>3. MarkInv => StopIsNoticed
  BY DEF MarkInv, StopIsNoticed
<1> QED
  BY <1>1, <1>2, <1>3, RuntimeTyping, ReceiverInvariants, PTL
     DEF RuntimeSafeSpec, ThreadInv

\* The packets of a batch and the observations, in every state.
LEMMA Observations == RuntimeSafeSpec => [](ThreadInv /\ ObserveInv /\ ReceivedInv)
<1>1. RuntimeInit /\ ReceiverTypeOK => ObserveInv /\ ReceivedInv
  BY RuntimeStarts
<1>2. ThreadInv /\ ObserveInv /\ [RuntimeNext]_runtimeVars => ObserveInv'
  BY ObserveStep DEF ThreadInv
<1>3. ThreadInv /\ ReceivedInv /\ [RuntimeNext]_runtimeVars => ReceivedInv'
  BY ReceivedStep DEF ThreadInv
<1> QED
  BY <1>1, <1>2, <1>3, RuntimeTyping, ReceiverInvariants, PTL
     DEF RuntimeSafeSpec

\* Observations in the order of Out are in the order of arrival.
LEMMA ObservedFollowsOut ==
  ASSUME RuntimeTypeOK, ReadingInv, ObserveInv
  PROVE  ObservedInArrivalOrder
<1>a. /\ observed \in Seq(Packets) /\ DOMAIN observed = 1..Len(observed)
      /\ Len(observed) \in Nat
      /\ Out \in Seq(Packets) /\ DOMAIN Out = 1..Len(Out) /\ Len(Out) \in Nat
      /\ arrivals \in Seq([listener : Listeners, valid : BOOLEAN])
      /\ DOMAIN arrivals = 1..Len(arrivals) /\ Len(arrivals) \in Nat
  <2>1. observed \in Seq(Packets)
    BY DEF RuntimeTypeOK
  <2>2. Out \in Seq(Packets)
    BY OutEnds DEF RuntimeTypeOK
  <2>3. arrivals \in Seq([listener : Listeners, valid : BOOLEAN])
    BY DEF RuntimeTypeOK, ReceiverTypeOK
  <2> QED
    BY <2>1, <2>2, <2>3, LenProperties
<1>b. /\ Len(observed) <= Len(Out)
      /\ \A i \in DOMAIN observed : observed[i] = Out[i]
  BY DEF ObserveInv
<1>c. \A i \in DOMAIN observed : i \in DOMAIN Out
  BY <1>a, <1>b
<1>d. Kept(arrivals, buffer, Out)
  BY DEF ReadingInv
<1>1. InOrder(observed)
  <2>1. Ordered(Out, arrivals)
    BY <1>d DEF Kept
  <2> QED
    BY <2>1, <1>b, <1>c DEF InOrder, Ordered
<1>2. ASSUME NEW b \in DOMAIN observed
      PROVE  LET k == observed[b] IN
             /\ k \in DOMAIN arrivals /\ arrivals[k].valid
             /\ \A i \in 1..k :
                  arrivals[i].valid /\ arrivals[i].listener = arrivals[k].listener
                    => i \in Range(observed)
  <2> DEFINE k == observed[b]
  <2>1. k \in Range(Out) /\ b \in DOMAIN Out /\ k = Out[b]
    BY <1>b, <1>c DEF Range
  <2> HIDE DEF k
  <2>2. k \in DOMAIN arrivals /\ arrivals[k].valid
    BY <2>1, <1>d DEF Kept
  <2>3. ASSUME NEW i \in 1..k, arrivals[i].valid,
               arrivals[i].listener = arrivals[k].listener
        PROVE  i \in Range(observed)
    <3> DEFINE l == arrivals[k].listener
    <3>1. i \in DOMAIN arrivals /\ i \in Nat /\ k \in Nat /\ ~(k < i)
      BY <2>2, <1>a
    <3>2. l \in Listeners
      <4>1. arrivals[k] \in [listener : Listeners, valid : BOOLEAN]
        BY <2>2, <1>a, ElementOfSeq
      <4> QED
        BY <4>1
    <3> HIDE DEF l
    <3>3. i \notin Range(buffer[l])
      <4>1. Precede(Range(Out), Range(buffer[l]), arrivals)
        BY <3>2, <1>d DEF Kept
      <4> QED
        BY <4>1, <3>1, <2>1, <2>3 DEF Precede
    <3>4. i \in Range(Out)
      BY <3>1, <3>3, <2>3, <1>d DEF Kept, l
    <3>5. PICK a \in DOMAIN Out : i = Out[a]
      BY <3>4 DEF Range
    <3>6. CASE a \in DOMAIN observed
      BY <3>5, <3>6, <1>b DEF Range
    <3>7. CASE a \notin DOMAIN observed
      <4>1. b < a
        BY <3>7, <1>a
      <4>2. Ordered(Out, arrivals)
        BY <1>d DEF Kept
      <4>3. k < i
        BY <4>1, <4>2, <2>1, <2>3, <3>5 DEF Ordered
      <4> QED
        BY <4>3, <3>1
    <3> QED
      BY <3>6, <3>7
  <2> QED
    BY <2>2, <2>3 DEF k
<1> QED
  BY <1>1, <1>2 DEF ObservedInArrivalOrder, Range

\* What the monitor is told: every listener's valid packets, in the order in
\* which their datagrams arrived, without a hole.
THEOREM ArrivalOrderProved == RuntimeSafeSpec => []ObservedInArrivalOrder
  BY Observations, ObservedFollowsOut, PTL DEF ThreadInv
-----------------------------------------------------------------------------
(* The sink: what happens to every packet.                                 *)

\* The packet that is being submitted or reported as dropped has just been
\* observed, and nothing has been decided about it before.
LEMMA FreshPacket ==
  ASSUME ThreadInv, ObserveInv, pc \in {"submit", "drop"}
  PROVE  /\ packets[next] \in Packets
         /\ Len(observed) \in Nat \ {0}
         /\ packets[next] = observed[Len(observed)]
         /\ packets[next] \notin Handed
<1>a. /\ observed \in Seq(Packets) /\ DOMAIN observed = 1..Len(observed)
      /\ Len(observed) \in Nat
  BY LenProperties DEF ThreadInv, RuntimeTypeOK
<1>b. /\ Out \in Seq(Packets) /\ DOMAIN Out = 1..Len(Out) /\ Len(Out) \in Nat
      /\ Len(delivered) \in Nat
      /\ \A i \in 1..Len(packets) : Out[Len(delivered) + i] = packets[i]
  BY OutEnds, LenProperties DEF ThreadInv, RuntimeTypeOK
<1>c. next \in 1..Len(packets) /\ packets[next] \in Packets /\ next \in Nat \ {0}
  BY PresentPacket DEF ThreadInv, InBody, RuntimeTypeOK
<1>d. /\ Len(observed) = Len(delivered) + next /\ Len(observed) <= Len(Out)
      /\ \A i \in DOMAIN observed : observed[i] = Out[i]
  BY DEF ObserveInv
<1>1. Len(observed) \in Nat \ {0}
  BY <1>a, <1>b, <1>c, <1>d
<1>2. packets[next] = observed[Len(observed)]
  <2>1. Len(observed) \in DOMAIN observed
    BY <1>a, <1>1
  <2>2. observed[Len(observed)] = Out[Len(delivered) + next]
    BY <2>1, <1>d
  <2> QED
    BY <2>2, <1>b, <1>c
<1>3. ASSUME packets[next] \in Handed
      PROVE  FALSE
  <2>1. PICK i \in 1..(Len(observed) - 1) : observed[i] = packets[next]
    BY <1>3 DEF Handed
  <2> DEFINE n == Len(observed)
  <2>2. /\ i \in DOMAIN observed /\ n \in DOMAIN observed /\ i < n
        /\ i \in DOMAIN Out /\ n \in DOMAIN Out
    BY <1>a, <1>b, <1>d, <1>1
  <2> HIDE DEF n
  <2>3. Out[i] = packets[next] /\ Out[n] = packets[next]
    BY <2>1, <2>2, <1>2, <1>d DEF n
  <2>4. Ordered(Out, arrivals)
    BY DEF ThreadInv, ReadingInv, Kept
  <2>5. packets[next] < packets[next]
    BY <2>2, <2>3, <2>4 DEF Ordered
  <2>6. packets[next] \in Nat
    BY <1>c DEF Packets
  <2> QED
    BY <2>5, <2>6
<1> QED
  BY <1>1, <1>2, <1>3, <1>c

\* Deciding about the packet under the I/O thread's hands adds it to Handed.
LEMMA HandedGrows ==
  ASSUME ThreadInv, ObserveInv, pc \in {"submit", "drop"}, pc' = "count",
         observed' = observed
  PROVE  Handed' = Handed \cup {packets[next]}
<1> DEFINE n == Len(observed)
<1>1. n \in Nat \ {0} /\ packets[next] = observed[n]
  BY FreshPacket
<1>2. Handed = {observed[i] : i \in 1..(n - 1)} /\ Handed' = {observed[i] : i \in 1..(n - 0)}
  BY DEF Handed
<1> HIDE DEF n
<1>3. 1..(n - 0) = (1..(n - 1)) \cup {n}
  BY <1>1
<1> QED
  BY <1>1, <1>2, <1>3

\* Outside submission, Handed depends only on what has been observed.
LEMMA HandedStays ==
  ASSUME observed' = observed, pc \in {"submit", "drop"} <=> pc' \in {"submit", "drop"}
  PROVE  Handed' = Handed
  BY DEF Handed

\* Observing a packet decides nothing about it yet.
LEMMA HandedWaits ==
  ASSUME ThreadInv, pc = "observe", pc' = "submit",
         observed' = Append(observed, packets[next])
  PROVE  Handed' = Handed
<1> DEFINE n == Len(observed)
           q == observed'
<1>1. packets[next] \in Packets /\ observed \in Seq(Packets)
  BY PresentPacket DEF ThreadInv, InBody, RuntimeTypeOK
<1>2. /\ n \in Nat /\ DOMAIN observed = 1..n /\ Len(q) = n + 1
      /\ \A i \in 1..n : q[i] = observed[i]
  BY <1>1, AppendProperties, LenProperties
<1>3. /\ Handed = {observed[i] : i \in 1..(n - 0)}
      /\ Handed' = {q[i] : i \in 1..(Len(q) - 1)}
  BY DEF Handed
<1> HIDE DEF n, q
<1>4. n - 0 = n /\ Len(q) - 1 = n
  BY <1>2
<1> QED
  BY <1>2, <1>3, <1>4

\* The steps of a worker, by the stages of its packet.
LEMMA WorkerDoes ==
  ASSUME NEW k \in pending, ProcessPacket(k)
  PROVE
  \/ /\ stage[k] \in {"queued", "examined", "decoded", "typed"}
     /\ \E to \in {"examined", "rejected", "decoded", "typed", "handled"} :
          stage' = [stage EXCEPT ![k] = to]
     /\ UNCHANGED <<pending, completed, issues>>
  \/ /\ stage[k] = "rejected" /\ stage' = [stage EXCEPT ![k] = "handled"]
     /\ issues' = issues \cup {<<k, "payload_rejected">>}
     /\ UNCHANGED <<pending, completed>>
  \/ /\ \/ stage[k] = "typed" /\ stage' = [stage EXCEPT ![k] = "failed"]
        \/ stage[k] = "handled" /\ stage' = [stage EXCEPT ![k] = "processed"]
     /\ pending' = pending \ {k} /\ completed' = completed \cup {k}
     /\ issues' = issues
<1>1. CASE Examine(k) \/ RejectPayload(k) \/ DecodePayload(k) \/ CountType(k)
             \/ HandlerReturns(k)
  BY <1>1 DEF Examine, Queued, RejectPayload, DecodePayload, CountType,
              HandlerReturns, Counted, Advance, sink
<1>2. CASE ReportRejection(k)
  BY <1>2 DEF ReportRejection, Advance, sink
<1>3. CASE HandlerThrows(k) \/ PacketProcessed(k)
  BY <1>3 DEF HandlerThrows, PacketProcessed, CallEnds, Advance,
              Pipeline!Complete
<1> QED
  BY <1>1, <1>2, <1>3 DEF ProcessPacket

\* No worker puts a packet at a wrong stage.
LEMMA StageWorker ==
  ASSUME RuntimeTypeOK, StageInv, NEW k \in pending, ProcessPacket(k)
  PROVE  StageInv'
<1>a. stage \in [Packets -> Stages] /\ pending \cup completed \subseteq Packets
  BY TypeSplits DEF SinkTyped
<1>b. k \in Packets
  BY <1>a
<1>c. Handed' = Handed
  <2>1. UNCHANGED <<pc, observed>>
    BY OthersDo
  <2> QED
    BY <2>1, HandedStays
<1>d. /\ pending \cap completed = {}
      /\ pending \cup completed \subseteq Handed
      /\ \A j \in Packets :
           /\ stage[j] # "queued" => j \in pending \cup completed
           /\ j \in completed <=> stage[j] \in {"processed", "failed"}
           /\ <<j, "payload_rejected">> \in issues =>
                stage[j] \in {"handled", "processed"}
           /\ <<j, "queue_dropped">> \in issues =>
                j \in Handed /\ j \notin pending \cup completed
  BY DEF StageInv
<1>e. /\ pending' \cap completed' = {}
      /\ pending' \cup completed' = pending \cup completed
  BY <1>d, WorkerDoes
<1>1. ASSUME NEW j \in Packets
      PROVE  /\ stage'[j] # "queued" => j \in pending' \cup completed'
             /\ j \in completed' <=> stage'[j] \in {"processed", "failed"}
             /\ <<j, "payload_rejected">> \in issues' =>
                  stage'[j] \in {"handled", "processed"}
             /\ <<j, "queue_dropped">> \in issues' =>
                  j \in Handed /\ j \notin pending' \cup completed'
  <2>1. CASE j # k
    <3>1. /\ stage'[j] = stage[j] /\ (j \in completed' <=> j \in completed)
          /\ \A kind : <<j, kind>> \in issues' <=> <<j, kind>> \in issues
      BY <2>1, <1>a, WorkerDoes
    <3> QED
      BY <3>1, <1>d, <1>e
  <2>2. CASE j = k
    <3>1. k \in pending' \cup completed' /\ k \notin completed
      BY <1>d, <1>e
    <3>2. <<k, "queue_dropped">> \notin issues'
      <4>1. <<k, "queue_dropped">> \notin issues
        BY <1>b, <1>d
      <4> QED
        BY <4>1, WorkerDoes
    <3>3. k \in completed' <=> stage'[k] \in {"processed", "failed"}
      BY <3>1, <1>a, <1>b, WorkerDoes
    <3>4. <<k, "payload_rejected">> \in issues' =>
            stage'[k] \in {"handled", "processed"}
      BY <1>a, <1>b, <1>d, WorkerDoes
    <3> QED
      BY <2>2, <3>1, <3>2, <3>3, <3>4
  <2> QED
    BY <2>1, <2>2
<1> QED
  BY <1>1, <1>c, <1>d, <1>e DEF StageInv

\* What is decided about a packet is decided once.
LEMMA StageStep ==
  ASSUME ThreadInv, ObserveInv, StageInv, [RuntimeNext]_runtimeVars
  PROVE  StageInv'
<1>a. RuntimeTypeOK /\ stage \in [Packets -> Stages]
  BY TypeSplits DEF ThreadInv, SinkTyped
<1>1. CASE \E k \in pending : ProcessPacket(k)
  BY <1>1, <1>a, StageWorker
<1>2. CASE RequestStop \/ NetworkStep \/ Receive \/ UNCHANGED runtimeVars
  <2>1. UNCHANGED <<pc, observed, pending, completed, stage, issues>>
    BY <1>2 DEF RequestStop, NetworkStep, Receive, runtimeVars, sink, told, io
  <2> QED
    BY <2>1, HandedStays DEF StageInv
<1>3. CASE LoopPolls \/ LoopEnds \/ BatchContinues \/ BatchBegins \/ BatchEnds
             \/ PollFails \/ CountPacket
  <2>1. /\ UNCHANGED <<observed, pending, completed, stage, issues>>
        /\ pc \notin {"submit", "drop"} /\ pc' \notin {"submit", "drop"}
    BY <1>3 DEF LoopPolls, LoopEnds, BatchContinues, BatchBegins, BatchEnds,
                PollFails, PollThrowsTo, CountPacket, Moves, Goto, told, sink
  <2> QED
    BY <2>1, HandedStays DEF StageInv
<1>4. CASE ClosePipeline \/ PipelineStopped \/ Summarise
  <2>1. /\ UNCHANGED <<observed, pending, completed, stage, issues>>
        /\ pc \notin {"submit", "drop"} /\ pc' \notin {"submit", "drop"}
    BY <1>4 DEF ClosePipeline, PipelineStopped, StopMoves, Summarise, Goto, told,
                sink, Pipeline!Close, Pipeline!Finish
  <2> QED
    BY <2>1, HandedStays DEF StageInv
<1>5. CASE ObservePacket
  <2>1. /\ UNCHANGED <<pending, completed, stage, issues>>
        /\ pc = "observe" /\ pc' = "submit"
        /\ observed' = Append(observed, packets[next])
    BY <1>5 DEF ObservePacket, Goto, sink
  <2> QED
    BY <2>1, HandedWaits DEF StageInv
<1>6. CASE SubmitQueueFull
  <2>1. /\ UNCHANGED <<observed, pending, completed, stage, issues>>
        /\ pc = "submit" /\ pc' = "drop"
    BY <1>6 DEF SubmitQueueFull, Dropped, Goto, told, sink
  <2> QED
    BY <2>1, HandedStays DEF StageInv
<1>7. CASE SubmitAccepted
  <2> DEFINE k == packets[next]
  <2>1. /\ pc = "submit" /\ pc' = "count" /\ observed' = observed
        /\ pending' = pending \cup {k} /\ k \notin pending \cup completed
        /\ UNCHANGED <<completed, stage, issues>>
    BY <1>7 DEF SubmitAccepted, Goto, Pipeline!Accept, told
  <2>2. k \in Packets /\ k \notin Handed /\ Handed' = Handed \cup {k}
    BY <2>1, FreshPacket, HandedGrows
  <2> HIDE DEF k
  <2> QED
    BY <2>1, <2>2 DEF StageInv
<1>8. CASE ReportQueueDrop
  <2> DEFINE k == packets[next]
  <2>1. /\ pc = "drop" /\ pc' = "count" /\ observed' = observed
        /\ issues' = issues \cup {<<k, "queue_dropped">>}
        /\ UNCHANGED <<pending, completed, stage>>
    BY <1>8 DEF ReportQueueDrop, Goto, sink
  <2>2. k \in Packets /\ k \notin Handed /\ Handed' = Handed \cup {k}
    BY <2>1, FreshPacket, HandedGrows
  <2> HIDE DEF k
  <2>3. \A j \in Packets :
          /\ <<j, "payload_rejected">> \in issues' => <<j, "payload_rejected">> \in issues
          /\ <<j, "queue_dropped">> \in issues' =>
               j = k \/ <<j, "queue_dropped">> \in issues
    BY <2>1
  <2> QED
    BY <2>1, <2>2, <2>3 DEF StageInv
<1> QED
  BY <1>1, <1>2, <1>3, <1>4, <1>5, <1>6, <1>7, <1>8
     DEF RuntimeNext, IoStep, Terminated
-----------------------------------------------------------------------------
(* The counters.                                                           *)

\* One element more, or one less.
LEMMA Counting ==
  ASSUME NEW S, IsFiniteSet(S), NEW x, NEW T
  PROVE  /\ Cardinality(S) \in Nat
         /\ x \notin S /\ T = S \cup {x} => Cardinality(T) = Cardinality(S) + 1
         /\ x \in S /\ T = S \ {x} => Cardinality(T) = Cardinality(S) - 1
         /\ T \subseteq S \cup {x} =>
              Cardinality(T) \in Nat /\ Cardinality(T) <= Cardinality(S) + 1
<1>1. Cardinality(S) \in Nat
  BY FS_CardinalityType
<1>2. /\ IsFiniteSet(S \cup {x})
      /\ x \notin S => Cardinality(S \cup {x}) = Cardinality(S) + 1
      /\ Cardinality(S \cup {x}) <= Cardinality(S) + 1
  BY <1>1, FS_AddElement
<1>3. x \in S => Cardinality(S \ {x}) = Cardinality(S) - 1
  BY FS_RemoveElement
<1>4. ASSUME T \in SUBSET (S \cup {x})
      PROVE  Cardinality(T) \in Nat /\ Cardinality(T) <= Cardinality(S) + 1
  <2>1. IsFiniteSet(T) /\ Cardinality(T) <= Cardinality(S \cup {x})
    BY <1>2, <1>4, FS_Subset
  <2>2. Cardinality(T) \in Nat /\ Cardinality(S \cup {x}) \in Nat
    BY <1>2, <2>1, FS_CardinalityType
  <2> QED
    BY <1>1, <1>2, <2>1, <2>2
<1> QED
  BY <1>1, <1>2, <1>3, <1>4

\* Everything that is counted is finite.
LEMMA TallyFinite ==
  ASSUME RuntimeTypeOK
  PROVE  /\ IsFiniteSet(pending) /\ IsFiniteSet(Queued)
         /\ IsFiniteSet(Running)
         /\ \A s : IsFiniteSet(At(s))
         /\ \A kind : IsFiniteSet(Issues(kind))
         /\ IsFiniteSet(Settled)
<1>1. IsFiniteSet(Packets)
  BY ReceiverAssumption, FS_Interval DEF Packets
<1>2. /\ pending \in SUBSET Packets
      /\ issues \in SUBSET (Packets \X {"queue_dropped", "payload_rejected"})
  BY DEF RuntimeTypeOK
<1>3. IsFiniteSet({"queue_dropped", "payload_rejected"})
  <2>1. {"queue_dropped", "payload_rejected"} = {"queue_dropped"} \cup {"payload_rejected"}
    OBVIOUS
  <2> QED
    <3>1. IsFiniteSet({"queue_dropped"})
      BY FS_Singleton
    <3> QED
      BY <2>1, <3>1, FS_AddElement
<1>4. IsFiniteSet(Packets \X {"queue_dropped", "payload_rejected"})
  BY <1>1, <1>3, FS_Product
<1>5. IsFiniteSet(issues)
  BY <1>2, <1>4, FS_Subset
<1>6. IsFiniteSet(pending)
  BY <1>1, <1>2, FS_Subset
<1>7. Queued \in SUBSET pending /\ Running \in SUBSET pending
  BY DEF Queued, Running
<1>8. \A s : At(s) \in SUBSET Packets
  BY DEF At
<1>9. /\ \A kind : Issues(kind) \in SUBSET issues
      /\ Settled \in SUBSET issues
  BY DEF Issues, Settled
<1> QED
  BY <1>1, <1>5, <1>6, <1>7, <1>8, <1>9, FS_Subset

\* A packet that goes from one stage to another leaves the one and joins the
\* other.
LEMMA StageCounts ==
  ASSUME RuntimeTypeOK, NEW k \in Packets, NEW from, NEW to,
         stage[k] = from, to # from,
         stage' = [stage EXCEPT ![k] = to]
  PROVE  /\ Cardinality(At(to))' = Cardinality(At(to)) + 1
         /\ Cardinality(At(from))' = Cardinality(At(from)) - 1
         /\ \A s : s # to /\ s # from => At(s)' = At(s)
<1>a. stage \in [Packets -> Stages]
  BY TypeSplits DEF SinkTyped
<1>1. /\ stage'[k] = to
      /\ \A j \in Packets : j # k => stage'[j] = stage[j]
  BY <1>a
<1>2. k \notin At(to) /\ At(to)' = At(to) \cup {k}
  BY <1>1 DEF At
<1>3. k \in At(from) /\ At(from)' = At(from) \ {k}
  BY <1>1 DEF At
<1>4. \A s : s # to /\ s # from => At(s)' = At(s)
  BY <1>1 DEF At
<1>5. /\ IsFiniteSet(At(to)) /\ IsFiniteSet(At(from))
  BY TallyFinite
<1>6. Cardinality(At(to)') = Cardinality(At(to)) + 1
  BY <1>2, <1>5, Counting
<1>7. Cardinality(At(from)') = Cardinality(At(from)) - 1
  BY <1>3, <1>5, Counting
<1> QED
  BY <1>4, <1>6, <1>7

\* A packet that a worker takes, keeps or completes.
LEMMA PendingCounts ==
  ASSUME RuntimeTypeOK, NEW k \in pending, NEW from, NEW to,
         stage[k] = from, to # "queued", stage' = [stage EXCEPT ![k] = to]
  PROVE  /\ from = "queued" /\ pending' = pending =>
              /\ Cardinality(Queued)' = Cardinality(Queued) - 1
              /\ Cardinality(Running)' = Cardinality(Running) + 1
         /\ from # "queued" /\ pending' = pending =>
              /\ Queued' = Queued /\ Running' = Running
         /\ from # "queued" /\ pending' = pending \ {k} =>
              /\ Cardinality(pending)' = Cardinality(pending) - 1
              /\ Queued' = Queued
              /\ Cardinality(Running)' = Cardinality(Running) - 1
<1>a. stage \in [Packets -> Stages] /\ pending \subseteq Packets
  BY TypeSplits DEF SinkTyped
<1>b. IsFiniteSet(pending) /\ IsFiniteSet(Queued) /\ IsFiniteSet(Running)
  BY TallyFinite
<1>1. /\ stage'[k] = to
      /\ \A j \in Packets : j # k => stage'[j] = stage[j]
  BY <1>a
<1>2. CASE from = "queued" /\ pending' = pending
  <2>1. k \in Queued /\ Queued' = Queued \ {k}
    BY <1>1, <1>2, <1>a DEF Queued
  <2>2. k \notin Running /\ Running' = Running \cup {k}
    BY <1>2, <2>1 DEF Running
  <2> QED
    BY <1>2, <1>b, <2>1, <2>2, Counting
<1>3. CASE from # "queued" /\ pending' = pending
  <2>1. Queued' = Queued
    BY <1>1, <1>3, <1>a DEF Queued
  <2> QED
    BY <1>3, <2>1 DEF Running
<1>4. CASE from # "queued" /\ pending' = pending \ {k}
  <2>1. Queued' = Queued /\ k \notin Queued
    BY <1>1, <1>4, <1>a DEF Queued
  <2>2. k \in Running /\ Running' = Running \ {k}
    BY <1>4, <2>1 DEF Running
  <2>3. Cardinality(pending') = Cardinality(pending) - 1
    BY <1>4, <1>b, Counting
  <2>4. Cardinality(Running') = Cardinality(Running) - 1
    BY <1>b, <2>2, Counting
  <2> QED
    BY <1>4, <2>1, <2>3, <2>4
<1> QED
  BY <1>2, <1>3, <1>4

\* The counters of the processor, one at a time.
LEMMA SampleFields ==
  ASSUME samples \in Samples
  PROVE  /\ samples.examined \in Nat /\ samples.decoded \in Nat
         /\ samples.typed \in Nat /\ samples.rejected \in Nat
         /\ samples' = [samples EXCEPT !["examined"] = @ + 1] =>
              /\ samples'.examined = samples.examined + 1
              /\ samples'.decoded = samples.decoded
              /\ samples'.typed = samples.typed
              /\ samples'.rejected = samples.rejected
         /\ samples' = [samples EXCEPT !["decoded"] = @ + 1] =>
              /\ samples'.examined = samples.examined
              /\ samples'.decoded = samples.decoded + 1
              /\ samples'.typed = samples.typed
              /\ samples'.rejected = samples.rejected
         /\ samples' = [samples EXCEPT !["typed"] = @ + 1] =>
              /\ samples'.examined = samples.examined
              /\ samples'.decoded = samples.decoded
              /\ samples'.typed = samples.typed + 1
              /\ samples'.rejected = samples.rejected
         /\ samples' = [samples EXCEPT !["rejected"] = @ + 1] =>
              /\ samples'.examined = samples.examined
              /\ samples'.decoded = samples.decoded
              /\ samples'.typed = samples.typed
              /\ samples'.rejected = samples.rejected + 1
  BY DEF Samples

\* The counters of the pipeline, one at a time.
LEMMA SinkFields ==
  ASSUME metrics \in SinkMetrics
  PROVE  /\ metrics.submitted \in Nat /\ metrics.dropped \in Nat
         /\ metrics.processed \in Nat /\ metrics.failures \in Nat
         /\ metrics' = [metrics EXCEPT !["processed"] = @ + 1] =>
              /\ metrics'.submitted = metrics.submitted
              /\ metrics'.dropped = metrics.dropped
              /\ metrics'.processed = metrics.processed + 1
              /\ metrics'.failures = metrics.failures
         /\ metrics' = [metrics EXCEPT !["failures"] = @ + 1] =>
              /\ metrics'.submitted = metrics.submitted
              /\ metrics'.dropped = metrics.dropped
              /\ metrics'.processed = metrics.processed
              /\ metrics'.failures = metrics.failures + 1
         /\ metrics' = [metrics EXCEPT !.submitted = @ + 1] =>
              /\ metrics'.submitted = metrics.submitted + 1
              /\ metrics'.dropped = metrics.dropped
              /\ metrics'.processed = metrics.processed
              /\ metrics'.failures = metrics.failures
         /\ metrics' = [metrics EXCEPT !.dropped = @ + 1] =>
              /\ metrics'.submitted = metrics.submitted
              /\ metrics'.dropped = metrics.dropped + 1
              /\ metrics'.processed = metrics.processed
              /\ metrics'.failures = metrics.failures
  BY DEF SinkMetrics

\* The counts of TallyInv are natural numbers.
LEMMA TallyNaturals ==
  ASSUME RuntimeTypeOK
  PROVE  /\ Cardinality(pending) \in Nat /\ Cardinality(Queued) \in Nat
         /\ Cardinality(Running) \in Nat /\ Cardinality(Settled) \in Nat
         /\ \A s : Cardinality(At(s)) \in Nat
         /\ \A kind : Cardinality(Issues(kind)) \in Nat
  BY TallyFinite, FS_CardinalityType

\* An issue names a packet and a kind.
LEMMA IssuePairs ==
  ASSUME RuntimeTypeOK, NEW i \in issues
  PROVE  i = <<i[1], i[2]>> /\ i[1] \in Packets
  BY DEF RuntimeTypeOK

\* While no rejected packet becomes processed, the settled issues stay.
LEMMA SettledStays ==
  ASSUME RuntimeTypeOK, NEW k \in Packets, NEW from, NEW to, stage[k] = from,
         from # "processed", to # "processed", stage' = [stage EXCEPT ![k] = to],
         issues' = issues \/ issues' = issues \cup {<<k, "payload_rejected">>}
  PROVE  Settled' = Settled
<1>a. stage \in [Packets -> Stages]
  BY TypeSplits DEF SinkTyped
<1>1. /\ stage'[k] = to
      /\ \A j \in Packets : j # k => stage'[j] = stage[j]
  BY <1>a
<1>2. \A i \in issues : stage'[i[1]] = "processed" <=> stage[i[1]] = "processed"
  BY <1>1, IssuePairs
<1> DEFINE n == <<k, "payload_rejected">>
<1>3. n[1] = k
  OBVIOUS
<1>4. \A i \in issues' : i \in issues \/ i = n
  OBVIOUS
<1>5. \A i \in issues : i \in issues'
  OBVIOUS
<1> HIDE DEF n
<1>6. \A i : i \in Settled' <=> i \in Settled
  BY <1>1, <1>2, <1>3, <1>4, <1>5 DEF Settled, Issues
<1> QED
  BY <1>6

\* A rejected payload is reported for the first time.
LEMMA IssueCounts ==
  ASSUME RuntimeTypeOK, NEW k \in Packets, NEW kind, NEW other, other # kind,
         <<k, kind>> \notin issues, issues' = issues \cup {<<k, kind>>}
  PROVE  /\ Cardinality(Issues(kind))' = Cardinality(Issues(kind)) + 1
         /\ Issues(other)' = Issues(other)
<1> DEFINE n == <<k, kind>>
<1>1. n[2] = kind /\ n \notin issues /\ issues' = issues \cup {n}
  OBVIOUS
<1> HIDE DEF n
<1>2. n \notin Issues(kind) /\ Issues(kind)' = Issues(kind) \cup {n}
  BY <1>1 DEF Issues
<1>3. Issues(other)' = Issues(other)
  BY <1>1 DEF Issues
<1>4. IsFiniteSet(Issues(kind))
  BY TallyFinite
<1> QED
  BY <1>2, <1>3, <1>4, Counting

\* A worker's step moves every count as far as the counter it belongs to.
LEMMA TallyWorker ==
  ASSUME RuntimeTypeOK, StageInv, TallyInv, NEW k \in pending, ProcessPacket(k)
  PROVE  TallyInv'
<1>a. RuntimeTypeOK /\ k \in Packets
  BY DEF RuntimeTypeOK
<1>b. stage \in [Packets -> Stages] /\ metrics \in SinkMetrics /\ samples \in Samples
  BY TypeSplits DEF SinkTyped
<1>c. pc' = pc
  BY OthersDo
<1>d. /\ Cardinality(At("examined")) \in Nat /\ Cardinality(At("decoded")) \in Nat
      /\ Cardinality(At("rejected")) \in Nat
      /\ Cardinality(Issues("payload_rejected")) \in Nat
      /\ Cardinality(pending) \in Nat /\ Cardinality(Queued) \in Nat
      /\ Cardinality(Running) \in Nat /\ Cardinality(Settled) \in Nat
      /\ WorkerCount \in Nat
  BY TallyNaturals, RuntimeAssumption
<1>e. /\ samples.examined \in Nat /\ samples.decoded \in Nat
      /\ samples.typed \in Nat /\ samples.rejected \in Nat
      /\ metrics.submitted \in Nat /\ metrics.dropped \in Nat
      /\ metrics.processed \in Nat /\ metrics.failures \in Nat
  BY <1>b, SampleFields, SinkFields
<1>1. CASE Examine(k)
  <2>1. /\ stage[k] = "queued" /\ stage' = [stage EXCEPT ![k] = "examined"]
        /\ Cardinality(Running) < WorkerCount
        /\ samples' = [samples EXCEPT !["examined"] = @ + 1]
        /\ UNCHANGED <<pending, metrics, issues>>
    BY <1>1 DEF Examine, Queued, Running, Counted, Advance, sink
  <2>2. /\ Cardinality(At("examined"))' = Cardinality(At("examined")) + 1
        /\ Cardinality(At("decoded"))' = Cardinality(At("decoded"))
        /\ Cardinality(At("rejected"))' = Cardinality(At("rejected"))
    <3>1. Cardinality(At("examined"))' = Cardinality(At("examined")) + 1
      BY <2>1, <1>a, StageCounts
    <3>2. \A s : s # "examined" /\ s # "queued" => At(s)' = At(s)
      BY <2>1, <1>a, StageCounts
    <3>3. At("decoded")' = At("decoded") /\ At("rejected")' = At("rejected")
      BY <3>2
    <3> QED
      BY <3>1, <3>3
  <2>3. /\ Cardinality(pending)' = Cardinality(pending)
        /\ Cardinality(Queued)' = Cardinality(Queued) - 1
        /\ Cardinality(Running)' = Cardinality(Running) + 1
    BY <2>1, <1>a, PendingCounts
  <2>4. Settled' = Settled
    BY <2>1, <1>a, SettledStays
  <2>5. /\ samples'.examined = samples.examined + 1 /\ samples'.decoded = samples.decoded
        /\ samples'.typed = samples.typed /\ samples'.rejected = samples.rejected
        /\ metrics'.submitted = metrics.submitted /\ metrics'.dropped = metrics.dropped
        /\ metrics'.processed = metrics.processed /\ metrics'.failures = metrics.failures
    BY <2>1, <1>b, SampleFields, SinkFields
  <2>6. /\ \A kind : Issues(kind)' = Issues(kind)
        /\ Cardinality(Running) < WorkerCount
    BY <2>1 DEF Issues
  <2> QED
    BY <2>2, <2>3, <2>4, <2>5, <2>6, <1>c, <1>d, <1>e DEF TallyInv
<1>2. CASE RejectPayload(k)
  <2>1. /\ stage[k] = "examined" /\ stage' = [stage EXCEPT ![k] = "rejected"]
        /\ samples' = [samples EXCEPT !["rejected"] = @ + 1]
        /\ UNCHANGED <<pending, metrics, issues>>
    BY <1>2 DEF RejectPayload, Counted, Advance, sink
  <2>2. /\ Cardinality(At("examined"))' = Cardinality(At("examined")) - 1
        /\ Cardinality(At("decoded"))' = Cardinality(At("decoded"))
        /\ Cardinality(At("rejected"))' = Cardinality(At("rejected")) + 1
    <3>1. Cardinality(At("examined"))' = Cardinality(At("examined")) - 1
      BY <2>1, <1>a, StageCounts
    <3>2. Cardinality(At("rejected"))' = Cardinality(At("rejected")) + 1
      BY <2>1, <1>a, StageCounts
    <3>3. \A s : s # "examined" /\ s # "rejected" => At(s)' = At(s)
      BY <2>1, <1>a, StageCounts
    <3>4. At("decoded")' = At("decoded")
      BY <3>3
    <3> QED
      BY <3>1, <3>2, <3>4
  <2>3. /\ Cardinality(pending)' = Cardinality(pending)
        /\ Cardinality(Queued)' = Cardinality(Queued)
        /\ Cardinality(Running)' = Cardinality(Running)
    BY <2>1, <1>a, PendingCounts
  <2>4. Settled' = Settled
    BY <2>1, <1>a, SettledStays
  <2>5. /\ samples'.examined = samples.examined /\ samples'.decoded = samples.decoded
        /\ samples'.typed = samples.typed /\ samples'.rejected = samples.rejected + 1
        /\ metrics'.submitted = metrics.submitted /\ metrics'.dropped = metrics.dropped
        /\ metrics'.processed = metrics.processed /\ metrics'.failures = metrics.failures
    BY <2>1, <1>b, SampleFields, SinkFields
  <2>6. \A kind : Issues(kind)' = Issues(kind)
    BY <2>1 DEF Issues
  <2> QED
    BY <2>2, <2>3, <2>4, <2>5, <2>6, <1>c, <1>d, <1>e DEF TallyInv
<1>3. CASE DecodePayload(k)
  <2>1. /\ stage[k] = "examined" /\ stage' = [stage EXCEPT ![k] = "decoded"]
        /\ samples' = [samples EXCEPT !["decoded"] = @ + 1]
        /\ UNCHANGED <<pending, metrics, issues>>
    BY <1>3 DEF DecodePayload, Counted, Advance, sink
  <2>2. /\ Cardinality(At("examined"))' = Cardinality(At("examined")) - 1
        /\ Cardinality(At("decoded"))' = Cardinality(At("decoded")) + 1
        /\ Cardinality(At("rejected"))' = Cardinality(At("rejected"))
    <3>1. Cardinality(At("examined"))' = Cardinality(At("examined")) - 1
      BY <2>1, <1>a, StageCounts
    <3>2. Cardinality(At("decoded"))' = Cardinality(At("decoded")) + 1
      BY <2>1, <1>a, StageCounts
    <3>3. \A s : s # "examined" /\ s # "decoded" => At(s)' = At(s)
      BY <2>1, <1>a, StageCounts
    <3>4. At("rejected")' = At("rejected")
      BY <3>3
    <3> QED
      BY <3>1, <3>2, <3>4
  <2>3. /\ Cardinality(pending)' = Cardinality(pending)
        /\ Cardinality(Queued)' = Cardinality(Queued)
        /\ Cardinality(Running)' = Cardinality(Running)
    BY <2>1, <1>a, PendingCounts
  <2>4. Settled' = Settled
    BY <2>1, <1>a, SettledStays
  <2>5. /\ samples'.examined = samples.examined /\ samples'.decoded = samples.decoded + 1
        /\ samples'.typed = samples.typed /\ samples'.rejected = samples.rejected
        /\ metrics'.submitted = metrics.submitted /\ metrics'.dropped = metrics.dropped
        /\ metrics'.processed = metrics.processed /\ metrics'.failures = metrics.failures
    BY <2>1, <1>b, SampleFields, SinkFields
  <2>6. \A kind : Issues(kind)' = Issues(kind)
    BY <2>1 DEF Issues
  <2> QED
    BY <2>2, <2>3, <2>4, <2>5, <2>6, <1>c, <1>d, <1>e DEF TallyInv
<1>4. CASE CountType(k)
  <2>1. /\ stage[k] = "decoded" /\ stage' = [stage EXCEPT ![k] = "typed"]
        /\ samples' = [samples EXCEPT !["typed"] = @ + 1]
        /\ UNCHANGED <<pending, metrics, issues>>
    BY <1>4 DEF CountType, Counted, Advance, sink
  <2>2. /\ Cardinality(At("examined"))' = Cardinality(At("examined"))
        /\ Cardinality(At("decoded"))' = Cardinality(At("decoded")) - 1
        /\ Cardinality(At("rejected"))' = Cardinality(At("rejected"))
    <3>1. Cardinality(At("decoded"))' = Cardinality(At("decoded")) - 1
      BY <2>1, <1>a, StageCounts
    <3>2. \A s : s # "decoded" /\ s # "typed" => At(s)' = At(s)
      BY <2>1, <1>a, StageCounts
    <3>3. At("examined")' = At("examined") /\ At("rejected")' = At("rejected")
      BY <3>2
    <3> QED
      BY <3>1, <3>3
  <2>3. /\ Cardinality(pending)' = Cardinality(pending)
        /\ Cardinality(Queued)' = Cardinality(Queued)
        /\ Cardinality(Running)' = Cardinality(Running)
    BY <2>1, <1>a, PendingCounts
  <2>4. Settled' = Settled
    BY <2>1, <1>a, SettledStays
  <2>5. /\ samples'.examined = samples.examined /\ samples'.decoded = samples.decoded
        /\ samples'.typed = samples.typed + 1 /\ samples'.rejected = samples.rejected
        /\ metrics'.submitted = metrics.submitted /\ metrics'.dropped = metrics.dropped
        /\ metrics'.processed = metrics.processed /\ metrics'.failures = metrics.failures
    BY <2>1, <1>b, SampleFields, SinkFields
  <2>6. \A kind : Issues(kind)' = Issues(kind)
    BY <2>1 DEF Issues
  <2> QED
    BY <2>2, <2>3, <2>4, <2>5, <2>6, <1>c, <1>d, <1>e DEF TallyInv
<1>5. CASE HandlerReturns(k)
  <2>1. /\ stage[k] = "typed" /\ stage' = [stage EXCEPT ![k] = "handled"]
        /\ UNCHANGED <<pending, metrics, issues, samples>>
    BY <1>5 DEF HandlerReturns, Advance, sink
  <2>2. /\ Cardinality(At("examined"))' = Cardinality(At("examined"))
        /\ Cardinality(At("decoded"))' = Cardinality(At("decoded"))
        /\ Cardinality(At("rejected"))' = Cardinality(At("rejected"))
    <3>1. \A s : s # "typed" /\ s # "handled" => At(s)' = At(s)
      BY <2>1, <1>a, StageCounts
    <3>2. At("examined")' = At("examined") /\ At("decoded")' = At("decoded") /\ At("rejected")' = At("rejected")
      BY <3>1
    <3> QED
      BY <3>2
  <2>3. /\ Cardinality(pending)' = Cardinality(pending)
        /\ Cardinality(Queued)' = Cardinality(Queued)
        /\ Cardinality(Running)' = Cardinality(Running)
    BY <2>1, <1>a, PendingCounts
  <2>4. Settled' = Settled
    BY <2>1, <1>a, SettledStays
  <2>5. /\ samples'.examined = samples.examined /\ samples'.decoded = samples.decoded
        /\ samples'.typed = samples.typed /\ samples'.rejected = samples.rejected
        /\ metrics'.submitted = metrics.submitted /\ metrics'.dropped = metrics.dropped
        /\ metrics'.processed = metrics.processed /\ metrics'.failures = metrics.failures
    BY <2>1, <1>b, SampleFields, SinkFields
  <2>6. \A kind : Issues(kind)' = Issues(kind)
    BY <2>1 DEF Issues
  <2> QED
    BY <2>2, <2>3, <2>4, <2>5, <2>6, <1>c, <1>d, <1>e DEF TallyInv
<1>6. CASE ReportRejection(k)
  <2>1. /\ stage[k] = "rejected" /\ stage' = [stage EXCEPT ![k] = "handled"]
        /\ issues' = issues \cup {<<k, "payload_rejected">>}
        /\ UNCHANGED <<pending, metrics, samples>>
    BY <1>6 DEF ReportRejection, Advance, sink
  <2>2. /\ Cardinality(At("examined"))' = Cardinality(At("examined"))
        /\ Cardinality(At("decoded"))' = Cardinality(At("decoded"))
        /\ Cardinality(At("rejected"))' = Cardinality(At("rejected")) - 1
    <3>1. Cardinality(At("rejected"))' = Cardinality(At("rejected")) - 1
      BY <2>1, <1>a, StageCounts
    <3>2. \A s : s # "rejected" /\ s # "handled" => At(s)' = At(s)
      BY <2>1, <1>a, StageCounts
    <3>3. At("examined")' = At("examined") /\ At("decoded")' = At("decoded")
      BY <3>2
    <3> QED
      BY <3>1, <3>3
  <2>3. /\ Cardinality(pending)' = Cardinality(pending)
        /\ Cardinality(Queued)' = Cardinality(Queued)
        /\ Cardinality(Running)' = Cardinality(Running)
    BY <2>1, <1>a, PendingCounts
  <2>4. Settled' = Settled
    BY <2>1, <1>a, SettledStays
  <2>5. /\ samples'.examined = samples.examined /\ samples'.decoded = samples.decoded
        /\ samples'.typed = samples.typed /\ samples'.rejected = samples.rejected
        /\ metrics'.submitted = metrics.submitted /\ metrics'.dropped = metrics.dropped
        /\ metrics'.processed = metrics.processed /\ metrics'.failures = metrics.failures
    BY <2>1, <1>b, SampleFields, SinkFields
  <2>6. /\ Cardinality(Issues("payload_rejected"))'
             = Cardinality(Issues("payload_rejected")) + 1
        /\ Issues("queue_dropped")' = Issues("queue_dropped")
    <3>1. <<k, "payload_rejected">> \notin issues
      BY <2>1, <1>a DEF StageInv
    <3> QED
      BY <2>1, <3>1, <1>a, IssueCounts
  <2> QED
    BY <2>2, <2>3, <2>4, <2>5, <2>6, <1>c, <1>d, <1>e DEF TallyInv
<1>7. CASE HandlerThrows(k)
  <2>1. /\ stage[k] = "typed" /\ stage' = [stage EXCEPT ![k] = "failed"]
        /\ metrics' = [metrics EXCEPT !["failures"] = @ + 1]
        /\ pending' = pending \ {k}
        /\ UNCHANGED <<samples, issues>>
    BY <1>7 DEF HandlerThrows, CallEnds, Advance, Pipeline!Complete
  <2>2. /\ Cardinality(At("examined"))' = Cardinality(At("examined"))
        /\ Cardinality(At("decoded"))' = Cardinality(At("decoded"))
        /\ Cardinality(At("rejected"))' = Cardinality(At("rejected"))
    <3>1. \A s : s # "typed" /\ s # "failed" => At(s)' = At(s)
      BY <2>1, <1>a, StageCounts
    <3>2. At("examined")' = At("examined") /\ At("decoded")' = At("decoded") /\ At("rejected")' = At("rejected")
      BY <3>1
    <3> QED
      BY <3>2
  <2>3. /\ Cardinality(pending)' = Cardinality(pending) - 1
        /\ Cardinality(Queued)' = Cardinality(Queued)
        /\ Cardinality(Running)' = Cardinality(Running) - 1
    BY <2>1, <1>a, PendingCounts
  <2>4. Settled' = Settled
    BY <2>1, <1>a, SettledStays
  <2>5. /\ samples'.examined = samples.examined /\ samples'.decoded = samples.decoded
        /\ samples'.typed = samples.typed /\ samples'.rejected = samples.rejected
        /\ metrics'.submitted = metrics.submitted /\ metrics'.dropped = metrics.dropped
        /\ metrics'.processed = metrics.processed /\ metrics'.failures = metrics.failures + 1
    BY <2>1, <1>b, SampleFields, SinkFields
  <2>6. \A kind : Issues(kind)' = Issues(kind)
    BY <2>1 DEF Issues
  <2> QED
    BY <2>2, <2>3, <2>4, <2>5, <2>6, <1>c, <1>d, <1>e DEF TallyInv
<1>8. CASE PacketProcessed(k)
  <2>1. /\ stage[k] = "handled" /\ stage' = [stage EXCEPT ![k] = "processed"]
        /\ metrics' = [metrics EXCEPT !["processed"] = @ + 1]
        /\ pending' = pending \ {k}
        /\ UNCHANGED <<samples, issues>>
    BY <1>8 DEF PacketProcessed, CallEnds, Advance, Pipeline!Complete
  <2>2. /\ Cardinality(At("examined"))' = Cardinality(At("examined"))
        /\ Cardinality(At("decoded"))' = Cardinality(At("decoded"))
        /\ Cardinality(At("rejected"))' = Cardinality(At("rejected"))
    <3>1. \A s : s # "handled" /\ s # "processed" => At(s)' = At(s)
      BY <2>1, <1>a, StageCounts
    <3>2. At("examined")' = At("examined") /\ At("decoded")' = At("decoded") /\ At("rejected")' = At("rejected")
      BY <3>1
    <3> QED
      BY <3>2
  <2>3. /\ Cardinality(pending)' = Cardinality(pending) - 1
        /\ Cardinality(Queued)' = Cardinality(Queued)
        /\ Cardinality(Running)' = Cardinality(Running) - 1
    BY <2>1, <1>a, PendingCounts
  <2>4. Cardinality(Settled)' \in Nat
        /\ Cardinality(Settled)' <= Cardinality(Settled) + 1
    <3>1. /\ stage'[k] = "processed"
          /\ \A j \in Packets : j # k => stage'[j] = stage[j]
      BY <2>1, <1>a, <1>b
    <3>2. \A i \in Settled' : i \in Settled \cup {<<k, "payload_rejected">>}
      <4> SUFFICES ASSUME NEW i \in issues, i[2] = "payload_rejected",
                          stage'[i[1]] = "processed", i[1] # k
                   PROVE  i \in Settled
        BY <2>1, <1>a, IssuePairs DEF Settled, Issues
      <4>1. stage[i[1]] = "processed"
        BY <3>1, <1>a, IssuePairs
      <4> QED
        BY <4>1 DEF Settled, Issues
    <3> DEFINE new == Settled'
    <3>3. new \subseteq Settled \cup {<<k, "payload_rejected">>}
      BY <3>2
    <3>4. IsFiniteSet(Settled)
      BY <1>a, TallyFinite
    <3> HIDE DEF new
    <3>5. Cardinality(new) \in Nat /\ Cardinality(new) <= Cardinality(Settled) + 1
      BY <3>3, <3>4, Counting
    <3> QED
      BY <3>5 DEF new
  <2>5. /\ samples'.examined = samples.examined /\ samples'.decoded = samples.decoded
        /\ samples'.typed = samples.typed /\ samples'.rejected = samples.rejected
        /\ metrics'.submitted = metrics.submitted /\ metrics'.dropped = metrics.dropped
        /\ metrics'.processed = metrics.processed + 1 /\ metrics'.failures = metrics.failures
    BY <2>1, <1>b, SampleFields, SinkFields
  <2>6. \A kind : Issues(kind)' = Issues(kind)
    BY <2>1 DEF Issues
  <2> QED
    BY <2>2, <2>3, <2>4, <2>5, <2>6, <1>c, <1>d, <1>e DEF TallyInv
<1> QED
  BY <1>1, <1>2, <1>3, <1>4, <1>5, <1>6, <1>7, <1>8 DEF ProcessPacket

\* Accepting, dropping and reporting a drop; all else leaves the counts alone.
LEMMA TallyStep ==
  ASSUME ThreadInv, ObserveInv, StageInv, TallyInv, [RuntimeNext]_runtimeVars
  PROVE  TallyInv'
<1>a. RuntimeTypeOK /\ metrics \in SinkMetrics /\ stage \in [Packets -> Stages]
  BY TypeSplits DEF ThreadInv, SinkTyped
<1>b. /\ Cardinality(pending) \in Nat /\ Cardinality(Queued) \in Nat
      /\ samples.examined \in Nat
      /\ Cardinality(Issues("queue_dropped")) \in Nat
      /\ metrics.submitted \in Nat /\ metrics.dropped \in Nat
      /\ metrics.processed \in Nat /\ metrics.failures \in Nat
  <2>1. samples.examined \in Nat
    BY TypeSplits, SampleFields, <1>a DEF SinkTyped
  <2>2. /\ metrics.submitted \in Nat /\ metrics.dropped \in Nat
        /\ metrics.processed \in Nat /\ metrics.failures \in Nat
    BY <1>a, SinkFields
  <2> QED
    BY <1>a, <2>1, <2>2, TallyNaturals
<1>1. CASE \E k \in pending : ProcessPacket(k)
  BY <1>1, <1>a, TallyWorker
<1>2. CASE RequestStop \/ NetworkStep \/ Receive \/ UNCHANGED runtimeVars
  <2>1. UNCHANGED <<pc, pending, stage, metrics, samples, issues>>
    BY <1>2 DEF RequestStop, NetworkStep, Receive, runtimeVars, sink, told, io
  <2> QED
    BY <2>1 DEF TallyInv, Queued, Running, At, Issues, Settled
<1>3. CASE LoopPolls \/ LoopEnds \/ BatchContinues \/ BatchBegins \/ BatchEnds
             \/ PollFails \/ CountPacket
  <2>1. /\ UNCHANGED <<pending, stage, metrics, samples, issues>>
        /\ pc # "drop" /\ pc' # "drop"
    BY <1>3 DEF LoopPolls, LoopEnds, BatchContinues, BatchBegins, BatchEnds,
                PollFails, PollThrowsTo, CountPacket, Moves, Goto, told, sink
  <2> QED
    BY <2>1 DEF TallyInv, Queued, Running, At, Issues, Settled
<1>4. CASE ClosePipeline \/ PipelineStopped \/ Summarise \/ ObservePacket
  <2>1. /\ UNCHANGED <<pending, stage, metrics, samples, issues>>
        /\ pc # "drop" /\ pc' # "drop"
    BY <1>4 DEF ClosePipeline, PipelineStopped, StopMoves, Summarise,
                ObservePacket, Goto, told, sink, Pipeline!Close, Pipeline!Finish
  <2> QED
    BY <2>1 DEF TallyInv, Queued, Running, At, Issues, Settled
<1>5. CASE SubmitQueueFull
  <2>1. /\ UNCHANGED <<pending, stage, samples, issues>>
        /\ pc = "submit" /\ pc' = "drop"
        /\ metrics' = [metrics EXCEPT !.dropped = @ + 1]
    BY <1>5 DEF SubmitQueueFull, Dropped, Goto, told, sink
  <2>2. /\ metrics'.submitted = metrics.submitted
        /\ metrics'.dropped = metrics.dropped + 1
        /\ metrics'.processed = metrics.processed
        /\ metrics'.failures = metrics.failures
    BY <2>1, <1>a, SinkFields
  <2>3. /\ Queued' = Queued /\ Running' = Running /\ Settled' = Settled
        /\ \A s : At(s)' = At(s)
        /\ \A kind : Issues(kind)' = Issues(kind)
    BY <2>1 DEF Queued, Running, At, Issues, Settled
  <2>4. /\ pc # "drop" /\ pc' = "drop" /\ samples' = samples
        /\ pending' = pending
    BY <2>1
  <2> QED
    BY <2>2, <2>3, <2>4, <1>b DEF TallyInv
<1>6. CASE SubmitAccepted
  <2> DEFINE k == packets[next]
  <2>1. /\ pc = "submit" /\ pc' = "count"
        /\ pending' = pending \cup {k} /\ k \notin pending \cup completed
        /\ metrics' = [metrics EXCEPT !.submitted = @ + 1]
        /\ UNCHANGED <<stage, samples, issues>>
    BY <1>6 DEF SubmitAccepted, Goto, Pipeline!Accept, told
  <2>2. k \in Packets
    BY <2>1, FreshPacket
  <2> HIDE DEF k
  <2>3. stage[k] = "queued"
    BY <2>1, <2>2 DEF StageInv
  <2>4. Queued' = Queued \cup {k} /\ k \notin Queued /\ Running' = Running
    BY <2>1, <2>3 DEF Queued, Running
  <2>5. /\ Cardinality(pending') = Cardinality(pending) + 1
        /\ Cardinality(Queued') = Cardinality(Queued) + 1
    <3>1. IsFiniteSet(pending) /\ IsFiniteSet(Queued)
      BY <1>a, TallyFinite
    <3> QED
      BY <2>1, <2>4, <3>1, Counting
  <2>6. /\ metrics'.submitted = metrics.submitted + 1
        /\ metrics'.dropped = metrics.dropped
        /\ metrics'.processed = metrics.processed
        /\ metrics'.failures = metrics.failures
    BY <2>1, <1>a, SinkFields
  <2>7. /\ Settled' = Settled /\ \A s : At(s)' = At(s)
        /\ \A kind : Issues(kind)' = Issues(kind)
    BY <2>1 DEF At, Issues, Settled
  <2>8. pc # "drop" /\ pc' # "drop" /\ samples' = samples
    BY <2>1
  <2> QED
    BY <2>4, <2>5, <2>6, <2>7, <2>8, <1>b DEF TallyInv
<1>7. CASE ReportQueueDrop
  <2> DEFINE k == packets[next]
  <2>1. /\ pc = "drop" /\ pc' = "count"
        /\ issues' = issues \cup {<<k, "queue_dropped">>}
        /\ UNCHANGED <<pending, stage, metrics, samples>>
    BY <1>7 DEF ReportQueueDrop, Goto, sink
  <2>2. k \in Packets /\ k \notin Handed
    BY <2>1, FreshPacket
  <2> HIDE DEF k
  <2>3. <<k, "queue_dropped">> \notin issues
    BY <2>2 DEF StageInv
  <2>4. /\ Cardinality(Issues("queue_dropped"))'
             = Cardinality(Issues("queue_dropped")) + 1
        /\ Issues("payload_rejected")' = Issues("payload_rejected")
    BY <2>1, <2>2, <2>3, <1>a, IssueCounts
  <2>5. /\ Queued' = Queued /\ Running' = Running
        /\ \A s : At(s)' = At(s)
    BY <2>1 DEF Queued, Running, At
  <2>6. Settled' = Settled
    BY <2>1, <2>4 DEF Settled
  <2>7. /\ pc = "drop" /\ pc' # "drop"
        /\ UNCHANGED <<pending, metrics, samples>>
    BY <2>1
  <2> QED
    BY <2>4, <2>5, <2>6, <2>7, <1>b DEF TallyInv
<1> QED
  BY <1>1, <1>2, <1>3, <1>4, <1>5, <1>6, <1>7
     DEF RuntimeNext, IoStep, Terminated

\* The summary is taken when the run is over, and nothing happens after it.
LEMMA SummaryStep ==
  ASSUME ThreadInv, SummaryInv, [RuntimeNext]_runtimeVars
  PROVE  SummaryInv'
<1>1. CASE pc = "done"
  <2>1. pending = {}
    BY <1>1 DEF ThreadInv, ControlInv, Ended
  <2>2. UNCHANGED runtimeVars
    <3>1. ~PollFails /\ ~RequestStop /\ ~NetworkStep
      BY <1>1 DEF PollFails, PollThrowsTo, Goto, RequestStop, NetworkStep, Ended
    <3>2. ~Receive
      <4>1. ReceiverTypeOK /\ poll = "idle"
        BY <1>1 DEF ThreadInv, RuntimeTypeOK, ControlInv, Leaving
      <4> QED
        BY <4>1, PollStepDoes DEF Receive
    <3> QED
      BY <1>1, <2>1, <3>1, <3>2
         DEF RuntimeNext, IoStep, Terminated, LoopPolls, LoopEnds, BatchBegins,
             BatchEnds, BatchContinues, ObservePacket, SubmitAccepted,
             SubmitQueueFull, Dropped, ReportQueueDrop, CountPacket,
             ClosePipeline, PipelineStopped, StopMoves, Summarise, Moves, Goto
  <2> QED
    BY <2>2 DEF SummaryInv, runtimeVars, io, sink, told, receiverVars, reading
<1>2. CASE pc # "done" /\ Summarise
  <2>1. /\ pc' = "done"
        /\ summary' = {[received |-> received, receiver |-> receiver,
                        pipeline |-> metrics, samples |-> samples,
                        observed |-> Len(observed), issues |-> issues]}
        /\ UNCHANGED <<received, receiver, metrics, samples, observed, issues>>
    BY <1>2 DEF Summarise, told, receiverVars, reading
  <2> QED
    BY <2>1 DEF SummaryInv
<1>3. CASE pc # "done" /\ ~Summarise
  <2>1. summary = {}
    BY <1>3 DEF SummaryInv
  <2>2. summary' = summary
    <3>1. (\E k \in pending : ProcessPacket(k)) => summary' = summary
      BY OthersDo
    <3> QED
      BY <1>3, <3>1
         DEF RuntimeNext, IoStep, Terminated, LoopPolls, LoopEnds, BatchBegins,
             BatchEnds, BatchContinues, ObservePacket, SubmitAccepted,
             SubmitQueueFull, Dropped, ReportQueueDrop, CountPacket, Receive,
             ClosePipeline, PipelineStopped, StopMoves, Moves, Goto,
             PollFails, PollThrowsTo, RequestStop, NetworkStep, runtimeVars
  <2> QED
    BY <2>1, <2>2 DEF SummaryInv
<1> QED
  BY <1>1, <1>2, <1>3

\* Nothing has been accepted or counted yet.
LEMMA SinkStarts ==
  ASSUME RuntimeInit
  PROVE  StageInv /\ TallyInv /\ SummaryInv
<1>1. /\ pc = "loop" /\ observed = <<>> /\ issues = {} /\ summary = {}
      /\ metrics = [submitted |-> 0, dropped |-> 0, processed |-> 0,
                    failures |-> 0]
      /\ stage = [k \in Packets |-> "queued"]
      /\ samples = [examined |-> 0, decoded |-> 0, typed |-> 0, rejected |-> 0]
  BY DEF RuntimeInit
<1>2. pending = {} /\ completed = {}
  BY DEF RuntimeInit, Pipeline!Init
<1>3. StageInv
  BY <1>1, <1>2 DEF StageInv
<1>4. TallyInv
  <2>1. /\ At("examined") = {} /\ At("decoded") = {} /\ At("rejected") = {}
    BY <1>1 DEF At
  <2>2. /\ Issues("payload_rejected") = {} /\ Issues("queue_dropped") = {}
        /\ Settled = {} /\ Queued = {} /\ Running = {}
    BY <1>1, <1>2 DEF Issues, Settled, Queued, Running
  <2>3. /\ samples.examined = 0 /\ samples.decoded = 0
        /\ samples.typed = 0 /\ samples.rejected = 0
        /\ metrics.submitted = 0 /\ metrics.dropped = 0
        /\ metrics.processed = 0 /\ metrics.failures = 0 /\ pc # "drop"
    BY <1>1
  <2>4. Cardinality({}) = 0 /\ WorkerCount \in Nat
    BY FS_EmptySet, RuntimeAssumption
  <2> QED
    BY <1>2, <2>1, <2>2, <2>3, <2>4 DEF TallyInv
<1>5. SummaryInv
  BY <1>1 DEF SummaryInv
<1> QED
  BY <1>3, <1>4, <1>5

\* Everything run() relies on while packets are under way.
SinkInv ==
  /\ ThreadInv /\ ObserveInv /\ ReceivedInv
  /\ StageInv /\ TallyInv /\ SummaryInv

\* Every counter of the run is accounted for in every state: what has been
\* counted at one place and not at the next is on its way between them.
THEOREM CountersProved == RuntimeSafeSpec => []SinkInv
<1>1. SinkInv /\ [RuntimeNext]_runtimeVars => StageInv' /\ TallyInv' /\ SummaryInv'
  BY StageStep, TallyStep, SummaryStep DEF SinkInv
<1>2. RuntimeInit => StageInv /\ TallyInv /\ SummaryInv
  BY SinkStarts
<1> QED
  BY <1>1, <1>2, Observations, PTL DEF SinkInv, RuntimeSafeSpec

\* When everything accepted is complete, every packet is queued no more or
\* has come to the end of its processing.
LEMMA AllSettled ==
  ASSUME SinkInv, pending = {}
  PROVE  /\ At("examined") = {} /\ At("decoded") = {} /\ At("rejected") = {}
         /\ Queued = {}
         /\ Settled = Issues("payload_rejected")
<1>1. \A k \in Packets : stage[k] \in {"queued", "processed", "failed"}
  BY DEF SinkInv, StageInv
<1>2. At("examined") = {} /\ At("decoded") = {} /\ At("rejected") = {}
  BY <1>1 DEF At
<1>3. ASSUME NEW i \in Issues("payload_rejected")
      PROVE  stage[i[1]] = "processed"
  <2>1. i \in issues /\ i = <<i[1], i[2]>> /\ i[1] \in Packets
        /\ i[2] = "payload_rejected"
    BY IssuePairs DEF SinkInv, ThreadInv, Issues
  <2>2. <<i[1], "payload_rejected">> \in issues
    BY <2>1
  <2>3. stage[i[1]] \in {"handled", "processed"}
    BY <2>1, <2>2 DEF SinkInv, StageInv
  <2> QED
    BY <1>1, <2>1, <2>3
<1> QED
  BY <1>2, <1>3 DEF Queued, Settled

\* The summary of run() is one consistent picture, although several threads
\* count its parts.
THEOREM SummaryProved == RuntimeSafeSpec => []SummaryAddsUp
<1>1. SinkInv => SummaryAddsUp
  <2> SUFFICES ASSUME SinkInv, NEW s \in summary
               PROVE  /\ s.received = s.pipeline.submitted + s.pipeline.dropped
                      /\ s.received = s.observed
                      /\ s.received <= s.receiver.accepted
                      /\ s.pipeline.submitted = s.pipeline.processed
                                                  + s.pipeline.failures
                      /\ s.pipeline.submitted = s.samples.examined
                      /\ s.samples.examined = s.samples.decoded
                                                + s.samples.rejected
                      /\ s.samples.decoded = s.samples.typed
                      /\ s.pipeline.processed >= s.samples.rejected
    BY DEF SummaryAddsUp
  <2>1. /\ pc = "done"
        /\ s.received = received /\ s.receiver = receiver
        /\ s.pipeline = metrics /\ s.samples = samples
        /\ s.observed = Len(observed)
    BY DEF SinkInv, SummaryInv
  <2>2. pending = {}
    BY <2>1 DEF SinkInv, ThreadInv, ControlInv, Ended
  <2>3. /\ At("examined") = {} /\ At("decoded") = {} /\ At("rejected") = {}
        /\ Queued = {} /\ Settled = Issues("payload_rejected")
    BY <2>2, AllSettled
  <2>4. /\ samples.examined \in Nat /\ samples.decoded \in Nat
        /\ samples.typed \in Nat /\ samples.rejected \in Nat
        /\ metrics.submitted \in Nat /\ metrics.dropped \in Nat
        /\ metrics.processed \in Nat /\ metrics.failures \in Nat
    BY TypeSplits, SampleFields, SinkFields DEF SinkInv, ThreadInv, SinkTyped
  <2>5. Cardinality({}) = 0 /\ Cardinality(Issues("payload_rejected")) \in Nat
    BY FS_EmptySet, TallyNaturals DEF SinkInv, ThreadInv
  <2>6. /\ metrics.submitted = metrics.processed + metrics.failures
                                 + Cardinality({})
        /\ metrics.submitted = samples.examined + Cardinality({})
        /\ samples.examined = samples.decoded + samples.rejected
                                + Cardinality({})
        /\ samples.decoded = samples.typed + Cardinality({})
        /\ samples.rejected = Cardinality(Issues("payload_rejected"))
                                + Cardinality({})
        /\ metrics.processed >= Cardinality(Issues("payload_rejected"))
    BY <2>2, <2>3 DEF SinkInv, TallyInv
  <2>7. /\ received \in Nat /\ Len(observed) \in Nat
        /\ Len(observed) = received
        /\ Len(observed) = metrics.submitted + metrics.dropped
    <3>1. received \in Nat /\ observed \in Seq(Packets)
      BY DEF SinkInv, ThreadInv, RuntimeTypeOK
    <3>2. /\ Len(observed) = received + 0
          /\ Len(observed) = metrics.submitted + metrics.dropped + 0
      BY <2>1 DEF SinkInv, ReceivedInv
    <3> QED
      BY <3>1, <3>2, <2>4, LenProperties
  <2>8. Len(observed) <= receiver.accepted
    <3>1. Len(Out) = receiver.accepted
      BY PacketsBounded DEF SinkInv, ThreadInv, RuntimeTypeOK
    <3> QED
      BY <3>1 DEF SinkInv, ObserveInv
  <2> QED
    BY <2>1, <2>4, <2>5, <2>6, <2>7, <2>8
<1> QED
  BY <1>1, CountersProved, PTL

\* The report of the monitor misses nothing and invents nothing.
THEOREM ReportProved == RuntimeSafeSpec => []ReportIsComplete
<1>1. ASSUME SinkInv, NEW s \in summary
      PROVE  /\ Cardinality({i \in s.issues : i[2] = "queue_dropped"})
                  = s.pipeline.dropped
             /\ Cardinality({i \in s.issues : i[2] = "payload_rejected"})
                  = s.samples.rejected
             /\ s.issues = issues
  <2>1. /\ pc = "done" /\ s.pipeline = metrics /\ s.samples = samples
        /\ s.issues = issues
    BY <1>1 DEF SinkInv, SummaryInv
  <2>2. pending = {}
    BY <1>1, <2>1 DEF SinkInv, ThreadInv, ControlInv, Ended
  <2>3. At("rejected") = {}
    BY <1>1, <2>2, AllSettled
  <2>4. /\ samples.rejected = Cardinality(Issues("payload_rejected"))
                                + Cardinality({})
        /\ metrics.dropped = Cardinality(Issues("queue_dropped")) + 0
    BY <1>1, <2>1, <2>3 DEF SinkInv, TallyInv
  <2>5. /\ Cardinality({}) = 0
        /\ Cardinality(Issues("payload_rejected")) \in Nat
        /\ Cardinality(Issues("queue_dropped")) \in Nat
    BY <1>1, FS_EmptySet, TallyNaturals DEF SinkInv, ThreadInv
  <2>6. /\ samples.rejected = Cardinality(Issues("payload_rejected"))
        /\ metrics.dropped = Cardinality(Issues("queue_dropped"))
    BY <2>4, <2>5
  <2> QED
    BY <2>1, <2>6 DEF Issues
<1>2. ASSUME SinkInv, NEW i \in issues
      PROVE  /\ i[1] \in Packets /\ i[1] \in Handed
             /\ i[2] = "payload_rejected" =>
                  i[1] \in pending \cup completed
             /\ i[2] = "queue_dropped" =>
                  i[1] \notin pending \cup completed
             /\ i = <<i[1], i[2]>>
             /\ i[2] \in {"queue_dropped", "payload_rejected"}
  <2>1. /\ i = <<i[1], i[2]>> /\ i[1] \in Packets
        /\ i[2] \in {"queue_dropped", "payload_rejected"}
    BY <1>2 DEF SinkInv, ThreadInv, RuntimeTypeOK
  <2>2. CASE i[2] = "payload_rejected"
    <3>1. <<i[1], "payload_rejected">> \in issues
      BY <2>1, <2>2
    <3>2. stage[i[1]] \in {"handled", "processed"}
      BY <1>2, <2>1, <3>1 DEF SinkInv, StageInv
    <3> QED
      BY <1>2, <2>1, <2>2, <3>2 DEF SinkInv, StageInv
  <2>3. CASE i[2] = "queue_dropped"
    <3>1. <<i[1], "queue_dropped">> \in issues
      BY <2>1, <2>3
    <3> QED
      BY <1>2, <2>1, <2>3, <3>1 DEF SinkInv, StageInv
  <2> QED
    BY <2>1, <2>2, <2>3
<1>3. ASSUME SinkInv PROVE Handed \subseteq Range(observed)
  <2>1. DOMAIN observed = 1..Len(observed) /\ Len(observed) \in Nat
    BY <1>3, LenProperties DEF SinkInv, ThreadInv, RuntimeTypeOK
  <2>2. \A n \in {0, 1} : 1..(Len(observed) - n) \subseteq DOMAIN observed
    BY <2>1
  <2> QED
    BY <2>2 DEF Handed, Range
<1>4. ASSUME SinkInv, NEW i \in issues, NEW j \in issues, i[1] = j[1]
      PROVE  i = j
  BY <1>2, <1>4
<1>5. ASSUME SinkInv, NEW k \in Packets, stage[k] # "queued"
      PROVE  <<k, "queue_dropped">> \notin issues
  BY <1>5 DEF SinkInv, StageInv
<1>6. SinkInv => ReportIsComplete
  BY <1>1, <1>2, <1>3, <1>4, <1>5 DEF ReportIsComplete
<1> QED
  BY <1>6, CountersProved, PTL

\* The queue of the pipeline and its workers bound what it holds, and a packet
\* is offered to it once: the guards of the contract never hold up run().
THEOREM NeverRefused == RuntimeSafeSpec => []SinkNeverRefuses
<1>1. SinkInv => SinkNeverRefuses
  <2> SUFFICES ASSUME SinkInv, pc = "submit", Cardinality(Queued) < QueueCapacity
               PROVE  /\ open /\ packets[next] \notin pending \cup completed
                      /\ Cardinality(pending) < QueueCapacity + WorkerCount
    BY DEF SinkNeverRefuses
  <2>1. open
    BY DEF SinkInv, ThreadInv, ControlInv, Ended
  <2>2. packets[next] \notin Handed
    BY FreshPacket DEF SinkInv
  <2>3. packets[next] \notin pending \cup completed
    BY <2>2 DEF SinkInv, StageInv
  <2>4. Cardinality(pending) = Cardinality(Queued) + Cardinality(Running)
    <3>1. /\ IsFiniteSet(Queued) /\ IsFiniteSet(Running)
      BY TallyFinite DEF SinkInv, ThreadInv
    <3>2. pending = Queued \cup Running /\ Queued \cap Running = {}
      BY DEF Running, Queued
    <3>3. Cardinality({}) = 0 /\ Cardinality(Queued) \in Nat
          /\ Cardinality(Running) \in Nat
      BY <3>1, FS_EmptySet, FS_CardinalityType
    <3>4. Cardinality(Queued \cup Running)
            = Cardinality(Queued) + Cardinality(Running)
                - Cardinality(Queued \cap Running)
      BY <3>1, FS_Union
    <3>5. /\ Cardinality(Queued \cup Running) = Cardinality(pending)
          /\ Cardinality(Queued \cap Running) = 0
      BY <3>2, <3>3
    <3> QED
      BY <3>3, <3>4, <3>5
  <2>5. /\ Cardinality(Queued) \in Nat /\ Cardinality(Running) \in Nat
        /\ Cardinality(Running) <= WorkerCount
        /\ WorkerCount \in Nat /\ QueueCapacity \in Nat
    BY TallyNaturals, RuntimeAssumption DEF SinkInv, ThreadInv, TallyInv
  <2> QED
    BY <2>1, <2>3, <2>4, <2>5
<1> QED
  BY <1>1, CountersProved, PTL

\* run() uses the pipeline as its contract allows: every step of the runtime
\* is a step of DrainingSink, or one that the pipeline does not see.
THEOREM RuntimeUsesSink == RuntimeSafeSpec => Pipeline!SafeSpec
<1>1. RuntimeInit => Pipeline!Init
  BY DEF RuntimeInit
<1>2. ASSUME ThreadInv, ObserveInv, [RuntimeNext]_runtimeVars
      PROVE  [Pipeline!Next]_(Pipeline!vars)
  <2>1. ASSUME NEW k \in pending, ProcessPacket(k)
        PROVE  [Pipeline!Next]_(Pipeline!vars)
    <3>1. k \in Packets
      BY <1>2 DEF ThreadInv, RuntimeTypeOK
    <3>2. Pipeline!Complete(k) \/ UNCHANGED sink
      BY <2>1 DEF ProcessPacket, Examine, RejectPayload, ReportRejection,
                  DecodePayload, CountType, HandlerReturns, HandlerThrows,
                  PacketProcessed, CallEnds, Counted
    <3> QED
      BY <3>1, <3>2 DEF Pipeline!Next, Pipeline!vars, sink
  <2>2. CASE SubmitAccepted
    <3>1. packets[next] \in Packets
      BY <1>2, <2>2, FreshPacket DEF SubmitAccepted, Goto
    <3> QED
      BY <2>2, <3>1 DEF SubmitAccepted, Pipeline!Next
  <2>3. CASE ClosePipeline \/ PipelineStopped
    BY <2>3 DEF ClosePipeline, PipelineStopped, Pipeline!Next
  <2>4. CASE RequestStop \/ NetworkStep \/ PollFails \/ Terminated
               \/ UNCHANGED runtimeVars
    BY <2>4 DEF RequestStop, NetworkStep, PollFails, PollThrowsTo, Terminated,
                runtimeVars, sink, Pipeline!vars
  <2>5. CASE LoopPolls \/ LoopEnds \/ Receive \/ BatchBegins \/ BatchEnds
               \/ BatchContinues \/ ObservePacket \/ SubmitQueueFull
               \/ ReportQueueDrop \/ CountPacket \/ Summarise
    BY <2>5 DEF LoopPolls, LoopEnds, Receive, BatchBegins, BatchEnds,
                BatchContinues, ObservePacket, SubmitQueueFull, Dropped,
                ReportQueueDrop, CountPacket, Summarise, Moves, sink,
                Pipeline!vars
  <2> QED
    BY <1>2, <2>1, <2>2, <2>3, <2>4, <2>5 DEF RuntimeNext, IoStep
<1> QED
  BY <1>1, <1>2, Observations, PTL DEF RuntimeSafeSpec, Pipeline!SafeSpec
=============================================================================
