---------------------------- MODULE EpollReceiver ----------------------------
(***************************************************************************)
(* driveflow::runtime::EpollReceiver (src/runtime/epoll_receiver.cpp): one *)
(* thread polls several non-blocking UDP sockets through a level-triggered *)
(* epoll instance, drains at most MaxPerPoll datagrams from each ready     *)
(* socket and returns those that decode as packets.                        *)
(*                                                                         *)
(* Datagrams keep arriving while a poll is in progress.  A datagram is its *)
(* position in the order of arrival; what becomes of its bytes is whether  *)
(* decode_packet accepts them.  The sockets' buffers belong to the kernel. *)
(***************************************************************************)
EXTENDS Integers, Sequences, FiniteSets, Functions, SequencesExt

CONSTANTS
  Listeners,        \* the listen endpoints
  MaxPerPoll,       \* max_datagrams_per_listener_per_poll
  MaxDatagrams      \* bound: datagrams that arrive in one behaviour

\* What create_epoll demands.
ASSUME ReceiverAssumption ==
  /\ Listeners # {} /\ IsFiniteSet(Listeners)
  /\ MaxPerPoll \in Nat \ {0}
  /\ MaxDatagrams \in Nat

VARIABLES
  arrivals,         \* history: listener and validity of every datagram
  buffer,           \* the datagrams in the receive buffer of each socket
  poll,             \* where the thread is in poll()
  events,           \* the listeners reported ready and not yet drained
  taken,            \* received_count
  packets,          \* the vector poll() returns
  receiver,         \* ReceiverMetrics
  delivered,        \* history: packets returned to the caller so far
  due,              \* history: backlog of each socket at the last wakeup
  share             \* history: datagrams read from each socket since then

reading == <<poll, events, taken, packets, receiver, due, share>>
receiverVars == <<arrivals, buffer, reading, delivered>>

Ready == {l \in Listeners : buffer[l] # <<>>}

ReceiverInit ==
  /\ arrivals = <<>>
  /\ buffer = [l \in Listeners |-> <<>>]
  /\ poll = "idle"
  /\ events = <<>>
  /\ taken = 0
  /\ packets = <<>>
  /\ receiver = [wakeups |-> 0, datagrams |-> 0, accepted |-> 0,
                 rejected |-> 0]
  /\ delivered = <<>>
  /\ due = [l \in Listeners |-> 0]
  /\ share = [l \in Listeners |-> 0]

\* A datagram reaches a socket (those the kernel drops are never seen).
Arrive(l, valid) ==
  /\ Len(arrivals) < MaxDatagrams
  /\ arrivals' = Append(arrivals, [listener |-> l, valid |-> valid])
  /\ buffer' = [buffer EXCEPT ![l] = Append(@, Len(arrivals) + 1)]
  /\ UNCHANGED <<reading, delivered>>

\* A step that only moves the thread along in poll().
PollMoves(from, to) ==
  /\ poll = from
  /\ poll' = to
  /\ UNCHANGED <<arrivals, buffer, events, taken, packets, receiver,
                 delivered, due, share>>

PollCalled ==
  /\ poll = "idle"
  /\ poll' = "waiting"
  /\ packets' = <<>>
  /\ due' = [l \in Listeners |-> 0]
  /\ share' = [l \in Listeners |-> 0]
  /\ UNCHANGED <<arrivals, buffer, events, taken, receiver, delivered>>

\* epoll_wait times out, or a signal handler has run (EINTR).
WaitReturnsEmpty == PollMoves("waiting", "returned")

\* Faulty variant: edge-triggered: only the latest arrival signals.
ReportedByEdge ==
  {<<l>> : l \in {r \in Ready : Len(arrivals) \in Range(buffer[r])}}

\* There is room for an event of every listener; their order is the kernel's.
Reported == SetToSeqs(Ready)

WaitReturnsReady ==
  /\ poll = "waiting"
  /\ Ready # {}
  /\ events' \in Reported
  /\ taken' = 0
  /\ receiver' = [receiver EXCEPT !.wakeups = @ + 1]
  /\ due' = [l \in Listeners |-> Len(buffer[l])]
  /\ poll' = "draining"
  /\ UNCHANGED <<arrivals, buffer, packets, delivered, share>>

\* A system call fails: the packets read by this poll are lost with it.
PollThrows ==
  \/ PollMoves("waiting", "thrown")
  \/ events # <<>> /\ taken < MaxPerPoll /\ PollMoves("draining", "thrown")

\* Faulty variant: the result of decode_packet is not looked at.
CountAccepted(valid) ==
  [receiver EXCEPT !.datagrams = @ + 1, !.accepted = @ + 1]

\* A datagram is counted when it is read, and again when it is decoded.
Count(valid) ==
  IF valid
  THEN [receiver EXCEPT !.datagrams = @ + 1, !.accepted = @ + 1]
  ELSE [receiver EXCEPT !.datagrams = @ + 1, !.rejected = @ + 1]

ReceiveDatagram ==
  /\ poll = "draining"
  /\ events # <<>>
  /\ taken < MaxPerPoll
  /\ LET l == Head(events)
         valid == arrivals[Head(buffer[l])].valid IN
       /\ buffer[l] # <<>>
       /\ buffer' = [buffer EXCEPT ![l] = Tail(@)]
       /\ share' = [share EXCEPT ![l] = @ + 1]
       /\ receiver' = Count(valid)
       /\ packets' = IF valid THEN Append(packets, Head(buffer[l]))
                              ELSE packets
  /\ taken' = taken + 1
  /\ UNCHANGED <<arrivals, poll, events, delivered, due>>

\* Faulty variant: the drain limit ends the whole poll.
RestAfterLimit == IF taken = MaxPerPoll THEN <<>> ELSE Tail(events)

\* The events still to be handled after the present one.
Rest == Tail(events)

\* try_receive would block, or the listener has had its share.
NextListener ==
  /\ poll = "draining"
  /\ events # <<>>
  /\ taken = MaxPerPoll \/ buffer[Head(events)] = <<>>
  /\ events' = Rest
  /\ taken' = 0
  /\ UNCHANGED <<arrivals, buffer, poll, packets, receiver, delivered, due,
                 share>>

PollReturns == events = <<>> /\ PollMoves("draining", "returned")

\* The caller takes the packets and will poll again.
PacketsTaken ==
  /\ poll = "returned"
  /\ poll' = "idle"
  /\ delivered' = delivered \o packets
  /\ packets' = <<>>
  /\ UNCHANGED <<arrivals, buffer, events, taken, receiver, due, share>>

PollStep ==
  WaitReturnsEmpty \/ WaitReturnsReady \/ ReceiveDatagram \/ NextListener
    \/ PollReturns

Network == \E l \in Listeners, valid \in BOOLEAN : Arrive(l, valid)

ReceiverNext ==
  Network \/ PollCalled \/ PollStep \/ PollThrows \/ PacketsTaken

ReceiverSafeSpec == ReceiverInit /\ [][ReceiverNext]_receiverVars

\* The caller polls for ever, poll() does not stop between two statements,
\* and signals do not interrupt every epoll_wait that finds a ready socket.
ReceiverSpec ==
  /\ ReceiverSafeSpec
  /\ WF_receiverVars(PollCalled \/ PollStep \/ PacketsTaken)
  /\ SF_receiverVars(WaitReturnsReady)
-----------------------------------------------------------------------------
ReceiverTypeOK ==
  /\ arrivals \in Seq([listener : Listeners, valid : BOOLEAN])
  /\ buffer \in [Listeners -> Seq(1..MaxDatagrams)]
  /\ poll \in {"idle", "waiting", "draining", "returned", "thrown"}
  /\ events \in Seq(Listeners)
  /\ taken \in 0..MaxPerPoll
  /\ packets \in Seq(1..MaxDatagrams)
  /\ receiver \in [wakeups : Nat, datagrams : Nat, accepted : Nat,
                   rejected : Nat]
  /\ delivered \in Seq(1..MaxDatagrams)
  /\ due \in [Listeners -> Nat]
  /\ share \in [Listeners -> Nat]

\* What poll() has handed out so far, the present call included.
Out == delivered \o packets

\* Within a listener, datagrams stand in the order of their arrival, once.
InOrder(ids) ==
  \A a, b \in DOMAIN ids :
    /\ a < b
    /\ arrivals[ids[a]].listener = arrivals[ids[b]].listener
    => ids[a] < ids[b]

\* What poll() hands out of one socket, over all the calls so far, followed
\* by what the socket still holds, is in the order of arrival, and contains
\* whatever arrived there, except the datagrams read and found invalid:
\* nothing is lost, repeated or overtaken within a listener, whatever arrives
\* in the middle of a poll.
ListenerOrderKept ==
  /\ \A l \in Listeners : InOrder(Out \o buffer[l])
  /\ \A l \in Listeners : \A i \in Range(buffer[l]) :
       i \in DOMAIN arrivals /\ arrivals[i].listener = l
  /\ Range(Out) \subseteq DOMAIN arrivals
  /\ \A i \in DOMAIN arrivals :
       i \in Range(Out) <=> /\ arrivals[i].valid
                            /\ i \notin Range(buffer[arrivals[i].listener])

\* docs/runtime-receiver.md, metrics: every datagram read is counted once, as
\* accepted or rejected, and the accepted ones reach the caller unless an
\* exception takes the packets of its poll with it.
ReceiverCountsAddUp ==
  /\ receiver.datagrams = receiver.accepted + receiver.rejected
  /\ receiver.accepted = Len(delivered) + Len(packets)
  /\ receiver.datagrams =
       Len(arrivals) - Cardinality(UNION {Range(buffer[l]) : l \in Ready})

\* Between the sockets and the caller nothing is lost or invented, and the
\* counters tell the same story.
ReadingIsExact == ListenerOrderKept /\ ReceiverCountsAddUp

\* The drain limit keeps a busy socket from starving the others: a poll that
\* woke up for some sockets returns after it has read, from each of them, all
\* its backlog or its full share, and never more than a share.
SharesAreFair ==
  /\ \A l \in Listeners : share[l] <= MaxPerPoll
  /\ poll = "returned" =>
       \A l \in Listeners : due[l] > 0 =>
         share[l] >= (IF due[l] < MaxPerPoll THEN due[l] ELSE MaxPerPoll)

\* Level-triggered readiness: what one poll leaves in a socket is read by a
\* later one, although nothing new arrives to signal it again.
BacklogIsRead ==
  \A i \in 1..MaxDatagrams :
    (\E l \in Listeners : i \in Range(buffer[l]))
      ~> (poll = "thrown" \/ \A l \in Listeners : i \notin Range(buffer[l]))
=============================================================================
