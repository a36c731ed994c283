---------------------------- MODULE ProgramsProofs ----------------------------
(***************************************************************************)
(* Theorems about Programs: the ownership of descriptors, signals, the     *)
(* listeners of the runtime, that what the parsers accept runs, and that   *)
(* they accept what is documented and make of it what was asked.           *)
(***************************************************************************)
EXTENDS Programs, SequenceTheorems, WellFoundedInduction, TLAPS

\* The places before the first descriptor is opened and after the last one
\* is closed.
Empty == {"main", "install_handlers", "construct", "create_epoll",
          "left", "exited", "killed"}

\* The places where the local socket is open.
Local == {"bind", "set_non_blocking", "local_endpoint", "register", "push_back"}

\* The places where a step may be taken after the end.
After == {"unwind", "left", "exited", "killed"}

NothingOpen == socket = None /\ epoll = None /\ listeners = <<>>

\* Which owners there are at which place.
PlaceInv ==
  /\ pc \in Empty => NothingOpen
  /\ pc \in {"next_endpoint", "open"} => socket = None
  /\ pc \in Local => socket # None

\* Who owns which descriptor.
SinglesOwned ==
  /\ socket # None => socket \in DOMAIN descriptors
  /\ epoll # None => /\ epoll \in DOMAIN descriptors /\ epoll # socket
                     /\ descriptors[epoll].kind = "epoll"

ListenersOwned ==
  \A i \in DOMAIN listeners :
    /\ listeners[i].fd \in DOMAIN descriptors
    /\ listeners[i].fd # socket /\ listeners[i].fd # epoll

OwnedOnce ==
  \A i, j \in DOMAIN listeners : listeners[i].fd = listeners[j].fd => i = j

NothingLeaks ==
  \A d \in DOMAIN descriptors :
    d = socket \/ d = epoll \/ \E i \in DOMAIN listeners : d = listeners[i].fd

OwnInv ==
  /\ DOMAIN descriptors \subseteq 0..MaxDescriptor
  /\ SinglesOwned /\ ListenersOwned /\ OwnedOnce /\ NothingLeaks

\* The listeners are a sequence.
IsList == listeners \in Seq(Range(listeners))
-----------------------------------------------------------------------------
\* A set of natural numbers that is not empty has a least element.
LEMMA Least ==
  ASSUME NEW T \in SUBSET Nat, T # {}
  PROVE  \E x \in T : \A y \in T : x <= y
<1>1. PICK R : R = OpToRel(<, Nat)
  OBVIOUS
<1>2. IsWellFoundedOn(R, Nat)
  BY <1>1, NatLessThanWellFounded
<1>3. \E x \in T : \A y \in T : ~(<<y, x>> \in R)
  BY <1>2, WFMin
<1>4. \A x, y \in Nat : <<x, y>> \in R <=> x < y
  BY <1>1 DEF OpToRel
<1>5. PICK x \in T : \A y \in T : ~(<<y, x>> \in R)
  BY <1>3
<1>6. \A y \in T : ~(y < x)
  BY <1>4, <1>5
<1> QED
  BY <1>6

\* The kernel gives out a descriptor that is free.
LEMMA LowestFree ==
  ASSUME Free # {}
  PROVE  Min(Free) \in 0..MaxDescriptor /\ Min(Free) \notin DOMAIN descriptors
<1>1. Free \in SUBSET Nat
  BY UdpSocketAssumption DEF Free
<1>2. \E x \in Free : \A y \in Free : x <= y
  BY <1>1, Least
<1>3. Min(Free) \in Free
  BY <1>2 DEF Min
<1> QED
  BY <1>3 DEF Free

\* A new descriptor beside the others.
LEMMA OpenedIs ==
  ASSUME NEW kind, Free # {}
  PROVE  LET d == Min(Free)
             opened == WithOpened(kind) IN
         /\ d \in 0..MaxDescriptor /\ d # None /\ d \notin DOMAIN descriptors
         /\ DOMAIN opened = DOMAIN descriptors \cup {d}
         /\ \A e \in DOMAIN descriptors : opened[e] = descriptors[e]
         /\ opened[d] = [kind |-> kind, endpoint |-> NoEndpoint,
                         nonblocking |-> FALSE, index |-> None]
<1>1. PICK d : d = Min(Free)
  OBVIOUS
<1>2. d \in 0..MaxDescriptor /\ d \notin DOMAIN descriptors /\ d # None
  BY <1>1, LowestFree, UdpSocketAssumption DEF None
<1> QED
  BY <1>1, <1>2 DEF WithOpened

\* The rest of the descriptors after one is closed.
LEMMA ClosedIs ==
  ASSUME NEW fd
  PROVE  /\ DOMAIN WithClosed(fd) = DOMAIN descriptors \ {fd}
         /\ \A d \in DOMAIN descriptors \ {fd} : WithClosed(fd)[d] = descriptors[d]
  BY DEF WithClosed
-----------------------------------------------------------------------------
\* A step keeps the owners where they are unless it opens, moves or closes.
Frame == UNCHANGED <<descriptors, socket, epoll, listeners>>

\* Only the place and what main knows change.
MainStep ==
  \/ ShowHelp \/ ParseConfig \/ ParseEndpoint \/ InstallHandler
  \/ InstallFails \/ Construct \/ RunReturns \/ RunThrows
  \/ \E decoded \in {"sample", "rejected packet", "rejected payload"} :
       ReceiveOne(decoded)
  \/ SendOne \/ TransferFails \/ Exit \/ (SetupFails /\ OnlySetup)

\* What main does outside the set-up of the sockets leaves the owners alone,
\* and reaches the places of the set-up only from the construction.
LEMMA MainDoes ==
  ASSUME MainStep
  PROVE  /\ Frame
         /\ \/ pc' = "unwind" /\ pc \notin After
            \/ /\ pc \in {"main", "install_handlers", "construct"}
               /\ pc' \in {"install_handlers", "construct", "create_epoll", "open"}
            \/ pc = "left" /\ pc' = "exited"
<1>1. CASE ShowHelp
  BY <1>1 DEF ShowHelp, Return, Frame, After
<1>2. CASE ParseConfig
  BY <1>2 DEF ParseConfig, Return, Goto, Frame, After
<1>3. CASE ParseEndpoint
  BY <1>3 DEF ParseEndpoint, Return, Throws, Throw, Goto, Frame, After
<1>4. CASE InstallHandler
  BY <1>4 DEF InstallHandler, Goto, Frame, After
<1>5. CASE InstallFails
  BY <1>5 DEF InstallFails, Return, Throws, Throw, Frame, After
<1>6. CASE Construct
  BY <1>6 DEF Construct, Throws, Throw, Goto, Frame, After
<1>7. CASE RunReturns
  BY <1>7 DEF RunReturns, Return, Frame, After
<1>8. CASE RunThrows
  BY <1>8 DEF RunThrows, Throws, Throw, Frame, After
<1>9. ASSUME NEW decoded, ReceiveOne(decoded)
      PROVE  Frame /\ pc' = "unwind" /\ pc = "receive"
  BY <1>9 DEF ReceiveOne, Return, Frame
<1>10. CASE SendOne
  BY <1>10 DEF SendOne, Return, Throws, Throw, Frame, After
<1>11. CASE TransferFails
  BY <1>11 DEF TransferFails, Throws, Throw, Frame, After
<1>12. CASE Exit
  BY <1>12 DEF Exit, Goto, Frame, After
<1>13. CASE SetupFails
  BY <1>13 DEF SetupFails, SocketCallFails, Throw, receiverVars, Frame, After
<1> QED
  BY <1>1, <1>2, <1>3, <1>4, <1>5, <1>6, <1>7, <1>8, <1>9, <1>10, <1>11, <1>12,
     <1>13
  DEF MainStep, After
-----------------------------------------------------------------------------
\* The steps of the set-up by what they do to the owners.
Moves ==
  /\ Frame
  /\ \/ pc \in {"create_epoll", "bind"} /\ pc' = "unwind" /\ thrown' # "none"
     \/ pc = "next_endpoint" /\ pc' \in {"open", "run"}
     \/ pc = "local_endpoint" /\ pc' = "register"
     \/ pc = "local_endpoint" /\ pc' = "receive" /\ program \notin Servers

OpensEpoll ==
  /\ pc = "create_epoll" /\ pc' = "next_endpoint" /\ Free # {}
  /\ epoll' = Min(Free) /\ descriptors' = WithOpened("epoll")
  /\ UNCHANGED <<socket, listeners>>

OpensSocket ==
  /\ pc = "open" /\ pc' \in {"bind", "send", "run"} /\ Free # {}
  /\ pc' = "send" => program \notin Servers
  /\ socket' = Min(Free) /\ descriptors' = WithOpened("socket")
  /\ UNCHANGED <<epoll, listeners>>

\* A call that changes what the kernel knows of the local socket.
Changes ==
  /\ \/ pc = "bind" /\ pc' \in {"set_non_blocking", "local_endpoint"}
        /\ \E endpoint : descriptors' = [descriptors EXCEPT ![socket].endpoint = endpoint]
     \/ pc = "set_non_blocking" /\ pc' = "local_endpoint"
        /\ descriptors' = [descriptors EXCEPT ![socket].nonblocking = TRUE]
     \/ pc = "register" /\ pc' = "push_back"
        /\ descriptors' = [descriptors EXCEPT ![socket].index = Len(listeners)]
  /\ UNCHANGED <<socket, epoll, listeners>>

LEMMA SetUpDoes ==
  ASSUME SetUpRuntime \/ SetUpSocket
  PROVE  OnlySetup /\ (Moves \/ OpensEpoll \/ OpensSocket \/ Changes \/ PushBack)
<1>1. ASSUME NEW then \in {"bind", "send", "run"},
             OpenSocket(then), UNCHANGED receiverVars,
             then = "send" => program \notin Servers
      PROVE  OpensSocket
  BY <1>1 DEF OpenSocket, OpensSocket, receiverVars
<1>2. ASSUME NEW endpoint, NEW then \in {"set_non_blocking", "local_endpoint"},
             BindTo(endpoint, then), UNCHANGED receiverVars
      PROVE  Moves \/ Changes
  <2>1. CASE endpoint.address \notin Addresses
    BY <1>2, <2>1 DEF BindTo, Throw, Moves, Frame, receiverVars
  <2>2. CASE endpoint.address \in Addresses
    <3>1. /\ pc = "bind" /\ pc' = then /\ UNCHANGED socket
          /\ \E e : descriptors' = [descriptors EXCEPT ![socket].endpoint = e]
      BY <1>2, <2>2 DEF BindTo
    <3> QED
      BY <1>2, <3>1 DEF Changes, receiverVars
  <2> QED
    BY <2>1, <2>2
<1>3. ASSUME NEW then \in {"register", "receive"},
             LocalEndpoint(then), UNCHANGED receiverVars,
             then = "receive" => program \notin Servers
      PROVE  Moves
  BY <1>3 DEF LocalEndpoint, Moves, Frame, receiverVars
<1>4. CASE SetUpSocket
  BY <1>1, <1>2, <1>3, <1>4 DEF SetUpSocket, Servers
<1>5. ASSUME SetUpRuntime
      PROVE  Moves \/ OpensEpoll \/ OpensSocket \/ Changes \/ PushBack
  <2>1. CASE CreateEpoll(config)
    BY <2>1 DEF CreateEpoll, Throw, Moves, OpensEpoll, Frame
  <2>2. CASE NextEndpoint(config)
    BY <2>2 DEF NextEndpoint, Moves, Frame
  <2>3. CASE OpenListener
    BY <1>1, <2>3 DEF OpenListener
  <2>4. CASE BindListener(config)
    BY <1>2, <2>4 DEF BindListener
  <2>5. CASE PrepareListener
    <3>1. CASE SetNonBlocking("local_endpoint")
      BY <2>5, <3>1 DEF PrepareListener, SetNonBlocking, Changes, receiverVars
    <3>2. CASE LocalEndpoint("register")
      BY <1>3, <2>5, <3>2 DEF PrepareListener
    <3> QED
      BY <2>5, <3>1, <3>2 DEF PrepareListener
  <2>6. CASE Register
    BY <2>6 DEF Register, Changes, EventIndex
  <2> QED
    BY <1>5, <2>1, <2>2, <2>3, <2>4, <2>5, <2>6 DEF SetUpRuntime, Setup
<1> QED
  BY <1>4, <1>5 DEF SetUpRuntime, SetUpSocket

\* The end of a scope, and a signal that ends the process.
ClosesSocket ==
  /\ socket # None /\ descriptors' = WithClosed(socket) /\ socket' = None
  /\ UNCHANGED <<pc, epoll, listeners>>

ClosesListener ==
  /\ socket = None /\ listeners # <<>>
  /\ descriptors' = WithClosed(Head(listeners).fd)
  /\ listeners' = Tail(listeners)
  /\ UNCHANGED <<pc, socket, epoll>>

ClosesEpoll ==
  /\ socket = None /\ listeners = <<>> /\ epoll # None
  /\ descriptors' = WithClosed(epoll) /\ epoll' = None
  /\ UNCHANGED <<pc, socket, listeners>>

Leaves == NothingOpen /\ pc' = "left" /\ Frame

Closes ==
  /\ pc = "unwind" /\ UNCHANGED thrown
  /\ ClosesSocket \/ ClosesListener \/ ClosesEpoll \/ Leaves

Dies ==
  /\ pc' = "killed" /\ descriptors' = << >> /\ UNCHANGED thrown
  /\ socket' = None /\ epoll' = None /\ listeners' = <<>>

\* Every step of a program, by what it does to the owners.
LEMMA StepDoes ==
  ASSUME [ProgramNext]_programVars
  PROVE  \/ MainStep
         \/ OnlySetup /\ (Moves \/ OpensEpoll \/ OpensSocket \/ Changes \/ PushBack)
         \/ Closes /\ OnlySetup
         \/ Dies /\ OnlySetup /\ \E s \in Signals : s \notin handled
         \/ /\ UNCHANGED <<setupVars, program, line, config, handled, status>>
<1>1. CASE Unwind /\ OnlySetup
  BY <1>1 DEF Unwind, DestroySocket, Closes, ClosesSocket, ClosesListener,
             ClosesEpoll, Leaves, Frame, NothingOpen, receiverVars
<1>2. ASSUME NEW s \in Signals, Signal(s)
      PROVE  \/ Dies /\ OnlySetup /\ s \notin handled
             \/ UNCHANGED <<setupVars, program, line, config, handled, status>>
  BY <1>2 DEF Signal, Dies, OnlyMain
<1>3. CASE Ended \/ UNCHANGED programVars
  BY <1>3 DEF Ended, programVars, mainVars
<1>4. CASE SetUpRuntime \/ SetUpSocket
  BY <1>4, SetUpDoes
<1> QED
  BY <1>1, <1>2, <1>3, <1>4 DEF ProgramNext, MainStep
-----------------------------------------------------------------------------
\* The first element of a sequence and the rest.
LEMMA RestOf ==
  ASSUME NEW q, q \in Seq(Range(q)), q # <<>>
  PROVE  /\ Len(q) \in Nat /\ DOMAIN q = 1..Len(q) /\ 1 \in DOMAIN q /\ Head(q) = q[1]
         /\ Tail(q) \in Seq(Range(Tail(q)))
         /\ Len(Tail(q)) = Len(q) - 1 /\ DOMAIN Tail(q) = 1..(Len(q) - 1)
         /\ \A i \in DOMAIN Tail(q) : i + 1 \in DOMAIN q /\ Tail(q)[i] = q[i + 1]
         /\ \A i \in DOMAIN q :
              i # 1 => i - 1 \in DOMAIN Tail(q) /\ q[i] = Tail(q)[i - 1]
<1> DEFINE S == Range(q)
<1>1. PICK n : n = Len(q)
  OBVIOUS
<1>2. PICK t : t = Tail(q)
  OBVIOUS
<1>3. n \in Nat \ {0} /\ DOMAIN q = 1..n /\ t \in Seq(S) /\ Len(t) = n - 1
  BY <1>1, <1>2, HeadTailProperties, LenProperties, EmptySeq
<1>4. DOMAIN t = 1..(n - 1)
  BY <1>3
<1>5. \A i \in 1..(n - 1) : t[i] = q[i + 1]
  BY <1>1, <1>2, <1>3
<1>6. \A i \in 1..(n - 1) : i + 1 \in 1..n
  BY <1>3
<1>7. \A i \in 1..n : i = 1 \/ (i - 1 \in 1..(n - 1) /\ i = (i - 1) + 1)
  BY <1>3
<1>8. t \in Seq(Range(t))
  <2>1. \A i \in 1..Len(t) : t[i] \in Range(t)
    BY <1>3, <1>4 DEF Range
  <2> QED
    BY <1>3, <2>1
<1>9. 1 \in DOMAIN q /\ Head(q) = q[1]
  BY <1>3
<1>10. \A i \in 1..n : i # 1 => (i - 1 \in 1..(n - 1) /\ q[i] = t[i - 1])
  <2> SUFFICES ASSUME NEW i \in 1..n, i # 1
               PROVE  i - 1 \in 1..(n - 1) /\ q[i] = t[i - 1]
    OBVIOUS
  <2>1. i - 1 \in 1..(n - 1) /\ i = (i - 1) + 1
    BY <1>7
  <2>2. t[i - 1] = q[(i - 1) + 1]
    BY <1>5, <2>1
  <2> QED
    BY <2>1, <2>2
<1> QED
  BY <1>1, <1>2, <1>3, <1>4, <1>5, <1>6, <1>8, <1>9, <1>10

\* One more element at the end of a sequence.
LEMMA OneMore ==
  ASSUME NEW q, q \in Seq(Range(q)), NEW e
  PROVE  LET longer == Append(q, e) IN
         /\ Len(q) \in Nat /\ DOMAIN q = 1..Len(q)
         /\ longer \in Seq(Range(longer))
         /\ Len(longer) = Len(q) + 1 /\ DOMAIN longer = 1..(Len(q) + 1)
         /\ \A i \in DOMAIN q : longer[i] = q[i] /\ i # Len(q) + 1
         /\ longer[Len(q) + 1] = e
         /\ \A i \in DOMAIN longer : i \in DOMAIN q \/ i = Len(q) + 1
<1>1. PICK S : S = Range(q) \cup {e}
  OBVIOUS
<1>2. PICK n : n = Len(q)
  OBVIOUS
<1>3. q \in Seq(S) /\ e \in S
  <2>1. \A i \in 1..Len(q) : q[i] \in S
    BY <1>1
  <2> QED
    BY <2>1, <1>1
<1>4. PICK longer : longer = Append(q, e)
  OBVIOUS
<1>5. /\ n \in Nat /\ DOMAIN q = 1..n
      /\ longer \in Seq(S) /\ Len(longer) = n + 1
      /\ \A i \in 1..n : longer[i] = q[i]
      /\ longer[n + 1] = e
  BY <1>2, <1>3, <1>4, AppendProperties, LenProperties
<1>6. DOMAIN longer = 1..(n + 1)
  BY <1>5
<1>7. longer \in Seq(Range(longer))
  <2>1. \A i \in 1..Len(longer) : longer[i] \in Range(longer)
    BY <1>5, <1>6 DEF Range
  <2> QED
    BY <1>5, <2>1
<1>8. \A i \in 1..(n + 1) : i \in 1..n \/ i = n + 1
  BY <1>5
<1>9. \A i \in 1..n : i # n + 1
  BY <1>5
<1> QED
  BY <1>2, <1>4, <1>5, <1>6, <1>7, <1>8, <1>9

\* The places of the owners.
LEMMA PlaceStep ==
  ASSUME PlaceInv, IsList, [ProgramNext]_programVars
  PROVE  PlaceInv'
<1>0. Free # {} => Min(Free) # None
  BY OpenedIs
<1>1. CASE MainStep
  <2>1. Frame
    BY <1>1, MainDoes
  <2>2. CASE pc' = "unwind" /\ pc \notin After
    BY <2>2 DEF PlaceInv, Empty, Local
  <2>3. CASE /\ pc \in {"main", "install_handlers", "construct"}
             /\ pc' \in {"install_handlers", "construct", "create_epoll", "open"}
    BY <2>1, <2>3 DEF PlaceInv, Empty, Local, Frame, NothingOpen
  <2>4. CASE pc = "left" /\ pc' = "exited"
    BY <2>1, <2>4 DEF PlaceInv, Empty, Local, Frame, NothingOpen
  <2> QED
    BY <1>1, <2>2, <2>3, <2>4, MainDoes
<1>2. CASE Moves
  BY <1>2 DEF Moves, PlaceInv, Empty, Local, Frame, NothingOpen
<1>3. CASE OpensEpoll
  BY <1>3 DEF OpensEpoll, PlaceInv, Empty, Local, NothingOpen
<1>4. CASE OpensSocket
  BY <1>0, <1>4 DEF OpensSocket, PlaceInv, Empty, Local
<1>5. CASE Changes
  BY <1>5 DEF Changes, PlaceInv, Empty, Local
<1>6. CASE PushBack
  BY <1>6 DEF PushBack, MovedFrom, PlaceInv, Empty, Local
<1>7. CASE Closes
  BY <1>7 DEF Closes, ClosesSocket, ClosesListener, ClosesEpoll, Leaves, Frame,
              PlaceInv, Empty, Local, NothingOpen
<1>8. CASE Dies
  BY <1>8 DEF Dies, PlaceInv, Empty, Local, NothingOpen
<1>9. CASE UNCHANGED setupVars
  BY <1>9 DEF setupVars, PlaceInv, Empty, Local, NothingOpen
<1> QED
  BY <1>1, <1>2, <1>3, <1>4, <1>5, <1>6, <1>7, <1>8, <1>9, StepDoes
  DEF setupVars
-----------------------------------------------------------------------------
\* The listeners stay a sequence.
LEMMA ListStep ==
  ASSUME IsList, [ProgramNext]_programVars
  PROVE  IsList'
<1>1. CASE UNCHANGED listeners
  BY <1>1 DEF IsList
<1>2. CASE listeners # <<>> /\ listeners' = Tail(listeners)
  <2>1. Tail(listeners) \in Seq(Range(Tail(listeners)))
    BY <1>2, RestOf DEF IsList
  <2> QED
    BY <1>2, <2>1 DEF IsList
<1>3. ASSUME NEW e, listeners' = Append(listeners, e)
      PROVE  IsList'
  <2>1. Append(listeners, e) \in Seq(Range(Append(listeners, e)))
    BY <1>3, OneMore DEF IsList
  <2> QED
    BY <1>3, <2>1 DEF IsList
<1>4. CASE listeners' = <<>>
  BY <1>4 DEF IsList
<1>5. MainStep => UNCHANGED listeners
  BY MainDoes DEF Frame
<1>6. Moves \/ OpensEpoll \/ OpensSocket \/ Changes => UNCHANGED listeners
  BY DEF Moves, OpensEpoll, OpensSocket, Changes, Frame
<1>7. PushBack => \E e : listeners' = Append(listeners, e)
  BY DEF PushBack
<1>8. Closes => \/ UNCHANGED listeners
                \/ listeners # <<>> /\ listeners' = Tail(listeners)
  BY DEF Closes, ClosesSocket, ClosesListener, ClosesEpoll, Leaves, Frame
<1>9. Dies => listeners' = <<>>
  BY DEF Dies
<1> QED
  BY <1>1, <1>2, <1>3, <1>4, <1>5, <1>6, <1>7, <1>8, <1>9, StepDoes DEF setupVars

\* The owners of the descriptors.
LEMMA OwnStep ==
  ASSUME PlaceInv, IsList, OwnInv, [ProgramNext]_programVars
  PROVE  OwnInv'
<1>0. None \notin 0..MaxDescriptor
  BY UdpSocketAssumption DEF None
<1>1. CASE Frame
  BY <1>1
  DEF Frame, OwnInv, SinglesOwned, ListenersOwned, OwnedOnce, NothingLeaks
<1>2. CASE OpensEpoll
  <2>1. epoll = None /\ socket = None /\ listeners = <<>>
    BY <1>2 DEF OpensEpoll, PlaceInv, Empty, NothingOpen
  <2>2. PICK d : d = Min(Free)
    OBVIOUS
  <2>3. /\ d \in 0..MaxDescriptor /\ d # None
        /\ DOMAIN descriptors' = DOMAIN descriptors \cup {d}
        /\ descriptors'[d] = [kind |-> "epoll", endpoint |-> NoEndpoint,
                              nonblocking |-> FALSE, index |-> None]
    BY <1>2, <2>2, OpenedIs DEF OpensEpoll
  <2>4. epoll' = d /\ socket' = None /\ listeners' = <<>>
    BY <1>2, <2>1, <2>2 DEF OpensEpoll
  <2>5. DOMAIN descriptors = {}
    <3>1. DOMAIN listeners = {} /\ None \notin DOMAIN descriptors
      BY <2>1, <1>0 DEF OwnInv
    <3> QED
      BY <2>1, <3>1 DEF OwnInv, NothingLeaks
  <2> QED
    BY <2>3, <2>4, <2>5
    DEF OwnInv, SinglesOwned, ListenersOwned, OwnedOnce, NothingLeaks
<1>3. CASE OpensSocket
  <2>1. socket = None
    BY <1>3 DEF OpensSocket, PlaceInv
  <2>2. PICK d : d = Min(Free)
    OBVIOUS
  <2>3. /\ d \in 0..MaxDescriptor /\ d # None /\ d \notin DOMAIN descriptors
        /\ DOMAIN descriptors' = DOMAIN descriptors \cup {d}
        /\ \A e \in DOMAIN descriptors : descriptors'[e] = descriptors[e]
    BY <1>3, <2>2, OpenedIs DEF OpensSocket
  <2>4. socket' = d /\ UNCHANGED <<epoll, listeners>>
    BY <1>3, <2>2 DEF OpensSocket
  <2>5. SinglesOwned' /\ ListenersOwned' /\ OwnedOnce'
    BY <2>1, <2>3, <2>4 DEF OwnInv, SinglesOwned, ListenersOwned, OwnedOnce
  <2>6. NothingLeaks'
    BY <2>1, <2>3, <2>4, <1>0 DEF OwnInv, NothingLeaks
  <2> QED
    BY <2>3, <2>5, <2>6 DEF OwnInv
<1>4. CASE Changes
  <2>1. /\ DOMAIN descriptors' = DOMAIN descriptors
        /\ \A d \in DOMAIN descriptors : d # socket => descriptors'[d] = descriptors[d]
        /\ UNCHANGED <<socket, epoll, listeners>>
    BY <1>4 DEF Changes
  <2>2. SinglesOwned' /\ ListenersOwned' /\ OwnedOnce' /\ NothingLeaks'
    BY <2>1 DEF OwnInv, SinglesOwned, ListenersOwned, OwnedOnce, NothingLeaks
  <2> QED
    BY <2>1, <2>2 DEF OwnInv
<1>5. CASE PushBack
  <2>1. PICK e : e = [fd |-> socket, endpoint |-> descriptors[socket].endpoint]
    OBVIOUS
  <2>2. e.fd = socket
    BY <2>1
  <2>3. /\ listeners' = Append(listeners, e) /\ socket' = None
        /\ UNCHANGED <<descriptors, epoll>>
    BY <1>5, <2>1 DEF PushBack, MovedFrom
  <2>4. socket # None
    BY <1>5 DEF PushBack, PlaceInv, Local
  <2>5. PICK n : n = Len(listeners) + 1
    OBVIOUS
  <2>6. /\ \A i \in DOMAIN listeners :
             i \in DOMAIN listeners' /\ listeners'[i] = listeners[i] /\ i # n
        /\ n \in DOMAIN listeners' /\ listeners'[n] = e
        /\ \A i \in DOMAIN listeners' : i \in DOMAIN listeners \/ i = n
    BY <2>3, <2>5, OneMore DEF IsList
  <2>7. socket \in DOMAIN descriptors
    BY <2>4 DEF OwnInv, SinglesOwned
  <2>8. None \notin DOMAIN descriptors
    BY <1>0 DEF OwnInv
  <2>9. SinglesOwned'
    BY <2>3, <2>8 DEF OwnInv, SinglesOwned
  <2>10. ListenersOwned'
    BY <2>2, <2>3, <2>6, <2>7, <2>8 DEF OwnInv, SinglesOwned, ListenersOwned
  <2>11. OwnedOnce'
    BY <2>2, <2>6 DEF OwnInv, ListenersOwned, OwnedOnce
  <2>12. NothingLeaks'
    BY <2>2, <2>3, <2>6 DEF OwnInv, NothingLeaks
  <2> QED
    BY <2>3, <2>9, <2>10, <2>11, <2>12 DEF OwnInv
<1>6. ASSUME NEW fd, descriptors' = WithClosed(fd)
      PROVE  /\ DOMAIN descriptors' = DOMAIN descriptors \ {fd}
             /\ \A d \in DOMAIN descriptors' : descriptors'[d] = descriptors[d]
  BY <1>6, ClosedIs
<1>7. CASE ClosesSocket
  <2>1. /\ DOMAIN descriptors' = DOMAIN descriptors \ {socket}
        /\ \A d \in DOMAIN descriptors' : descriptors'[d] = descriptors[d]
        /\ socket # None /\ socket' = None /\ UNCHANGED <<epoll, listeners>>
    BY <1>6, <1>7 DEF ClosesSocket
  <2>2. None \notin DOMAIN descriptors
    BY <1>0 DEF OwnInv
  <2>3. SinglesOwned' /\ ListenersOwned' /\ OwnedOnce'
    BY <2>1, <2>2 DEF OwnInv, SinglesOwned, ListenersOwned, OwnedOnce
  <2>4. NothingLeaks'
    BY <2>1 DEF OwnInv, NothingLeaks
  <2> QED
    BY <2>1, <2>3, <2>4 DEF OwnInv
<1>8. CASE ClosesListener
  <2>1. PICK fd : fd = listeners[1].fd
    OBVIOUS
  <2>2. /\ DOMAIN listeners = 1..Len(listeners) /\ Len(listeners) \in Nat
        /\ 1 \in DOMAIN listeners /\ Head(listeners).fd = fd
        /\ \A i \in DOMAIN listeners' : i + 1 \in DOMAIN listeners
                                        /\ listeners'[i] = listeners[i + 1]
        /\ \A i \in DOMAIN listeners :
             i # 1 => i - 1 \in DOMAIN listeners' /\ listeners[i] = listeners'[i - 1]
        /\ DOMAIN listeners' = 1..(Len(listeners) - 1)
    BY <1>8, <2>1, RestOf DEF IsList, ClosesListener
  <2>3. /\ DOMAIN descriptors' = DOMAIN descriptors \ {fd}
        /\ \A d \in DOMAIN descriptors' : descriptors'[d] = descriptors[d]
        /\ UNCHANGED <<socket, epoll>>
    BY <1>8, <2>2, <1>6 DEF ClosesListener
  <2>4. \A i \in DOMAIN listeners' : i + 1 # 1 /\ i \in Nat
    BY <2>2
  <2>5. ListenersOwned'
    BY <2>1, <2>2, <2>3, <2>4 DEF OwnInv, ListenersOwned, OwnedOnce
  <2>6. OwnedOnce'
    <3> SUFFICES ASSUME NEW i \in DOMAIN listeners', NEW j \in DOMAIN listeners',
                        listeners'[i].fd = listeners'[j].fd
                 PROVE  i = j
      BY DEF OwnedOnce
    <3>1. i + 1 = j + 1
      BY <2>2 DEF OwnInv, OwnedOnce
    <3> QED
      BY <3>1, <2>4
  <2>7. NothingLeaks'
    <3> SUFFICES ASSUME NEW d \in DOMAIN descriptors', d # socket, d # epoll
                 PROVE  \E i \in DOMAIN listeners' : d = listeners'[i].fd
      BY <2>3 DEF NothingLeaks
    <3>1. PICK i \in DOMAIN listeners : d = listeners[i].fd
      BY <2>3 DEF OwnInv, NothingLeaks
    <3>2. i # 1
      BY <3>1, <2>1, <2>3
    <3> QED
      BY <3>1, <3>2, <2>2
  <2>8. SinglesOwned'
    BY <1>8, <2>1, <2>2, <2>3
    DEF OwnInv, SinglesOwned, ListenersOwned, ClosesListener
  <2> QED
    BY <2>3, <2>5, <2>6, <2>7, <2>8 DEF OwnInv
<1>9. CASE ClosesEpoll
  <2>1. /\ DOMAIN descriptors' = DOMAIN descriptors \ {epoll}
        /\ socket = None /\ listeners = <<>> /\ epoll' = None
        /\ UNCHANGED <<socket, listeners>>
    BY <1>6, <1>9 DEF ClosesEpoll
  <2>2. None \notin DOMAIN descriptors
    BY <1>0 DEF OwnInv
  <2> QED
    BY <2>1, <2>2
    DEF OwnInv, SinglesOwned, ListenersOwned, OwnedOnce, NothingLeaks
<1>10. CASE Dies
  <2>1. /\ DOMAIN descriptors' = {} /\ DOMAIN listeners' = {}
        /\ socket' = None /\ epoll' = None
    BY <1>10 DEF Dies
  <2> QED
    BY <2>1 DEF OwnInv, SinglesOwned, ListenersOwned, OwnedOnce, NothingLeaks
<1>11. MainStep \/ Moves \/ Leaves \/ UNCHANGED setupVars => Frame
  BY MainDoes DEF Frame, Moves, Leaves, setupVars
<1> QED
  BY <1>1, <1>2, <1>3, <1>4, <1>5, <1>7, <1>8, <1>9, <1>10, <1>11, StepDoes
  DEF setupVars, Closes

\* The parts of the invariant say what DescriptorsOwned says.
LEMMA OwnedMeans ==
  OwnInv => DescriptorsOwned
<1> SUFFICES ASSUME OwnInv PROVE DescriptorsOwned
  OBVIOUS
<1> DEFINE held == [i \in DOMAIN listeners |-> listeners[i].fd]
<1>1. None \notin DOMAIN descriptors
  BY UdpSocketAssumption DEF OwnInv, None
<1>2. \A fd : fd \in Range(held) <=> \E i \in DOMAIN listeners : fd = listeners[i].fd
  BY DEF Range
<1>3. IsInjective(held)
  BY DEF OwnInv, OwnedOnce, IsInjective
<1>4. Range(held) \cap {None, epoll, socket} = {}
  BY <1>1, <1>2 DEF OwnInv, ListenersOwned
<1>5. DOMAIN descriptors = ({epoll, socket} \ {None}) \cup Range(held)
  <2>1. \A d \in DOMAIN descriptors : d \in ({epoll, socket} \ {None}) \cup Range(held)
    BY <1>1, <1>2 DEF OwnInv, NothingLeaks
  <2>2. \A d \in {epoll, socket} \ {None} : d \in DOMAIN descriptors
    BY DEF OwnInv, SinglesOwned
  <2>3. \A d \in Range(held) : d \in DOMAIN descriptors
    BY <1>2 DEF OwnInv, ListenersOwned
  <2> QED
    BY <2>1, <2>2, <2>3
<1>6. epoll # None => epoll # socket /\ descriptors[epoll].kind = "epoll"
  BY DEF OwnInv, SinglesOwned
<1> QED
  BY <1>3, <1>4, <1>5, <1>6 DEF DescriptorsOwned

\* At every place of every program, with any line and any number of endpoints
\* and descriptors, and after any failure: each open descriptor has exactly
\* one owner.
THEOREM DescriptorsProved == ProgramSpec => []DescriptorsOwned
<1> DEFINE Inv == PlaceInv /\ IsList /\ OwnInv
<1>1. ProgramInit => Inv
  <2> SUFFICES ASSUME ProgramInit PROVE Inv
    OBVIOUS
  <2>1. pc = "main" /\ descriptors = <<>> /\ NothingOpen
    BY DEF ProgramInit, SetupInit, SocketInit, NothingOpen
  <2>2. DOMAIN descriptors = {} /\ DOMAIN listeners = {}
        /\ socket = None /\ epoll = None
    BY <2>1 DEF NothingOpen
  <2>3. OwnInv
    BY <2>2 DEF OwnInv, SinglesOwned, ListenersOwned, OwnedOnce, NothingLeaks
  <2>4. IsList
    BY <2>1 DEF NothingOpen, IsList
  <2> QED
    BY <2>1, <2>3, <2>4 DEF PlaceInv, Empty, Local
<1>2. Inv /\ [ProgramNext]_programVars => Inv'
  BY PlaceStep, ListStep, OwnStep
<1>3. Inv => DescriptorsOwned
  BY OwnedMeans
<1> QED
  BY <1>1, <1>2, <1>3, PTL DEF ProgramSpec
-----------------------------------------------------------------------------
\* A server has both handlers before it opens anything, and reports success
\* from then on unless there is an exception.
HandlersInv ==
  /\ pc = "main" => handled = {}
  /\ pc = "install_handlers" => handled # Signals
  /\ pc \notin {"main", "install_handlers"} \cup After => handled = Signals
  /\ pc \notin {"send", "receive"}
  /\ handled # Signals => descriptors = << >> /\ NothingOpen
  /\ pc \in {"unwind", "left", "exited"} /\ thrown = "none" /\ handled = Signals
       => status = 0

SignalInv ==
  /\ program \in Servers => HandlersInv
  /\ pc = "killed" => descriptors = << >>

\* The end of main by a value or by an exception.
Fails == /\ pc' = "unwind" /\ thrown' # "none" /\ UNCHANGED <<handled, status>>

Answers(value) == pc' = "unwind" /\ status' = value /\ UNCHANGED <<handled, thrown>>

LEMMA ServerMain ==
  ASSUME program \in Servers, MainStep
  PROVE  /\ program' = program
         /\ \/ pc = "main" /\ \E value : Answers(value)
            \/ pc = "main" /\ pc' = "install_handlers" /\ UNCHANGED handled
            \/ pc = "install_handlers" /\ \E value : Answers(value)
            \/ /\ pc = "install_handlers" /\ pc' = "install_handlers"
               /\ handled' = {"SIGINT"}
            \/ pc = "install_handlers" /\ pc' = "construct" /\ handled' = Signals
            \/ /\ pc = "construct" /\ pc' \in {"create_epoll", "open"}
               /\ UNCHANGED handled
            \/ pc = "run" /\ Answers(0)
            \/ pc \in {"send", "receive"}
            \/ pc \notin After /\ Fails
            \/ /\ pc = "left" /\ pc' = "exited" /\ UNCHANGED <<handled, thrown>>
               /\ thrown = "none" => status' = status
<1>1. CASE ShowHelp
  BY <1>1 DEF ShowHelp, Return, Answers
<1>2. CASE ParseConfig
  BY <1>2 DEF ParseConfig, Return, Goto, Answers
<1>3. CASE ParseEndpoint
  BY <1>3 DEF ParseEndpoint
<1>4. CASE InstallHandler
  BY <1>4 DEF InstallHandler, Goto
<1>5. CASE InstallFails
  BY <1>5 DEF InstallFails, Return, Throws, Throw, Fails, Answers, OnlySetup,
              mainVars, After
<1>6. CASE Construct
  BY <1>6 DEF Construct, Throws, Throw, Goto, Fails, OnlySetup, mainVars, After
<1>7. CASE RunReturns
  BY <1>7 DEF RunReturns, Return, Answers
<1>8. CASE RunThrows
  BY <1>8 DEF RunThrows, Throws, Throw, Fails, OnlySetup, mainVars, After
<1>9. ASSUME NEW decoded, ReceiveOne(decoded)
      PROVE  pc = "receive" /\ program' = program
  BY <1>9 DEF ReceiveOne, Return
<1>10. CASE SendOne
  BY <1>10 DEF SendOne, Return, Throws, Throw, OnlySetup, mainVars
<1>11. CASE TransferFails
  BY <1>11 DEF TransferFails, Throws, Throw, OnlySetup, mainVars
<1>12. CASE Exit
  BY <1>12 DEF Exit, Goto
<1>13. CASE SetupFails /\ OnlySetup
  BY <1>13 DEF SetupFails, SocketCallFails, Throw, Fails, OnlySetup, mainVars, After
<1> QED
  BY <1>1, <1>2, <1>3, <1>4, <1>5, <1>6, <1>7, <1>8, <1>9, <1>10, <1>11, <1>12,
     <1>13
  DEF MainStep

\* The handlers of a server.
LEMMA SignalStep ==
  ASSUME PlaceInv, SignalInv, [ProgramNext]_programVars
  PROVE  SignalInv'
<1>1. CASE MainStep
  <2>1. Frame
    BY <1>1, MainDoes
  <2>2. pc' # "killed"
    BY <1>1, MainDoes
  <2>3. ASSUME program' \in Servers
        PROVE  HandlersInv'
    <3>1. program \in Servers
      <4>1. program' = program
        BY <1>1 DEF MainStep, ShowHelp, ParseConfig, ParseEndpoint, InstallHandler,
                    InstallFails, Construct, RunReturns, RunThrows, ReceiveOne, SendOne,
                    TransferFails, Exit, Return, Throws, Goto, OnlySetup, mainVars
      <4> QED
        BY <2>3, <4>1
    <3>2. HandlersInv
      BY <3>1 DEF SignalInv
    <3>3. CASE pc = "main" /\ \E value : Answers(value)
      BY <2>1, <3>2, <3>3 DEF HandlersInv, Answers, Frame, NothingOpen, After, Signals
    <3>4. CASE pc = "main" /\ pc' = "install_handlers" /\ UNCHANGED handled
      BY <2>1, <3>2, <3>4 DEF HandlersInv, Frame, NothingOpen, After, Signals
    <3>5. CASE pc = "install_handlers" /\ \E value : Answers(value)
      BY <2>1, <3>2, <3>5 DEF HandlersInv, Answers, Frame, NothingOpen, After
    <3>6. CASE /\ pc = "install_handlers" /\ pc' = "install_handlers"
               /\ handled' = {"SIGINT"}
      BY <2>1, <3>2, <3>6 DEF HandlersInv, Frame, NothingOpen, After, Signals
    <3>7. CASE pc = "install_handlers" /\ pc' = "construct" /\ handled' = Signals
      BY <2>1, <3>2, <3>7 DEF HandlersInv, Frame, NothingOpen, After
    <3>8. CASE /\ pc = "construct" /\ pc' \in {"create_epoll", "open"}
               /\ UNCHANGED handled
      BY <2>1, <3>2, <3>8 DEF HandlersInv, Frame, NothingOpen, After
    <3>9. CASE pc = "run" /\ Answers(0)
      BY <2>1, <3>2, <3>9 DEF HandlersInv, Answers, Frame, NothingOpen, After
    <3>10. CASE pc \notin After /\ Fails
      BY <2>1, <3>2, <3>10 DEF HandlersInv, Fails, Frame, NothingOpen, After
    <3>11. CASE /\ pc = "left" /\ pc' = "exited" /\ UNCHANGED <<handled, thrown>>
                /\ thrown = "none" => status' = status
      BY <2>1, <3>2, <3>11 DEF HandlersInv, Frame, NothingOpen, After
    <3>12. pc \notin {"send", "receive"}
      BY <3>2 DEF HandlersInv
    <3> QED
      BY <1>1, <3>1, <3>3, <3>4, <3>5, <3>6, <3>7, <3>8, <3>9, <3>10, <3>11, <3>12,
         ServerMain
  <2> QED
    BY <2>2, <2>3 DEF SignalInv
<1>2. CASE OnlySetup /\ (Moves \/ OpensEpoll \/ OpensSocket \/ Changes \/ PushBack)
  <2>1. /\ pc \notin Empty \cup After \/ pc = "create_epoll"
        /\ pc' \notin Empty \/ pc' = "unwind"
        /\ pc' = "unwind" => thrown' # "none"
        /\ pc' \in {"send", "receive"} => program \notin Servers
    BY <1>2 DEF Moves, OpensEpoll, OpensSocket, Changes, PushBack, Empty, After
  <2>2. UNCHANGED <<program, handled, status>>
    BY <1>2 DEF OnlySetup, mainVars
  <2> QED
    BY <2>1, <2>2 DEF SignalInv, HandlersInv, Empty, After
<1>3. CASE Closes /\ OnlySetup
  BY <1>3 DEF Closes, ClosesSocket, ClosesListener, ClosesEpoll, Leaves, Frame,
              OnlySetup, mainVars, SignalInv, HandlersInv, NothingOpen, After
<1>4. CASE Dies /\ OnlySetup
  BY <1>4 DEF Dies, OnlySetup, mainVars, SignalInv, HandlersInv, NothingOpen, After
<1>5. CASE UNCHANGED <<setupVars, program, line, config, handled, status>>
  BY <1>5 DEF setupVars, SignalInv, HandlersInv, NothingOpen
<1> QED
  BY <1>1, <1>2, <1>3, <1>4, <1>5, StepDoes

\* A step of a server after which it is killed or has exited.
LEMMA GracefulSteps ==
  ASSUME SignalInv, program \in Servers, [ProgramNext]_programVars
  PROVE  GracefulStep
<1>0. HandlersInv
  BY DEF SignalInv
<1>1. CASE MainStep
  <2>1. pc' # "killed"
    BY <1>1, MainDoes
  <2>2. pc' = "exited" =>
          pc = "left" /\ UNCHANGED <<handled, thrown>> /\ (thrown = "none" => status' = status)
    BY <1>0, <1>1, ServerMain DEF HandlersInv, Answers, Fails
  <2> QED
    BY <1>0, <2>1, <2>2 DEF GracefulStep, HandlersInv
<1>2. CASE OnlySetup /\ (Moves \/ OpensEpoll \/ OpensSocket \/ Changes \/ PushBack)
  <2>1. pc' \notin {"killed", "exited"}
    BY <1>2 DEF Moves, OpensEpoll, OpensSocket, Changes, PushBack
  <2> QED
    BY <2>1 DEF GracefulStep
<1>3. CASE Closes /\ OnlySetup
  <2>1. pc' \notin {"killed", "exited"}
    BY <1>3 DEF Closes, ClosesSocket, ClosesListener, ClosesEpoll, Leaves
  <2> QED
    BY <2>1 DEF GracefulStep
<1>4. CASE Dies /\ \E s \in Signals : s \notin handled
  <2>1. pc' = "killed" /\ handled # Signals
    BY <1>4 DEF Dies
  <2> QED
    BY <1>0, <2>1 DEF GracefulStep, HandlersInv
<1>5. CASE UNCHANGED <<setupVars, program, line, config, handled, status>>
  <2>1. pc' = pc /\ status' = status
    BY <1>5 DEF setupVars
  <2> QED
    BY <1>0, <2>1 DEF GracefulStep, HandlersInv, SignalInv
<1> QED
  BY <1>1, <1>2, <1>3, <1>4, <1>5, StepDoes

\* Whatever the command line, and whenever a signal comes: it kills no server
\* that has opened a descriptor, and one that is stopped in good order says so.
THEOREM SignalsProved == ProgramSpec => SignalsAreGraceful
<1> DEFINE Inv == PlaceInv /\ IsList /\ SignalInv
           Graceful == (program \in Servers) => GracefulStep
<1>1. ProgramInit => Inv
  BY DEF ProgramInit, SetupInit, SocketInit, NothingOpen, PlaceInv, Empty, Local,
         IsList, SignalInv, HandlersInv, After, Signals
<1>2. Inv /\ [ProgramNext]_programVars => Inv'
  BY PlaceStep, ListStep, SignalStep
<1>3. Inv /\ [ProgramNext]_programVars => [Graceful]_programVars
  BY GracefulSteps
<1> QED
  BY <1>1, <1>2, <1>3, PTL DEF ProgramSpec, SignalsAreGraceful
-----------------------------------------------------------------------------
\* A round of a parser's loop, and of one that collects the values of an option.
Round(loop, option, state, pair) ==
  IF loop = "runtime" THEN ParseRuntimeOption(state, pair)
  ELSE IF loop = "simulator" THEN ParseSimulatorOption(state, pair)
  ELSE IF pair.option = option THEN Append(state, pair.value) ELSE state

\* The greatest element of an initial segment, alone or in a subset.
LEMMA GreatestOf ==
  ASSUME NEW n \in Nat, NEW s \in SUBSET (1..(n + 1)), n + 1 \in s
  PROVE  Max(s) = n + 1
<1>1. \A y \in s : n + 1 >= y
  OBVIOUS
<1>2. \A x \in s : (\A y \in s : x >= y) => x = n + 1
  OBVIOUS
<1>3. Max(s) \in s /\ \A y \in s : Max(s) >= y
  BY <1>1 DEF Max
<1> QED
  BY <1>2, <1>3

\* What the loop computes after each of its rounds.
Rounds(loop, option, start, q, f, n) ==
  f = [s \in SUBSET (1..n) |->
         IF s = {} THEN start
         ELSE Round(loop, option, f[s \ {Max(s)}], q[Max(s)])]

\* The fold that stands for the loop is well defined.
LEMMA RoundsExist ==
  ASSUME NEW loop, NEW option, NEW start, NEW q, NEW N \in Nat
  PROVE  \E f : Rounds(loop, option, start, q, f, N)
<1> DEFINE Bad == {n \in Nat : ~ \E f : Rounds(loop, option, start, q, f, n)}
<1>1. \E f : Rounds(loop, option, start, q, f, 0)
  <2>1. PICK f : f = [s \in SUBSET (1..0) |-> start]
    OBVIOUS
  <2>2. SUBSET (1..0) = {{}}
    OBVIOUS
  <2>3. Rounds(loop, option, start, q, f, 0)
    BY <2>1, <2>2 DEF Rounds
  <2> QED
    BY <2>3
<1>2. ASSUME NEW n \in Nat, NEW f, Rounds(loop, option, start, q, f, n)
      PROVE  \E g : Rounds(loop, option, start, q, g, n + 1)
  <2> DEFINE Next(s) == IF n + 1 \in s
                        THEN Round(loop, option, f[s \ {n + 1}], q[n + 1])
                        ELSE f[s]
  <2>1. PICK g : g = [s \in SUBSET (1..(n + 1)) |-> Next(s)]
    OBVIOUS
  <2>2. \A s \in SUBSET (1..n) : s \in SUBSET (1..(n + 1)) /\ n + 1 \notin s
    OBVIOUS
  <2>3. \A s \in SUBSET (1..n) : g[s] = f[s]
    BY <2>1, <2>2
  <2>4. ASSUME NEW s \in SUBSET (1..(n + 1))
        PROVE  Next(s) = IF s = {} THEN start
                         ELSE Round(loop, option, g[s \ {Max(s)}], q[Max(s)])
    <3>1. CASE n + 1 \in s
      <4>1. Max(s) = n + 1
        BY <3>1, GreatestOf
      <4>2. s \ {n + 1} \in SUBSET (1..n)
        OBVIOUS
      <4>3. g[s \ {n + 1}] = f[s \ {n + 1}]
        BY <2>3, <4>2
      <4> QED
        BY <3>1, <4>1, <4>3
    <3>2. CASE n + 1 \notin s
      <4>1. s \in SUBSET (1..n)
        BY <3>2
      <4>2. f[s] = IF s = {} THEN start
                   ELSE Round(loop, option, f[s \ {Max(s)}], q[Max(s)])
        BY <1>2, <4>1 DEF Rounds
      <4>3. s \ {Max(s)} \in SUBSET (1..n)
        BY <4>1
      <4>4. g[s \ {Max(s)}] = f[s \ {Max(s)}]
        BY <2>3, <4>3
      <4> QED
        BY <3>2, <4>2, <4>4
    <3> QED
      BY <3>1, <3>2
  <2> HIDE DEF Next
  <2>5. Rounds(loop, option, start, q, g, n + 1)
    BY <2>1, <2>4 DEF Rounds
  <2> QED
    BY <2>5
<1>3. Bad = {}
  <2> SUFFICES ASSUME Bad # {} PROVE FALSE
    OBVIOUS
  <2>1. PICK n \in Bad : \A m \in Bad : n <= m
    BY Least
  <2>2. n \in Nat /\ n # 0
    BY <1>1
  <2>3. n - 1 \in Nat /\ n - 1 \notin Bad
    BY <2>1, <2>2
  <2>4. PICK m \in Nat : m = n - 1 /\ n = m + 1
    BY <2>2
  <2>5. PICK f : Rounds(loop, option, start, q, f, m)
    BY <2>3, <2>4
  <2> QED
    BY <1>2, <2>4, <2>5
<1> QED
  BY <1>3

\* A round works on what the round before has left.
LEMMA RoundIs ==
  ASSUME NEW loop, NEW option, NEW start, NEW q, NEW N \in Nat, NEW f,
         Rounds(loop, option, start, q, f, N)
  PROVE  /\ f[1..0] = start
         /\ \A n \in Nat : n < N =>
              f[1..(n + 1)] = Round(loop, option, f[1..n], q[n + 1])
<1>1. f[1..0] = start
  <2>1. 1..0 \in SUBSET (1..N) /\ 1..0 = {}
    OBVIOUS
  <2> QED
    BY <2>1 DEF Rounds
<1>2. ASSUME NEW n \in Nat, n < N
      PROVE  f[1..(n + 1)] = Round(loop, option, f[1..n], q[n + 1])
  <2>1. PICK s : s = 1..(n + 1)
    OBVIOUS
  <2>2. s \in SUBSET (1..N) /\ n + 1 \in s
    <3>1. \A i \in 1..(n + 1) : i \in 1..N
      BY <1>2
    <3>2. n + 1 \in 1..(n + 1)
      OBVIOUS
    <3> QED
      BY <2>1, <3>1, <3>2
  <2>3. Max(s) = n + 1
    BY <2>1, <2>2, GreatestOf
  <2>4. s \ {n + 1} = 1..n
    BY <2>1
  <2> QED
    BY <2>1, <2>2, <2>3, <2>4 DEF Rounds
<1> QED
  BY <1>1, <1>2

\* What a loop over the line q has after n rounds.
LoopAt(loop, option, start, q, n) ==
  (CHOOSE f : Rounds(loop, option, start, q, f, Len(q)))[1..n]

LoopRuns(loop, option, start, q) ==
  /\ LoopAt(loop, option, start, q, 0) = start
  /\ \A n \in Nat : n < Len(q) =>
       LoopAt(loop, option, start, q, n + 1) =
         Round(loop, option, LoopAt(loop, option, start, q, n), q[n + 1])

LEMMA LoopAtIs ==
  ASSUME NEW loop, NEW option, NEW start, NEW q, q \in Seq(Range(q))
  PROVE  LoopRuns(loop, option, start, q)
<1> DEFINE Is(f) == Rounds(loop, option, start, q, f, Len(q))
<1>1. \E f : Is(f)
  <2>1. PICK N \in Nat : N = Len(q)
    BY LenProperties
  <2> QED
    BY <2>1, RoundsExist
<1>2. PICK f : f = CHOOSE g : Is(g)
  OBVIOUS
<1> HIDE DEF Is
<1>3. Is(f)
  BY <1>1, <1>2
<1> USE DEF Is
<1>4. \A n : LoopAt(loop, option, start, q, n) = f[1..n]
  BY <1>2 DEF LoopAt
<1>5. Rounds(loop, option, start, q, f, Len(q)) /\ Len(q) \in Nat
  BY <1>3
<1> HIDE DEF Is
<1>6. /\ f[1..0] = start
      /\ \A n \in Nat : n < Len(q) =>
           f[1..(n + 1)] = Round(loop, option, f[1..n], q[n + 1])
  BY <1>5, RoundIs
<1> QED
  BY <1>4, <1>6 DEF LoopRuns

\* The loop of the runtime's parser, that of the simulator's, and the one over
\* the values of an option.
LEMMA RuntimeFold ==
  ASSUME NEW q, q \in Seq(Range(q)), NEW start
  PROVE  FoldLeft(ParseRuntimeOption, start, q) =
           LoopAt("runtime", "", start, q, Len(q))
<1> DEFINE Is(f) == f = [s \in SUBSET DOMAIN q |->
                           IF s = {} THEN start
                           ELSE ParseRuntimeOption(f[s \ {Max(s)}], q[Max(s)])]
<1>1. FoldLeft(ParseRuntimeOption, start, q) = (CHOOSE f : Is(f))[DOMAIN q]
  BY DEF FoldLeft, MapThenFoldSet
<1>2. DOMAIN q = 1..Len(q) /\ Len(q) \in Nat
  BY LenProperties
<1>3. \A f : Is(f) <=> Rounds("runtime", "", start, q, f, Len(q))
  BY <1>2 DEF Rounds, Round
<1> HIDE DEF Is
<1>4. (CHOOSE f : Is(f)) = (CHOOSE f : Rounds("runtime", "", start, q, f, Len(q)))
  BY <1>3
<1> QED
  BY <1>1, <1>2, <1>4 DEF LoopAt

LEMMA SimulatorFold ==
  ASSUME NEW q, q \in Seq(Range(q)), NEW start
  PROVE  FoldLeft(ParseSimulatorOption, start, q) =
           LoopAt("simulator", "", start, q, Len(q))
<1> DEFINE Is(f) == f = [s \in SUBSET DOMAIN q |->
                           IF s = {} THEN start
                           ELSE ParseSimulatorOption(f[s \ {Max(s)}], q[Max(s)])]
<1>1. FoldLeft(ParseSimulatorOption, start, q) = (CHOOSE f : Is(f))[DOMAIN q]
  BY DEF FoldLeft, MapThenFoldSet
<1>2. DOMAIN q = 1..Len(q) /\ Len(q) \in Nat
  BY LenProperties
<1>3. \A f : Is(f) <=> Rounds("simulator", "", start, q, f, Len(q))
  BY <1>2 DEF Rounds, Round
<1> HIDE DEF Is
<1>4. (CHOOSE f : Is(f)) = (CHOOSE f : Rounds("simulator", "", start, q, f, Len(q)))
  BY <1>3
<1> QED
  BY <1>1, <1>2, <1>4 DEF LoopAt

LEMMA GivenFold ==
  ASSUME NEW words, words.pairs \in Seq(Range(words.pairs)), NEW option
  PROVE  Given(words, option) =
           LoopAt("given", option, <<>>, words.pairs, Len(words.pairs))
<1> DEFINE q == words.pairs
           Is(f) == f = [s \in SUBSET DOMAIN q |->
                           IF s = {} THEN <<>>
                           ELSE IF q[Max(s)].option = option
                                THEN Append(f[s \ {Max(s)}], q[Max(s)].value)
                                ELSE f[s \ {Max(s)}]]
<1>1. Given(words, option) = (CHOOSE f : Is(f))[DOMAIN q]
  BY DEF Given, FoldLeft, MapThenFoldSet
<1>2. DOMAIN q = 1..Len(q) /\ Len(q) \in Nat
  BY LenProperties
<1>3. \A f : Is(f) <=> Rounds("given", option, <<>>, q, f, Len(q))
  BY <1>2 DEF Rounds, Round
<1> HIDE DEF Is
<1>4. (CHOOSE f : Is(f)) = (CHOOSE f : Rounds("given", option, <<>>, q, f, Len(q)))
  BY <1>3
<1> QED
  BY <1>1, <1>2, <1>4 DEF LoopAt

\* The rounds of each of the three loops.
RuntimeAt(start, q, n) == LoopAt("runtime", "", start, q, n)
SimulatorAt(start, q, n) == LoopAt("simulator", "", start, q, n)
GivenAt(option, q, n) == LoopAt("given", option, <<>>, q, n)

RuntimeRuns(start, q) ==
  /\ RuntimeAt(start, q, 0) = start
  /\ \A n \in Nat : n < Len(q) =>
       RuntimeAt(start, q, n + 1) = ParseRuntimeOption(RuntimeAt(start, q, n), q[n + 1])

LEMMA RuntimeAtIs ==
  ASSUME NEW start, NEW q, q \in Seq(Range(q))
  PROVE  RuntimeRuns(start, q)
<1>1. \A state, pair : Round("runtime", "", state, pair) = ParseRuntimeOption(state, pair)
  BY DEF Round
<1>2. LoopRuns("runtime", "", start, q)
  BY LoopAtIs
<1> QED
  BY <1>1, <1>2 DEF RuntimeAt, RuntimeRuns, LoopRuns

SimulatorRuns(start, q) ==
  /\ SimulatorAt(start, q, 0) = start
  /\ \A n \in Nat : n < Len(q) =>
       SimulatorAt(start, q, n + 1) = ParseSimulatorOption(SimulatorAt(start, q, n), q[n + 1])

LEMMA SimulatorAtIs ==
  ASSUME NEW start, NEW q, q \in Seq(Range(q))
  PROVE  SimulatorRuns(start, q)
<1>1. \A state, pair :
        Round("simulator", "", state, pair) = ParseSimulatorOption(state, pair)
  BY DEF Round
<1>2. LoopRuns("simulator", "", start, q)
  BY LoopAtIs
<1> QED
  BY <1>1, <1>2 DEF SimulatorAt, SimulatorRuns, LoopRuns

GivenRuns(option, q) ==
  /\ GivenAt(option, q, 0) = <<>>
  /\ \A n \in Nat : n < Len(q) =>
       GivenAt(option, q, n + 1) =
         IF q[n + 1].option = option
         THEN Append(GivenAt(option, q, n), q[n + 1].value)
         ELSE GivenAt(option, q, n)

LEMMA GivenAtIs ==
  ASSUME NEW option, NEW q, q \in Seq(Range(q))
  PROVE  GivenRuns(option, q)
<1>1. \A state, pair :
        Round("given", option, state, pair) =
          IF pair.option = option THEN Append(state, pair.value) ELSE state
  BY DEF Round
<1>2. LoopRuns("given", option, <<>>, q)
  BY LoopAtIs
<1> QED
  BY <1>1, <1>2 DEF GivenAt, GivenRuns, LoopRuns
-----------------------------------------------------------------------------
\* What the parser of the runtime has after n rounds.
Counts == {"max_drain", "max_sources", "healthy_after_packets", "worker_count",
           "queue_capacity"}

RuntimeFields == Counts \cup Durations
                 \cup {"listen_endpoints", "packet_count", "poll_timeout"}

Endpoints == [address : Addresses, port : 1..PortMax]

IsRuntimeConfig(c) ==
  /\ DOMAIN c = RuntimeFields
  /\ c.listen_endpoints \in Seq(Endpoints)
  /\ \A field \in Counts \cup Durations : c[field] \in Nat \ {0}
  /\ c.packet_count = Absent \/ c.packet_count \in Nat \ {0}
  /\ c.poll_timeout \in 1..IntMax

RuntimeState(state, n) ==
  /\ DOMAIN state = {"config", "explicit_listener", "seen", "failed"}
  /\ IsRuntimeConfig(state.config)
  /\ Len(state.config.listen_endpoints) >= 1
  /\ \/ Len(state.config.listen_endpoints) = 1
     \/ Len(state.config.listen_endpoints) <= n
  /\ state.explicit_listener => n >= 1

\* A number below the modulus is its own remainder.
LEMMA OwnRemainder ==
  ASSUME NEW a \in Nat, NEW b \in Nat, a < b
  PROVE  a % b = a
  OBVIOUS

\* A conversion keeps a number that its type can hold.
LEMMA NotWrapped ==
  ASSUME NEW n \in Nat, NEW max \in Nat, n <= max
  PROVE  Wrapped(n, max) = n
<1>1. PICK a \in Nat : a = n + max + 1
  OBVIOUS
<1>2. PICK b \in Nat : b = 2 * (max + 1)
  OBVIOUS
<1>3. a % b = a
  BY <1>1, <1>2, OwnRemainder
<1>4. a - (max + 1) = n
  BY <1>1
<1> QED
  BY <1>1, <1>2, <1>3, <1>4 DEF Wrapped

\* A product with at most the quotient is at most the dividend.
LEMMA QuotientBound ==
  ASSUME NEW a \in Nat, NEW k \in Nat \ {0}, NEW n \in Nat, n <= a \div k
  PROVE  n * k <= a
<1>1. PICK d \in Nat : d = a \div k
  OBVIOUS
<1>2. d * k <= a
  BY <1>1
<1>3. n * k <= d * k
  BY <1>1
<1> QED
  BY <1>2, <1>3

\* The check before the conversion is the right one for every field.
LEMMA ConvertedIs ==
  ASSUME NEW field, NEW n \in Nat \ {0}, n <= LargestAccepted(field)
  PROVE  /\ Converted(field, n) \in Nat \ {0}
         /\ field = "poll_timeout" => Converted(field, n) \in 1..IntMax
<1>1. CASE field = "poll_timeout"
  BY <1>1, NotWrapped, RuntimeConfigAssumption DEF Converted, LargestAccepted
<1>2. CASE field \in Durations
  <2>1. PICK k \in Nat \ {0} : k = NanosecondsPerMillisecond
    BY RuntimeConfigAssumption
  <2>2. n <= RepMax \div k /\ RepMax \in Nat /\ field # "poll_timeout"
    BY <1>2, <2>1, RuntimeConfigAssumption DEF LargestAccepted, Durations
  <2>3. PICK p : p = n * k
    OBVIOUS
  <2>4. p \in Nat \ {0} /\ p <= RepMax
    BY <2>2, <2>3, QuotientBound
  <2>5. Wrapped(p, RepMax) = p
    BY <2>2, <2>4, NotWrapped
  <2>6. Converted(field, n) = Wrapped(p, RepMax)
    BY <1>2, <2>1, <2>2, <2>3 DEF Converted, Milliseconds
  <2> QED
    BY <2>2, <2>4, <2>5, <2>6
<1>3. CASE field \notin Durations /\ field # "poll_timeout"
  BY <1>3 DEF Converted
<1> QED
  BY <1>1, <1>2, <1>3

\* The option of a number names its field.
LEMMA FieldIs ==
  ASSUME NEW option \in DOMAIN Field
  PROVE  Field[option] \in (Counts \cup Durations \cup {"packet_count", "poll_timeout"})
  BY DEF Field, Counts, Durations

\* A number in the field of its option.
LEMMA NumberAssigned ==
  ASSUME NEW c, IsRuntimeConfig(c),
         NEW field \in Counts \cup Durations \cup {"packet_count", "poll_timeout"},
         NEW value \in Nat \ {0}, field = "poll_timeout" => value \in 1..IntMax
  PROVE  LET d == [c EXCEPT ![field] = value] IN
         IsRuntimeConfig(d) /\ d.listen_endpoints = c.listen_endpoints
<1>1. PICK d : d = [c EXCEPT ![field] = value]
  OBVIOUS
<1>2. DOMAIN d = RuntimeFields /\ field \in RuntimeFields
  BY <1>1 DEF IsRuntimeConfig, RuntimeFields
<1>3. d[field] = value /\ \A other \in RuntimeFields : other # field => d[other] = c[other]
  BY <1>1, <1>2 DEF IsRuntimeConfig
<1>4. field # "listen_endpoints" /\ "listen_endpoints" \in RuntimeFields
  BY DEF RuntimeFields, Counts, Durations
<1>5. d["listen_endpoints"] = c["listen_endpoints"]
  BY <1>3, <1>4
<1>6. \A other \in Counts \cup Durations : d[other] \in Nat \ {0}
  BY <1>3 DEF IsRuntimeConfig, RuntimeFields
<1>7. d["packet_count"] = Absent \/ d["packet_count"] \in Nat \ {0}
  BY <1>3 DEF IsRuntimeConfig, RuntimeFields
<1>8. d["poll_timeout"] \in 1..IntMax
  BY <1>3 DEF IsRuntimeConfig, RuntimeFields
<1> QED
  BY <1>1, <1>2, <1>5, <1>6, <1>7, <1>8 DEF IsRuntimeConfig

\* The endpoint of a --listen.
LEMMA ListenerAssigned ==
  ASSUME NEW c, IsRuntimeConfig(c), NEW list \in Seq(Endpoints)
  PROVE  LET d == [c EXCEPT !.listen_endpoints = list] IN
         IsRuntimeConfig(d) /\ d.listen_endpoints = list
<1>1. PICK d : d = [c EXCEPT !.listen_endpoints = list]
  OBVIOUS
<1>2. /\ DOMAIN d = RuntimeFields /\ d["listen_endpoints"] = list
      /\ \A other \in RuntimeFields : other # "listen_endpoints" => d[other] = c[other]
  BY <1>1 DEF IsRuntimeConfig, RuntimeFields
<1>3. \A other \in Counts \cup Durations \cup {"packet_count", "poll_timeout"} :
        d[other] = c[other]
  BY <1>2 DEF RuntimeFields, Counts, Durations
<1> QED
  BY <1>1, <1>2, <1>3 DEF IsRuntimeConfig

LEMMA RuntimeRound ==
  ASSUME NEW state, NEW n \in Nat, RuntimeState(state, n), NEW pair
  PROVE  RuntimeState(ParseRuntimeOption(state, pair), n + 1)
<1> DEFINE Fields == {"config", "explicit_listener", "seen", "failed"}
           text == pair.value
<1>0. PICK list : list = state.config.listen_endpoints
  OBVIOUS
<1>1. /\ list \in Seq(Endpoints) /\ Len(list) \in Nat /\ Len(list) >= 1
      /\ Len(list) = 1 \/ Len(list) <= n
  BY <1>0 DEF RuntimeState, IsRuntimeConfig
<1>2. CASE state.failed
  BY <1>0, <1>1, <1>2 DEF ParseRuntimeOption, RuntimeState
<1>3. ASSUME NEW next, next = [state EXCEPT !.failed = TRUE]
      PROVE  RuntimeState(next, n + 1)
  <2>1. /\ DOMAIN next = Fields /\ next.config = state.config
        /\ next.explicit_listener = state.explicit_listener
    BY <1>3 DEF RuntimeState
  <2> QED
    BY <1>0, <1>1, <2>1 DEF RuntimeState
<1>4. CASE pair.option = "--listen" /\ IsEndpoint(text) /\ ~state.failed
  <2>1. PICK e : e = Endpoint(text.word, text.number)
    OBVIOUS
  <2>2. e \in Endpoints
    BY <1>4, <2>1 DEF IsEndpoint, Endpoint, Endpoints
  <2>3. PICK longer : longer = ListenersWith(state, e)
    OBVIOUS
  <2>4. /\ longer \in Seq(Endpoints) /\ Len(longer) >= 1
        /\ Len(longer) = 1 \/ (n >= 1 /\ Len(longer) = Len(list) + 1)
    <3>1. CASE state.explicit_listener
      BY <1>0, <1>1, <2>2, <2>3, <3>1, AppendProperties DEF ListenersWith, RuntimeState
    <3>2. CASE ~state.explicit_listener
      BY <2>2, <2>3, <3>2 DEF ListenersWith
    <3> QED
      BY <3>1, <3>2
  <2>5. PICK c : c = [state.config EXCEPT !.listen_endpoints = longer]
    OBVIOUS
  <2>6. IsRuntimeConfig(c) /\ c.listen_endpoints = longer
    BY <2>4, <2>5, ListenerAssigned DEF RuntimeState
  <2>7. PICK next : next = [state EXCEPT !.config = c, !.explicit_listener = TRUE]
    OBVIOUS
  <2>8. ParseRuntimeOption(state, pair) = next
    BY <1>4, <2>1, <2>3, <2>5, <2>7 DEF ParseRuntimeOption, RuntimeState
  <2>9. /\ DOMAIN next = Fields /\ next.config = c
    BY <2>7 DEF RuntimeState
  <2>10. Len(longer) = 1 \/ Len(longer) <= n + 1
    <3>1. PICK l \in Nat : l = Len(list)
      BY <1>1
    <3>2. n >= 1 => l + 1 <= n + 1
      BY <1>1, <3>1
    <3> QED
      BY <2>4, <3>1, <3>2
  <2> QED
    BY <2>4, <2>6, <2>8, <2>9, <2>10 DEF RuntimeState
<1>5. CASE /\ pair.option # "--listen" /\ ~state.failed
           /\ pair.option \notin state.seen /\ IsPositive(text)
           /\ pair.option \in DOMAIN Field
           /\ ~(text.number > LargestAccepted(Field[pair.option]))
  <2>1. PICK field : field = Field[pair.option]
    OBVIOUS
  <2>2. field \in Counts \cup Durations \cup {"packet_count", "poll_timeout"}
    BY <1>5, <2>1, FieldIs
  <2>3. PICK value : value = Converted(field, text.number)
    OBVIOUS
  <2>4. text.number \in Nat \ {0} /\ text.number <= LargestAccepted(field)
    <3>1. text.number \in Nat \ {0}
      <4>1. IsPositive(text)
        BY <1>5
      <4>2. text.number \in 0..NumberMax /\ text.number # 0
        BY <4>1 DEF IsPositive, IsUnsigned
      <4> QED
        BY <4>2, CommandLineAssumption
    <3>2. LargestAccepted(field) \in Int
      BY CommandLineAssumption, RuntimeConfigAssumption DEF LargestAccepted
    <3> QED
      BY <1>5, <2>1, <3>1, <3>2
  <2>5. value \in Nat \ {0} /\ (field = "poll_timeout" => value \in 1..IntMax)
    BY <2>3, <2>4, ConvertedIs
  <2>6. PICK c : c = [state.config EXCEPT ![field] = value]
    OBVIOUS
  <2>7. IsRuntimeConfig(c) /\ c.listen_endpoints = list
    BY <1>0, <2>2, <2>5, <2>6, NumberAssigned DEF RuntimeState
  <2>8. PICK next : next = [state EXCEPT !.config = c,
                                         !.seen = @ \cup {pair.option}]
    OBVIOUS
  <2>9. ParseRuntimeOption(state, pair) = next
    BY <1>5, <2>1, <2>3, <2>6, <2>8 DEF ParseRuntimeOption, RuntimeState
  <2>10. /\ DOMAIN next = Fields /\ next.config = c
         /\ next.explicit_listener = state.explicit_listener
    BY <2>8 DEF RuntimeState
  <2> QED
    BY <1>0, <1>1, <2>7, <2>9, <2>10 DEF RuntimeState
<1>6. CASE /\ ~state.failed
           /\ \/ pair.option = "--listen" /\ ~IsEndpoint(text)
              \/ /\ pair.option # "--listen"
                 /\ \/ pair.option \in state.seen \/ ~IsPositive(text)
                    \/ pair.option \notin DOMAIN Field
                    \/ text.number > LargestAccepted(Field[pair.option])
  <2>1. ParseRuntimeOption(state, pair) = [state EXCEPT !.failed = TRUE]
    BY <1>6 DEF ParseRuntimeOption
  <2> QED
    BY <1>3, <2>1
<1> QED
  BY <1>2, <1>4, <1>5, <1>6

LEMMA RuntimeStart ==
  RuntimeState([config |-> RuntimeDefaults, explicit_listener |-> FALSE,
                seen |-> {}, failed |-> FALSE], 0)
<1>1. PICK k \in Nat \ {0} : k = NanosecondsPerMillisecond
  BY RuntimeConfigAssumption
<1>2. PICK c : c = RuntimeDefaults
  OBVIOUS
<1>3. PICK first : first = <<Endpoint("0.0.0.0", 1)>>
  OBVIOUS
<1>4. first \in Seq(Endpoints) /\ Len(first) = 1
  BY <1>3, CommandLineAssumption DEF Endpoint, Endpoints
<1>5. DOMAIN c = RuntimeFields
  BY <1>2 DEF RuntimeDefaults, RuntimeFields, Counts, Durations
<1>6. /\ c.listen_endpoints = first
      /\ c.max_drain = 2 /\ c.worker_count = 2 /\ c.queue_capacity = 2
      /\ c.max_sources = 2 /\ c.healthy_after_packets = 2
      /\ c.degraded_after = 1 * k /\ c.offline_after = 4 * k /\ c.recovery_after = 2 * k
      /\ c.packet_count = Absent /\ c.poll_timeout = 1
  BY <1>1, <1>2, <1>3 DEF RuntimeDefaults, Milliseconds
<1>7. 1 * k \in Nat \ {0} /\ 4 * k \in Nat \ {0} /\ 2 * k \in Nat \ {0}
  OBVIOUS
<1>8. \A field \in Counts \cup Durations : c[field] \in Nat \ {0}
  BY <1>6, <1>7 DEF Counts, Durations
<1>9. IsRuntimeConfig(c)
  BY <1>4, <1>5, <1>6, <1>8, RuntimeConfigAssumption DEF IsRuntimeConfig
<1>10. PICK start : start = [config |-> c, explicit_listener |-> FALSE,
                             seen |-> {}, failed |-> FALSE]
  OBVIOUS
<1>11. /\ DOMAIN start = {"config", "explicit_listener", "seen", "failed"}
       /\ start.config = c /\ ~start.explicit_listener
  BY <1>10
<1>12. RuntimeState(start, 0)
  <2>1. Len(start.config.listen_endpoints) = 1
    BY <1>4, <1>6, <1>11
  <2>2. Len(start.config.listen_endpoints) >= 1
    BY <2>1
  <2> QED
    BY <1>9, <1>11, <2>1, <2>2 DEF RuntimeState
<1> QED
  BY <1>2, <1>10, <1>12

\* Each round keeps the form of what is parsed, so the whole loop does.
LEMMA RuntimeLoop ==
  ASSUME NEW q, q \in Seq(Range(q)), NEW start, RuntimeState(start, 0)
  PROVE  RuntimeState(FoldLeft(ParseRuntimeOption, start, q), Len(q))
<1>1. PICK N \in Nat : N = Len(q)
  OBVIOUS
<1> DEFINE at(n) == RuntimeAt(start, q, n)
<1>2. FoldLeft(ParseRuntimeOption, start, q) = at(N)
  BY <1>1, RuntimeFold DEF RuntimeAt
<1>3. /\ at(0) = start
      /\ \A n \in Nat : n < N => at(n + 1) = ParseRuntimeOption(at(n), q[n + 1])
  <2>1. RuntimeRuns(start, q)
    BY RuntimeAtIs
  <2> QED
    BY <1>1, <2>1 DEF RuntimeRuns
<1> HIDE DEF at
<1> DEFINE Bad == {n \in Nat : n <= N /\ ~RuntimeState(at(n), n)}
<1>4. Bad = {}
  <2> SUFFICES ASSUME Bad # {} PROVE FALSE
    OBVIOUS
  <2>1. PICK n \in Bad : \A m \in Bad : n <= m
    BY Least
  <2>2. n # 0
    BY <1>3
  <2>3. PICK m \in Nat : m = n - 1 /\ n = m + 1 /\ m < N
    BY <2>2
  <2>4. RuntimeState(at(m), m)
    BY <2>1, <2>3
  <2>5. at(m + 1) = ParseRuntimeOption(at(m), q[m + 1])
    BY <1>3, <2>3
  <2>6. RuntimeState(at(m + 1), m + 1)
    BY <2>4, <2>5, RuntimeRound
  <2> QED
    BY <2>3, <2>6
<1>5. RuntimeState(at(N), N)
  BY <1>4
<1> QED
  BY <1>1, <1>2, <1>5

\* What the runtime's parser lets pass.
AcceptedRuntime(c) ==
  /\ IsRuntimeConfig(c)
  /\ Len(c.listen_endpoints) \in 1..IntMax
  /\ c.offline_after > c.degraded_after

LEMMA RuntimeParsed ==
  ASSUME NEW words, words.pairs \in Seq(Range(words.pairs)), Len(words.pairs) <= IntMax,
         ParseRuntimeConfig(words).ok
  PROVE  AcceptedRuntime(ParseRuntimeConfig(words).config)
<1>1. PICK start : start = [config |-> RuntimeDefaults, explicit_listener |-> FALSE,
                            seen |-> {}, failed |-> FALSE]
  OBVIOUS
<1>2. PICK end : end = FoldLeft(ParseRuntimeOption, start, words.pairs)
  OBVIOUS
<1>3. RuntimeState(end, Len(words.pairs))
  BY <1>1, <1>2, RuntimeStart, RuntimeLoop
<1>4. /\ ParseRuntimeConfig(words).config = end.config
      /\ end.config.offline_after > end.config.degraded_after
  BY <1>1, <1>2 DEF ParseRuntimeConfig
<1>5. PICK list \in Seq(Endpoints) : list = end.config.listen_endpoints
  BY <1>3 DEF RuntimeState, IsRuntimeConfig
<1>6. Len(list) \in 1..IntMax
  <2>1. PICK l \in Nat : l = Len(list)
    OBVIOUS
  <2>2. PICK n \in Nat : n = Len(words.pairs)
    OBVIOUS
  <2>3. l >= 1 /\ (l = 1 \/ l <= n) /\ n <= IntMax
    BY <1>3, <1>5, <2>1, <2>2 DEF RuntimeState
  <2> QED
    BY <2>1, <2>3, RuntimeConfigAssumption
<1> QED
  BY <1>3, <1>4, <1>5, <1>6 DEF AcceptedRuntime, RuntimeState

\* No check that is made later refuses it.
LEMMA RuntimeChecks ==
  ASSUME NEW c, AcceptedRuntime(c)
  PROVE  /\ RuntimeAccepts(c) /\ ReceiverAccepts(c) /\ MonitorAccepts(c)
         /\ PipelineAccepts(c) /\ PollAccepts(c)
<1>1. /\ c.max_drain \in Nat \ {0} /\ c.worker_count \in Nat \ {0}
      /\ c.queue_capacity \in Nat \ {0} /\ c.max_sources \in Nat \ {0}
      /\ c.healthy_after_packets \in Nat \ {0}
      /\ c.degraded_after \in Nat \ {0} /\ c.recovery_after \in Nat \ {0}
  BY DEF AcceptedRuntime, IsRuntimeConfig, Counts, Durations
<1>2. c.packet_count # 0 /\ c.poll_timeout \in 1..IntMax
  BY DEF AcceptedRuntime, IsRuntimeConfig, Absent
<1>3. c.listen_endpoints # <<>> /\ Len(c.listen_endpoints) <= IntMax
  BY RuntimeConfigAssumption DEF AcceptedRuntime
<1>4. c.offline_after > c.degraded_after
  BY DEF AcceptedRuntime
<1>5. RuntimeAccepts(c)
  BY <1>1, <1>2, <1>4, RuntimeConfigAssumption DEF RuntimeAccepts
<1>6. ReceiverAccepts(c)
  BY <1>1, <1>3 DEF ReceiverAccepts
<1>7. MonitorAccepts(c) /\ PipelineAccepts(c)
  BY <1>1, <1>4 DEF MonitorAccepts, PipelineAccepts
<1>8. PollAccepts(c)
  BY <1>2, RuntimeConfigAssumption DEF PollAccepts
<1> QED
  BY <1>5, <1>6, <1>7, <1>8
-----------------------------------------------------------------------------
\* What the parser of the simulator has after any round.
SimulatorFields ==
  Intervals \cup {"sensor_type", "address", "port", "rate_hz", "packet_count",
                  "camera_extra", "delay_ms"}

IsSimulatorConfig(c) ==
  /\ DOMAIN c = SimulatorFields
  /\ c.sensor_type \in Sensors
  /\ \A field \in Intervals : c[field] # 0
  /\ c.delay_ms = Absent \/ c.delay_ms \in 1..MaximumFaultDelay

SimulatorState(state) ==
  /\ DOMAIN state = {"config", "seen", "failed"}
  /\ IsSimulatorConfig(state.config)

LEMMA SimulatorFieldIs ==
  ASSUME NEW option \in DOMAIN SimulatorField
  PROVE  SimulatorField[option] \in SimulatorFields
  BY DEF SimulatorField, SimulatorFields, Intervals

\* A value that was found readable, in its field.
LEMMA ValueAssigned ==
  ASSUME NEW c, IsSimulatorConfig(c), NEW field \in SimulatorFields, NEW text,
         Readable(field, text)
  PROVE  IsSimulatorConfig([c EXCEPT ![field] = Assigned(field, text)])
<1>1. PICK value : value = Assigned(field, text)
  OBVIOUS
<1>2. field = "sensor_type" => value \in Sensors
  BY <1>1 DEF Readable, Assigned, Intervals
<1>3. field = "delay_ms" => value \in 1..MaximumFaultDelay
  <2> SUFFICES ASSUME field = "delay_ms" PROVE value \in 1..MaximumFaultDelay
    OBVIOUS
  <2>1. IsPositive(text) /\ text.number <= MaximumFaultDelay
    BY DEF Readable, Intervals
  <2>2. value = text.number
    BY <1>1 DEF Assigned
  <2>3. text.number \in 0..NumberMax /\ text.number # 0
    BY <2>1 DEF IsPositive, IsUnsigned
  <2> QED
    BY <2>1, <2>2, <2>3, CommandLineAssumption, SimulatorConfigAssumption
<1>4. field \in Intervals => value # 0
  <2> SUFFICES ASSUME field \in Intervals PROVE value # 0
    OBVIOUS
  <2>1. IsPositive(text)
    BY DEF Readable, Intervals
  <2>2. value = text.number
    BY <1>1 DEF Assigned, Intervals
  <2> QED
    BY <2>1, <2>2 DEF IsPositive
<1>5. PICK d : d = [c EXCEPT ![field] = value]
  OBVIOUS
<1>6. /\ DOMAIN d = SimulatorFields /\ d[field] = value
      /\ \A other \in SimulatorFields : other # field => d[other] = c[other]
  BY <1>5 DEF IsSimulatorConfig
<1>7. d["sensor_type"] \in Sensors
  BY <1>2, <1>6 DEF IsSimulatorConfig, SimulatorFields
<1>8. \A other \in Intervals : d[other] # 0
  BY <1>4, <1>6 DEF IsSimulatorConfig, SimulatorFields
<1>9. d["delay_ms"] = Absent \/ d["delay_ms"] \in 1..MaximumFaultDelay
  BY <1>3, <1>6 DEF IsSimulatorConfig, SimulatorFields
<1> QED
  BY <1>1, <1>5, <1>6, <1>7, <1>8, <1>9 DEF IsSimulatorConfig

LEMMA SimulatorRound ==
  ASSUME NEW state, SimulatorState(state), NEW pair
  PROVE  SimulatorState(ParseSimulatorOption(state, pair))
<1> DEFINE next == ParseSimulatorOption(state, pair)
           field == SimulatorField[pair.option]
<1>1. CASE next = state
  BY <1>1
<1>2. CASE next = [state EXCEPT !.failed = TRUE]
  <2>1. DOMAIN next = {"config", "seen", "failed"} /\ next.config = state.config
    BY <1>2 DEF SimulatorState
  <2> QED
    BY <2>1 DEF SimulatorState
<1>3. CASE /\ ~state.failed /\ pair.option \notin state.seen
           /\ pair.option \in DOMAIN SimulatorField /\ Readable(field, pair.value)
  <2>1. PICK c : c = [state.config EXCEPT ![field] = Assigned(field, pair.value)]
    OBVIOUS
  <2>2. IsSimulatorConfig(c)
    BY <1>3, <2>1, SimulatorFieldIs, ValueAssigned DEF SimulatorState
  <2>3. next = [state EXCEPT !.config = c, !.seen = @ \cup {pair.option}]
    BY <1>3, <2>1 DEF ParseSimulatorOption, SimulatorState
  <2>4. DOMAIN next = {"config", "seen", "failed"} /\ next.config = c
    BY <2>3 DEF SimulatorState
  <2> QED
    BY <2>2, <2>4 DEF SimulatorState
<1> QED
  BY <1>1, <1>2, <1>3 DEF ParseSimulatorOption

LEMMA SimulatorStart ==
  SimulatorState([config |-> SimulatorDefaults, seen |-> {}, failed |-> FALSE])
<1>1. PICK c : c = SimulatorDefaults
  OBVIOUS
<1>2. DOMAIN c = SimulatorFields
  BY <1>1 DEF SimulatorDefaults, SimulatorFields, Intervals
<1>3. c.sensor_type \in Sensors
  BY <1>1 DEF SimulatorDefaults, Sensors, DefaultRate
<1>4. c.delay_ms = Absent /\ \A field \in Intervals : c[field] = Absent
  BY <1>1 DEF SimulatorDefaults, Intervals
<1>5. IsSimulatorConfig(c)
  BY <1>2, <1>3, <1>4 DEF IsSimulatorConfig, Absent
<1>6. PICK start : start = [config |-> c, seen |-> {}, failed |-> FALSE]
  OBVIOUS
<1>7. DOMAIN start = {"config", "seen", "failed"} /\ start.config = c
  BY <1>6
<1>8. SimulatorState(start)
  BY <1>5, <1>7 DEF SimulatorState
<1> QED
  BY <1>1, <1>6, <1>8

LEMMA SimulatorLoop ==
  ASSUME NEW q, q \in Seq(Range(q)), NEW start, SimulatorState(start)
  PROVE  SimulatorState(FoldLeft(ParseSimulatorOption, start, q))
<1>1. PICK N \in Nat : N = Len(q)
  OBVIOUS
<1> DEFINE at(n) == SimulatorAt(start, q, n)
<1>2. FoldLeft(ParseSimulatorOption, start, q) = at(N)
  BY <1>1, SimulatorFold DEF SimulatorAt
<1>3. /\ at(0) = start
      /\ \A n \in Nat : n < N => at(n + 1) = ParseSimulatorOption(at(n), q[n + 1])
  <2>1. SimulatorRuns(start, q)
    BY SimulatorAtIs
  <2> QED
    BY <1>1, <2>1 DEF SimulatorRuns
<1> HIDE DEF at
<1> DEFINE Bad == {n \in Nat : n <= N /\ ~SimulatorState(at(n))}
<1>4. Bad = {}
  <2> SUFFICES ASSUME Bad # {} PROVE FALSE
    OBVIOUS
  <2>1. PICK n \in Bad : \A m \in Bad : n <= m
    BY Least
  <2>2. n # 0
    BY <1>3
  <2>3. PICK m \in Nat : m = n - 1 /\ n = m + 1 /\ m < N
    BY <2>2
  <2>4. SimulatorState(at(m))
    BY <2>1, <2>3
  <2>5. at(m + 1) = ParseSimulatorOption(at(m), q[m + 1])
    BY <1>3, <2>3
  <2>6. SimulatorState(at(m + 1))
    BY <2>4, <2>5, SimulatorRound
  <2> QED
    BY <2>3, <2>6
<1>5. SimulatorState(at(N))
  BY <1>4
<1> QED
  BY <1>1, <1>2, <1>5

\* What the simulator's parser lets pass is not refused by the simulator.
LEMMA SimulatorParsed ==
  ASSUME NEW words, words.pairs \in Seq(Range(words.pairs)),
         ParseSimulatorConfig(words).ok
  PROVE  SimulatorAccepts(ParseSimulatorConfig(words).config)
<1>1. PICK start : start = [config |-> SimulatorDefaults, seen |-> {}, failed |-> FALSE]
  OBVIOUS
<1>2. PICK end : end = FoldLeft(ParseSimulatorOption, start, words.pairs)
  OBVIOUS
<1>3. SimulatorState(end)
  BY <1>1, <1>2, SimulatorStart, SimulatorLoop
<1>4. PICK c : c = IF "--rate-hz" \in end.seen THEN end.config
                   ELSE [end.config EXCEPT
                          !.rate_hz = Rate(DefaultRate[end.config.sensor_type])]
  OBVIOUS
<1>5. /\ ParseSimulatorConfig(words).config = c /\ CommonChecks(c)
      /\ (c.delay_every = Absent) = (c.delay_ms = Absent)
  BY <1>1, <1>2, <1>4 DEF ParseSimulatorConfig
<1>6. \A field \in SimulatorFields : field # "rate_hz" => c[field] = end.config[field]
  BY <1>3, <1>4 DEF SimulatorState, IsSimulatorConfig
<1>7. c["sensor_type"] \in Sensors
  BY <1>3, <1>6 DEF SimulatorState, IsSimulatorConfig, SimulatorFields
<1>8. \A field \in Intervals : c[field] # 0
  BY <1>3, <1>6 DEF SimulatorState, IsSimulatorConfig, SimulatorFields, Intervals
<1>9. c["delay_ms"] = Absent \/ c["delay_ms"] \in 1..MaximumFaultDelay
  BY <1>3, <1>6 DEF SimulatorState, IsSimulatorConfig, SimulatorFields
<1> QED
  BY <1>5, <1>7, <1>8, <1>9 DEF SimulatorAccepts
-----------------------------------------------------------------------------
\* Which program is at which place, with which line.
RouteInv ==
  /\ program \in ProgramNames /\ line \in Lines[program]
  /\ program # "runtime" =>
       pc \notin {"create_epoll", "next_endpoint", "set_non_blocking", "register",
                  "push_back"}
  /\ program = "simulator" => pc \notin Local
  /\ program \in Servers => pc \notin {"send", "receive"}

\* A server that is past its parser has a configuration that is good for
\* all the checks to come.
Running == pc \notin {"main"} \cup After

ConfigInv ==
  /\ program \in Servers => thrown # "invalid_argument"
  /\ program = "runtime" /\ Running => AcceptedRuntime(config)
  /\ program = "simulator" /\ Running => SimulatorAccepts(config)

\* How many listeners there are.
CountInv ==
  program = "runtime" =>
    /\ pc \in {"open"} \cup Local =>
         Len(listeners) < Len(config.listen_endpoints)
    /\ pc = "next_endpoint" => Len(listeners) <= Len(config.listen_endpoints)
    /\ pc = "run" => Len(listeners) = Len(config.listen_endpoints)

\* The set-up of a runtime whose configuration is accepted, step by step.
Bound == config.listen_endpoints[Len(listeners) + 1]

RuntimeGoes ==
  \/ OpensEpoll
  \/ /\ pc = "next_endpoint" /\ pc' = "open" /\ Frame
     /\ Len(listeners) < Len(config.listen_endpoints)
  \/ /\ pc = "next_endpoint" /\ pc' = "run" /\ Frame
     /\ ~(Len(listeners) < Len(config.listen_endpoints))
  \/ OpensSocket /\ pc' = "bind"
  \/ /\ pc = "bind" /\ pc' = "set_non_blocking"
     /\ descriptors' = [descriptors EXCEPT ![socket].endpoint = Bound]
     /\ UNCHANGED <<socket, epoll, listeners>>
  \/ /\ pc = "set_non_blocking" /\ pc' = "local_endpoint"
     /\ descriptors' = [descriptors EXCEPT ![socket].nonblocking = TRUE]
     /\ UNCHANGED <<socket, epoll, listeners>>
  \/ pc = "local_endpoint" /\ pc' = "register" /\ Frame
  \/ /\ pc = "register" /\ pc' = "push_back"
     /\ descriptors' = [descriptors EXCEPT ![socket].index = Len(listeners)]
     /\ UNCHANGED <<socket, epoll, listeners>>
  \/ PushBack

LEMMA RuntimeSetUp ==
  ASSUME SetUpRuntime, AcceptedRuntime(config), CountInv, IsList
  PROVE  program = "runtime" /\ OnlySetup /\ RuntimeGoes /\ UNCHANGED thrown
<1>0. program = "runtime" /\ OnlySetup /\ Setup(config)
  BY DEF SetUpRuntime
<1>1. CASE CreateEpoll(config)
  <2>1. ReceiverAccepts(config)
    BY RuntimeChecks
  <2> QED
    BY <1>0, <1>1, <2>1 DEF CreateEpoll, RuntimeGoes, OpensEpoll
<1>2. CASE NextEndpoint(config)
  BY <1>0, <1>2 DEF NextEndpoint, RuntimeGoes, Frame
<1>3. CASE OpenListener
  BY <1>0, <1>3 DEF OpenListener, OpenSocket, RuntimeGoes, OpensSocket, receiverVars
<1>4. CASE BindListener(config)
  <2>1. PICK m \in Nat : m = Len(listeners)
    BY LenProperties DEF IsList
  <2>2. PICK list \in Seq(Endpoints) : list = config.listen_endpoints
    BY DEF AcceptedRuntime, IsRuntimeConfig
  <2>3. m + 1 \in 1..Len(list)
    BY <1>0, <1>4, <2>1, <2>2 DEF CountInv, Local, BindListener, BindTo
  <2>4. list[m + 1] \in Endpoints
    BY <2>2, <2>3
  <2>5. PICK e \in Endpoints : e = Bound
    BY <2>1, <2>2, <2>4 DEF Bound
  <2>6. /\ e.address \in Addresses /\ e.port \in 1..PortMax
        /\ Endpoint(e.address, e.port) = e
    BY DEF Endpoints, Endpoint
  <2>7. BindTo(e, "set_non_blocking") /\ UNCHANGED receiverVars
    BY <1>4, <2>5 DEF BindListener, Bound
  <2>8. e.port # 0
    BY <2>6, CommandLineAssumption
  <2>9. /\ pc = "bind" /\ pc' = "set_non_blocking" /\ UNCHANGED <<thrown, socket>>
        /\ descriptors' = [descriptors EXCEPT ![socket].endpoint = e]
    BY <2>6, <2>7, <2>8 DEF BindTo
  <2> QED
    BY <1>0, <2>5, <2>7, <2>9 DEF RuntimeGoes, receiverVars
<1>5. CASE PrepareListener
  BY <1>0, <1>5 DEF PrepareListener, SetNonBlocking, LocalEndpoint, RuntimeGoes, Frame,
                    receiverVars
<1>6. CASE Register
  BY <1>0, <1>6 DEF Register, RuntimeGoes, EventIndex
<1>7. CASE PushBack
  BY <1>0, <1>7 DEF PushBack, RuntimeGoes
<1> QED
  BY <1>0, <1>1, <1>2, <1>3, <1>4, <1>5, <1>6, <1>7 DEF Setup

\* The set-up of the other programs.
OthersGo ==
  \/ OpensSocket /\ UNCHANGED thrown
  \/ Frame
  \/ /\ \E e : descriptors' = [descriptors EXCEPT ![socket].endpoint = e]
     /\ UNCHANGED <<socket, epoll, listeners>>

LEMMA OtherSetUp ==
  ASSUME SetUpSocket
  PROVE  /\ program # "runtime" /\ OnlySetup /\ OthersGo
         /\ pc' \in {"bind", "local_endpoint", "receive", "send", "run", "unwind"}
         /\ pc \in {"open", "bind", "local_endpoint"}
         /\ program = "simulator" => pc' = "run" /\ UNCHANGED thrown
<1>1. ASSUME NEW then \in {"bind", "send", "run"}, OpenSocket(then),
             then = "send" => program \notin Servers
      PROVE  /\ pc = "open" /\ pc' = then /\ UNCHANGED thrown
             /\ UNCHANGED receiverVars => OpensSocket
  BY <1>1 DEF OpenSocket, OpensSocket, receiverVars
<1>2. CASE BindTo(config, "local_endpoint") /\ UNCHANGED receiverVars
  <2>1. pc = "bind" /\ pc' \in {"local_endpoint", "unwind"} /\ OthersGo
    BY <1>2 DEF BindTo, Throw, OthersGo, Frame, receiverVars
  <2> QED
    BY <1>2, <2>1 DEF SetUpSocket, LocalEndpoint, OpenSocket
<1> QED
  BY <1>1, <1>2 DEF SetUpSocket, LocalEndpoint, OthersGo, Frame, receiverVars, Servers

\* A line that a server's parser accepts.
LEMMA ServerParsed ==
  ASSUME RouteInv, ParseConfig, pc' # "unwind"
  PROVE  /\ program = "runtime" => AcceptedRuntime(config')
         /\ program = "simulator" => SimulatorAccepts(config')
<1>1. /\ line.pairs \in Seq(Range(line.pairs)) /\ Len(line.pairs) <= IntMax
  BY ProgramsAssumption DEF RouteInv
<1>2. CASE program = "runtime"
  <2>1. ParseRuntimeConfig(line).ok /\ config' = ParseRuntimeConfig(line).config
    BY <1>2 DEF ParseConfig, Return
  <2> QED
    BY <1>1, <1>2, <2>1, RuntimeParsed
<1>3. CASE program = "simulator"
  <2>1. ParseSimulatorConfig(line).ok /\ config' = ParseSimulatorConfig(line).config
    BY <1>3 DEF ParseConfig, Return
  <2> QED
    BY <1>1, <1>3, <2>1, SimulatorParsed
<1> QED
  BY <1>2, <1>3

\* What main does with the configuration and where it goes with it.
MainGoes ==
  /\ UNCHANGED <<program, line>>
  /\ config' = config \/ pc = "main"
  /\ program \in Servers /\ thrown # "invalid_argument" => thrown' # "invalid_argument"
  /\ pc = "main" /\ pc' # "unwind" =>
       /\ program = "runtime" => AcceptedRuntime(config')
       /\ program = "simulator" => SimulatorAccepts(config')
  /\ pc' = "create_epoll" => program = "runtime"
  /\ pc' = "open" => program # "runtime"

LEMMA MainGoesOn ==
  ASSUME RouteInv, ConfigInv, MainStep
  PROVE  MainGoes
<1>1. CASE ShowHelp
  BY <1>1 DEF ShowHelp, Return, MainGoes
<1>2. CASE ParseConfig
  <2>1. /\ UNCHANGED <<program, line, thrown>> /\ pc = "main"
        /\ pc' \in {"unwind", "install_handlers"}
    BY <1>2 DEF ParseConfig, Return, Goto
  <2> QED
    BY <1>2, <2>1, ServerParsed DEF MainGoes
<1>3. CASE ParseEndpoint
  <2>1. /\ UNCHANGED <<program, line>> /\ pc = "main" /\ program \notin Servers
        /\ pc' \in {"unwind", "open"}
    BY <1>3 DEF ParseEndpoint, Return, Throws, Throw, Goto, OnlySetup, mainVars
  <2> QED
    BY <2>1 DEF MainGoes, Servers
<1>4. CASE InstallHandler
  BY <1>4 DEF InstallHandler, Goto, MainGoes
<1>5. CASE InstallFails
  BY <1>5 DEF InstallFails, Return, Throws, Throw, OnlySetup, mainVars, MainGoes
<1>6. CASE Construct
  <2>1. UNCHANGED <<program, line, config>> /\ pc = "construct"
    BY <1>6 DEF Construct, Throws, Goto, OnlySetup, mainVars
  <2>2. /\ program = "runtime" => RuntimeAccepts(config)
        /\ program = "simulator" => SimulatorAccepts(config)
    BY <2>1, RuntimeChecks DEF ConfigInv, Running, After
  <2>3. /\ pc' = "create_epoll" => program = "runtime"
        /\ pc' = "open" => program # "runtime"
    BY <1>6 DEF Construct, Throws, Throw, Goto
  <2>4. program \in Servers => UNCHANGED thrown
    BY <1>6, <2>2 DEF Construct, Goto, Servers
  <2> QED
    BY <2>1, <2>3, <2>4 DEF MainGoes
<1>7. CASE RunReturns
  BY <1>7 DEF RunReturns, Return, MainGoes
<1>8. CASE RunThrows
  <2>1. UNCHANGED <<program, line, config>> /\ pc = "run" /\ pc' = "unwind"
    BY <1>8 DEF RunThrows, Throws, Throw, OnlySetup, mainVars
  <2>2. RunAccepts
    BY <2>1, RuntimeChecks DEF ConfigInv, Running, After, RunAccepts, Servers
  <2>3. thrown' = "system_error"
    BY <1>8, <2>2 DEF RunThrows, Throws, Throw
  <2> QED
    BY <2>1, <2>3 DEF MainGoes
<1>9. ASSUME NEW decoded, ReceiveOne(decoded)
      PROVE  MainGoes
  BY <1>9 DEF ReceiveOne, Return, MainGoes
<1>10. CASE SendOne
  <2>1. /\ UNCHANGED <<program, line, config>> /\ pc = "send" /\ pc' = "unwind"
    BY <1>10 DEF SendOne, Return, Throws, Throw, OnlySetup, mainVars
  <2> QED
    BY <2>1 DEF RouteInv, MainGoes
<1>11. CASE TransferFails
  BY <1>11 DEF TransferFails, Throws, Throw, OnlySetup, mainVars, MainGoes
<1>12. CASE Exit
  BY <1>12 DEF Exit, Goto, MainGoes
<1>13. CASE SetupFails /\ OnlySetup
  BY <1>13 DEF SetupFails, SocketCallFails, Throw, OnlySetup, mainVars, MainGoes
<1> QED
  BY <1>1, <1>2, <1>3, <1>4, <1>5, <1>6, <1>7, <1>8, <1>9, <1>10, <1>11, <1>12,
     <1>13
  DEF MainStep

\* Every step, with what the configuration adds to StepDoes.
LEMMA StepGoes ==
  ASSUME RouteInv, ConfigInv, CountInv, IsList, [ProgramNext]_programVars
  PROVE  \/ MainStep /\ MainGoes
         \/ /\ program = "runtime" /\ Running /\ OnlySetup
            /\ RuntimeGoes /\ UNCHANGED thrown
         \/ SetUpSocket
         \/ Closes /\ OnlySetup
         \/ Dies /\ OnlySetup
         \/ UNCHANGED <<setupVars, program, line, config>>
<1>1. CASE MainStep
  BY <1>1, MainGoesOn
<1>2. CASE SetUpRuntime
  <2>1. program = "runtime" /\ Running
    BY <1>2 DEF SetUpRuntime, Setup, CreateEpoll, NextEndpoint, OpenListener,
                OpenSocket, BindListener, BindTo, PrepareListener, SetNonBlocking,
                LocalEndpoint, Register, PushBack, Running, After
  <2>2. AcceptedRuntime(config)
    BY <2>1 DEF ConfigInv
  <2> QED
    BY <1>2, <2>1, <2>2, RuntimeSetUp
<1>3. CASE Unwind /\ OnlySetup
  BY <1>3 DEF Unwind, DestroySocket, Closes, ClosesSocket, ClosesListener,
             ClosesEpoll, Leaves, Frame, NothingOpen, receiverVars
<1>4. ASSUME NEW s \in Signals, Signal(s)
      PROVE  (Dies /\ OnlySetup) \/ UNCHANGED <<setupVars, program, line, config>>
  BY <1>4 DEF Signal, Dies, OnlyMain
<1>5. CASE Ended \/ UNCHANGED programVars
  BY <1>5 DEF Ended, programVars, mainVars
<1> QED
  BY <1>1, <1>2, <1>3, <1>4, <1>5 DEF ProgramNext, MainStep

\* How the set-up of the runtime goes on.
LEMMA RuntimePlaces ==
  ASSUME RuntimeGoes
  PROVE  /\ pc' \in {"next_endpoint", "open", "run", "bind", "set_non_blocking",
                     "local_endpoint", "register", "push_back"}
         /\ pc \in {"create_epoll", "next_endpoint", "open"} \cup Local
  BY DEF RuntimeGoes, OpensEpoll, OpensSocket, PushBack, Local

LEMMA RouteStep ==
  ASSUME RouteInv, ConfigInv, CountInv, IsList, [ProgramNext]_programVars
  PROVE  RouteInv'
<1>1. CASE MainStep /\ MainGoes
  <2>1. UNCHANGED <<program, line>>
    BY <1>1 DEF MainGoes
  <2>2. CASE pc' \in {"unwind", "exited"}
    BY <2>1, <2>2 DEF RouteInv, Local
  <2>3. CASE pc' \in {"install_handlers", "construct", "create_epoll", "open"}
    BY <1>1, <2>1, <2>3 DEF MainGoes, RouteInv, Local
  <2> QED
    BY <1>1, <2>2, <2>3, MainDoes
<1>2. CASE program = "runtime" /\ OnlySetup /\ RuntimeGoes
  <2>1. UNCHANGED <<program, line>>
    BY <1>2 DEF OnlySetup, mainVars
  <2> QED
    BY <1>2, <2>1, RuntimePlaces DEF RouteInv
<1>3. CASE SetUpSocket
  <2>1. UNCHANGED <<program, line>>
    BY <1>3, OtherSetUp DEF OnlySetup, mainVars
  <2>2. program \in Servers => program = "simulator"
    BY <1>3, OtherSetUp DEF Servers
  <2> QED
    BY <1>3, <2>1, <2>2, OtherSetUp DEF RouteInv, Local
<1>4. CASE (Closes \/ Dies) /\ OnlySetup
  <2>1. UNCHANGED <<program, line>> /\ pc' \in After
    BY <1>4 DEF OnlySetup, mainVars, Closes, Dies, ClosesSocket, ClosesListener,
                ClosesEpoll, Leaves, After
  <2> QED
    BY <2>1 DEF RouteInv, Local, After
<1>5. CASE UNCHANGED <<setupVars, program, line, config>>
  BY <1>5 DEF RouteInv, setupVars
<1> QED
  BY <1>1, <1>2, <1>3, <1>4, <1>5, StepGoes

LEMMA ConfigStep ==
  ASSUME RouteInv, ConfigInv, CountInv, IsList, [ProgramNext]_programVars
  PROVE  ConfigInv'
<1>1. CASE MainStep /\ MainGoes
  <2>1. /\ UNCHANGED program /\ (config' = config \/ pc = "main")
        /\ program \in Servers => thrown' # "invalid_argument"
    BY <1>1 DEF MainGoes, ConfigInv
  <2>2. Running' => pc = "main" \/ Running
    BY <1>1, MainDoes DEF Running, After
  <2>3. CASE pc = "main"
    BY <1>1, <2>1, <2>3 DEF MainGoes, ConfigInv, Running, After
  <2>4. CASE pc # "main"
    BY <2>1, <2>2, <2>4 DEF ConfigInv
  <2> QED
    BY <2>3, <2>4
<1>2. CASE program = "runtime" /\ Running /\ OnlySetup /\ UNCHANGED thrown
  BY <1>2 DEF OnlySetup, mainVars, ConfigInv
<1>3. CASE SetUpSocket
  <2>1. /\ UNCHANGED <<program, config>> /\ program # "runtime" /\ Running
        /\ program = "simulator" => UNCHANGED thrown
    BY <1>3, OtherSetUp DEF OnlySetup, mainVars, Running, After
  <2> QED
    BY <2>1 DEF ConfigInv, Servers
<1>4. CASE (Closes \/ Dies) /\ OnlySetup
  <2>1. UNCHANGED <<program, config, thrown>> /\ pc' \in After
    BY <1>4 DEF OnlySetup, mainVars, Closes, Dies, ClosesSocket, ClosesListener,
                ClosesEpoll, Leaves, After
  <2> QED
    BY <2>1 DEF ConfigInv, Running
<1>5. CASE UNCHANGED <<setupVars, program, line, config>>
  BY <1>5 DEF ConfigInv, Running, setupVars
<1> QED
  BY <1>1, <1>2, <1>3, <1>4, <1>5, StepGoes

LEMMA CountStep ==
  ASSUME RouteInv, ConfigInv, CountInv, PlaceInv, IsList, [ProgramNext]_programVars
  PROVE  CountInv'
<1>1. CASE MainStep /\ MainGoes
  <2>1. UNCHANGED program /\ (pc' = "open" => program # "runtime")
    BY <1>1 DEF MainGoes
  <2>2. pc' \in {"unwind", "exited", "install_handlers", "construct",
                 "create_epoll", "open"}
    BY <1>1, MainDoes
  <2> QED
    BY <2>1, <2>2 DEF CountInv, Local
<1>2. CASE program = "runtime" /\ Running /\ OnlySetup /\ RuntimeGoes
  <2>1. UNCHANGED <<program, config>>
    BY <1>2 DEF OnlySetup, mainVars
  <2>2. PICK n \in Nat : n = Len(config.listen_endpoints)
    <3>1. config.listen_endpoints \in Seq(Endpoints)
      BY <1>2 DEF ConfigInv, AcceptedRuntime, IsRuntimeConfig
    <3> QED
      BY <3>1
  <2>3. PICK m \in Nat : m = Len(listeners)
    BY LenProperties DEF IsList
  <2>4. CASE UNCHANGED listeners
    <3>1. CASE OpensEpoll
      <4>1. m = 0 /\ pc' = "next_endpoint"
        BY <2>3, <3>1 DEF OpensEpoll, PlaceInv, Empty, NothingOpen
      <4> QED
        BY <2>1, <2>2, <2>3, <2>4, <4>1 DEF CountInv, Local
    <3>2. CASE pc = "next_endpoint" /\ pc' = "open" /\ m < n
      BY <2>1, <2>2, <2>3, <2>4, <3>2 DEF CountInv
    <3>3. CASE pc = "next_endpoint" /\ pc' = "run" /\ ~(m < n)
      <4>1. m <= n
        BY <1>2, <2>2, <2>3, <3>3 DEF CountInv
      <4> QED
        BY <2>1, <2>2, <2>3, <2>4, <3>3, <4>1 DEF CountInv, Local
    <3>4. CASE pc \in {"open"} \cup Local /\ pc' \in Local
      BY <1>2, <2>1, <2>2, <2>3, <2>4, <3>4 DEF CountInv, Local
    <3> QED
      BY <1>2, <2>2, <2>3, <2>4, <3>1, <3>2, <3>3, <3>4
      DEF RuntimeGoes, OpensSocket, PushBack, Local
  <2>5. CASE PushBack
    <3>1. m < n /\ pc' = "next_endpoint"
      BY <1>2, <2>2, <2>3, <2>5 DEF CountInv, PushBack, Local
    <3>2. Len(listeners') = m + 1
      BY <2>3, <2>5, OneMore DEF PushBack, IsList
    <3> QED
      BY <2>1, <2>2, <3>1, <3>2 DEF CountInv, Local
  <2> QED
    BY <1>2, <2>4, <2>5 DEF RuntimeGoes, OpensEpoll, OpensSocket, Frame
<1>3. CASE SetUpSocket
  BY <1>3, OtherSetUp DEF OnlySetup, mainVars, CountInv
<1>4. CASE (Closes \/ Dies) /\ OnlySetup
  <2>1. pc' \in After
    BY <1>4 DEF Closes, Dies, ClosesSocket, ClosesListener,
                ClosesEpoll, Leaves, After
  <2> QED
    BY <2>1 DEF CountInv, Local, After
<1>5. CASE UNCHANGED <<setupVars, program, line, config>>
  BY <1>5 DEF CountInv, setupVars
<1> QED
  BY <1>1, <1>2, <1>3, <1>4, <1>5, StepGoes

\* Where a program is, what it was configured with and what it has opened.
CourseInv == RouteInv /\ ConfigInv /\ CountInv /\ PlaceInv /\ IsList

LEMMA CourseInit ==
  ProgramInit => CourseInv
<1> SUFFICES ASSUME ProgramInit PROVE CourseInv
  OBVIOUS
<1>1. /\ pc = "main" /\ thrown = "none" /\ NothingOpen
      /\ program \in ProgramNames /\ line \in Lines[program]
  BY DEF ProgramInit, SetupInit, SocketInit, NothingOpen
<1>2. RouteInv
  BY <1>1 DEF RouteInv, Local
<1>3. ConfigInv /\ CountInv
  BY <1>1 DEF ConfigInv, CountInv, Running, Local
<1>4. PlaceInv /\ IsList
  BY <1>1 DEF PlaceInv, Empty, Local, NothingOpen, IsList
<1> QED
  BY <1>2, <1>3, <1>4 DEF CourseInv

LEMMA CourseStep ==
  CourseInv /\ [ProgramNext]_programVars => CourseInv'
  BY RouteStep, ConfigStep, CountStep, PlaceStep, ListStep DEF CourseInv

\* For any limits and defaults, and for any line: a configuration that the
\* runtime's or the simulator's parser accepts is refused by none of the
\* checks after it.
THEOREM AcceptedProved == ProgramSpec => []AcceptedConfigRuns
<1>1. CourseInv => AcceptedConfigRuns
  BY DEF CourseInv, ConfigInv, AcceptedConfigRuns
<1> QED
  BY <1>1, CourseInit, CourseStep, PTL DEF ProgramSpec
-----------------------------------------------------------------------------
\* What the kernel has of a descriptor.
RecordsInv ==
  \A d \in DOMAIN descriptors :
    DOMAIN descriptors[d] = {"kind", "endpoint", "nonblocking", "index"}

\* A listener is what was asked for at its position.
Serves(listener, i) ==
  LET entry == descriptors[listener.fd] IN
  /\ listener = [fd |-> listener.fd, endpoint |-> config.listen_endpoints[i]]
  /\ entry.endpoint = config.listen_endpoints[i]
  /\ entry.nonblocking /\ entry.index = i - 1

ListenersInv ==
  pc \notin After => \A i \in DOMAIN listeners : Serves(listeners[i], i)

\* What is true of the epoll instance and of the local socket on the way.
EpollInv == pc \notin After /\ epoll # None => descriptors[epoll].index = None

LocalInv ==
  /\ pc \notin After /\ socket # None /\ pc # "push_back" =>
       descriptors[socket].index = None
  /\ pc = "push_back" => descriptors[socket].index = Len(listeners)
  /\ program = "runtime" =>
       /\ pc \in Local \ {"bind"} => descriptors[socket].endpoint = Bound
       /\ pc \in Local \ {"bind", "set_non_blocking"} => descriptors[socket].nonblocking

\* Nothing that is registered can block, also while it is being closed.
EventsInv ==
  \A d \in DOMAIN descriptors :
    descriptors[d].index # None => descriptors[d].nonblocking

ServeInv == RecordsInv /\ ListenersInv /\ EpollInv /\ LocalInv /\ EventsInv

LEMMA ServeMeans ==
  ASSUME CourseInv, OwnInv, ServeInv
  PROVE  ListenersServe
<1>1. PICK m \in Nat : m = Len(listeners) /\ DOMAIN listeners = 1..m
  BY LenProperties DEF CourseInv, IsList
<1>2. ASSUME NEW d \in DOMAIN descriptors, descriptors[d].index # None
      PROVE  /\ descriptors[d].nonblocking
             /\ \/ /\ descriptors[d].index \in 0..(m - 1)
                   /\ listeners[descriptors[d].index + 1] =
                        [fd |-> d, endpoint |-> descriptors[d].endpoint]
                \/ descriptors[d].index = m /\ d = socket
                \/ pc = "unwind"
  <2>1. descriptors[d].nonblocking
    BY <1>2 DEF ServeInv, EventsInv
  <2>2. CASE pc \in After
    <3>1. pc \in {"left", "exited", "killed"} => DOMAIN descriptors = {}
      <4> SUFFICES ASSUME pc \in {"left", "exited", "killed"}
                   PROVE  DOMAIN descriptors = {}
        OBVIOUS
      <4>1. socket = None /\ epoll = None /\ DOMAIN listeners = {}
        BY DEF CourseInv, PlaceInv, Empty, NothingOpen
      <4>2. None \notin DOMAIN descriptors
        BY UdpSocketAssumption DEF OwnInv, None
      <4> QED
        BY <4>1, <4>2 DEF OwnInv, NothingLeaks
    <3> QED
      BY <2>1, <2>2, <3>1 DEF After
  <2>3. CASE pc \notin After /\ d = socket
    <3>1. socket # None
      BY <2>3, UdpSocketAssumption DEF OwnInv, None
    <3> QED
      BY <1>1, <1>2, <2>1, <2>3, <3>1 DEF ServeInv, LocalInv
  <2>4. CASE pc \notin After /\ d = epoll
    <3>1. epoll # None
      BY <2>4, UdpSocketAssumption DEF OwnInv, None
    <3> QED
      BY <1>2, <2>4, <3>1 DEF ServeInv, EpollInv
  <2>5. CASE pc \notin After /\ d # socket /\ d # epoll
    <3>1. PICK i \in 1..m : d = listeners[i].fd
      BY <1>1, <2>5 DEF OwnInv, NothingLeaks
    <3>2. Serves(listeners[i], i)
      BY <1>1, <2>5 DEF ServeInv, ListenersInv
    <3>3. /\ descriptors[d].index = i - 1
          /\ listeners[i] = [fd |-> d, endpoint |-> descriptors[d].endpoint]
      BY <3>1, <3>2 DEF Serves
    <3>4. i - 1 \in 0..(m - 1) /\ (i - 1) + 1 = i
      OBVIOUS
    <3> QED
      BY <2>1, <3>3, <3>4
  <2> QED
    BY <2>2, <2>3, <2>4, <2>5
<1>3. EventsNameListeners
  BY <1>1, <1>2 DEF EventsNameListeners
<1>4. ASSUME program = "runtime", pc = "run"
      PROVE  /\ m = Len(config.listen_endpoints)
             /\ \A i \in 1..m :
                  /\ listeners[i].endpoint = config.listen_endpoints[i]
                  /\ descriptors[listeners[i].fd].index = i - 1
  <2>1. m = Len(config.listen_endpoints)
    BY <1>1, <1>4 DEF CourseInv, CountInv
  <2>2. \A i \in 1..m : Serves(listeners[i], i)
    BY <1>1, <1>4 DEF ServeInv, ListenersInv, After
  <2>3. ASSUME NEW i \in 1..m
        PROVE  /\ listeners[i].endpoint = config.listen_endpoints[i]
               /\ descriptors[listeners[i].fd].index = i - 1
    <3>1. PICK l : l = listeners[i]
      OBVIOUS
    <3>2. l = [fd |-> l.fd, endpoint |-> config.listen_endpoints[i]]
      BY <2>2, <3>1 DEF Serves
    <3>3. l.endpoint = config.listen_endpoints[i]
      BY <3>2
    <3>4. descriptors[l.fd].index = i - 1
      BY <2>2, <3>1 DEF Serves
    <3> QED
      BY <3>1, <3>3, <3>4
  <2> QED
    BY <2>1, <2>3
<1> QED
  BY <1>1, <1>3, <1>4 DEF ListenersServe

\* What is closed takes nothing with it.
LEMMA ServeAfter ==
  ASSUME RecordsInv, EventsInv, pc' \in After,
         \A d \in DOMAIN descriptors' :
           d \in DOMAIN descriptors /\ descriptors'[d] = descriptors[d]
  PROVE  ServeInv'
<1>1. RecordsInv' /\ EventsInv'
  BY DEF RecordsInv, EventsInv
<1>2. ListenersInv' /\ EpollInv' /\ LocalInv'
  BY DEF ListenersInv, EpollInv, LocalInv, After, Local
<1> QED
  BY <1>1, <1>2 DEF ServeInv

\* A change of the local socket leaves the listeners and the epoll instance.
LEMMA ServesKept ==
  ASSUME ListenersInv, EpollInv, SinglesOwned, ListenersOwned, pc \notin After,
         UNCHANGED <<listeners, config, epoll>>,
         \A d \in DOMAIN descriptors \ {socket} : descriptors'[d] = descriptors[d]
  PROVE  ListenersInv' /\ EpollInv'
<1>1. ListenersInv'
  <2>1. ASSUME NEW i \in DOMAIN listeners
        PROVE  Serves(listeners[i], i)'
    <3>1. PICK fd : fd = listeners[i].fd
      OBVIOUS
    <3>2. descriptors'[fd] = descriptors[fd]
      BY <3>1 DEF ListenersOwned
    <3>3. Serves(listeners[i], i)
      BY DEF ListenersInv
    <3> QED
      BY <3>1, <3>2, <3>3 DEF Serves
  <2> QED
    BY <2>1 DEF ListenersInv
<1>2. EpollInv'
  BY DEF EpollInv, SinglesOwned
<1> QED
  BY <1>1, <1>2

\* A new descriptor is not registered.
LEMMA ServeOpened ==
  ASSUME ServeInv, Free # {}, NEW kind, descriptors' = WithOpened(kind)
  PROVE  /\ RecordsInv' /\ EventsInv'
         /\ \A d \in DOMAIN descriptors : descriptors'[d] = descriptors[d]
         /\ descriptors'[Min(Free)].index = None
<1>1. PICK new : new = Min(Free)
  OBVIOUS
<1>2. PICK entry : entry = [kind |-> kind, endpoint |-> NoEndpoint,
                            nonblocking |-> FALSE, index |-> None]
  OBVIOUS
<1>3. /\ DOMAIN descriptors' = DOMAIN descriptors \cup {new}
      /\ \A d \in DOMAIN descriptors : descriptors'[d] = descriptors[d]
      /\ descriptors'[new] = entry
  BY <1>1, <1>2, OpenedIs
<1>4. DOMAIN entry = {"kind", "endpoint", "nonblocking", "index"} /\ entry.index = None
  BY <1>2
<1>5. RecordsInv'
  BY <1>3, <1>4 DEF ServeInv, RecordsInv
<1>6. EventsInv'
  BY <1>3, <1>4 DEF ServeInv, EventsInv
<1> QED
  BY <1>1, <1>3, <1>4, <1>5, <1>6

\* The set-up steps of a runtime.
LEMMA RuntimeServes ==
  ASSUME CourseInv, OwnInv, ServeInv, program = "runtime", pc \notin After,
         RuntimeGoes, OnlySetup
  PROVE  ServeInv'
<1> DEFINE Fields == {"kind", "endpoint", "nonblocking", "index"}
<1>0. UNCHANGED <<program, config>>
  BY DEF OnlySetup, mainVars
<1>1. PICK m \in Nat : m = Len(listeners) /\ DOMAIN listeners = 1..m
  BY LenProperties DEF CourseInv, IsList
<1>2. /\ ListenersInv /\ EpollInv /\ LocalInv /\ RecordsInv /\ EventsInv
      /\ SinglesOwned /\ ListenersOwned
  BY DEF ServeInv, OwnInv
<1>3. CASE OpensEpoll
  <2>1. /\ RecordsInv' /\ EventsInv'
        /\ descriptors'[epoll'].index = None
    BY <1>3, ServeOpened DEF OpensEpoll
  <2>2. socket' = None /\ DOMAIN listeners' = {} /\ pc' = "next_endpoint"
    BY <1>3 DEF OpensEpoll, CourseInv, PlaceInv, Empty, NothingOpen
  <2>3. ListenersInv' /\ EpollInv' /\ LocalInv'
    BY <2>1, <2>2 DEF ListenersInv, EpollInv, LocalInv, Local
  <2> QED
    BY <2>1, <2>3 DEF ServeInv
<1>4. CASE pc = "next_endpoint" /\ pc' \in {"open", "run"} /\ Frame
  <2>1. socket' = None
    BY <1>4 DEF CourseInv, PlaceInv, Frame
  <2>2. LocalInv'
    BY <1>4, <2>1 DEF LocalInv, Local
  <2>3. ListenersInv' /\ EpollInv'
    BY <1>0, <1>2, <1>4, ServesKept DEF Frame
  <2>4. RecordsInv' /\ EventsInv'
    BY <1>2, <1>4 DEF RecordsInv, EventsInv, Frame
  <2> QED
    BY <2>2, <2>3, <2>4 DEF ServeInv
<1>5. CASE OpensSocket /\ pc' = "bind"
  <2>1. /\ RecordsInv' /\ EventsInv'
        /\ \A d \in DOMAIN descriptors : descriptors'[d] = descriptors[d]
        /\ descriptors'[socket'].index = None
    BY <1>5, ServeOpened DEF OpensSocket
  <2>2. LocalInv'
    BY <1>5, <2>1 DEF LocalInv, Local
  <2>3. ListenersInv' /\ EpollInv'
    BY <1>0, <1>2, <1>5, <2>1, ServesKept DEF OpensSocket
  <2> QED
    BY <2>1, <2>2, <2>3 DEF ServeInv
<1>6. ASSUME NEW entry, DOMAIN entry = Fields,
             descriptors' = [descriptors EXCEPT ![socket] = entry],
             UNCHANGED <<socket, epoll, listeners>>, socket # None,
             entry.index # None => entry.nonblocking
      PROVE  /\ RecordsInv' /\ EventsInv' /\ ListenersInv' /\ EpollInv'
             /\ descriptors'[socket'] = entry
  <2>1. /\ socket \in DOMAIN descriptors /\ DOMAIN descriptors' = DOMAIN descriptors
        /\ \A d \in DOMAIN descriptors \ {socket} : descriptors'[d] = descriptors[d]
        /\ descriptors'[socket] = entry
    BY <1>2, <1>6 DEF SinglesOwned
  <2>2. RecordsInv' /\ EventsInv'
    BY <1>2, <1>6, <2>1 DEF RecordsInv, EventsInv
  <2>3. ListenersInv' /\ EpollInv'
    BY <1>0, <1>2, <1>6, <2>1, ServesKept
  <2> QED
    BY <1>6, <2>1, <2>2, <2>3
<1>7. ASSUME socket # None
      PROVE  socket \in DOMAIN descriptors /\ DOMAIN descriptors[socket] = Fields
  BY <1>2, <1>7 DEF SinglesOwned, RecordsInv
<1>8. pc \in Local => socket # None
  BY DEF CourseInv, PlaceInv
<1>9. UNCHANGED listeners => Bound' = Bound
  BY <1>0 DEF Bound
<1>10. CASE /\ pc = "bind" /\ pc' = "set_non_blocking"
            /\ descriptors' = [descriptors EXCEPT ![socket].endpoint = Bound]
            /\ UNCHANGED <<socket, epoll, listeners>>
  <2>1. socket # None
    BY <1>8, <1>10 DEF Local
  <2>2. PICK entry : entry = [descriptors[socket] EXCEPT !.endpoint = Bound]
    OBVIOUS
  <2>3. /\ DOMAIN entry = Fields /\ entry.endpoint = Bound
        /\ entry.index = descriptors[socket].index
    BY <1>7, <2>1, <2>2
  <2>4. entry.index = None
    BY <1>2, <1>10, <2>1, <2>3 DEF LocalInv
  <2>5. /\ RecordsInv' /\ EventsInv' /\ ListenersInv' /\ EpollInv'
        /\ descriptors'[socket'] = entry
    BY <1>6, <1>7, <1>10, <2>1, <2>2, <2>3, <2>4
  <2>6. LocalInv'
    BY <1>9, <1>10, <2>3, <2>4, <2>5 DEF LocalInv, Local
  <2> QED
    BY <2>5, <2>6 DEF ServeInv
<1>11. CASE /\ pc = "set_non_blocking" /\ pc' = "local_endpoint"
            /\ descriptors' = [descriptors EXCEPT ![socket].nonblocking = TRUE]
            /\ UNCHANGED <<socket, epoll, listeners>>
  <2>1. socket # None
    BY <1>8, <1>11 DEF Local
  <2>2. PICK entry : entry = [descriptors[socket] EXCEPT !.nonblocking = TRUE]
    OBVIOUS
  <2>3. /\ DOMAIN entry = Fields /\ entry.nonblocking
        /\ entry.index = descriptors[socket].index
        /\ entry.endpoint = descriptors[socket].endpoint
    BY <1>7, <2>1, <2>2
  <2>4. entry.index = None /\ entry.endpoint = Bound
    BY <1>2, <1>11, <2>1, <2>3 DEF LocalInv, Local
  <2>5. /\ RecordsInv' /\ EventsInv' /\ ListenersInv' /\ EpollInv'
        /\ descriptors'[socket'] = entry
    BY <1>6, <1>7, <1>11, <2>1, <2>2, <2>3, <2>4
  <2>6. LocalInv'
    BY <1>9, <1>11, <2>3, <2>4, <2>5 DEF LocalInv, Local
  <2> QED
    BY <2>5, <2>6 DEF ServeInv
<1>12. CASE pc = "local_endpoint" /\ pc' = "register" /\ Frame
  <2>1. LocalInv'
    BY <1>0, <1>2, <1>9, <1>12 DEF LocalInv, Local, Frame, After
  <2>2. ListenersInv' /\ EpollInv'
    BY <1>0, <1>2, <1>12, ServesKept DEF Frame
  <2>3. RecordsInv' /\ EventsInv'
    BY <1>2, <1>12 DEF RecordsInv, EventsInv, Frame
  <2> QED
    BY <2>1, <2>2, <2>3 DEF ServeInv
<1>13. CASE /\ pc = "register" /\ pc' = "push_back"
            /\ descriptors' = [descriptors EXCEPT ![socket].index = Len(listeners)]
            /\ UNCHANGED <<socket, epoll, listeners>>
  <2>1. socket # None
    BY <1>8, <1>13 DEF Local
  <2>2. PICK entry : entry = [descriptors[socket] EXCEPT !.index = Len(listeners)]
    OBVIOUS
  <2>3. /\ DOMAIN entry = Fields /\ entry.index = Len(listeners)
        /\ entry.nonblocking = descriptors[socket].nonblocking
        /\ entry.endpoint = descriptors[socket].endpoint
    BY <1>7, <2>1, <2>2
  <2>4. entry.nonblocking /\ entry.endpoint = Bound
    BY <1>2, <1>13, <2>1, <2>3 DEF LocalInv, Local
  <2>5. /\ RecordsInv' /\ EventsInv' /\ ListenersInv' /\ EpollInv'
        /\ descriptors'[socket'] = entry
    BY <1>6, <1>7, <1>13, <2>1, <2>2, <2>3, <2>4
  <2>6. LocalInv'
    BY <1>9, <1>13, <2>3, <2>4, <2>5 DEF LocalInv, Local
  <2> QED
    BY <2>5, <2>6 DEF ServeInv
<1>14. CASE PushBack
  <2>1. PICK entry : entry = descriptors[socket]
    OBVIOUS
  <2>2. /\ entry.endpoint = config.listen_endpoints[m + 1] /\ entry.nonblocking
        /\ entry.index = m
    BY <1>1, <1>2, <1>14, <2>1 DEF LocalInv, Local, PushBack, Bound
  <2>3. PICK new : new = [fd |-> socket, endpoint |-> entry.endpoint]
    OBVIOUS
  <2>4. /\ listeners' = Append(listeners, new) /\ UNCHANGED <<descriptors, epoll>>
        /\ pc' = "next_endpoint" /\ socket' = None
    BY <1>14, <2>1, <2>3 DEF PushBack, MovedFrom
  <2>5. /\ DOMAIN listeners' = 1..(m + 1) /\ listeners'[m + 1] = new
        /\ \A i \in 1..m : listeners'[i] = listeners[i]
    BY <1>1, <2>4, OneMore DEF CourseInv, IsList
  <2>6. new.fd = socket /\ new = [fd |-> new.fd, endpoint |-> config.listen_endpoints[m + 1]]
    BY <2>2, <2>3
  <2>7. Serves(new, m + 1)
    <3>1. (m + 1) - 1 = m
      OBVIOUS
    <3> QED
      BY <2>1, <2>2, <2>6, <3>1 DEF Serves
  <2>8. \A i \in 1..(m + 1) : Serves(listeners'[i], i)
    <3>1. \A i \in 1..m : Serves(listeners'[i], i)
      BY <1>1, <1>2, <2>5 DEF ListenersInv
    <3>2. \A i \in 1..(m + 1) : i \in 1..m \/ i = m + 1
      OBVIOUS
    <3> QED
      BY <2>5, <2>7, <3>1, <3>2
  <2>9. \A listener, i : Serves(listener, i) => Serves(listener, i)'
    BY <1>0, <2>4 DEF Serves
  <2>10. ListenersInv'
    BY <2>5, <2>8, <2>9 DEF ListenersInv
  <2>11. RecordsInv' /\ EventsInv' /\ EpollInv' /\ LocalInv'
    BY <1>2, <2>4 DEF RecordsInv, EventsInv, EpollInv, LocalInv, Local
  <2> QED
    BY <2>10, <2>11 DEF ServeInv
<1> QED
  BY <1>3, <1>4, <1>5, <1>10, <1>11, <1>12, <1>13, <1>14 DEF RuntimeGoes

\* The set-up steps of the other programs.
LEMMA OthersServe ==
  ASSUME CourseInv, OwnInv, ServeInv, SetUpSocket
  PROVE  ServeInv'
<1>0. /\ program # "runtime" /\ UNCHANGED <<program, config>> /\ OthersGo
      /\ pc \in {"open", "bind", "local_endpoint"} /\ pc # "push_back" /\ pc' # "push_back"
  BY OtherSetUp DEF OnlySetup, mainVars
<1>1. pc \notin After
  BY <1>0 DEF After
<1>2. /\ ListenersInv /\ EpollInv /\ LocalInv /\ RecordsInv /\ EventsInv
      /\ SinglesOwned /\ ListenersOwned
  BY DEF ServeInv, OwnInv
<1>3. CASE OpensSocket
  <2>1. /\ RecordsInv' /\ EventsInv'
        /\ \A d \in DOMAIN descriptors : descriptors'[d] = descriptors[d]
        /\ descriptors'[socket'].index = None
    BY <1>3, ServeOpened DEF OpensSocket
  <2>2. LocalInv'
    BY <1>0, <2>1 DEF LocalInv
  <2>3. ListenersInv' /\ EpollInv'
    BY <1>0, <1>1, <1>2, <1>3, <2>1, ServesKept DEF OpensSocket
  <2> QED
    BY <2>1, <2>2, <2>3 DEF ServeInv
<1>4. CASE Frame
  <2>1. LocalInv'
    BY <1>0, <1>1, <1>2, <1>4 DEF LocalInv, Frame
  <2>2. ListenersInv' /\ EpollInv'
    BY <1>0, <1>1, <1>2, <1>4, ServesKept DEF Frame
  <2>3. RecordsInv' /\ EventsInv'
    BY <1>2, <1>4 DEF RecordsInv, EventsInv, Frame
  <2> QED
    BY <2>1, <2>2, <2>3 DEF ServeInv
<1>5. ASSUME NEW e, descriptors' = [descriptors EXCEPT ![socket].endpoint = e],
             UNCHANGED <<socket, epoll, listeners>>
      PROVE  ServeInv'
  <2>1. PICK entry : entry = [descriptors[socket] EXCEPT !.endpoint = e]
    OBVIOUS
  <2>2. \/ /\ socket \in DOMAIN descriptors /\ descriptors' = [descriptors EXCEPT ![socket] = entry]
           /\ DOMAIN entry = {"kind", "endpoint", "nonblocking", "index"}
           /\ entry.index = descriptors[socket].index
           /\ entry.nonblocking = descriptors[socket].nonblocking
        \/ socket \notin DOMAIN descriptors
    BY <1>2, <1>5, <2>1 DEF RecordsInv
  <2>3. /\ DOMAIN descriptors' = DOMAIN descriptors
        /\ \A d \in DOMAIN descriptors \ {socket} : descriptors'[d] = descriptors[d]
    BY <1>5
  <2>4. socket \in DOMAIN descriptors => descriptors'[socket] = entry
    BY <2>2
  <2>5. RecordsInv' /\ EventsInv'
    BY <1>2, <2>2, <2>3, <2>4 DEF RecordsInv, EventsInv
  <2>6. ListenersInv' /\ EpollInv'
    BY <1>0, <1>1, <1>2, <1>5, <2>3, ServesKept
  <2>7. LocalInv'
    BY <1>0, <1>1, <1>2, <1>5, <2>2, <2>4 DEF LocalInv, SinglesOwned
  <2> QED
    BY <2>5, <2>6, <2>7 DEF ServeInv
<1> QED
  BY <1>0, <1>3, <1>4, <1>5 DEF OthersGo

LEMMA ServeStep ==
  ASSUME CourseInv, OwnInv, ServeInv, [ProgramNext]_programVars
  PROVE  ServeInv'
<1>0. RecordsInv /\ EventsInv
  BY DEF ServeInv
<1>1. CASE MainStep /\ MainGoes
  <2>1. Frame
    BY <1>1, MainDoes
  <2>2. CASE pc' \in After
    BY <1>0, <2>1, <2>2, ServeAfter DEF Frame
  <2>3. CASE /\ pc \in {"main", "install_handlers", "construct"}
             /\ pc' \in {"install_handlers", "construct", "create_epoll", "open"}
    <3>1. socket' = None /\ epoll' = None /\ DOMAIN listeners' = {}
      BY <2>1, <2>3 DEF CourseInv, PlaceInv, Empty, NothingOpen, Frame
    <3>2. RecordsInv' /\ EventsInv'
      BY <1>0, <2>1 DEF RecordsInv, EventsInv, Frame
    <3>3. ListenersInv' /\ EpollInv' /\ LocalInv'
      BY <2>3, <3>1 DEF ListenersInv, EpollInv, LocalInv, Local
    <3> QED
      BY <3>2, <3>3 DEF ServeInv
  <2> QED
    BY <1>1, <2>2, <2>3, MainDoes DEF After
<1>2. CASE program = "runtime" /\ Running /\ OnlySetup /\ RuntimeGoes
  BY <1>2, RuntimeServes DEF Running
<1>3. CASE SetUpSocket
  BY <1>3, OthersServe
<1>4. CASE Closes
  <2>1. pc' \in After
    BY <1>4 DEF Closes, ClosesSocket, ClosesListener, ClosesEpoll, Leaves, After
  <2>2. \/ \E fd : descriptors' = WithClosed(fd)
        \/ UNCHANGED descriptors
    BY <1>4 DEF Closes, ClosesSocket, ClosesListener, ClosesEpoll, Leaves, Frame
  <2>3. \A d \in DOMAIN descriptors' :
          d \in DOMAIN descriptors /\ descriptors'[d] = descriptors[d]
    BY <2>2, ClosedIs
  <2> QED
    BY <1>0, <2>1, <2>3, ServeAfter
<1>5. CASE Dies
  <2>1. pc' \in After /\ DOMAIN descriptors' = {}
    BY <1>5 DEF Dies, After
  <2> QED
    BY <1>0, <2>1, ServeAfter
<1>6. CASE UNCHANGED <<setupVars, program, line, config>>
  BY <1>6 DEF setupVars, ServeInv, RecordsInv, ListenersInv, Serves, EpollInv, LocalInv,
              EventsInv, Bound
<1> QED
  BY <1>1, <1>2, <1>3, <1>4, <1>5, <1>6, StepGoes DEF CourseInv

\* For any number of endpoints: when the receiver of a runtime is complete it
\* has one listener for each endpoint of its configuration, in order, and the
\* data of each registration is the position of the listener it is for.
THEOREM ListenersProved == ProgramSpec => []ListenersServe
<1> DEFINE Inv == CourseInv /\ OwnInv /\ ServeInv
<1>1. ProgramInit => OwnInv /\ ServeInv
  <2> SUFFICES ASSUME ProgramInit PROVE OwnInv /\ ServeInv
    OBVIOUS
  <2>1. /\ pc = "main" /\ DOMAIN descriptors = {} /\ DOMAIN listeners = {}
        /\ socket = None /\ epoll = None
    BY DEF ProgramInit, SetupInit, SocketInit
  <2>2. OwnInv
    BY <2>1 DEF OwnInv, SinglesOwned, ListenersOwned, OwnedOnce, NothingLeaks
  <2>3. ServeInv
    BY <2>1 DEF ServeInv, RecordsInv, ListenersInv, EpollInv, LocalInv, EventsInv, Local
  <2> QED
    BY <2>2, <2>3
<1>2. Inv /\ [ProgramNext]_programVars => OwnInv' /\ ServeInv'
  BY OwnStep, ServeStep DEF CourseInv
<1>3. Inv => ListenersServe
  BY ServeMeans
<1> QED
  BY <1>1, <1>2, <1>3, CourseInit, CourseStep, PTL DEF ProgramSpec
-----------------------------------------------------------------------------
\* Induction over the rounds of a loop.
LEMMA Upwards ==
  ASSUME NEW N \in Nat, NEW S, 0 \in S,
         \A n \in Nat : n < N /\ n \in S => n + 1 \in S
  PROVE  \A n \in Nat : n <= N => n \in S
<1> DEFINE Bad == {n \in Nat : n <= N /\ n \notin S}
<1>1. Bad = {}
  <2> SUFFICES ASSUME Bad # {} PROVE FALSE
    OBVIOUS
  <2>1. PICK n \in Bad : \A m \in Bad : n <= m
    BY Least
  <2>2. n # 0
    OBVIOUS
  <2>3. PICK m \in Nat : m = n - 1 /\ n = m + 1 /\ m < N
    BY <2>2
  <2>4. m \in S
    BY <2>1, <2>3
  <2> QED
    BY <2>3, <2>4
<1> QED
  BY <1>1

\* The texts that are values on a command line.
Texts(q) == {q[i].value : i \in 1..Len(q)}

\* The values of an option are texts of the line.
LEMMA GivenTexts ==
  ASSUME NEW option, NEW q, q \in Seq(Range(q))
  PROVE  \A n \in Nat : n <= Len(q) => GivenAt(option, q, n) \in Seq(Texts(q))
<1>0. GivenRuns(option, q)
  BY GivenAtIs
<1>1. PICK N \in Nat : N = Len(q)
  BY LenProperties
<1> DEFINE S == {n \in Nat : GivenAt(option, q, n) \in Seq(Texts(q))}
<1>2. 0 \in S
  <2>1. <<>> \in Seq(Texts(q))
    BY EmptySeq
  <2>2. GivenAt(option, q, 0) \in Seq(Texts(q))
    BY <1>0, <2>1 DEF GivenRuns
  <2> QED
    BY <2>2
<1>3. ASSUME NEW n \in Nat, n < N, n \in S
      PROVE  n + 1 \in S
  <2>1. PICK values \in Seq(Texts(q)) : values = GivenAt(option, q, n)
    BY <1>3
  <2>2. PICK text \in Texts(q) : text = q[n + 1].value
    <3>1. n + 1 \in 1..Len(q)
      BY <1>1, <1>3
    <3> QED
      BY <3>1 DEF Texts
  <2>3. GivenAt(option, q, n + 1) = IF q[n + 1].option = option
                                    THEN Append(values, text) ELSE values
    BY <1>1, <1>3, <2>1, <2>2, <1>0 DEF GivenRuns
  <2>4. Append(values, text) \in Seq(Texts(q))
    OBVIOUS
  <2>5. GivenAt(option, q, n + 1) \in Seq(Texts(q))
    BY <2>3, <2>4
  <2> QED
    BY <2>5
<1> HIDE DEF S
<1>4. \A n \in Nat : n <= N => n \in S
  BY <1>2, <1>3, Upwards
<1> QED
  BY <1>1, <1>4 DEF S

\* One sequence is the beginning of another.
Begins(shorter, longer) ==
  /\ Len(shorter) <= Len(longer)
  /\ \A i \in 1..Len(shorter) : longer[i] = shorter[i]

LEMMA AppendBegins ==
  ASSUME NEW T, NEW s \in Seq(T), NEW t \in T
  PROVE  Begins(s, Append(s, t)) /\ Begins(s, s)
<1>1. PICK n \in Nat : n = Len(s)
  BY LenProperties
<1>2. PICK longer : longer = Append(s, t)
  OBVIOUS
<1>3. Len(longer) = n + 1 /\ \A i \in 1..n : longer[i] = s[i]
  BY <1>1, <1>2, AppendProperties
<1> QED
  BY <1>1, <1>2, <1>3 DEF Begins

\* A later round keeps the values of an option that are known already.
LEMMA GivenKept ==
  ASSUME NEW option, NEW q, q \in Seq(Range(q)), NEW m \in Nat
  PROVE  \A n \in Nat : m <= n /\ n <= Len(q) =>
           Begins(GivenAt(option, q, m), GivenAt(option, q, n))
<1>0. GivenRuns(option, q)
  BY GivenAtIs
<1>1. PICK N \in Nat : N = Len(q)
  BY LenProperties
<1> DEFINE G(n) == GivenAt(option, q, n)
           S == {n \in Nat : m <= n => Begins(G(m), G(n))}
<1>2. \A n \in Nat : n <= N => G(n) \in Seq(Texts(q))
  BY <1>1, GivenTexts
<1>3. \A s \in Seq(Texts(q)) : Begins(s, s)
  <2> TAKE s \in Seq(Texts(q))
  <2>1. Len(s) \in Nat
    BY LenProperties
  <2> QED
    BY <2>1 DEF Begins
<1>4. ASSUME NEW n \in Nat, n < N
      PROVE  Begins(G(n), G(n + 1))
  <2>1. PICK text : text = q[n + 1].value
    OBVIOUS
  <2>2. text \in Texts(q)
    <3>1. n + 1 \in 1..Len(q)
      BY <1>1, <1>4
    <3> QED
      BY <2>1, <3>1 DEF Texts
  <2>3. G(n + 1) = IF q[n + 1].option = option THEN Append(G(n), text) ELSE G(n)
    BY <1>1, <1>4, <2>1, <1>0 DEF GivenRuns
  <2>4. Begins(G(n), Append(G(n), text)) /\ Begins(G(n), G(n))
    <3>1. G(n) \in Seq(Texts(q))
      BY <1>2, <1>4
    <3> HIDE DEF G
    <3> QED
      BY <2>2, <3>1, AppendBegins
  <2> HIDE DEF G
  <2> QED
    BY <2>3, <2>4
<1>5. ASSUME NEW n \in Nat, n <= N
      PROVE  G(n) \in Seq(Texts(q)) /\ Len(G(n)) \in Nat
  BY <1>2, <1>5, LenProperties
<1> HIDE DEF G
<1>6. 0 \in S
  <2>1. m <= 0 => m = 0
    OBVIOUS
  <2>2. Begins(G(0), G(0))
    BY <1>3, <1>5
  <2> QED
    BY <2>1, <2>2
<1>7. ASSUME NEW n \in Nat, n < N, n \in S
      PROVE  n + 1 \in S
  <2>1. CASE m <= n
    <3>1. Begins(G(m), G(n)) /\ Begins(G(n), G(n + 1))
      BY <1>4, <1>7, <2>1
    <3>2. Len(G(m)) \in Nat /\ Len(G(n)) \in Nat /\ Len(G(n + 1)) \in Nat
      BY <1>5, <1>7, <2>1
    <3>3. \A i \in 1..Len(G(m)) : i \in 1..Len(G(n))
      BY <3>1, <3>2 DEF Begins
    <3>4. Begins(G(m), G(n + 1))
      BY <3>1, <3>2, <3>3 DEF Begins
    <3> QED
      BY <3>4
  <2>2. CASE m = n + 1
    <3>1. Begins(G(m), G(m))
      BY <1>3, <1>5, <1>7, <2>2
    <3> QED
      BY <2>2, <3>1
  <2>3. CASE m > n + 1
    BY <2>3
  <2> QED
    BY <2>1, <2>2, <2>3
<1> HIDE DEF S
<1>8. \A n \in Nat : n <= N => n \in S
  BY <1>6, <1>7, Upwards
<1> QED
  BY <1>1, <1>8 DEF S, G
-----------------------------------------------------------------------------
\* What the loop of the runtime's parser knows after n rounds.
FirstRuntimeState ==
  [config |-> RuntimeDefaults, explicit_listener |-> FALSE, seen |-> {}, failed |-> FALSE]

\* What a number means in a field.
Meant(field, number) == IF field \in Durations THEN Milliseconds(number) ELSE number

FieldHolds(state, q, n, option) ==
  LET values == GivenAt(option, q, n)
      field == Field[option]
  IN  IF option \in state.seen
      THEN /\ Len(values) = 1 /\ IsPositive(values[1])
           /\ values[1].number <= LargestAccepted(field)
           /\ state.config[field] = Meant(field, values[1].number)
      ELSE values = <<>> /\ state.config[field] = RuntimeDefaults[field]

FieldsHold(state, q, n) == \A option \in DOMAIN Field : FieldHolds(state, q, n, option)

ListHolds(state, q, n) ==
  LET values == GivenAt("--listen", q, n)
      list == state.config.listen_endpoints
  IN  IF state.explicit_listener
      THEN /\ Len(list) = Len(values) /\ values # <<>>
           /\ \A i \in 1..Len(values) : list[i] = Endpoint(values[i].word, values[i].number)
      ELSE values = <<>> /\ list = RuntimeDefaults.listen_endpoints

PairsHold(state, q, n) ==
  \A i \in 1..n :
    IF q[i].option = "--listen" THEN IsEndpoint(q[i].value)
    ELSE q[i].option \in state.seen /\ IsPositive(q[i].value)

RestHolds(state) ==
  /\ state.config = [field \in RuntimeFields |-> state.config[field]]
  /\ state.config.healthy_after_packets = 2
  /\ state.seen \subseteq DOMAIN Field

RuntimeHolds(state, q, n) ==
  FieldsHold(state, q, n) /\ ListHolds(state, q, n) /\ PairsHold(state, q, n) /\ RestHolds(state)

\* A pair for which the line is refused.
RuntimeFault(q, i) ==
  LET pair == q[i]
      values == GivenAt(pair.option, q, Len(q))
  IN  IF pair.option = "--listen" THEN ~IsEndpoint(pair.value)
      ELSE \/ pair.option \notin DOMAIN Field
           \/ ~IsPositive(pair.value)
           \/ Len(values) # 1
           \/ /\ values[1] = pair.value
              /\ pair.value.number > LargestAccepted(Field[pair.option])

RuntimeKnows(state, q, n) ==
  /\ RuntimeState(state, n)
  /\ state.failed => \E i \in 1..n : RuntimeFault(q, i)
  /\ ~state.failed => RuntimeHolds(state, q, n)

\* The three things a round can do.
LEMMA ListenDoes ==
  ASSUME NEW state, NEW n, RuntimeState(state, n), ~state.failed, NEW pair,
         pair.option = "--listen", IsEndpoint(pair.value)
  PROVE  LET next == ParseRuntimeOption(state, pair) IN
         /\ ~next.failed /\ next.seen = state.seen /\ next.explicit_listener
         /\ next.config =
              [state.config EXCEPT !.listen_endpoints =
                 ListenersWith(state, Endpoint(pair.value.word, pair.value.number))]
<1>1. PICK list : list = ListenersWith(state, Endpoint(pair.value.word, pair.value.number))
  OBVIOUS
<1>2. PICK c : c = [state.config EXCEPT !.listen_endpoints = list]
  OBVIOUS
<1>3. PICK next : next = [state EXCEPT !.config = c, !.explicit_listener = TRUE]
  OBVIOUS
<1>4. ParseRuntimeOption(state, pair) = next
  BY <1>1, <1>2, <1>3 DEF ParseRuntimeOption, RuntimeState
<1>5. /\ next.failed = state.failed /\ next.seen = state.seen
      /\ next.explicit_listener = TRUE /\ next.config = c
  BY <1>3 DEF RuntimeState
<1> QED
  BY <1>1, <1>2, <1>4, <1>5

LEMMA NumberDoes ==
  ASSUME NEW state, NEW n, RuntimeState(state, n), ~state.failed, NEW pair,
         pair.option # "--listen", pair.option \notin state.seen,
         IsPositive(pair.value), pair.option \in DOMAIN Field,
         ~(pair.value.number > LargestAccepted(Field[pair.option]))
  PROVE  LET next == ParseRuntimeOption(state, pair)
             field == Field[pair.option] IN
         /\ ~next.failed /\ next.seen = state.seen \cup {pair.option}
         /\ next.explicit_listener = state.explicit_listener
         /\ next.config =
              [state.config EXCEPT ![field] = Converted(field, pair.value.number)]
<1>1. PICK field : field = Field[pair.option]
  OBVIOUS
<1>2. PICK c : c = [state.config EXCEPT ![field] = Converted(field, pair.value.number)]
  OBVIOUS
<1>3. PICK next : next = [state EXCEPT !.config = c, !.seen = @ \cup {pair.option}]
  OBVIOUS
<1>4. ParseRuntimeOption(state, pair) = next
  BY <1>1, <1>2, <1>3 DEF ParseRuntimeOption, RuntimeState
<1>5. /\ next.failed = state.failed /\ next.seen = state.seen \cup {pair.option}
      /\ next.explicit_listener = state.explicit_listener /\ next.config = c
  BY <1>3 DEF RuntimeState
<1> QED
  BY <1>1, <1>2, <1>4, <1>5

\* What the round refuses.
Refuses(state, pair) ==
  \/ pair.option = "--listen" /\ ~IsEndpoint(pair.value)
  \/ /\ pair.option # "--listen"
     /\ \/ pair.option \in state.seen \/ ~IsPositive(pair.value)
        \/ pair.option \notin DOMAIN Field
        \/ pair.value.number > LargestAccepted(Field[pair.option])

LEMMA RefusalDoes ==
  ASSUME NEW state, NEW n, RuntimeState(state, n), ~state.failed, NEW pair,
         Refuses(state, pair)
  PROVE  ParseRuntimeOption(state, pair).failed
<1>1. ParseRuntimeOption(state, pair) = [state EXCEPT !.failed = TRUE]
  BY DEF ParseRuntimeOption, Refuses
<1> QED
  BY <1>1 DEF RuntimeState

\* A number the check lets pass is converted to what was meant.
LEMMA ConvertedMeant ==
  ASSUME NEW field, NEW n \in Nat, n <= LargestAccepted(field)
  PROVE  Converted(field, n) = Meant(field, n)
<1>1. CASE field = "poll_timeout"
  BY <1>1, NotWrapped, RuntimeConfigAssumption DEF Converted, LargestAccepted, Meant, Durations
<1>2. CASE field \in Durations
  <2>1. PICK k \in Nat \ {0} : k = NanosecondsPerMillisecond
    BY RuntimeConfigAssumption
  <2>2. n <= RepMax \div k /\ RepMax \in Nat /\ field # "poll_timeout"
    BY <1>2, <2>1, RuntimeConfigAssumption DEF LargestAccepted, Durations
  <2>3. PICK p : p = n * k
    OBVIOUS
  <2>4. p \in Nat /\ p <= RepMax
    BY <2>2, <2>3, QuotientBound
  <2>5. Wrapped(p, RepMax) = p
    BY <2>2, <2>4, NotWrapped
  <2> QED
    BY <1>2, <2>1, <2>2, <2>3, <2>5 DEF Converted, Meant, Milliseconds
<1>3. CASE field \notin Durations /\ field # "poll_timeout"
  BY <1>3 DEF Converted, Meant
<1> QED
  BY <1>1, <1>2, <1>3

\* Every option has a field of its own.
LEMMA FieldNames ==
  /\ "--listen" \notin DOMAIN Field
  /\ \A option \in DOMAIN Field :
       /\ Field[option] \in RuntimeFields
       /\ Field[option] \notin {"listen_endpoints", "healthy_after_packets"}
  /\ \A one, other \in DOMAIN Field : Field[one] = Field[other] => one = other
<1>1. /\ "--listen" \notin DOMAIN Field
      /\ \A option \in DOMAIN Field :
           /\ Field[option] \in RuntimeFields
           /\ Field[option] \notin {"listen_endpoints", "healthy_after_packets"}
  BY DEF Field, RuntimeFields, Counts, Durations
<1>2. ASSUME NEW one \in DOMAIN Field, NEW other \in DOMAIN Field, Field[one] = Field[other]
      PROVE  one = other
  BY <1>2 DEF Field
<1> QED
  BY <1>1, <1>2

\* The values of another option are not touched by a pair.
LEMMA OthersKept ==
  ASSUME NEW q, q \in Seq(Range(q)), NEW n \in Nat, n < Len(q), NEW option
  PROVE  /\ q[n + 1].option # option => GivenAt(option, q, n + 1) = GivenAt(option, q, n)
         /\ q[n + 1].option = option =>
              GivenAt(option, q, n + 1) = Append(GivenAt(option, q, n), q[n + 1].value)
         /\ GivenAt(option, q, n) \in Seq(Texts(q))
         /\ q[n + 1].value \in Texts(q)
<1>1. GivenRuns(option, q)
  BY GivenAtIs
<1>2. GivenAt(option, q, n) \in Seq(Texts(q))
  <2>1. PICK N \in Nat : N = Len(q)
    BY LenProperties
  <2>2. n <= N
    BY <2>1
  <2> QED
    BY <2>1, <2>2, GivenTexts
<1>3. q[n + 1].value \in Texts(q)
  <2>1. PICK N \in Nat : N = Len(q)
    BY LenProperties
  <2>2. n + 1 \in 1..N
    BY <2>1
  <2> QED
    BY <2>1, <2>2 DEF Texts
<1> QED
  BY <1>1, <1>2, <1>3 DEF GivenRuns

\* A sequence with one element is not the empty one.
LEMMA OneIsSome ==
  ASSUME NEW s, Len(s) = 1
  PROVE  s # <<>>
<1> SUFFICES ASSUME s = <<>> PROVE FALSE
  OBVIOUS
<1>1. s \in Seq({})
  BY EmptySeq
<1>2. Len(s) = 0
  BY <1>1, EmptySeq
<1> QED
  BY <1>2

\* Appending to a sequence, element by element.
LEMMA Appended ==
  ASSUME NEW T, NEW s \in Seq(T), NEW t \in T
  PROVE  /\ Len(Append(s, t)) = Len(s) + 1 /\ Len(s) \in Nat /\ Append(s, t) # <<>>
         /\ \A i \in 1..(Len(s) + 1) :
              Append(s, t)[i] = IF i = Len(s) + 1 THEN t ELSE s[i]
<1>1. PICK n \in Nat : n = Len(s)
  BY LenProperties
<1>2. PICK longer : longer = Append(s, t)
  OBVIOUS
<1>3. /\ longer \in Seq(T) /\ Len(longer) = n + 1
      /\ longer[n + 1] = t /\ \A i \in 1..n : longer[i] = s[i]
  BY <1>1, <1>2, AppendProperties
<1>4. longer # <<>>
  BY <1>3
<1>5. ASSUME NEW i \in 1..(n + 1)
      PROVE  longer[i] = IF i = n + 1 THEN t ELSE s[i]
  BY <1>3
<1> QED
  BY <1>1, <1>2, <1>3, <1>4, <1>5

LEMMA ListenHolds ==
  ASSUME NEW q, q \in Seq(Range(q)), NEW n \in Nat, n < Len(q), NEW state,
         RuntimeState(state, n), ~state.failed, RuntimeHolds(state, q, n),
         q[n + 1].option = "--listen", IsEndpoint(q[n + 1].value)
  PROVE  RuntimeHolds(ParseRuntimeOption(state, q[n + 1]), q, n + 1)
<1>1. PICK pair : pair = q[n + 1]
  OBVIOUS
<1>2. PICK e : e = Endpoint(pair.value.word, pair.value.number)
  OBVIOUS
<1>3. PICK list : list = ListenersWith(state, e)
  OBVIOUS
<1>4. PICK next : next = ParseRuntimeOption(state, pair)
  OBVIOUS
<1>5. /\ ~next.failed /\ next.seen = state.seen /\ next.explicit_listener
      /\ next.config = [state.config EXCEPT !.listen_endpoints = list]
  BY <1>1, <1>2, <1>3, <1>4, ListenDoes
<1>6. DOMAIN state.config = RuntimeFields
  BY DEF RuntimeState, IsRuntimeConfig
<1>7. /\ next.config.listen_endpoints = list
      /\ \A field \in RuntimeFields : field # "listen_endpoints" =>
           next.config[field] = state.config[field]
      /\ next.config = [field \in RuntimeFields |-> next.config[field]]
  BY <1>5, <1>6 DEF RuntimeFields
<1>8. FieldsHold(next, q, n + 1)
  <2> SUFFICES ASSUME NEW option \in DOMAIN Field PROVE FieldHolds(next, q, n + 1, option)
    BY DEF FieldsHold
  <2>1. FieldHolds(state, q, n, option)
    BY DEF RuntimeHolds, FieldsHold
  <2>2. option # "--listen" /\ next.config[Field[option]] = state.config[Field[option]]
    BY <1>7, FieldNames
  <2>3. GivenAt(option, q, n + 1) = GivenAt(option, q, n)
    BY <2>2, OthersKept
  <2> QED
    BY <1>5, <2>1, <2>2, <2>3 DEF FieldHolds
<1>9. ListHolds(next, q, n + 1)
  <2>1. PICK values : values = GivenAt("--listen", q, n)
    OBVIOUS
  <2>2. PICK longer : longer = GivenAt("--listen", q, n + 1)
    OBVIOUS
  <2>3. /\ longer = Append(values, pair.value)
        /\ values \in Seq(Texts(q)) /\ pair.value \in Texts(q)
    BY <1>1, <2>1, <2>2, OthersKept
  <2>4. /\ Len(longer) = Len(values) + 1 /\ Len(values) \in Nat /\ longer # <<>>
        /\ \A i \in 1..(Len(values) + 1) :
             longer[i] = IF i = Len(values) + 1 THEN pair.value ELSE values[i]
    BY <2>3, Appended
  <2>5. ListHolds(state, q, n)
    BY DEF RuntimeHolds
  <2>6. e \in Endpoints
    BY <1>1, <1>2 DEF IsEndpoint, Endpoint, Endpoints
  <2>7. /\ Len(list) = Len(longer)
        /\ \A i \in 1..Len(longer) : list[i] = Endpoint(longer[i].word, longer[i].number)
    <3>1. CASE state.explicit_listener
      <4>1. PICK old : old = state.config.listen_endpoints
        OBVIOUS
      <4>2. old \in Seq(Endpoints) /\ list = Append(old, e)
        BY <1>3, <3>1, <4>1 DEF ListenersWith, RuntimeState, IsRuntimeConfig
      <4>3. /\ Len(old) = Len(values)
            /\ \A i \in 1..Len(values) : old[i] = Endpoint(values[i].word, values[i].number)
        BY <2>1, <2>5, <3>1, <4>1 DEF ListHolds
      <4>4. /\ Len(list) = Len(values) + 1
            /\ \A i \in 1..(Len(values) + 1) :
                 list[i] = IF i = Len(values) + 1 THEN e ELSE old[i]
        BY <2>6, <4>2, <4>3, Appended
      <4>5. ASSUME NEW i \in 1..(Len(values) + 1)
            PROVE  list[i] = Endpoint(longer[i].word, longer[i].number)
        <5>1. CASE i = Len(values) + 1
          BY <1>2, <2>4, <4>4, <5>1
        <5>2. CASE i # Len(values) + 1
          <6>1. i \in 1..Len(values)
            BY <2>4, <5>2
          <6> QED
            BY <2>4, <4>3, <4>4, <5>2, <6>1
        <5> QED
          BY <5>1, <5>2
      <4> QED
        BY <2>4, <4>4, <4>5
    <3>2. CASE ~state.explicit_listener
      <4>1. values = <<>> /\ Len(values) = 0
        BY <2>1, <2>5, <3>2 DEF ListHolds
      <4>2. list = <<e>>
        BY <1>3, <3>2 DEF ListenersWith
      <4>3. Len(list) = 1 /\ list[1] = e
        BY <4>2
      <4>4. Len(longer) = 1 /\ longer[1] = pair.value
        BY <2>4, <4>1
      <4> QED
        BY <1>2, <4>3, <4>4
    <3> QED
      BY <3>1, <3>2
  <2> QED
    BY <1>5, <1>7, <2>2, <2>4, <2>7 DEF ListHolds
<1>10. PairsHold(next, q, n + 1)
  <2> SUFFICES ASSUME NEW i \in 1..(n + 1)
               PROVE  IF q[i].option = "--listen" THEN IsEndpoint(q[i].value)
                      ELSE q[i].option \in next.seen /\ IsPositive(q[i].value)
    BY DEF PairsHold
  <2>1. i = n + 1 \/ i \in 1..n
    OBVIOUS
  <2> QED
    BY <1>5, <2>1 DEF RuntimeHolds, PairsHold
<1>11. RestHolds(next)
  <2>1. "healthy_after_packets" \in RuntimeFields
    BY DEF RuntimeFields, Counts
  <2>2. next.config.healthy_after_packets = state.config.healthy_after_packets
    BY <1>7, <2>1
  <2> QED
    BY <1>5, <1>7, <2>2 DEF RuntimeHolds, RestHolds
<1> QED
  BY <1>1, <1>4, <1>8, <1>9, <1>10, <1>11 DEF RuntimeHolds

LEMMA NumberHolds ==
  ASSUME NEW q, q \in Seq(Range(q)), NEW n \in Nat, n < Len(q), NEW state,
         RuntimeState(state, n), ~state.failed, RuntimeHolds(state, q, n),
         q[n + 1].option # "--listen", ~Refuses(state, q[n + 1])
  PROVE  RuntimeHolds(ParseRuntimeOption(state, q[n + 1]), q, n + 1)
<1>1. PICK pair : pair = q[n + 1]
  OBVIOUS
<1>2. /\ pair.option \in DOMAIN Field /\ pair.option \notin state.seen
      /\ IsPositive(pair.value)
      /\ ~(pair.value.number > LargestAccepted(Field[pair.option]))
  BY <1>1 DEF Refuses
<1>3. PICK mine : mine = Field[pair.option]
  OBVIOUS
<1>4. PICK next : next = ParseRuntimeOption(state, pair)
  OBVIOUS
<1>5. /\ ~next.failed /\ next.seen = state.seen \cup {pair.option}
      /\ next.explicit_listener = state.explicit_listener
      /\ next.config = [state.config EXCEPT ![mine] = Converted(mine, pair.value.number)]
  BY <1>1, <1>2, <1>3, <1>4, NumberDoes
<1>6. DOMAIN state.config = RuntimeFields
  BY DEF RuntimeState, IsRuntimeConfig
<1>7. /\ mine \in RuntimeFields
      /\ mine \notin {"listen_endpoints", "healthy_after_packets"}
  BY <1>2, <1>3, FieldNames
<1>8. /\ next.config[mine] = Converted(mine, pair.value.number)
      /\ \A field \in RuntimeFields : field # mine => next.config[field] = state.config[field]
      /\ next.config = [field \in RuntimeFields |-> next.config[field]]
  BY <1>5, <1>6, <1>7
<1>9. pair.value.number \in Nat /\ pair.value.number <= LargestAccepted(mine)
  <2>1. pair.value.number \in Nat
    <3>1. pair.value.number \in 0..NumberMax
      BY <1>2 DEF IsPositive, IsUnsigned
    <3> QED
      BY <3>1, CommandLineAssumption
  <2>2. LargestAccepted(mine) \in Int
    BY CommandLineAssumption, RuntimeConfigAssumption DEF LargestAccepted
  <2> QED
    BY <1>2, <1>3, <2>1, <2>2
<1>10. next.config[mine] = Meant(mine, pair.value.number)
  BY <1>8, <1>9, ConvertedMeant
<1>11. FieldsHold(next, q, n + 1)
  <2> SUFFICES ASSUME NEW option \in DOMAIN Field PROVE FieldHolds(next, q, n + 1, option)
    BY DEF FieldsHold
  <2>1. FieldHolds(state, q, n, option)
    BY DEF RuntimeHolds, FieldsHold
  <2>2. CASE option = pair.option
    <3>1. GivenAt(option, q, n) = <<>>
      BY <1>2, <2>1, <2>2 DEF FieldHolds
    <3>2. /\ GivenAt(option, q, n + 1) = Append(<<>>, pair.value)
          /\ pair.value \in Texts(q)
      BY <1>1, <2>2, <3>1, OthersKept
    <3>3. PICK values : values = GivenAt(option, q, n + 1)
      OBVIOUS
    <3>4. Len(values) = 1 /\ values[1] = pair.value
      BY <3>2, <3>3
    <3> QED
      BY <1>2, <1>3, <1>5, <1>9, <1>10, <2>2, <3>3, <3>4 DEF FieldHolds
  <2>3. CASE option # pair.option
    <3>1. next.config[Field[option]] = state.config[Field[option]]
      BY <1>2, <1>3, <1>8, <2>3, FieldNames
    <3>2. GivenAt(option, q, n + 1) = GivenAt(option, q, n)
      BY <1>1, <2>3, OthersKept
    <3>3. option \in next.seen <=> option \in state.seen
      BY <1>5, <2>3
    <3> QED
      BY <2>1, <3>1, <3>2, <3>3 DEF FieldHolds
  <2> QED
    BY <2>2, <2>3
<1>12. ListHolds(next, q, n + 1)
  <2>1. ListHolds(state, q, n)
    BY DEF RuntimeHolds
  <2>2. GivenAt("--listen", q, n + 1) = GivenAt("--listen", q, n)
    BY OthersKept
  <2>3. next.config.listen_endpoints = state.config.listen_endpoints
    BY <1>7, <1>8 DEF RuntimeFields
  <2> QED
    BY <1>5, <2>1, <2>2, <2>3 DEF ListHolds
<1>13. PairsHold(next, q, n + 1)
  <2> SUFFICES ASSUME NEW i \in 1..(n + 1)
               PROVE  IF q[i].option = "--listen" THEN IsEndpoint(q[i].value)
                      ELSE q[i].option \in next.seen /\ IsPositive(q[i].value)
    BY DEF PairsHold
  <2>1. i = n + 1 \/ i \in 1..n
    OBVIOUS
  <2> QED
    BY <1>1, <1>2, <1>5, <2>1 DEF RuntimeHolds, PairsHold
<1>14. RestHolds(next)
  <2>1. "healthy_after_packets" \in RuntimeFields
    BY DEF RuntimeFields, Counts
  <2>2. next.config.healthy_after_packets = state.config.healthy_after_packets
    BY <1>7, <1>8, <2>1
  <2> QED
    BY <1>2, <1>5, <1>8, <2>2 DEF RuntimeHolds, RestHolds
<1> QED
  BY <1>1, <1>4, <1>11, <1>12, <1>13, <1>14 DEF RuntimeHolds

\* What a round refuses is at fault, whatever comes after it.
LEMMA RefusedFault ==
  ASSUME NEW q, q \in Seq(Range(q)), NEW n \in Nat, n < Len(q), NEW state,
         RuntimeHolds(state, q, n), Refuses(state, q[n + 1])
  PROVE  RuntimeFault(q, n + 1)
<1>1. PICK pair : pair = q[n + 1]
  OBVIOUS
<1>2. CASE pair.option = "--listen"
  BY <1>1, <1>2 DEF Refuses, RuntimeFault
<1>3. CASE /\ pair.option # "--listen"
           /\ pair.option \notin DOMAIN Field \/ ~IsPositive(pair.value)
  BY <1>1, <1>3 DEF RuntimeFault
<1>4. CASE pair.option \in DOMAIN Field /\ pair.option # "--listen"
  <2>1. PICK option : option = pair.option
    OBVIOUS
  <2>2. PICK N \in Nat : N = Len(q)
    BY LenProperties
  <2>3. FieldHolds(state, q, n, option)
    BY <1>4, <2>1 DEF RuntimeHolds, FieldsHold
  <2>4. PICK before \in Seq(Texts(q)) : before = GivenAt(option, q, n)
    BY OthersKept
  <2>5. PICK after : after = GivenAt(option, q, n + 1)
    OBVIOUS
  <2>6. after = Append(before, pair.value) /\ pair.value \in Texts(q)
    BY <1>1, <2>1, <2>4, <2>5, OthersKept
  <2>7. /\ Len(after) = Len(before) + 1 /\ Len(before) \in Nat
        /\ after[Len(before) + 1] = pair.value
    BY <2>6, Appended
  <2>8. PICK values \in Seq(Texts(q)) : values = GivenAt(option, q, N)
    BY <2>2, GivenTexts
  <2>9. Begins(after, values)
    <3>1. n + 1 \in Nat /\ n + 1 <= N
      BY <2>2
    <3> QED
      BY <2>2, <2>5, <2>8, <3>1, GivenKept
  <2>10. Len(values) \in Nat
    BY <2>8, LenProperties
  <2>11. CASE option \in state.seen
    <3>1. Len(before) = 1
      BY <2>3, <2>4, <2>11 DEF FieldHolds
    <3>2. Len(values) # 1
      BY <2>7, <2>9, <2>10, <3>1 DEF Begins
    <3> QED
      BY <1>1, <1>4, <2>1, <2>2, <2>8, <3>2 DEF RuntimeFault
  <2>12. CASE option \notin state.seen
    <3>1. Len(before) = 0
      BY <2>3, <2>4, <2>12 DEF FieldHolds
    <3>2. values[1] = pair.value
      BY <2>7, <2>9, <2>10, <3>1 DEF Begins
    <3>3. ~IsPositive(pair.value) \/ pair.value.number > LargestAccepted(Field[option])
      BY <1>1, <1>4, <2>1, <2>12 DEF Refuses
    <3> QED
      BY <1>1, <1>4, <2>1, <2>2, <2>8, <3>2, <3>3 DEF RuntimeFault
  <2> QED
    BY <2>11, <2>12
<1> QED
  BY <1>2, <1>3, <1>4

LEMMA KnowsRound ==
  ASSUME NEW q, q \in Seq(Range(q)), NEW n \in Nat, n < Len(q), NEW state,
         RuntimeKnows(state, q, n)
  PROVE  RuntimeKnows(ParseRuntimeOption(state, q[n + 1]), q, n + 1)
<1>1. PICK next : next = ParseRuntimeOption(state, q[n + 1])
  OBVIOUS
<1>2. RuntimeState(state, n) /\ RuntimeState(next, n + 1)
  BY <1>1, RuntimeRound DEF RuntimeKnows
<1>3. CASE state.failed
  <2>1. next = state
    BY <1>1, <1>3 DEF ParseRuntimeOption
  <2>2. PICK i \in 1..n : RuntimeFault(q, i)
    BY <1>3 DEF RuntimeKnows
  <2>3. i \in 1..(n + 1)
    OBVIOUS
  <2> QED
    BY <1>1, <1>2, <1>3, <2>1, <2>2, <2>3 DEF RuntimeKnows
<1>4. CASE ~state.failed /\ Refuses(state, q[n + 1])
  <2>1. next.failed
    BY <1>1, <1>2, <1>4, RefusalDoes
  <2>2. RuntimeFault(q, n + 1)
    BY <1>4, RefusedFault DEF RuntimeKnows
  <2>3. n + 1 \in 1..(n + 1)
    OBVIOUS
  <2> QED
    BY <1>1, <1>2, <2>1, <2>2, <2>3 DEF RuntimeKnows
<1>5. CASE ~state.failed /\ ~Refuses(state, q[n + 1])
  <2>1. RuntimeHolds(state, q, n)
    BY <1>5 DEF RuntimeKnows
  <2>2. CASE q[n + 1].option = "--listen"
    <3>1. IsEndpoint(q[n + 1].value)
      BY <1>5, <2>2 DEF Refuses
    <3>2. RuntimeHolds(next, q, n + 1)
      BY <1>1, <1>2, <1>5, <2>1, <2>2, <3>1, ListenHolds
    <3>3. ~next.failed
      BY <1>1, <1>2, <1>5, <2>2, <3>1, ListenDoes
    <3> QED
      BY <1>1, <1>2, <3>2, <3>3 DEF RuntimeKnows
  <2>3. CASE q[n + 1].option # "--listen"
    <3>1. RuntimeHolds(next, q, n + 1)
      BY <1>1, <1>2, <1>5, <2>1, <2>3, NumberHolds
    <3>2. ~next.failed
      BY <1>1, <1>2, <1>5, <2>3, NumberDoes DEF Refuses
    <3> QED
      BY <1>1, <1>2, <3>1, <3>2 DEF RuntimeKnows
  <2> QED
    BY <2>2, <2>3
<1> QED
  BY <1>3, <1>4, <1>5

LEMMA KnowsStart ==
  ASSUME NEW q, q \in Seq(Range(q))
  PROVE  RuntimeKnows(FirstRuntimeState, q, 0)
<1>1. PICK start : start = FirstRuntimeState
  OBVIOUS
<1>2. RuntimeState(start, 0)
  BY <1>1, RuntimeStart DEF FirstRuntimeState
<1>3. PICK c : c = RuntimeDefaults
  OBVIOUS
<1>4. start.config = c /\ ~start.explicit_listener /\ start.seen = {} /\ ~start.failed
  BY <1>1, <1>3 DEF FirstRuntimeState
<1>5. \A option : GivenAt(option, q, 0) = <<>>
  BY GivenAtIs DEF GivenRuns
<1>6. FieldsHold(start, q, 0)
  BY <1>3, <1>4, <1>5 DEF FieldsHold, FieldHolds
<1>7. ListHolds(start, q, 0)
  BY <1>3, <1>4, <1>5 DEF ListHolds
<1>8. PairsHold(start, q, 0)
  BY DEF PairsHold
<1>9. RestHolds(start)
  <2>1. c = [field \in RuntimeFields |-> c[field]] /\ c.healthy_after_packets = 2
    BY <1>3 DEF RuntimeDefaults, RuntimeFields, Counts, Durations
  <2> QED
    BY <1>4, <2>1 DEF RestHolds
<1> QED
  BY <1>1, <1>2, <1>4, <1>6, <1>7, <1>8, <1>9 DEF RuntimeKnows, RuntimeHolds

\* What the loop knows when it is over.
LEMMA RuntimeEnd ==
  ASSUME NEW q, q \in Seq(Range(q))
  PROVE  RuntimeKnows(FoldLeft(ParseRuntimeOption, FirstRuntimeState, q), q, Len(q))
<1>1. PICK N \in Nat : N = Len(q)
  BY LenProperties
<1> DEFINE at(n) == RuntimeAt(FirstRuntimeState, q, n)
           S == {n \in Nat : RuntimeKnows(at(n), q, n)}
<1>2. FoldLeft(ParseRuntimeOption, FirstRuntimeState, q) = at(N)
  BY <1>1, RuntimeFold DEF RuntimeAt
<1>3. /\ at(0) = FirstRuntimeState
      /\ \A n \in Nat : n < N => at(n + 1) = ParseRuntimeOption(at(n), q[n + 1])
  <2>1. RuntimeRuns(FirstRuntimeState, q)
    BY RuntimeAtIs
  <2> QED
    BY <1>1, <2>1 DEF RuntimeRuns
<1> HIDE DEF at
<1>4. 0 \in S
  BY <1>3, KnowsStart
<1>5. ASSUME NEW n \in Nat, n < N, n \in S
      PROVE  n + 1 \in S
  <2>1. RuntimeKnows(ParseRuntimeOption(at(n), q[n + 1]), q, n + 1)
    BY <1>1, <1>5, KnowsRound
  <2> QED
    BY <1>3, <1>5, <2>1
<1> HIDE DEF S
<1>6. \A n \in Nat : n <= N => n \in S
  BY <1>4, <1>5, Upwards
<1> QED
  BY <1>1, <1>2, <1>6 DEF S
-----------------------------------------------------------------------------
\* What the documentation asks of the field of an option.
LEMMA FieldAsked ==
  ASSUME NEW words, NEW option \in DOMAIN Field
  PROVE  RuntimeAsked(words)[Field[option]] =
           IF Given(words, option) = <<>> THEN RuntimeDefaults[Field[option]]
           ELSE Meant(Field[option], Given(words, option)[1].number)
<1> DEFINE text(default) == GivenOr(words, option, [word |-> "", number |-> default])
<1>1. \A default : text(default).number =
        IF Given(words, option) = <<>> THEN default ELSE Given(words, option)[1].number
  BY DEF GivenOr
<1> HIDE DEF text
<1>2. CASE option = "--count"
  BY <1>1, <1>2 DEF text, Field, RuntimeAsked, RuntimeDefaults, Meant, Durations
<1>3. CASE option = "--poll-timeout-ms"
  BY <1>1, <1>3 DEF text, Field, RuntimeAsked, RuntimeDefaults, Meant, Durations
<1>4. CASE option = "--max-drain"
  BY <1>1, <1>4 DEF text, Field, RuntimeAsked, RuntimeDefaults, Meant, Durations
<1>5. CASE option = "--max-sources"
  BY <1>1, <1>5 DEF text, Field, RuntimeAsked, RuntimeDefaults, Meant, Durations
<1>6. CASE option = "--health-degraded-ms"
  BY <1>1, <1>6 DEF text, Field, RuntimeAsked, RuntimeDefaults, Meant, Durations
<1>7. CASE option = "--health-offline-ms"
  BY <1>1, <1>7 DEF text, Field, RuntimeAsked, RuntimeDefaults, Meant, Durations
<1>8. CASE option = "--health-recovery-ms"
  BY <1>1, <1>8 DEF text, Field, RuntimeAsked, RuntimeDefaults, Meant, Durations
<1>9. CASE option = "--workers"
  BY <1>1, <1>9 DEF text, Field, RuntimeAsked, RuntimeDefaults, Meant, Durations
<1>10. CASE option = "--queue-capacity"
  BY <1>1, <1>10 DEF text, Field, RuntimeAsked, RuntimeDefaults, Meant, Durations
<1> QED
  BY <1>2, <1>3, <1>4, <1>5, <1>6, <1>7, <1>8, <1>9, <1>10 DEF Field

\* Every field but two belongs to an option.
LEMMA FieldsNamed ==
  \A field \in RuntimeFields \ {"listen_endpoints", "healthy_after_packets"} :
    \E option \in DOMAIN Field : Field[option] = field
<1> DEFINE Of(option, field) == option \in DOMAIN Field /\ Field[option] = field
<1>1. /\ Of("--count", "packet_count") /\ Of("--poll-timeout-ms", "poll_timeout")
      /\ Of("--max-drain", "max_drain") /\ Of("--max-sources", "max_sources")
      /\ Of("--health-degraded-ms", "degraded_after")
      /\ Of("--health-offline-ms", "offline_after")
      /\ Of("--health-recovery-ms", "recovery_after")
      /\ Of("--workers", "worker_count") /\ Of("--queue-capacity", "queue_capacity")
  BY DEF Field
<1> HIDE DEF Of
<1>2. \A field \in RuntimeFields \ {"listen_endpoints", "healthy_after_packets"} :
        \E option : Of(option, field)
  BY <1>1 DEF RuntimeFields, Counts, Durations
<1> QED
  BY <1>2 DEF Of

\* A multiple beyond the quotient is beyond the dividend.
LEMMA QuotientExceeded ==
  ASSUME NEW a \in Nat, NEW k \in Nat \ {0}, NEW n \in Nat, n > a \div k
  PROVE  n * k > a
<1>1. PICK d \in Nat : d = a \div k
  OBVIOUS
<1>2. (d + 1) * k > a
  BY <1>1
<1>3. n >= d + 1
  BY <1>1
<1>4. n * k >= (d + 1) * k
  BY <1>3
<1>5. n * k \in Nat /\ (d + 1) * k \in Nat
  OBVIOUS
<1> QED
  BY <1>2, <1>4, <1>5

\* The limits the documentation knows, for one field.
WithinLimit(field, value) ==
  /\ field = "poll_timeout" => value <= IntMax
  /\ field \in Durations => value <= RepMax

\* The check before the conversion is the documented limit.
LEMMA LimitIs ==
  ASSUME NEW field, NEW n \in 0..NumberMax
  PROVE  n <= LargestAccepted(field) <=> WithinLimit(field, Meant(field, n))
<1>0. n \in Nat
  BY CommandLineAssumption
<1>1. CASE field = "poll_timeout"
  BY <1>1 DEF WithinLimit, Meant, LargestAccepted, Durations
<1>2. CASE field \in Durations
  <2>1. PICK k \in Nat \ {0} : k = NanosecondsPerMillisecond
    BY RuntimeConfigAssumption
  <2>2. RepMax \in Nat /\ field # "poll_timeout"
    BY <1>2, RuntimeConfigAssumption DEF Durations
  <2>3. PICK d \in Nat : d = RepMax \div k
    BY <2>2
  <2>4. LargestAccepted(field) = d
    BY <1>2, <2>1, <2>2, <2>3 DEF LargestAccepted
  <2>5. PICK p \in Nat : p = n * k
    BY <1>0
  <2>6. Meant(field, n) = p
    BY <1>2, <2>1, <2>5 DEF Meant, Milliseconds
  <2>7. n <= d => p <= RepMax
    BY <1>0, <2>2, <2>3, <2>5, QuotientBound
  <2>8. n > d => p > RepMax
    BY <1>0, <2>2, <2>3, <2>5, QuotientExceeded
  <2>9. n <= d <=> p <= RepMax
    BY <1>0, <2>2, <2>7, <2>8
  <2> QED
    BY <1>2, <2>2, <2>4, <2>6, <2>9 DEF WithinLimit
<1>3. CASE field \notin Durations /\ field # "poll_timeout"
  <2>1. LargestAccepted(field) = NumberMax /\ n <= NumberMax
    BY <1>3, CommandLineAssumption DEF LargestAccepted
  <2> QED
    BY <1>3, <2>1 DEF WithinLimit
<1> QED
  BY <1>1, <1>2, <1>3

\* The defaults are within the limits.
LEMMA DefaultsWithin ==
  /\ RuntimeDefaults.poll_timeout <= IntMax
  /\ \A field \in Durations : RuntimeDefaults[field] <= RepMax
<1>1. PICK k \in Nat : k = NanosecondsPerMillisecond
  BY RuntimeConfigAssumption
<1>2. 4 * k <= RepMax /\ 2 * k <= RepMax /\ 1 * k <= RepMax
  BY <1>1, RuntimeConfigAssumption
<1> QED
  BY <1>1, <1>2, RuntimeConfigAssumption DEF RuntimeDefaults, Durations, Milliseconds

\* The conditions the documentation puts on the pairs and on the limits.
PairsAsked(words) ==
  \A i \in DOMAIN words.pairs :
    LET pair == words.pairs[i] IN
    IF pair.option = "--listen" THEN IsEndpoint(pair.value)
    ELSE /\ pair.option \in DOMAIN Field
         /\ IsPositive(pair.value)
         /\ Len(Given(words, pair.option)) = 1

LimitsAsked(words) ==
  LET asked == RuntimeAsked(words)
  IN  /\ asked.poll_timeout <= IntMax
      /\ \A field \in Durations : asked[field] <= RepMax

OrderAsked(words) ==
  RuntimeAsked(words).offline_after > RuntimeAsked(words).degraded_after

LEMMA MayAskIs ==
  ASSUME NEW words
  PROVE  RuntimeMayAsk(words) <=>
           /\ Complete(words) /\ PairsAsked(words)
           /\ LimitsAsked(words) /\ OrderAsked(words)
  BY DEF RuntimeMayAsk, PairsAsked, LimitsAsked, OrderAsked

\* A line without a fault is as the documentation asks, field by field.
LEMMA RuntimeFaultless ==
  ASSUME NEW words, words.pairs \in Seq(Range(words.pairs)), NEW state,
         RuntimeState(state, Len(words.pairs)),
         RuntimeHolds(state, words.pairs, Len(words.pairs))
  PROVE  /\ state.config = RuntimeAsked(words)
         /\ PairsAsked(words) /\ LimitsAsked(words)
<1>1. PICK q : q = words.pairs
  OBVIOUS
<1>2. PICK N \in Nat : N = Len(q)
  BY <1>1, LenProperties
<1>3. \A option : Given(words, option) = GivenAt(option, q, N)
  BY <1>1, <1>2, GivenFold DEF GivenAt
<1>4. FieldsHold(state, q, N) /\ ListHolds(state, q, N) /\ PairsHold(state, q, N) /\ RestHolds(state)
  BY <1>1, <1>2 DEF RuntimeHolds
<1>5. ASSUME NEW option \in DOMAIN Field
      PROVE  /\ state.config[Field[option]] = RuntimeAsked(words)[Field[option]]
             /\ \/ RuntimeAsked(words)[Field[option]] = RuntimeDefaults[Field[option]]
                \/ WithinLimit(Field[option], RuntimeAsked(words)[Field[option]])
  <2>1. PICK field : field = Field[option]
    OBVIOUS
  <2>2. PICK values : values = Given(words, option)
    OBVIOUS
  <2>3. FieldHolds(state, q, N, option)
    BY <1>4 DEF FieldsHold
  <2>4. RuntimeAsked(words)[field] = IF values = <<>> THEN RuntimeDefaults[field]
                                     ELSE Meant(field, values[1].number)
    BY <2>1, <2>2, FieldAsked
  <2>5. CASE option \in state.seen
    <3>1. /\ Len(values) = 1 /\ IsPositive(values[1])
          /\ values[1].number <= LargestAccepted(field)
          /\ state.config[field] = Meant(field, values[1].number)
      BY <1>3, <2>1, <2>2, <2>3, <2>5 DEF FieldHolds
    <3>2. values # <<>>
      BY <3>1, OneIsSome
    <3>3. values[1].number \in 0..NumberMax
      BY <3>1 DEF IsPositive, IsUnsigned
    <3>4. WithinLimit(field, Meant(field, values[1].number))
      BY <3>1, <3>3, LimitIs
    <3> QED
      BY <2>1, <2>4, <3>1, <3>2, <3>4
  <2>6. CASE option \notin state.seen
    <3>1. values = <<>> /\ state.config[field] = RuntimeDefaults[field]
      BY <1>3, <2>1, <2>2, <2>3, <2>6 DEF FieldHolds
    <3> QED
      BY <2>1, <2>4, <3>1
  <2> QED
    BY <2>5, <2>6
<1>6. state.config.listen_endpoints = RuntimeAsked(words).listen_endpoints
  <2>1. PICK values : values = Given(words, "--listen")
    OBVIOUS
  <2>2. RuntimeAsked(words).listen_endpoints =
          IF values = <<>> THEN RuntimeDefaults.listen_endpoints
          ELSE [i \in DOMAIN values |-> Endpoint(values[i].word, values[i].number)]
    BY <2>1 DEF RuntimeAsked, RuntimeDefaults
  <2>3. values \in Seq(Texts(q))
    BY <1>1, <1>2, <1>3, <2>1, GivenTexts
  <2>4. CASE state.explicit_listener
    <3>1. PICK list : list = state.config.listen_endpoints
      OBVIOUS
    <3>2. /\ Len(list) = Len(values) /\ values # <<>>
          /\ \A i \in 1..Len(values) : list[i] = Endpoint(values[i].word, values[i].number)
      BY <1>3, <1>4, <2>1, <2>4, <3>1 DEF ListHolds
    <3>3. list \in Seq(Endpoints)
      BY <3>1 DEF RuntimeState, IsRuntimeConfig
    <3>4. list = [i \in 1..Len(list) |-> list[i]] /\ DOMAIN values = 1..Len(values)
      BY <2>3, <3>3
    <3>5. list = [i \in DOMAIN values |-> Endpoint(values[i].word, values[i].number)]
      BY <3>2, <3>4
    <3> QED
      BY <2>2, <3>1, <3>2, <3>5
  <2>5. CASE ~state.explicit_listener
    <3>1. values = <<>> /\ state.config.listen_endpoints = RuntimeDefaults.listen_endpoints
      BY <1>3, <1>4, <2>1, <2>5 DEF ListHolds
    <3> QED
      BY <2>2, <3>1
  <2> QED
    BY <2>4, <2>5
<1>7. state.config = RuntimeAsked(words)
  <2>1. PICK asked : asked = RuntimeAsked(words)
    OBVIOUS
  <2>2. asked = [field \in RuntimeFields |-> asked[field]] /\ asked.healthy_after_packets = 2
    <3>1. DOMAIN asked = RuntimeFields
      BY <2>1 DEF RuntimeAsked, RuntimeFields, Counts, Durations
    <3>2. asked = [field \in DOMAIN asked |-> asked[field]]
      BY <2>1 DEF RuntimeAsked
    <3>3. asked.healthy_after_packets = 2
      BY <2>1 DEF RuntimeAsked
    <3> QED
      BY <3>1, <3>2, <3>3
  <2>3. /\ state.config = [field \in RuntimeFields |-> state.config[field]]
        /\ state.config.healthy_after_packets = 2
    BY <1>4 DEF RestHolds
  <2>4. ASSUME NEW field \in RuntimeFields
        PROVE  state.config[field] = asked[field]
    <3>1. CASE field \in {"listen_endpoints", "healthy_after_packets"}
      BY <1>6, <2>1, <2>2, <2>3, <3>1
    <3>2. CASE field \notin {"listen_endpoints", "healthy_after_packets"}
      <4>1. PICK option \in DOMAIN Field : Field[option] = field
        BY <3>2, FieldsNamed
      <4> QED
        BY <1>5, <2>1, <4>1
    <3> QED
      BY <3>1, <3>2
  <2> QED
    BY <2>1, <2>2, <2>3, <2>4
<1>8. PairsAsked(words)
  <2> SUFFICES ASSUME NEW i \in 1..N
               PROVE  IF q[i].option = "--listen" THEN IsEndpoint(q[i].value)
                      ELSE /\ q[i].option \in DOMAIN Field
                           /\ IsPositive(q[i].value)
                           /\ Len(Given(words, q[i].option)) = 1
    <3>1. DOMAIN q = 1..N
      BY <1>1, <1>2, LenProperties
    <3> QED
      BY <1>1, <3>1 DEF PairsAsked
  <2>1. CASE q[i].option = "--listen"
    BY <1>4, <2>1 DEF PairsHold
  <2>2. CASE q[i].option # "--listen"
    <3>1. /\ q[i].option \in state.seen /\ IsPositive(q[i].value)
          /\ q[i].option \in DOMAIN Field
      BY <1>4, <2>2 DEF PairsHold, RestHolds
    <3>2. FieldHolds(state, q, N, q[i].option)
      BY <1>4, <3>1 DEF FieldsHold
    <3>3. Len(Given(words, q[i].option)) = 1
      BY <1>3, <3>1, <3>2 DEF FieldHolds
    <3> QED
      BY <2>2, <3>1, <3>3
  <2> QED
    BY <2>1, <2>2
<1>9. LimitsAsked(words)
  <2>1. ASSUME NEW field \in Durations \cup {"poll_timeout"}
        PROVE  WithinLimit(field, RuntimeAsked(words)[field])
    <3>1. field \in RuntimeFields \ {"listen_endpoints", "healthy_after_packets"}
      BY DEF RuntimeFields, Durations
    <3>2. PICK option \in DOMAIN Field : Field[option] = field
      BY <3>1, FieldsNamed
    <3>3. WithinLimit(field, RuntimeDefaults[field])
      BY DefaultsWithin DEF WithinLimit, Durations
    <3> QED
      BY <1>5, <3>2, <3>3
  <2>2. WithinLimit("poll_timeout", RuntimeAsked(words)["poll_timeout"])
    BY <2>1
  <2> QED
    BY <2>1, <2>2 DEF WithinLimit, LimitsAsked
<1> QED
  BY <1>7, <1>8, <1>9

\* A line with a fault is not as the documentation asks.
LEMMA RuntimeFaulty ==
  ASSUME NEW words, words.pairs \in Seq(Range(words.pairs)),
         NEW i \in 1..Len(words.pairs), RuntimeFault(words.pairs, i)
  PROVE  ~(PairsAsked(words) /\ LimitsAsked(words))
<1> SUFFICES ASSUME PairsAsked(words), LimitsAsked(words) PROVE FALSE
  OBVIOUS
<1>1. PICK q : q = words.pairs
  OBVIOUS
<1>2. PICK N \in Nat : N = Len(q)
  BY <1>1, LenProperties
<1>3. \A option : Given(words, option) = GivenAt(option, q, N)
  BY <1>1, <1>2, GivenFold DEF GivenAt
<1>4. i \in DOMAIN words.pairs
  BY LenProperties
<1>5. PICK pair : pair = q[i]
  OBVIOUS
<1>6. /\ pair.option # "--listen" /\ pair.option \in DOMAIN Field
      /\ IsPositive(pair.value) /\ Len(Given(words, pair.option)) = 1
  <2>1. IF pair.option = "--listen" THEN IsEndpoint(pair.value)
        ELSE /\ pair.option \in DOMAIN Field
             /\ IsPositive(pair.value)
             /\ Len(Given(words, pair.option)) = 1
    BY <1>1, <1>4, <1>5 DEF PairsAsked
  <2>2. pair.option = "--listen" => ~IsEndpoint(pair.value)
    BY <1>1, <1>5 DEF RuntimeFault
  <2> QED
    BY <2>1, <2>2
<1>7. PICK field : field = Field[pair.option]
  OBVIOUS
<1>8. PICK values : values = Given(words, pair.option)
  OBVIOUS
<1>9. values[1] = pair.value /\ pair.value.number > LargestAccepted(field)
  BY <1>1, <1>2, <1>3, <1>5, <1>6, <1>7, <1>8 DEF RuntimeFault
<1>10. values # <<>>
  BY <1>6, <1>8, OneIsSome
<1>11. PICK n \in 0..NumberMax : n = pair.value.number
  BY <1>6 DEF IsPositive, IsUnsigned
<1>12. RuntimeAsked(words)[field] = Meant(field, n)
  BY <1>6, <1>7, <1>8, <1>9, <1>10, <1>11, FieldAsked
<1>13. WithinLimit(field, RuntimeAsked(words)[field])
  BY DEF LimitsAsked, WithinLimit
<1>14. n <= LargestAccepted(field)
  BY <1>12, <1>13, LimitIs
<1>15. n \in Nat /\ LargestAccepted(field) \in Int
  BY CommandLineAssumption, RuntimeConfigAssumption DEF LargestAccepted
<1> QED
  BY <1>9, <1>11, <1>14, <1>15

\* The parser of the runtime accepts the lines the documentation allows, and
\* makes of them what they ask for.
LEMMA RuntimeAnswer ==
  ASSUME NEW words, words.pairs \in Seq(Range(words.pairs))
  PROVE  LET result == ParseRuntimeConfig(words) IN
         /\ result.ok <=> RuntimeMayAsk(words)
         /\ result.ok => result.config = RuntimeAsked(words)
<1>1. PICK end : end = FoldLeft(ParseRuntimeOption, FirstRuntimeState, words.pairs)
  OBVIOUS
<1>2. /\ ParseRuntimeConfig(words).config = end.config
      /\ ParseRuntimeConfig(words).ok <=>
           /\ ~end.failed /\ Complete(words)
           /\ end.config.offline_after > end.config.degraded_after
  BY <1>1 DEF ParseRuntimeConfig, FirstRuntimeState
<1>3. RuntimeKnows(end, words.pairs, Len(words.pairs))
  BY <1>1, RuntimeEnd
<1>4. CASE end.failed
  <2>1. PICK i \in 1..Len(words.pairs) : RuntimeFault(words.pairs, i)
    BY <1>3, <1>4 DEF RuntimeKnows
  <2>2. ~RuntimeMayAsk(words)
    BY <2>1, RuntimeFaulty, MayAskIs
  <2> QED
    BY <1>2, <1>4, <2>2
<1>5. CASE ~end.failed
  <2>1. /\ end.config = RuntimeAsked(words)
        /\ PairsAsked(words) /\ LimitsAsked(words)
    BY <1>3, <1>5, RuntimeFaultless DEF RuntimeKnows
  <2>2. RuntimeMayAsk(words) <=> Complete(words) /\ OrderAsked(words)
    BY <2>1, MayAskIs
  <2> QED
    BY <1>2, <1>5, <2>1, <2>2 DEF OrderAsked
<1> QED
  BY <1>4, <1>5
-----------------------------------------------------------------------------
\* What the loop of the simulator's parser knows after n rounds.
FirstSimulatorState == [config |-> SimulatorDefaults, seen |-> {}, failed |-> FALSE]

TextHolds(state, q, n, option) ==
  LET values == GivenAt(option, q, n)
      field == SimulatorField[option]
  IN  IF option \in state.seen
      THEN /\ Len(values) = 1 /\ Readable(field, values[1])
           /\ state.config[field] = Assigned(field, values[1])
      ELSE values = <<>> /\ state.config[field] = SimulatorDefaults[field]

TextsHold(state, q, n) ==
  \A option \in DOMAIN SimulatorField : TextHolds(state, q, n, option)

OnceHold(state, q, n) ==
  /\ \A i \in 1..n : /\ q[i].option \in state.seen
                     /\ q[i].value = GivenAt(q[i].option, q, n)[1]
  /\ \A option \in state.seen : \E i \in 1..n : q[i].option = option

OthersHold(state) ==
  /\ state.config = [field \in SimulatorFields |-> state.config[field]]
  /\ state.seen \subseteq DOMAIN SimulatorField

SimulatorHolds(state, q, n) ==
  TextsHold(state, q, n) /\ OnceHold(state, q, n) /\ OthersHold(state)

\* A pair for which the loop refuses the line.
SimulatorFault(q, i) ==
  LET pair == q[i]
  IN  \/ pair.option \notin DOMAIN SimulatorField
      \/ Len(GivenAt(pair.option, q, Len(q))) # 1
      \/ ~Readable(SimulatorField[pair.option], pair.value)

SimulatorKnows(state, q, n) ==
  /\ SimulatorState(state)
  /\ state.failed => \E i \in 1..n : SimulatorFault(q, i)
  /\ ~state.failed => SimulatorHolds(state, q, n)

\* What a round does that does not refuse its pair.
LEMMA TextDoes ==
  ASSUME NEW state, SimulatorState(state), ~state.failed, NEW pair,
         pair.option \notin state.seen, pair.option \in DOMAIN SimulatorField,
         Readable(SimulatorField[pair.option], pair.value)
  PROVE  LET next == ParseSimulatorOption(state, pair)
             field == SimulatorField[pair.option] IN
         /\ ~next.failed /\ next.seen = state.seen \cup {pair.option}
         /\ next.config = [state.config EXCEPT ![field] = Assigned(field, pair.value)]
<1>1. PICK field : field = SimulatorField[pair.option]
  OBVIOUS
<1>2. PICK c : c = [state.config EXCEPT ![field] = Assigned(field, pair.value)]
  OBVIOUS
<1>3. PICK next : next = [state EXCEPT !.config = c, !.seen = @ \cup {pair.option}]
  OBVIOUS
<1>4. ParseSimulatorOption(state, pair) = next
  BY <1>1, <1>2, <1>3 DEF ParseSimulatorOption, SimulatorState
<1>5. /\ next.failed = state.failed /\ next.seen = state.seen \cup {pair.option}
      /\ next.config = c
  BY <1>3 DEF SimulatorState
<1> QED
  BY <1>1, <1>2, <1>4, <1>5

\* What the round refuses.
Denies(state, pair) ==
  \/ pair.option \in state.seen
  \/ pair.option \notin DOMAIN SimulatorField
  \/ ~Readable(SimulatorField[pair.option], pair.value)

LEMMA DenialDoes ==
  ASSUME NEW state, SimulatorState(state), ~state.failed, NEW pair, Denies(state, pair)
  PROVE  ParseSimulatorOption(state, pair).failed
<1>1. ParseSimulatorOption(state, pair) = [state EXCEPT !.failed = TRUE]
  BY DEF ParseSimulatorOption, Denies
<1> QED
  BY <1>1 DEF SimulatorState

\* Every option has a field of its own, and every field an option.
LEMMA SimulatorFieldNames ==
  /\ \A one, other \in DOMAIN SimulatorField :
       SimulatorField[one] = SimulatorField[other] => one = other
  /\ \A field \in SimulatorFields :
       \E option \in DOMAIN SimulatorField : SimulatorField[option] = field
<1>1. ASSUME NEW one \in DOMAIN SimulatorField, NEW other \in DOMAIN SimulatorField,
             SimulatorField[one] = SimulatorField[other]
      PROVE  one = other
  BY <1>1 DEF SimulatorField
<1> DEFINE Of(option, field) ==
             option \in DOMAIN SimulatorField /\ SimulatorField[option] = field
<1>2. /\ Of("--sensor", "sensor_type") /\ Of("--destination", "address")
      /\ Of("--port", "port") /\ Of("--rate-hz", "rate_hz")
      /\ Of("--count", "packet_count") /\ Of("--camera-extra-bytes", "camera_extra")
      /\ Of("--drop-every", "drop_every") /\ Of("--duplicate-every", "duplicate_every")
      /\ Of("--reorder-every", "reorder_every")
      /\ Of("--corrupt-every", "corrupt_every")
      /\ Of("--delay-every", "delay_every") /\ Of("--delay-ms", "delay_ms")
  BY DEF SimulatorField
<1> HIDE DEF Of
<1>3. \A field \in SimulatorFields : \E option : Of(option, field)
  BY <1>2 DEF SimulatorFields, Intervals
<1> QED
  BY <1>1, <1>3 DEF Of

LEMMA TextRound ==
  ASSUME NEW q, q \in Seq(Range(q)), NEW n \in Nat, n < Len(q), NEW state,
         SimulatorState(state), ~state.failed, SimulatorHolds(state, q, n),
         ~Denies(state, q[n + 1])
  PROVE  SimulatorHolds(ParseSimulatorOption(state, q[n + 1]), q, n + 1)
<1>1. PICK pair : pair = q[n + 1]
  OBVIOUS
<1>2. /\ pair.option \in DOMAIN SimulatorField /\ pair.option \notin state.seen
      /\ Readable(SimulatorField[pair.option], pair.value)
  BY <1>1 DEF Denies
<1>3. PICK mine : mine = SimulatorField[pair.option]
  OBVIOUS
<1>4. PICK next : next = ParseSimulatorOption(state, pair)
  OBVIOUS
<1>5. /\ ~next.failed /\ next.seen = state.seen \cup {pair.option}
      /\ next.config = [state.config EXCEPT ![mine] = Assigned(mine, pair.value)]
  BY <1>1, <1>2, <1>3, <1>4, TextDoes
<1>6. DOMAIN state.config = SimulatorFields /\ mine \in SimulatorFields
  BY <1>2, <1>3, SimulatorFieldIs DEF SimulatorState, IsSimulatorConfig
<1>7. /\ next.config[mine] = Assigned(mine, pair.value)
      /\ \A field \in SimulatorFields : field # mine => next.config[field] = state.config[field]
      /\ next.config = [field \in SimulatorFields |-> next.config[field]]
  BY <1>5, <1>6
<1>8. ASSUME NEW option, option # pair.option
      PROVE  GivenAt(option, q, n + 1) = GivenAt(option, q, n)
  BY <1>1, <1>8, OthersKept
<1>9. PICK values : values = GivenAt(pair.option, q, n + 1)
  OBVIOUS
<1>10. Len(values) = 1 /\ values[1] = pair.value
  <2>1. TextHolds(state, q, n, pair.option)
    BY <1>2 DEF SimulatorHolds, TextsHold
  <2>2. GivenAt(pair.option, q, n) = <<>>
    BY <1>2, <2>1 DEF TextHolds
  <2>3. values = Append(<<>>, pair.value)
    BY <1>1, <1>9, <2>2, OthersKept
  <2> QED
    BY <2>3
<1>11. TextsHold(next, q, n + 1)
  <2> SUFFICES ASSUME NEW option \in DOMAIN SimulatorField
               PROVE  TextHolds(next, q, n + 1, option)
    BY DEF TextsHold
  <2>1. TextHolds(state, q, n, option)
    BY DEF SimulatorHolds, TextsHold
  <2>2. CASE option = pair.option
    BY <1>2, <1>3, <1>5, <1>7, <1>9, <1>10, <2>2 DEF TextHolds
  <2>3. CASE option # pair.option
    <3>1. next.config[SimulatorField[option]] = state.config[SimulatorField[option]]
      BY <1>2, <1>3, <1>7, <2>3, SimulatorFieldNames, SimulatorFieldIs
    <3>2. option \in next.seen <=> option \in state.seen
      BY <1>5, <2>3
    <3> QED
      BY <1>8, <2>1, <2>3, <3>1, <3>2 DEF TextHolds
  <2> QED
    BY <2>2, <2>3
<1>12. OnceHold(next, q, n + 1)
  <2>3. ASSUME NEW option \in next.seen
        PROVE  \E i \in 1..(n + 1) : q[i].option = option
    <3>1. CASE option = pair.option
      <4>1. n + 1 \in 1..(n + 1)
        OBVIOUS
      <4> QED
        BY <1>1, <3>1, <4>1
    <3>2. CASE option # pair.option
      <4>1. option \in state.seen
        BY <1>5, <3>2
      <4>2. PICK i \in 1..n : q[i].option = option
        BY <4>1 DEF SimulatorHolds, OnceHold
      <4>3. i \in 1..(n + 1)
        OBVIOUS
      <4> QED
        BY <4>2, <4>3
    <3> QED
      BY <3>1, <3>2
  <2> SUFFICES ASSUME NEW i \in 1..(n + 1)
               PROVE  /\ q[i].option \in next.seen
                      /\ q[i].value = GivenAt(q[i].option, q, n + 1)[1]
    BY <2>3 DEF OnceHold
  <2>1. CASE i = n + 1
    BY <1>1, <1>5, <1>9, <1>10, <2>1
  <2>2. CASE i # n + 1
    <3>1. i \in 1..n
      BY <2>2
    <3>2. /\ q[i].option \in state.seen
          /\ q[i].value = GivenAt(q[i].option, q, n)[1]
      BY <3>1 DEF SimulatorHolds, OnceHold
    <3>3. q[i].option # pair.option
      BY <1>2, <3>2
    <3> QED
      BY <1>5, <1>8, <3>2, <3>3
  <2> QED
    BY <2>1, <2>2
<1>13. OthersHold(next)
  BY <1>2, <1>5, <1>7 DEF SimulatorHolds, OthersHold
<1> QED
  BY <1>1, <1>4, <1>11, <1>12, <1>13 DEF SimulatorHolds

\* What a round refuses is at fault, whatever comes after it.
LEMMA DeniedFault ==
  ASSUME NEW q, q \in Seq(Range(q)), NEW n \in Nat, n < Len(q), NEW state,
         SimulatorHolds(state, q, n), Denies(state, q[n + 1])
  PROVE  SimulatorFault(q, n + 1)
<1>1. PICK pair : pair = q[n + 1]
  OBVIOUS
<1>2. CASE \/ pair.option \notin DOMAIN SimulatorField
           \/ ~Readable(SimulatorField[pair.option], pair.value)
  BY <1>1, <1>2 DEF SimulatorFault
<1>3. CASE pair.option \in DOMAIN SimulatorField /\ pair.option \in state.seen
  <2>1. PICK option : option = pair.option
    OBVIOUS
  <2>2. PICK N \in Nat : N = Len(q)
    BY LenProperties
  <2>3. PICK before \in Seq(Texts(q)) : before = GivenAt(option, q, n)
    BY OthersKept
  <2>4. PICK after : after = GivenAt(option, q, n + 1)
    OBVIOUS
  <2>5. after = Append(before, pair.value) /\ pair.value \in Texts(q)
    BY <1>1, <2>1, <2>3, <2>4, OthersKept
  <2>6. Len(after) = Len(before) + 1
    BY <2>5, Appended
  <2>7. Len(before) = 1
    BY <1>3, <2>1, <2>3 DEF SimulatorHolds, TextsHold, TextHolds
  <2>8. PICK values \in Seq(Texts(q)) : values = GivenAt(option, q, N)
    BY <2>2, GivenTexts
  <2>9. Begins(after, values)
    <3>1. n + 1 \in Nat /\ n + 1 <= N
      BY <2>2
    <3> QED
      BY <2>2, <2>4, <2>8, <3>1, GivenKept
  <2>10. Len(values) # 1
    <3>1. Len(values) \in Nat
      BY <2>8, LenProperties
    <3> QED
      BY <2>6, <2>7, <2>9, <3>1 DEF Begins
  <2> QED
    BY <1>1, <2>1, <2>2, <2>8, <2>10 DEF SimulatorFault
<1> QED
  BY <1>1, <1>2, <1>3 DEF Denies

LEMMA SimulatorKnowsRound ==
  ASSUME NEW q, q \in Seq(Range(q)), NEW n \in Nat, n < Len(q), NEW state,
         SimulatorKnows(state, q, n)
  PROVE  SimulatorKnows(ParseSimulatorOption(state, q[n + 1]), q, n + 1)
<1>1. PICK next : next = ParseSimulatorOption(state, q[n + 1])
  OBVIOUS
<1>2. SimulatorState(state) /\ SimulatorState(next)
  BY <1>1, SimulatorRound DEF SimulatorKnows
<1>3. CASE state.failed
  <2>1. next = state
    BY <1>1, <1>3 DEF ParseSimulatorOption
  <2>2. PICK i \in 1..n : SimulatorFault(q, i)
    BY <1>3 DEF SimulatorKnows
  <2>3. i \in 1..(n + 1)
    OBVIOUS
  <2> QED
    BY <1>1, <1>2, <1>3, <2>1, <2>2, <2>3 DEF SimulatorKnows
<1>4. CASE ~state.failed /\ Denies(state, q[n + 1])
  <2>1. next.failed
    BY <1>1, <1>2, <1>4, DenialDoes
  <2>2. SimulatorFault(q, n + 1)
    BY <1>4, DeniedFault DEF SimulatorKnows
  <2>3. n + 1 \in 1..(n + 1)
    OBVIOUS
  <2> QED
    BY <1>1, <1>2, <2>1, <2>2, <2>3 DEF SimulatorKnows
<1>5. CASE ~state.failed /\ ~Denies(state, q[n + 1])
  <2>1. SimulatorHolds(next, q, n + 1)
    BY <1>1, <1>2, <1>5, TextRound DEF SimulatorKnows
  <2>2. ~next.failed
    BY <1>1, <1>2, <1>5, TextDoes DEF Denies
  <2> QED
    BY <1>1, <1>2, <2>1, <2>2 DEF SimulatorKnows
<1> QED
  BY <1>3, <1>4, <1>5

LEMMA SimulatorEnd ==
  ASSUME NEW q, q \in Seq(Range(q))
  PROVE  SimulatorKnows(FoldLeft(ParseSimulatorOption, FirstSimulatorState, q), q, Len(q))
<1>1. PICK N \in Nat : N = Len(q)
  BY LenProperties
<1> DEFINE at(n) == SimulatorAt(FirstSimulatorState, q, n)
           S == {n \in Nat : SimulatorKnows(at(n), q, n)}
<1>2. FoldLeft(ParseSimulatorOption, FirstSimulatorState, q) = at(N)
  BY <1>1, SimulatorFold DEF SimulatorAt
<1>3. /\ at(0) = FirstSimulatorState
      /\ \A n \in Nat : n < N => at(n + 1) = ParseSimulatorOption(at(n), q[n + 1])
  <2>1. SimulatorRuns(FirstSimulatorState, q)
    BY SimulatorAtIs
  <2> QED
    BY <1>1, <2>1 DEF SimulatorRuns
<1> HIDE DEF at
<1>4. 0 \in S
  <2>1. PICK start : start = FirstSimulatorState
    OBVIOUS
  <2>2. SimulatorState(start)
    BY <2>1, SimulatorStart DEF FirstSimulatorState
  <2>3. PICK c : c = SimulatorDefaults
    OBVIOUS
  <2>4. start.config = c /\ start.seen = {} /\ ~start.failed
    BY <2>1, <2>3 DEF FirstSimulatorState
  <2>5. \A option : GivenAt(option, q, 0) = <<>>
    BY GivenAtIs DEF GivenRuns
  <2>6. TextsHold(start, q, 0)
    BY <2>3, <2>4, <2>5 DEF TextsHold, TextHolds
  <2>7. OnceHold(start, q, 0)
    BY <2>4 DEF OnceHold
  <2>8. OthersHold(start)
    <3>1. c = [field \in SimulatorFields |-> c[field]]
      BY <2>3 DEF SimulatorDefaults, SimulatorFields, Intervals
    <3> QED
      BY <2>4, <3>1 DEF OthersHold
  <2> QED
    BY <1>3, <2>1, <2>2, <2>4, <2>6, <2>7, <2>8 DEF SimulatorKnows, SimulatorHolds
<1>5. ASSUME NEW n \in Nat, n < N, n \in S
      PROVE  n + 1 \in S
  <2>1. SimulatorKnows(ParseSimulatorOption(at(n), q[n + 1]), q, n + 1)
    BY <1>1, <1>5, SimulatorKnowsRound
  <2> QED
    BY <1>3, <1>5, <2>1
<1> HIDE DEF S
<1>6. \A n \in Nat : n <= N => n \in S
  BY <1>4, <1>5, Upwards
<1> QED
  BY <1>1, <1>2, <1>6 DEF S
-----------------------------------------------------------------------------
\* The check inside the loop, option by option.
LEMMA ReadableIs ==
  ASSUME NEW text
  PROVE  /\ Readable("sensor_type", text) <=> text.word \in Sensors
         /\ Readable("address", text)
         /\ Readable("port", text) <=> IsUnsigned(text) /\ text.number <= PortMax
         /\ Readable("rate_hz", text) <=> text.word \in {"", "inf", "nan"}
         /\ Readable("packet_count", text) <=> IsUnsigned(text)
         /\ Readable("camera_extra", text) <=> IsUnsigned(text)
         /\ Readable("delay_ms", text) <=> IsPositive(text) /\ text.number <= MaximumFaultDelay
         /\ \A field \in Intervals : Readable(field, text) <=> IsPositive(text)
<1>1. Readable("sensor_type", text) <=> text.word \in Sensors
  BY DEF Readable, Intervals
<1>2. Readable("address", text)
  BY DEF Readable, Intervals
<1>3. Readable("port", text) <=> IsUnsigned(text) /\ text.number <= PortMax
  BY DEF Readable, Intervals
<1>4. Readable("rate_hz", text) <=> text.word \in {"", "inf", "nan"}
  BY DEF Readable, Intervals
<1>5. Readable("packet_count", text) <=> IsUnsigned(text)
  BY DEF Readable, Intervals
<1>6. Readable("camera_extra", text) <=> IsUnsigned(text)
  BY DEF Readable, Intervals
<1>7. Readable("delay_ms", text) <=> IsPositive(text) /\ text.number <= MaximumFaultDelay
  BY DEF Readable, Intervals
<1>8. \A field \in Intervals : Readable(field, text) <=> IsPositive(text)
  BY DEF Readable, Intervals
<1> QED
  BY <1>1, <1>2, <1>3, <1>4, <1>5, <1>6, <1>7, <1>8

\* The options whose value is a number of packets.
Every == {"--drop-every", "--duplicate-every", "--reorder-every", "--corrupt-every",
          "--delay-every"}

LEMMA AllowedIs ==
  ASSUME NEW words, NEW text
  PROVE  /\ Allowed(words, "--sensor", text) <=> text.word \in Sensors
         /\ Allowed(words, "--destination", text) <=> text.word \in Addresses
         /\ Allowed(words, "--port", text) <=> text.word = "" /\ text.number \in 1..PortMax
         /\ Allowed(words, "--rate-hz", text) <=> FiniteRate(text)
         /\ Allowed(words, "--count", text) <=> IsPositive(text)
         /\ Allowed(words, "--camera-extra-bytes", text) <=>
              /\ IsUnsigned(text)
              /\ \/ text.number = 0
                 \/ /\ text.number <= MaxCameraExtraDataSize
                    /\ Given(words, "--sensor")[1].word = "camera"
         /\ Allowed(words, "--delay-ms", text) <=>
              text.word = "" /\ text.number \in 1..MaximumFaultDelay
         /\ \A option \in Every : Allowed(words, option, text) <=> IsPositive(text)
<1>1. Allowed(words, "--sensor", text) <=> text.word \in Sensors
  BY DEF Allowed
<1>2. Allowed(words, "--destination", text) <=> text.word \in Addresses
  BY DEF Allowed
<1>3. Allowed(words, "--port", text) <=> text.word = "" /\ text.number \in 1..PortMax
  BY DEF Allowed
<1>4. Allowed(words, "--rate-hz", text) <=> FiniteRate(text)
  BY DEF Allowed, FiniteRate
<1>5. Allowed(words, "--count", text) <=> IsPositive(text)
  BY DEF Allowed
<1>6. Allowed(words, "--camera-extra-bytes", text) <=>
        /\ IsUnsigned(text)
        /\ \/ text.number = 0
           \/ /\ text.number <= MaxCameraExtraDataSize
              /\ Given(words, "--sensor")[1].word = "camera"
  BY DEF Allowed
<1>7. Allowed(words, "--delay-ms", text) <=>
        text.word = "" /\ text.number \in 1..MaximumFaultDelay
  BY DEF Allowed
<1>8. \A option \in Every : Allowed(words, option, text) <=> IsPositive(text)
  BY DEF Allowed, Every
<1> QED
  BY <1>1, <1>2, <1>3, <1>4, <1>5, <1>6, <1>7, <1>8

\* The fields and the options of the simulator, by name.
LEMMA SimulatorFieldsAre ==
  /\ SimulatorField["--sensor"] = "sensor_type"
  /\ SimulatorField["--destination"] = "address"
  /\ SimulatorField["--port"] = "port"
  /\ SimulatorField["--rate-hz"] = "rate_hz"
  /\ SimulatorField["--count"] = "packet_count"
  /\ SimulatorField["--camera-extra-bytes"] = "camera_extra"
  /\ SimulatorField["--delay-ms"] = "delay_ms"
  /\ SimulatorField["--delay-every"] = "delay_every"
  /\ \A option \in Every : SimulatorField[option] \in Intervals
  /\ DOMAIN SimulatorField =
       Every \cup {"--sensor", "--destination", "--port", "--rate-hz", "--count",
                   "--camera-extra-bytes", "--delay-ms"}
<1>1. DOMAIN SimulatorField =
        Every \cup {"--sensor", "--destination", "--port", "--rate-hz", "--count",
                    "--camera-extra-bytes", "--delay-ms"}
  BY DEF SimulatorField, Every
<1>2. \A option \in Every : SimulatorField[option] \in Intervals
  BY DEF SimulatorField, Every, Intervals
<1> QED
  BY <1>1, <1>2 DEF SimulatorField

\* A number with no word, within a limit the type can hold.
LEMMA InRange ==
  ASSUME NEW text, NEW max \in 0..NumberMax
  PROVE  /\ text.word = "" /\ text.number \in 1..max <=>
              IsPositive(text) /\ text.number <= max
         /\ IsPositive(text) <=> IsUnsigned(text) /\ text.number # 0
<1>1. NumberMax \in Nat
  BY CommandLineAssumption
<1>2. text.number \in 1..max <=>
        text.number \in 0..NumberMax /\ text.number # 0 /\ text.number <= max
  BY <1>1
<1> QED
  BY <1>2 DEF IsPositive, IsUnsigned

\* What the documentation allows the loop reads.
LEMMA AllowedReadable ==
  ASSUME NEW words, NEW option \in DOMAIN SimulatorField, NEW text,
         Allowed(words, option, text)
  PROVE  Readable(SimulatorField[option], text)
<1>1. CASE option \in {"--sensor", "--destination", "--rate-hz"}
  <2>1. CASE option = "--sensor"
    BY <2>1, AllowedIs, ReadableIs, SimulatorFieldsAre
  <2>2. CASE option = "--destination"
    BY <2>2, ReadableIs, SimulatorFieldsAre
  <2>3. CASE option = "--rate-hz"
    <3>1. text.word = ""
      BY <2>3, AllowedIs DEF FiniteRate
    <3> QED
      BY <2>3, <3>1, ReadableIs, SimulatorFieldsAre
  <2> QED
    BY <1>1, <2>1, <2>2, <2>3
<1>2. CASE option = "--port"
  <2>1. text.word = "" /\ text.number \in 1..PortMax
    BY <1>2, AllowedIs
  <2>2. PortMax \in 0..NumberMax
    BY CommandLineAssumption
  <2>3. IsUnsigned(text) /\ text.number <= PortMax
    BY <2>1, <2>2, InRange
  <2> QED
    BY <1>2, <2>3, ReadableIs, SimulatorFieldsAre
<1>3. CASE option \in {"--count", "--camera-extra-bytes"}
  <2>1. IsUnsigned(text)
    BY <1>3, AllowedIs DEF IsPositive
  <2> QED
    BY <1>3, <2>1, ReadableIs, SimulatorFieldsAre
<1>4. CASE option = "--delay-ms"
  <2>1. text.word = "" /\ text.number \in 1..MaximumFaultDelay
    BY <1>4, AllowedIs
  <2>2. MaximumFaultDelay \in 0..NumberMax
    BY CommandLineAssumption, SimulatorConfigAssumption
  <2>3. IsPositive(text) /\ text.number <= MaximumFaultDelay
    BY <2>1, <2>2, InRange
  <2> QED
    BY <1>4, <2>3, ReadableIs, SimulatorFieldsAre
<1>5. CASE option \in Every
  BY <1>5, AllowedIs, ReadableIs, SimulatorFieldsAre
<1> QED
  BY <1>1, <1>2, <1>3, <1>4, <1>5, SimulatorFieldsAre

\* What the loop leaves when no pair was refused, said of the line.
Settled(words, state) ==
  /\ \A option \in DOMAIN SimulatorField :
       LET values == Given(words, option)
           field == SimulatorField[option]
       IN  /\ option \in state.seen =>
                /\ Len(values) = 1 /\ values # <<>> /\ Readable(field, values[1])
                /\ state.config[field] = Assigned(field, values[1])
           /\ option \notin state.seen =>
                /\ Len(values) = 0 /\ values = <<>>
                /\ state.config[field] = SimulatorDefaults[field]
  /\ \A i \in DOMAIN words.pairs :
       /\ words.pairs[i].option \in state.seen
       /\ words.pairs[i].value = Given(words, words.pairs[i].option)[1]
  /\ \A option \in state.seen :
       /\ option \in DOMAIN SimulatorField
       /\ \E i \in DOMAIN words.pairs : words.pairs[i].option = option
  /\ state.config = [field \in SimulatorFields |-> state.config[field]]

LEMMA SimulatorSettled ==
  ASSUME NEW words, words.pairs \in Seq(Range(words.pairs)), NEW state,
         SimulatorHolds(state, words.pairs, Len(words.pairs))
  PROVE  Settled(words, state)
<1>1. PICK q : q = words.pairs
  OBVIOUS
<1>2. PICK N \in Nat : N = Len(q)
  BY <1>1, LenProperties
<1>3. \A option : Given(words, option) = GivenAt(option, q, N)
  BY <1>1, <1>2, GivenFold DEF GivenAt
<1>4. TextsHold(state, q, N) /\ OnceHold(state, q, N) /\ OthersHold(state)
  BY <1>1, <1>2 DEF SimulatorHolds
<1>5. DOMAIN q = 1..N
  BY <1>1, <1>2, LenProperties
<1>6. ASSUME NEW option \in DOMAIN SimulatorField, NEW values, values = Given(words, option),
             NEW field, field = SimulatorField[option]
      PROVE  /\ option \in state.seen =>
                  /\ Len(values) = 1 /\ values # <<>> /\ Readable(field, values[1])
                  /\ state.config[field] = Assigned(field, values[1])
             /\ option \notin state.seen =>
                  /\ Len(values) = 0 /\ values = <<>>
                  /\ state.config[field] = SimulatorDefaults[field]
  <2>1. TextHolds(state, q, N, option)
    BY <1>4 DEF TextsHold
  <2>2. CASE option \in state.seen
    <3>1. /\ Len(values) = 1 /\ Readable(field, values[1])
          /\ state.config[field] = Assigned(field, values[1])
      BY <1>3, <1>6, <2>1, <2>2 DEF TextHolds
    <3>2. values # <<>>
      BY <3>1, OneIsSome
    <3> QED
      BY <2>2, <3>1, <3>2
  <2>3. CASE option \notin state.seen
    <3>1. values = <<>> /\ state.config[field] = SimulatorDefaults[field]
      BY <1>3, <1>6, <2>1, <2>3 DEF TextHolds
    <3>2. Len(values) = 0
      BY <3>1, EmptySeq
    <3> QED
      BY <2>3, <3>1, <3>2
  <2> QED
    BY <2>2, <2>3
<1>7. /\ \A i \in 1..N : /\ q[i].option \in state.seen
                         /\ q[i].value = Given(words, q[i].option)[1]
      /\ \A option \in state.seen : \E i \in 1..N : q[i].option = option
  BY <1>3, <1>4 DEF OnceHold
<1>8. /\ state.seen \subseteq DOMAIN SimulatorField
      /\ state.config = [field \in SimulatorFields |-> state.config[field]]
  BY <1>4 DEF OthersHold
<1> QED
  BY <1>1, <1>5, <1>6, <1>7, <1>8 DEF Settled

\* The configuration with the rate its sensor has if none was given.
WithRate(state) ==
  IF "--rate-hz" \in state.seen THEN state.config
  ELSE [state.config EXCEPT !.rate_hz = Rate(DefaultRate[state.config.sensor_type])]

LEMMA WithRateIs ==
  ASSUME NEW words, NEW state, Settled(words, state)
  PROVE  /\ WithRate(state) = [field \in SimulatorFields |-> WithRate(state)[field]]
         /\ \A field \in SimulatorFields : field # "rate_hz" =>
              WithRate(state)[field] = state.config[field]
         /\ "--rate-hz" \in state.seen =>
              WithRate(state).rate_hz = Given(words, "--rate-hz")[1]
         /\ "--rate-hz" \notin state.seen =>
              /\ WithRate(state).rate_hz = Rate(DefaultRate[state.config.sensor_type])
              /\ Given(words, "--rate-hz") = <<>>
<1>1. state.config = [field \in SimulatorFields |-> state.config[field]]
  BY DEF Settled
<1>2. "rate_hz" \in SimulatorFields
  BY DEF SimulatorFields
<1>3. "--rate-hz" \in DOMAIN SimulatorField /\ SimulatorField["--rate-hz"] = "rate_hz"
  BY SimulatorFieldsAre
<1>4. PICK c : c = WithRate(state)
  OBVIOUS
<1>5. CASE "--rate-hz" \in state.seen
  <2>1. c = state.config
    BY <1>4, <1>5 DEF WithRate
  <2>2. state.config["rate_hz"] = Assigned("rate_hz", Given(words, "--rate-hz")[1])
    BY <1>3, <1>5 DEF Settled
  <2>3. state.config["rate_hz"] = Given(words, "--rate-hz")[1]
    BY <2>2 DEF Assigned
  <2> QED
    BY <1>1, <1>4, <1>5, <2>1, <2>3
<1>6. CASE "--rate-hz" \notin state.seen
  <2>1. PICK rate : rate = Rate(DefaultRate[state.config.sensor_type])
    OBVIOUS
  <2>2. c = [state.config EXCEPT !.rate_hz = rate]
    BY <1>4, <1>6, <2>1 DEF WithRate
  <2>3. /\ c.rate_hz = rate
        /\ \A field \in SimulatorFields : field # "rate_hz" => c[field] = state.config[field]
        /\ c = [field \in SimulatorFields |-> c[field]]
    BY <1>1, <1>2, <2>2
  <2>4. Given(words, "--rate-hz") = <<>>
    BY <1>3, <1>6 DEF Settled
  <2> QED
    BY <1>4, <1>6, <2>1, <2>3, <2>4
<1> QED
  BY <1>5, <1>6

\* The conditions the documentation puts on the pairs.
PairsAllowed(words) ==
  \A i \in DOMAIN words.pairs :
    LET pair == words.pairs[i] IN
    /\ pair.option \in DOMAIN SimulatorField
    /\ Len(Given(words, pair.option)) = 1
    /\ Allowed(words, pair.option, pair.value)

ValuesAllowed(words, state) ==
  \A option \in state.seen : Allowed(words, option, Given(words, option)[1])

LEMMA PairsAreValues ==
  ASSUME NEW words, NEW state, Settled(words, state)
  PROVE  PairsAllowed(words) <=> ValuesAllowed(words, state)
<1>1. ASSUME PairsAllowed(words), NEW option \in state.seen
      PROVE  Allowed(words, option, Given(words, option)[1])
  <2>1. PICK i \in DOMAIN words.pairs : words.pairs[i].option = option
    BY DEF Settled
  <2>2. words.pairs[i].value = Given(words, option)[1]
    BY <2>1 DEF Settled
  <2> QED
    BY <1>1, <2>1, <2>2 DEF PairsAllowed
<1>2. ASSUME ValuesAllowed(words, state), NEW i \in DOMAIN words.pairs
      PROVE  /\ words.pairs[i].option \in DOMAIN SimulatorField
             /\ Len(Given(words, words.pairs[i].option)) = 1
             /\ Allowed(words, words.pairs[i].option, words.pairs[i].value)
  <2>1. PICK option : option = words.pairs[i].option
    OBVIOUS
  <2>2. /\ option \in state.seen /\ option \in DOMAIN SimulatorField
        /\ words.pairs[i].value = Given(words, option)[1]
    BY <2>1 DEF Settled
  <2>3. Len(Given(words, option)) = 1
    BY <2>2 DEF Settled
  <2>4. Allowed(words, option, Given(words, option)[1])
    BY <1>2, <2>2 DEF ValuesAllowed
  <2> QED
    BY <2>1, <2>2, <2>3, <2>4
<1> QED
  BY <1>1, <1>2 DEF PairsAllowed, ValuesAllowed

\* A line with a pair the loop refuses is not as the documentation asks.
LEMMA SimulatorFaulty ==
  ASSUME NEW words, words.pairs \in Seq(Range(words.pairs)),
         NEW i \in 1..Len(words.pairs), SimulatorFault(words.pairs, i)
  PROVE  ~PairsAllowed(words)
<1> SUFFICES ASSUME PairsAllowed(words) PROVE FALSE
  OBVIOUS
<1>1. PICK q : q = words.pairs
  OBVIOUS
<1>2. PICK N \in Nat : N = Len(q)
  BY <1>1, LenProperties
<1>3. \A option : Given(words, option) = GivenAt(option, q, N)
  BY <1>1, <1>2, GivenFold DEF GivenAt
<1>4. i \in DOMAIN words.pairs
  BY LenProperties
<1>5. PICK pair : pair = q[i]
  OBVIOUS
<1>6. /\ pair.option \in DOMAIN SimulatorField
      /\ Len(Given(words, pair.option)) = 1
      /\ Allowed(words, pair.option, pair.value)
  BY <1>1, <1>4, <1>5 DEF PairsAllowed
<1>7. Readable(SimulatorField[pair.option], pair.value)
  BY <1>6, AllowedReadable
<1> QED
  BY <1>1, <1>2, <1>3, <1>5, <1>6, <1>7 DEF SimulatorFault

\* What the value of one option has become.
LEMMA ValueIs ==
  ASSUME NEW words, NEW state, Settled(words, state),
         NEW option \in DOMAIN SimulatorField, NEW field, field = SimulatorField[option],
         NEW text, text = Given(words, option)[1]
  PROVE  /\ option \in state.seen =>
              /\ Readable(field, text) /\ state.config[field] = Assigned(field, text)
              /\ Given(words, option) # <<>> /\ Len(Given(words, option)) = 1
         /\ option \notin state.seen =>
              /\ state.config[field] = SimulatorDefaults[field]
              /\ Given(words, option) = <<>> /\ Len(Given(words, option)) = 0
  BY DEF Settled

\* The checks after the loop are those of the documentation.
LEMMA ChecksAre ==
  ASSUME NEW words, NEW state, Settled(words, state), SimulatorState(state),
         "--sensor" \in state.seen
  PROVE  CommonChecks(WithRate(state)) <=> ValuesAllowed(words, state)
<1> DEFINE V(option) == Given(words, option)[1]
           Ok(option) == option \in state.seen => Allowed(words, option, V(option))
<1>1. PICK c : c = WithRate(state)
  OBVIOUS
<1>2. /\ c["address"] = state.config["address"] /\ c["port"] = state.config["port"]
      /\ c["packet_count"] = state.config["packet_count"]
      /\ c["camera_extra"] = state.config["camera_extra"]
      /\ c["sensor_type"] = state.config["sensor_type"]
  BY <1>1, WithRateIs DEF SimulatorFields
<1>3. /\ "--sensor" \in DOMAIN SimulatorField /\ "--destination" \in DOMAIN SimulatorField
      /\ "--port" \in DOMAIN SimulatorField /\ "--rate-hz" \in DOMAIN SimulatorField
      /\ "--count" \in DOMAIN SimulatorField /\ "--delay-ms" \in DOMAIN SimulatorField
      /\ "--camera-extra-bytes" \in DOMAIN SimulatorField
      /\ \A option \in Every : option \in DOMAIN SimulatorField
  BY SimulatorFieldsAre
<1>4. c.sensor_type = V("--sensor").word
  <2>1. state.config["sensor_type"] = Assigned("sensor_type", V("--sensor"))
    BY <1>3, SimulatorFieldsAre, ValueIs
  <2>2. Assigned("sensor_type", V("--sensor")) = V("--sensor").word
    BY DEF Assigned
  <2> QED
    BY <1>2, <2>1, <2>2
<1>5. c.address \in Addresses <=> Ok("--destination")
  <2>1. PICK text : text = V("--destination")
    OBVIOUS
  <2>2. CASE "--destination" \in state.seen
    <3>1. state.config["address"] = Assigned("address", text)
      BY <1>3, <2>1, <2>2, SimulatorFieldsAre, ValueIs
    <3>2. state.config["address"] = text.word
      BY <3>1 DEF Assigned
    <3>3. Allowed(words, "--destination", text) <=> text.word \in Addresses
      BY AllowedIs
    <3> QED
      BY <1>2, <2>1, <2>2, <3>2, <3>3
  <2>3. CASE "--destination" \notin state.seen
    <3>1. state.config["address"] = SimulatorDefaults["address"]
      BY <1>3, <2>1, <2>3, SimulatorFieldsAre, ValueIs
    <3>2. state.config["address"] = "127.0.0.1"
      BY <3>1 DEF SimulatorDefaults
    <3> QED
      BY <1>2, <2>3, <3>2, CommandLineAssumption
  <2> QED
    BY <2>2, <2>3
<1>6. c.port # 0 <=> Ok("--port")
  <2>1. PICK text : text = V("--port")
    OBVIOUS
  <2>2. CASE "--port" \in state.seen
    <3>1. Readable("port", text) /\ state.config["port"] = Assigned("port", text)
      BY <1>3, <2>1, <2>2, SimulatorFieldsAre, ValueIs
    <3>2. state.config["port"] = text.number
      BY <3>1 DEF Assigned
    <3>3. IsUnsigned(text) /\ text.number <= PortMax
      BY <3>1, ReadableIs
    <3>4. Allowed(words, "--port", text) <=> text.word = "" /\ text.number \in 1..PortMax
      BY AllowedIs
    <3>5. PortMax \in 0..NumberMax
      BY CommandLineAssumption
    <3>6. Allowed(words, "--port", text) <=> text.number # 0
      BY <3>3, <3>4, <3>5, InRange
    <3> QED
      BY <1>2, <2>1, <2>2, <3>2, <3>6
  <2>3. CASE "--port" \notin state.seen
    <3>1. state.config["port"] = SimulatorDefaults["port"]
      BY <1>3, <2>1, <2>3, SimulatorFieldsAre, ValueIs
    <3>2. state.config["port"] = 1
      BY <3>1 DEF SimulatorDefaults
    <3> QED
      BY <1>2, <2>3, <3>2
  <2> QED
    BY <2>2, <2>3
<1>7. FiniteRate(c.rate_hz) <=> Ok("--rate-hz")
  <2>1. CASE "--rate-hz" \in state.seen
    <3>1. c.rate_hz = V("--rate-hz")
      BY <1>1, <2>1, WithRateIs
    <3>2. Allowed(words, "--rate-hz", V("--rate-hz")) <=> FiniteRate(V("--rate-hz"))
      BY AllowedIs
    <3> QED
      BY <2>1, <3>1, <3>2
  <2>2. CASE "--rate-hz" \notin state.seen
    <3>1. c.rate_hz = Rate(DefaultRate[state.config.sensor_type])
      BY <1>1, <2>2, WithRateIs
    <3>2. state.config.sensor_type \in Sensors
      BY DEF SimulatorState, IsSimulatorConfig
    <3>3. DefaultRate[state.config.sensor_type] \in {1, 2, 3}
      BY <3>2 DEF DefaultRate, Sensors
    <3>4. FiniteRate(Rate(DefaultRate[state.config.sensor_type]))
      BY <3>3, SimulatorConfigAssumption DEF FiniteRate, Rate
    <3> QED
      BY <2>2, <3>1, <3>4
  <2> QED
    BY <2>1, <2>2
<1>8. c.packet_count # 0 <=> Ok("--count")
  <2>1. PICK text : text = V("--count")
    OBVIOUS
  <2>2. CASE "--count" \in state.seen
    <3>1. Readable("packet_count", text)
          /\ state.config["packet_count"] = Assigned("packet_count", text)
      BY <1>3, <2>1, <2>2, SimulatorFieldsAre, ValueIs
    <3>2. state.config["packet_count"] = text.number
      BY <3>1 DEF Assigned
    <3>3. IsUnsigned(text)
      BY <3>1, ReadableIs
    <3>4. Allowed(words, "--count", text) <=> IsPositive(text)
      BY AllowedIs
    <3>5. IsPositive(text) <=> text.number # 0
      BY <3>3 DEF IsPositive
    <3> QED
      BY <1>2, <2>1, <2>2, <3>2, <3>4, <3>5
  <2>3. CASE "--count" \notin state.seen
    <3>1. state.config["packet_count"] = SimulatorDefaults["packet_count"]
      BY <1>3, <2>1, <2>3, SimulatorFieldsAre, ValueIs
    <3>2. state.config["packet_count"] = Absent
      BY <3>1 DEF SimulatorDefaults
    <3> QED
      BY <1>2, <2>3, <3>2 DEF Absent
  <2> QED
    BY <2>2, <2>3
<1>9. /\ c.camera_extra <= MaxCameraExtraDataSize
      /\ c.sensor_type = "camera" \/ c.camera_extra = 0
      <=> Ok("--camera-extra-bytes")
  <2>1. PICK text : text = V("--camera-extra-bytes")
    OBVIOUS
  <2>2. CASE "--camera-extra-bytes" \in state.seen
    <3>1. Readable("camera_extra", text)
          /\ state.config["camera_extra"] = Assigned("camera_extra", text)
      BY <1>3, <2>1, <2>2, SimulatorFieldsAre, ValueIs
    <3>2. state.config["camera_extra"] = text.number
      BY <3>1 DEF Assigned
    <3>3. IsUnsigned(text)
      BY <3>1, ReadableIs
    <3>4. Allowed(words, "--camera-extra-bytes", text) <=>
            /\ IsUnsigned(text)
            /\ \/ text.number = 0
               \/ /\ text.number <= MaxCameraExtraDataSize
                  /\ V("--sensor").word = "camera"
      BY AllowedIs
    <3>5. text.number = 0 => text.number <= MaxCameraExtraDataSize
      BY SimulatorConfigAssumption
    <3> QED
      BY <1>2, <1>4, <2>1, <2>2, <3>2, <3>3, <3>4, <3>5
  <2>3. CASE "--camera-extra-bytes" \notin state.seen
    <3>1. state.config["camera_extra"] = SimulatorDefaults["camera_extra"]
      BY <1>3, <2>1, <2>3, SimulatorFieldsAre, ValueIs
    <3>2. state.config["camera_extra"] = 0
      BY <3>1 DEF SimulatorDefaults
    <3>3. 0 <= MaxCameraExtraDataSize
      BY SimulatorConfigAssumption
    <3> QED
      BY <1>2, <2>3, <3>2, <3>3
  <2> QED
    BY <2>2, <2>3
<1>10. Ok("--sensor")
  <2>1. Readable("sensor_type", V("--sensor"))
    BY <1>3, SimulatorFieldsAre, ValueIs
  <2> QED
    BY <2>1, ReadableIs, AllowedIs
<1>11. Ok("--delay-ms")
  <2> SUFFICES ASSUME "--delay-ms" \in state.seen
               PROVE  Allowed(words, "--delay-ms", V("--delay-ms"))
    OBVIOUS
  <2>1. PICK text : text = V("--delay-ms")
    OBVIOUS
  <2>2. Readable("delay_ms", text)
    BY <1>3, <2>1, SimulatorFieldsAre, ValueIs
  <2>3. IsPositive(text) /\ text.number <= MaximumFaultDelay
    BY <2>2, ReadableIs
  <2>4. MaximumFaultDelay \in 0..NumberMax
    BY CommandLineAssumption, SimulatorConfigAssumption
  <2>5. text.word = "" /\ text.number \in 1..MaximumFaultDelay
    BY <2>3, <2>4, InRange
  <2> QED
    BY <2>1, <2>5, AllowedIs
<1>12. ASSUME NEW option \in Every
       PROVE  Ok(option)
  <2> SUFFICES ASSUME option \in state.seen PROVE Allowed(words, option, V(option))
    OBVIOUS
  <2>1. PICK field \in Intervals : field = SimulatorField[option]
    BY SimulatorFieldsAre
  <2>2. Readable(field, V(option))
    BY <1>3, <2>1, ValueIs
  <2>3. IsPositive(V(option))
    BY <2>2, ReadableIs
  <2> QED
    BY <2>3, AllowedIs
<1>13. ValuesAllowed(words, state) <=> \A option \in DOMAIN SimulatorField : Ok(option)
  BY DEF ValuesAllowed, Settled
<1> HIDE DEF Ok, V
<1>14. ValuesAllowed(words, state) <=>
         /\ Ok("--destination") /\ Ok("--port") /\ Ok("--rate-hz") /\ Ok("--count")
         /\ Ok("--camera-extra-bytes")
  BY <1>10, <1>11, <1>12, <1>13, SimulatorFieldsAre
<1> QED
  BY <1>1, <1>5, <1>6, <1>7, <1>8, <1>9, <1>14 DEF CommonChecks

\* The two options of a delay come together if their fields do.
LEMMA DelaysAre ==
  ASSUME NEW words, NEW state, Settled(words, state)
  PROVE  (WithRate(state).delay_every = Absent) = (WithRate(state).delay_ms = Absent) <=>
           Len(Given(words, "--delay-every")) = Len(Given(words, "--delay-ms"))
<1>1. PICK c : c = WithRate(state)
  OBVIOUS
<1>2. /\ c["delay_every"] = state.config["delay_every"]
      /\ c["delay_ms"] = state.config["delay_ms"]
  BY <1>1, WithRateIs DEF SimulatorFields, Intervals
<1>3. ASSUME NEW option \in {"--delay-every", "--delay-ms"},
             NEW field, field = SimulatorField[option]
      PROVE  /\ Len(Given(words, option)) \in {0, 1}
             /\ state.config[field] = Absent <=> Len(Given(words, option)) = 0
  <2>1. option \in DOMAIN SimulatorField
    BY SimulatorFieldsAre DEF Every
  <2>2. field = "delay_ms" \/ field \in Intervals
    BY <1>3, SimulatorFieldsAre DEF Every
  <2>3. PICK text : text = Given(words, option)[1]
    OBVIOUS
  <2>4. CASE option \in state.seen
    <3>1. /\ Readable(field, text) /\ state.config[field] = Assigned(field, text)
          /\ Len(Given(words, option)) = 1
      BY <1>3, <2>1, <2>3, <2>4, ValueIs
    <3>2. IsPositive(text)
      BY <2>2, <3>1, ReadableIs
    <3>3. state.config[field] = text.number
      BY <2>2, <3>1 DEF Assigned, Intervals
    <3>4. text.number \in 0..NumberMax
      BY <3>2 DEF IsPositive, IsUnsigned
    <3>5. text.number # Absent
      BY <3>4, CommandLineAssumption DEF Absent
    <3> QED
      BY <3>1, <3>3, <3>5
  <2>5. CASE option \notin state.seen
    <3>1. /\ state.config[field] = SimulatorDefaults[field]
          /\ Len(Given(words, option)) = 0
      BY <1>3, <2>1, <2>3, <2>5, ValueIs
    <3>2. SimulatorDefaults[field] = Absent
      BY <2>2 DEF SimulatorDefaults, Intervals
    <3> QED
      BY <3>1, <3>2
  <2> QED
    BY <2>4, <2>5
<1>4. /\ Len(Given(words, "--delay-every")) \in {0, 1}
      /\ state.config["delay_every"] = Absent <=> Len(Given(words, "--delay-every")) = 0
  BY <1>3, SimulatorFieldsAre
<1>5. /\ Len(Given(words, "--delay-ms")) \in {0, 1}
      /\ state.config["delay_ms"] = Absent <=> Len(Given(words, "--delay-ms")) = 0
  BY <1>3, SimulatorFieldsAre
<1>6. ((c["delay_every"] = Absent) = (c["delay_ms"] = Absent)) <=>
        (c["delay_every"] = Absent <=> c["delay_ms"] = Absent)
  OBVIOUS
<1> QED
  BY <1>1, <1>2, <1>4, <1>5, <1>6

\* What the documentation asks of the field of an option.
LEMMA TextAsked ==
  ASSUME NEW words, NEW option \in DOMAIN SimulatorField, NEW asked,
         asked = SimulatorAsked(words), NEW field, field = SimulatorField[option],
         NEW text, text = Given(words, option)[1]
  PROVE  /\ Given(words, option) # <<>> => asked[field] = Assigned(field, text)
         /\ Given(words, option) = <<>> /\ option = "--rate-hz" =>
              asked[field] = Rate(DefaultRate[asked.sensor_type])
         /\ Given(words, option) = <<>> /\ option \notin {"--sensor", "--rate-hz"} =>
              asked[field] = SimulatorDefaults[field]
<1> DEFINE value(default) == GivenOr(words, option, default)
<1>1. \A default : value(default) = IF Given(words, option) = <<>> THEN default ELSE text
  BY DEF GivenOr
<1> HIDE DEF value
<1>2. CASE option = "--sensor"
  BY <1>1, <1>2 DEF value, SimulatorField, SimulatorAsked, Assigned
<1>3. CASE option = "--destination"
  <2>1. field = "address"
    BY <1>3, SimulatorFieldsAre
  <2>2. asked.address = value([word |-> "127.0.0.1", number |-> -1]).word
    BY <1>3 DEF value, SimulatorAsked
  <2>3. SimulatorDefaults["address"] = "127.0.0.1"
    BY DEF SimulatorDefaults
  <2> QED
    BY <1>1, <1>3, <2>1, <2>2, <2>3 DEF Assigned
<1>4. CASE option = "--rate-hz"
  <2>1. field = "rate_hz"
    BY <1>4, SimulatorFieldsAre
  <2>2. asked.rate_hz = value(Rate(DefaultRate[asked.sensor_type]))
    BY <1>4 DEF value, SimulatorAsked
  <2> QED
    BY <1>1, <1>4, <2>1, <2>2 DEF Assigned
<1>5. \A default : value(Rate(default)).number =
        IF Given(words, option) = <<>> THEN default ELSE text.number
  BY <1>1 DEF Rate
<1>6. ASSUME NEW default, asked[field] = value(Rate(default)).number,
             SimulatorDefaults[field] = default,
             field \notin {"sensor_type", "address", "rate_hz"},
             option \notin {"--sensor", "--rate-hz"}
      PROVE  /\ Given(words, option) # <<>> => asked[field] = Assigned(field, text)
             /\ Given(words, option) = <<>> => asked[field] = SimulatorDefaults[field]
  <2>1. Assigned(field, text) = text.number
    BY <1>6 DEF Assigned
  <2> QED
    BY <1>5, <1>6, <2>1
<1>7. CASE option = "--port"
  <2>1. field = "port" /\ asked["port"] = value(Rate(1)).number
    BY <1>7, SimulatorFieldsAre DEF value, SimulatorAsked
  <2>2. SimulatorDefaults["port"] = 1
    BY DEF SimulatorDefaults
  <2> QED
    BY <1>6, <1>7, <2>1, <2>2
<1>8. CASE option = "--camera-extra-bytes"
  <2>1. field = "camera_extra" /\ asked["camera_extra"] = value(Rate(0)).number
    BY <1>8, SimulatorFieldsAre DEF value, SimulatorAsked
  <2>2. SimulatorDefaults["camera_extra"] = 0
    BY DEF SimulatorDefaults
  <2> QED
    BY <1>6, <1>8, <2>1, <2>2
<1>9. CASE option \in Every \cup {"--count", "--delay-ms"}
  <2>1. field \in Intervals \cup {"packet_count", "delay_ms"}
    BY <1>9, SimulatorFieldsAre
  <2>2. SimulatorDefaults[field] = Absent
    BY <2>1 DEF SimulatorDefaults, Intervals
  <2>3. asked[field] = value(Rate(Absent)).number
    <3>1. CASE option = "--count"
      BY <3>1, SimulatorFieldsAre DEF value, SimulatorAsked
    <3>2. CASE option = "--delay-ms"
      BY <3>2, SimulatorFieldsAre DEF value, SimulatorAsked
    <3>3. CASE option = "--drop-every"
      BY <3>3 DEF value, SimulatorAsked, SimulatorField
    <3>4. CASE option = "--duplicate-every"
      BY <3>4 DEF value, SimulatorAsked, SimulatorField
    <3>5. CASE option = "--reorder-every"
      BY <3>5 DEF value, SimulatorAsked, SimulatorField
    <3>6. CASE option = "--corrupt-every"
      BY <3>6 DEF value, SimulatorAsked, SimulatorField
    <3>7. CASE option = "--delay-every"
      BY <3>7 DEF value, SimulatorAsked, SimulatorField
    <3> QED
      BY <1>9, <3>1, <3>2, <3>3, <3>4, <3>5, <3>6, <3>7 DEF Every
  <2>4. field \notin {"sensor_type", "address", "rate_hz"}
    BY <2>1 DEF Intervals
  <2>5. option \notin {"--sensor", "--rate-hz"}
    BY <1>9 DEF Every
  <2> QED
    BY <1>6, <2>2, <2>3, <2>4, <2>5
<1> QED
  BY <1>2, <1>3, <1>4, <1>7, <1>8, <1>9, SimulatorFieldsAre

\* The configuration is what the documentation asks for, field by field.
LEMMA SimulatorFaultless ==
  ASSUME NEW words, NEW state, Settled(words, state), "--sensor" \in state.seen
  PROVE  WithRate(state) = SimulatorAsked(words)
<1>1. PICK c : c = WithRate(state)
  OBVIOUS
<1>2. PICK asked : asked = SimulatorAsked(words)
  OBVIOUS
<1>3. asked = [field \in SimulatorFields |-> asked[field]]
  <2>1. DOMAIN asked = SimulatorFields
    BY <1>2 DEF SimulatorAsked, SimulatorFields, Intervals
  <2>2. asked = [field \in DOMAIN asked |-> asked[field]]
    BY <1>2 DEF SimulatorAsked
  <2> QED
    BY <2>1, <2>2
<1>4. c = [field \in SimulatorFields |-> c[field]]
  BY <1>1, WithRateIs
<1>5. ASSUME NEW option \in DOMAIN SimulatorField, NEW field, field = SimulatorField[option],
             option # "--rate-hz"
      PROVE  c[field] = asked[field]
  <2>1. PICK text : text = Given(words, option)[1]
    OBVIOUS
  <2>2. c[field] = state.config[field]
    <3>1. field \in SimulatorFields
      BY <1>5, SimulatorFieldIs
    <3>2. field # "rate_hz"
      BY <1>5, SimulatorFieldNames, SimulatorFieldsAre
    <3> QED
      BY <1>1, <3>1, <3>2, WithRateIs
  <2>3. CASE option \in state.seen
    <3>1. Given(words, option) # <<>> /\ state.config[field] = Assigned(field, text)
      BY <1>5, <2>1, <2>3, ValueIs
    <3>2. asked[field] = Assigned(field, text)
      BY <1>2, <1>5, <2>1, <3>1, TextAsked
    <3> QED
      BY <2>2, <3>1, <3>2
  <2>4. CASE option \notin state.seen
    <3>1. Given(words, option) = <<>> /\ state.config[field] = SimulatorDefaults[field]
      BY <1>5, <2>1, <2>4, ValueIs
    <3>2. asked[field] = SimulatorDefaults[field]
      BY <1>2, <1>5, <2>1, <2>4, <3>1, TextAsked
    <3> QED
      BY <2>2, <3>1, <3>2
  <2> QED
    BY <2>3, <2>4
<1>6. c.sensor_type = asked.sensor_type
  BY <1>5, SimulatorFieldsAre
<1>7. c.sensor_type = state.config.sensor_type
  BY <1>1, WithRateIs DEF SimulatorFields
<1>8. c.rate_hz = asked.rate_hz
  <2>1. PICK text : text = Given(words, "--rate-hz")[1]
    OBVIOUS
  <2>2. "--rate-hz" \in DOMAIN SimulatorField /\ SimulatorField["--rate-hz"] = "rate_hz"
    BY SimulatorFieldsAre
  <2>3. CASE "--rate-hz" \in state.seen
    <3>1. Given(words, "--rate-hz") # <<>>
      BY <2>1, <2>2, <2>3, ValueIs
    <3>2. asked["rate_hz"] = Assigned("rate_hz", text)
      BY <1>2, <2>1, <2>2, <3>1, TextAsked
    <3>3. asked["rate_hz"] = text
      BY <3>2 DEF Assigned
    <3> QED
      BY <1>1, <2>1, <2>3, <3>3, WithRateIs
  <2>4. CASE "--rate-hz" \notin state.seen
    <3>1. /\ c.rate_hz = Rate(DefaultRate[state.config.sensor_type])
          /\ Given(words, "--rate-hz") = <<>>
      BY <1>1, <2>4, WithRateIs
    <3>2. asked["rate_hz"] = Rate(DefaultRate[asked.sensor_type])
      BY <1>2, <2>1, <2>2, <3>1, TextAsked
    <3> QED
      BY <1>6, <1>7, <3>1, <3>2
  <2> QED
    BY <2>3, <2>4
<1>9. ASSUME NEW field \in SimulatorFields
      PROVE  c[field] = asked[field]
  <2>1. PICK option \in DOMAIN SimulatorField : SimulatorField[option] = field
    BY SimulatorFieldNames
  <2>2. CASE option = "--rate-hz"
    BY <1>8, <2>1, <2>2, SimulatorFieldsAre
  <2>3. CASE option # "--rate-hz"
    BY <1>5, <2>1, <2>3
  <2> QED
    BY <2>2, <2>3
<1> QED
  BY <1>1, <1>2, <1>3, <1>4, <1>9

\* The parser of the simulator accepts the lines the documentation allows,
\* and makes of them what they ask for.
LEMMA SimulatorAnswer ==
  ASSUME NEW words, words.pairs \in Seq(Range(words.pairs))
  PROVE  LET result == ParseSimulatorConfig(words) IN
         /\ result.ok <=> SimulatorMayAsk(words)
         /\ result.ok => result.config = SimulatorAsked(words)
<1>1. PICK end : end = FoldLeft(ParseSimulatorOption, FirstSimulatorState, words.pairs)
  OBVIOUS
<1>2. PICK c : c = WithRate(end)
  OBVIOUS
<1>3. /\ ParseSimulatorConfig(words).config = c
      /\ ParseSimulatorConfig(words).ok <=>
           /\ ~end.failed /\ Complete(words)
           /\ "--sensor" \in end.seen
           /\ CommonChecks(c)
           /\ (c.delay_every = Absent) = (c.delay_ms = Absent)
  BY <1>1, <1>2 DEF ParseSimulatorConfig, FirstSimulatorState, WithRate
<1>4. SimulatorKnows(end, words.pairs, Len(words.pairs))
  BY <1>1, SimulatorEnd
<1>5. SimulatorMayAsk(words) <=>
        /\ Complete(words) /\ Len(Given(words, "--sensor")) = 1
        /\ PairsAllowed(words)
        /\ Len(Given(words, "--delay-every")) = Len(Given(words, "--delay-ms"))
  BY DEF SimulatorMayAsk, PairsAllowed
<1>6. CASE end.failed
  <2>1. PICK i \in 1..Len(words.pairs) : SimulatorFault(words.pairs, i)
    BY <1>4, <1>6 DEF SimulatorKnows
  <2>2. ~PairsAllowed(words)
    BY <2>1, SimulatorFaulty
  <2> QED
    BY <1>3, <1>5, <1>6, <2>2
<1>7. CASE ~end.failed
  <2>1. Settled(words, end) /\ SimulatorState(end)
    BY <1>4, <1>7, SimulatorSettled DEF SimulatorKnows
  <2>2. Len(Given(words, "--sensor")) = 1 <=> "--sensor" \in end.seen
    <3>1. "--sensor" \in DOMAIN SimulatorField
      BY SimulatorFieldsAre
    <3>2. /\ "--sensor" \in end.seen => Len(Given(words, "--sensor")) = 1
          /\ "--sensor" \notin end.seen => Len(Given(words, "--sensor")) = 0
      BY <2>1, <3>1, ValueIs
    <3> QED
      BY <3>2
  <2>3. "--sensor" \in end.seen => CommonChecks(c) <=> PairsAllowed(words)
    BY <1>2, <2>1, ChecksAre, PairsAreValues
  <2>4. (c.delay_every = Absent) = (c.delay_ms = Absent) <=>
          Len(Given(words, "--delay-every")) = Len(Given(words, "--delay-ms"))
    BY <1>2, <2>1, DelaysAre
  <2>5. "--sensor" \in end.seen => c = SimulatorAsked(words)
    BY <1>2, <2>1, SimulatorFaultless
  <2> QED
    BY <1>3, <1>5, <1>7, <2>2, <2>3, <2>4, <2>5
<1> QED
  BY <1>6, <1>7
-----------------------------------------------------------------------------
\* What the documentation says of the line of either server.
Permitted(p, words) ==
  IF p = "runtime" THEN RuntimeMayAsk(words) ELSE SimulatorMayAsk(words)

Wanted(p, words) ==
  IF p = "runtime" THEN RuntimeAsked(words) ELSE SimulatorAsked(words)

\* The configuration is that of the line, and a refusal means that the
\* documentation does not allow it.  No other return has the value 1.
AskedInv ==
  program \in Servers =>
    /\ pc = "main" => config = Unparsed /\ status = Absent
    /\ config # Unparsed => Permitted(program, line) /\ config = Wanted(program, line)
    /\ status = 1 => ~Permitted(program, line)

LEMMA AskedInit == ProgramInit => AskedInv
  BY DEF ProgramInit, SetupInit, AskedInv, Absent

\* The step that parses.
LEMMA AskedParsed ==
  ASSUME RouteInv, AskedInv, ParseConfig
  PROVE  AskedInv'
<1>1. /\ pc = "main" /\ program \in Servers
      /\ config = Unparsed /\ status = Absent
  BY DEF ParseConfig, AskedInv
<1>2. line.pairs \in Seq(Range(line.pairs))
  BY <1>1, ProgramsAssumption DEF RouteInv
<1>3. PICK result : result = IF program = "runtime" THEN ParseRuntimeConfig(line)
                             ELSE ParseSimulatorConfig(line)
  OBVIOUS
<1>4. /\ result.ok <=> Permitted(program, line)
      /\ result.ok => result.config = Wanted(program, line)
  <2>1. CASE program = "runtime"
    BY <1>2, <1>3, <2>1, RuntimeAnswer DEF Permitted, Wanted
  <2>2. CASE program # "runtime"
    BY <1>2, <1>3, <2>2, SimulatorAnswer DEF Permitted, Wanted
  <2> QED
    BY <2>1, <2>2
<1>5. UNCHANGED <<program, line>> /\ pc' # "main"
  BY DEF ParseConfig, Goto, Return
<1>6. CASE result.ok
  <2>1. config' = result.config /\ status' = status
    BY <1>3, <1>6 DEF ParseConfig, Goto
  <2> QED
    BY <1>1, <1>4, <1>5, <1>6, <2>1 DEF AskedInv, Absent
<1>7. CASE ~result.ok
  <2>1. config' = config
    BY <1>3, <1>7 DEF ParseConfig
  <2> QED
    BY <1>1, <1>4, <1>5, <1>7, <2>1 DEF AskedInv
<1> QED
  BY <1>6, <1>7

\* Every other step leaves the answer as it is.
KeepsAnswer ==
  /\ UNCHANGED <<program, line>>
  /\ program \in Servers => config' = config /\ (status' = status \/ status' # 1)
  /\ pc' # "main" \/ UNCHANGED <<pc, config, status>>

LEMMA AnswerKept ==
  ASSUME AskedInv, KeepsAnswer
  PROVE  AskedInv'
  BY DEF AskedInv, KeepsAnswer

LEMMA MainKeeps ==
  ASSUME MainStep
  PROVE  ParseConfig \/ KeepsAnswer
<1>0. pc' # "main"
  BY MainDoes
<1>13. 2 # 1 /\ 3 # 1
  OBVIOUS
<1>1. CASE ShowHelp
  BY <1>0, <1>1 DEF ShowHelp, Return, KeepsAnswer
<1>2. CASE ParseEndpoint
  <2>1. UNCHANGED <<program, line>> /\ program \notin Servers
    BY <1>2 DEF ParseEndpoint, Return, Throws, Goto, OnlySetup, mainVars
  <2> QED
    BY <1>0, <2>1 DEF KeepsAnswer
<1>3. CASE InstallHandler
  BY <1>0, <1>3 DEF InstallHandler, Goto, KeepsAnswer
<1>4. CASE InstallFails
  BY <1>0, <1>4 DEF InstallFails, Return, Throws, OnlySetup, mainVars, KeepsAnswer
<1>5. CASE Construct
  BY <1>0, <1>5 DEF Construct, Throws, Goto, OnlySetup, mainVars, KeepsAnswer
<1>6. CASE RunReturns
  BY <1>0, <1>6 DEF RunReturns, Return, KeepsAnswer
<1>7. CASE RunThrows
  BY <1>0, <1>7 DEF RunThrows, Throws, OnlySetup, mainVars, KeepsAnswer
<1>8. ASSUME NEW decoded \in {"sample", "rejected packet", "rejected payload"},
             ReceiveOne(decoded)
      PROVE  KeepsAnswer
  <2>1. UNCHANGED <<program, line, config>>
    BY <1>8 DEF ReceiveOne, Return
  <2>2. CASE decoded = "sample"
    BY <1>0, <1>8, <2>1, <2>2 DEF ReceiveOne, Return, KeepsAnswer
  <2>3. CASE decoded = "rejected packet"
    <3>1. (CASE decoded = "sample" -> 0
             [] decoded = "rejected packet" -> 2
             [] decoded = "rejected payload" -> 3) = 2
      BY <2>3
    <3>2. status' = 2
      BY <1>8, <3>1 DEF ReceiveOne, Return
    <3> QED
      BY <1>0, <1>13, <2>1, <3>2 DEF KeepsAnswer
  <2>4. CASE decoded = "rejected payload"
    <3>1. (CASE decoded = "sample" -> 0
             [] decoded = "rejected packet" -> 2
             [] decoded = "rejected payload" -> 3) = 3
      BY <2>4
    <3>2. status' = 3
      BY <1>8, <3>1 DEF ReceiveOne, Return
    <3> QED
      BY <1>0, <1>13, <2>1, <3>2 DEF KeepsAnswer
  <2> QED
    BY <1>8, <2>2, <2>3, <2>4
<1>9. CASE SendOne
  BY <1>0, <1>9 DEF SendOne, Return, Throws, OnlySetup, mainVars, KeepsAnswer
<1>10. CASE TransferFails
  BY <1>0, <1>10 DEF TransferFails, Throws, OnlySetup, mainVars, KeepsAnswer
<1>11. CASE Exit
  BY <1>0, <1>11 DEF Exit, Goto, Caught, Servers, KeepsAnswer
<1>12. CASE SetupFails /\ OnlySetup
  BY <1>0, <1>12 DEF OnlySetup, mainVars, KeepsAnswer
<1> QED
  BY <1>1, <1>2, <1>3, <1>4, <1>5, <1>6, <1>7, <1>8, <1>9, <1>10, <1>11, <1>12
  DEF MainStep

LEMMA AskedStep ==
  RouteInv /\ AskedInv /\ [ProgramNext]_programVars => AskedInv'
<1> SUFFICES ASSUME RouteInv, AskedInv, [ProgramNext]_programVars PROVE AskedInv'
  OBVIOUS
<1>1. CASE MainStep
  BY <1>1, MainKeeps, AnswerKept, AskedParsed
<1>2. CASE OnlySetup /\ (Moves \/ OpensEpoll \/ OpensSocket \/ Changes \/ PushBack)
  <2>1. pc' # "main"
    BY <1>2 DEF Moves, OpensEpoll, OpensSocket, Changes, PushBack
  <2>2. KeepsAnswer
    BY <1>2, <2>1 DEF OnlySetup, mainVars, KeepsAnswer
  <2> QED
    BY <2>2, AnswerKept
<1>3. CASE Closes /\ OnlySetup
  <2>1. pc' # "main"
    BY <1>3 DEF Closes, ClosesSocket, ClosesListener, ClosesEpoll, Leaves
  <2>2. KeepsAnswer
    BY <1>3, <2>1 DEF OnlySetup, mainVars, KeepsAnswer
  <2> QED
    BY <2>2, AnswerKept
<1>4. CASE Dies /\ OnlySetup
  <2>1. KeepsAnswer
    BY <1>4 DEF Dies, OnlySetup, mainVars, KeepsAnswer
  <2> QED
    BY <2>1, AnswerKept
<1>5. CASE UNCHANGED <<setupVars, program, line, config, handled, status>>
  <2>1. UNCHANGED pc
    BY <1>5 DEF setupVars
  <2>2. KeepsAnswer
    BY <1>5, <2>1 DEF KeepsAnswer
  <2> QED
    BY <2>2, AnswerKept
<1> QED
  BY <1>1, <1>2, <1>3, <1>4, <1>5, StepDoes

\* For any limits and any line, however long: the runtime and the simulator
\* get past their command line exactly if the documentation allows it, and
\* then with the configuration it asks for.
THEOREM AskedProved == ProgramSpec => []ConfigIsWhatWasAsked
<1>1. AskedInv => ConfigIsWhatWasAsked
  BY DEF AskedInv, Permitted, Wanted, ConfigIsWhatWasAsked
<1>2. ProgramInit => CourseInv /\ AskedInv
  BY CourseInit, AskedInit
<1>3. CourseInv /\ AskedInv /\ [ProgramNext]_programVars => (CourseInv /\ AskedInv)'
  <2>1. CourseInv => RouteInv
    BY DEF CourseInv
  <2> QED
    BY <2>1, CourseStep, AskedStep
<1> QED
  BY <1>1, <1>2, <1>3, PTL DEF ProgramSpec
=============================================================================
