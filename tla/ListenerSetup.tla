---------------------------- MODULE ListenerSetup ----------------------------
(***************************************************************************)
(* The constructor and the destructor of driveflow::runtime::EpollReceiver *)
(* (src/runtime/epoll_receiver.cpp): an epoll instance and one socket per  *)
(* requested endpoint, opened, bound and registered one after the other.   *)
(* An exception on the way destroys what there is, in the order of C++.    *)
(* local_endpoints always equals the endpoints of listeners and is left    *)
(* out.                                                                    *)
(***************************************************************************)
EXTENDS UdpSocket, RuntimeConfig

VARIABLES
  epoll,            \* value_ of epoll_file_descriptor
  listeners         \* the descriptor and the endpoint of each listener

setupVars == <<pc, thrown, descriptors, socket, epoll, listeners>>
receiverVars == <<epoll, listeners>>

SetupInit ==
  /\ SocketInit
  /\ epoll = None
  /\ listeners = <<>>

CreateEpoll(config) ==
  /\ pc = "create_epoll"
  /\ IF ~ReceiverAccepts(config)
     THEN Throw("invalid_argument") /\ UNCHANGED <<descriptors, epoll>>
     ELSE /\ Free # {}
          /\ epoll' = Min(Free)
          /\ descriptors' = WithOpened("epoll")
          /\ pc' = "next_endpoint"
          /\ UNCHANGED thrown
  /\ UNCHANGED <<socket, listeners>>

\* The loop over the endpoints, and the constructor's return.
NextEndpoint(config) ==
  /\ pc = "next_endpoint"
  /\ pc' = IF Len(listeners) < Len(config.listen_endpoints)
           THEN "open" ELSE "run"
  /\ UNCHANGED <<thrown, descriptors, socket, epoll, listeners>>

OpenListener ==
  /\ OpenSocket("bind")
  /\ UNCHANGED receiverVars

BindListener(config) ==
  /\ BindTo(config.listen_endpoints[Len(listeners) + 1], "set_non_blocking")
  /\ UNCHANGED receiverVars

PrepareListener ==
  /\ SetNonBlocking("local_endpoint") \/ LocalEndpoint("register")
  /\ UNCHANGED receiverVars

\* Faulty variant: the number of listeners with the new one counted.
EventIndexCountsNew == Len(listeners) + 1

\* The data of the event: the position the listener is about to get.
EventIndex == Len(listeners)

Register ==
  /\ pc = "register"
  /\ descriptors' = [descriptors EXCEPT ![socket].index = EventIndex]
  /\ pc' = "push_back"
  /\ UNCHANGED <<thrown, socket, epoll, listeners>>

PushBack ==
  /\ pc = "push_back"
  /\ listeners' = Append(listeners,
       [fd |-> socket, endpoint |-> descriptors[socket].endpoint])
  /\ socket' = MovedFrom(socket)
  /\ pc' = "next_endpoint"
  /\ UNCHANGED <<thrown, descriptors, epoll>>

SetupFails ==
  \/ SocketCallFails /\ UNCHANGED receiverVars
  \/ /\ pc \in {"create_epoll", "register"}
     /\ Throw("system_error")
     /\ UNCHANGED <<descriptors, socket, epoll, listeners>>

\* The destructors: the local socket, the listeners, the epoll instance.
Unwind ==
  \/ DestroySocket /\ UNCHANGED receiverVars
  \/ /\ pc = "unwind" /\ socket = None /\ listeners # <<>>
     /\ descriptors' = WithClosed(Head(listeners).fd)
     /\ listeners' = Tail(listeners)
     /\ UNCHANGED <<pc, thrown, socket, epoll>>
  \/ /\ pc = "unwind" /\ socket = None /\ listeners = <<>> /\ epoll # None
     /\ descriptors' = WithClosed(epoll)
     /\ epoll' = None
     /\ UNCHANGED <<pc, thrown, socket, listeners>>
  \/ /\ pc = "unwind" /\ socket = None /\ listeners = <<>> /\ epoll = None
     /\ pc' = "left"
     /\ UNCHANGED <<thrown, descriptors, socket, epoll, listeners>>

Setup(config) ==
  \/ CreateEpoll(config)
  \/ NextEndpoint(config)
  \/ OpenListener
  \/ BindListener(config)
  \/ PrepareListener
  \/ Register
  \/ PushBack
-----------------------------------------------------------------------------
\* However far the constructor has come and wherever it was thrown out,
\* every open descriptor has exactly one object that will close it and no
\* object would close a descriptor that it does not own.
DescriptorsOwned ==
  LET held == [i \in DOMAIN listeners |-> listeners[i].fd]
      single == {epoll, socket} \ {None}
  IN  /\ DOMAIN descriptors = single \cup Range(held)
      /\ IsInjective(held)
      /\ Range(held) \cap {None, epoll, socket} = {}
      /\ epoll # None => epoll # socket /\ descriptors[epoll].kind = "epoll"

\* Whatever is registered has as its data the position of the listener that
\* owns it, is bound to the endpoint of that listener and cannot block.
EventsNameListeners ==
  \A d \in DOMAIN descriptors :
    LET index == descriptors[d].index IN
    index # None =>
      /\ descriptors[d].nonblocking
      /\ \/ index \in 0..(Len(listeners) - 1)
            /\ listeners[index + 1] =
                 [fd |-> d, endpoint |-> descriptors[d].endpoint]
         \/ index = Len(listeners) /\ d = socket
         \/ pc = "unwind"
=============================================================================
