------------------------------ MODULE UdpSocket ------------------------------
(***************************************************************************)
(* driveflow::net::UdpSocket (src/net/udp_socket.cpp) with the kernel's    *)
(* table of descriptors.  A program holds one UdpSocket in a local         *)
(* variable, socket; other owners are in the modules that extend this one. *)
(* Every system call may fail and then throws.  When a scope is left, by a *)
(* return or by an exception, pc is "unwind" until the destructors of      *)
(* everything in it have run.                                              *)
(***************************************************************************)
EXTENDS CommandLine, FiniteSetsExt

CONSTANTS
  MaxDescriptor     \* bound: the largest descriptor the process may open

ASSUME UdpSocketAssumption == MaxDescriptor \in Nat

VARIABLES
  pc,               \* the next step of the program
  thrown,           \* "none", or the exception that is being handled
  descriptors,      \* the open descriptors, as the kernel knows them
  socket            \* file_descriptor_ of the local UdpSocket

None == -1          \* the value of an object that owns no descriptor

NoEndpoint == Endpoint("none", 0)

SocketInit ==
  /\ pc = "main"
  /\ thrown = "none"
  /\ descriptors = << >>
  /\ socket = None

\* The kernel gives out the lowest free descriptor.
Free == (0..MaxDescriptor) \ DOMAIN descriptors

WithOpened(kind) ==
  [d \in DOMAIN descriptors \cup {Min(Free)} |->
     IF d \in DOMAIN descriptors THEN descriptors[d]
     ELSE [kind |-> kind, endpoint |-> NoEndpoint,
           nonblocking |-> FALSE, index |-> None]]

\* close(), which also takes a descriptor out of an epoll instance.
WithClosed(fd) == [d \in DOMAIN descriptors \ {fd} |-> descriptors[d]]

Throw(exception) ==
  /\ thrown' = exception
  /\ pc' = "unwind"

OpenSocket(then) ==
  /\ pc = "open" /\ Free # {}
  /\ socket' = Min(Free)
  /\ descriptors' = WithOpened("socket")
  /\ pc' = then
  /\ UNCHANGED thrown

\* Two sockets may not have the same port on the same or on every address.
Conflict(a, b) ==
  /\ a.port = b.port
  /\ a.address = b.address \/ "0.0.0.0" \in {a.address, b.address}

\* to_sockaddr and bind(): port 0 asks for any port that is free.
BindTo(endpoint, then) ==
  /\ pc = "bind"
  /\ IF endpoint.address \notin Addresses
     THEN Throw("invalid_argument") /\ UNCHANGED descriptors
     ELSE \E port \in IF endpoint.port = 0 THEN 1..PortMax ELSE {endpoint.port} :
            LET actual == Endpoint(endpoint.address, port) IN
            /\ \A d \in DOMAIN descriptors :
                 ~Conflict(actual, descriptors[d].endpoint)
            /\ descriptors' = [descriptors EXCEPT ![socket].endpoint = actual]
            /\ pc' = then
            /\ UNCHANGED thrown
  /\ UNCHANGED socket

SetNonBlocking(then) ==
  /\ pc = "set_non_blocking"
  /\ descriptors' = [descriptors EXCEPT ![socket].nonblocking = TRUE]
  /\ pc' = then
  /\ UNCHANGED <<thrown, socket>>

\* getsockname; the endpoint is read where it is used.
LocalEndpoint(then) ==
  /\ pc = "local_endpoint"
  /\ pc' = then
  /\ UNCHANGED <<thrown, descriptors, socket>>

\* One of the system calls above fails, also when no descriptor is free or
\* when the endpoint is taken, by this program or by another.
SocketCallFails ==
  /\ pc \in {"open", "bind", "set_non_blocking", "local_endpoint"}
  /\ Throw("system_error")
  /\ UNCHANGED <<descriptors, socket>>

\* Faulty variant: the moved-from socket keeps its descriptor.
MovedStillOwns(fd) == fd

\* What a UdpSocket holds after it was moved from.
MovedFrom(fd) == None

\* ~UdpSocket of the local variable.
DestroySocket ==
  /\ pc = "unwind" /\ socket # None
  /\ descriptors' = WithClosed(socket)
  /\ socket' = None
  /\ UNCHANGED <<pc, thrown>>
=============================================================================
