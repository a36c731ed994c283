------------------------------- MODULE Programs -------------------------------
(***************************************************************************)
(* The four programs of apps/ from main to the exit status: what they make *)
(* of their command line, when the signal handlers are installed, how the  *)
(* sockets are opened and that they are closed.  What goes on inside       *)
(* Runtime::run and run_simulator is in the modules Runtime and            *)
(* SensorSimulator; here they return or throw.                             *)
(***************************************************************************)
EXTENDS ListenerSetup, SimulatorConfig, FiniteSets

CONSTANTS
  Lines             \* Lines[p]: the command lines program p is started with

ProgramNames == {"runtime", "simulator", "udp_receiver", "udp_sender"}
Servers == {"runtime", "simulator"}
Signals == {"SIGINT", "SIGTERM"}

\* argc is an int, so that no line has more options than one.
ASSUME ProgramsAssumption ==
  /\ DOMAIN Lines = ProgramNames
  /\ \A p \in ProgramNames : \A words \in Lines[p] :
       /\ words.pairs \in Seq(Range(words.pairs))
       /\ Len(words.pairs) <= IntMax

VARIABLES
  program,          \* the program that runs
  line,             \* its command line
  config,           \* what the parser made of it
  handled,          \* the signals with a handler
  stop_requested,   \* set by the handlers
  status            \* the value main returns, Absent before it is known

mainVars == <<program, line, config, handled, stop_requested, status>>
programVars == <<setupVars, mainVars>>
OnlySetup == UNCHANGED mainVars
OnlyMain == UNCHANGED setupVars

Unparsed == [parsed |-> FALSE]

ProgramInit ==
  /\ SetupInit
  /\ program \in ProgramNames
  /\ line \in Lines[program]
  /\ config = Unparsed
  /\ handled = {}
  /\ stop_requested = FALSE
  /\ status = Absent

\* The runtime looks for --help as the only word, the simulator everywhere.
HelpRequested ==
  CASE program = "runtime" -> line.pairs = <<>> /\ line.last = "--help"
    [] program = "simulator" ->
         \/ line.last = "--help"
         \/ \E i \in DOMAIN line.pairs :
              "--help" \in {line.pairs[i].option, line.pairs[i].value.word}
    [] OTHER -> FALSE

\* A return from main, which runs the destructors that are due.
Return(value) ==
  /\ status' = value
  /\ pc' = "unwind"
  /\ UNCHANGED <<thrown, descriptors, socket, epoll, listeners,
                 program, line, handled, stop_requested>>

Throws(exception) ==
  /\ Throw(exception)
  /\ OnlySetup
  /\ UNCHANGED <<descriptors, socket, epoll, listeners>>

Goto(label) ==
  /\ pc' = label
  /\ UNCHANGED <<thrown, descriptors, socket, epoll, listeners>>

ShowHelp ==
  /\ pc = "main" /\ HelpRequested
  /\ Return(0)
  /\ UNCHANGED config

ParseConfig ==
  LET result == IF program = "runtime" THEN ParseRuntimeConfig(line)
                ELSE ParseSimulatorConfig(line) IN
  /\ pc = "main" /\ program \in Servers /\ ~HelpRequested
  /\ IF result.ok
     THEN /\ config' = result.config
          /\ Goto("install_handlers")
          /\ UNCHANGED <<program, line, handled, stop_requested, status>>
     ELSE Return(1) /\ UNCHANGED config

\* parse_port of the two demo programs; port 0 is allowed.
IsPort(text) == IsUnsigned(text) /\ text.number <= PortMax

\* The main of the two demo programs takes exactly an address and a port.
ParseEndpoint ==
  /\ pc = "main" /\ program \notin Servers
  /\ IF Len(line.pairs) # 1 \/ ~Complete(line)
     THEN Return(1) /\ UNCHANGED config
     ELSE LET pair == line.pairs[1] IN
          IF ~IsPort(pair.value) THEN Throws("invalid_argument")
          ELSE /\ config' = Endpoint(pair.option, pair.value.number)
               /\ Goto("open")
               /\ UNCHANGED <<program, line, handled, stop_requested, status>>

\* Faulty variant: no handler for SIGTERM.
InstallSigintOnly ==
  /\ pc = "install_handlers"
  /\ handled' = {"SIGINT"}
  /\ Goto("construct")
  /\ UNCHANGED <<program, line, config, stop_requested, status>>

\* std::signal for SIGINT, then for SIGTERM.
InstallHandler ==
  /\ pc = "install_handlers"
  /\ IF handled = {}
     THEN handled' = {"SIGINT"} /\ Goto("install_handlers")
     ELSE handled' = Signals /\ Goto("construct")
  /\ UNCHANGED <<program, line, config, stop_requested, status>>

InstallFails ==
  /\ pc = "install_handlers"
  /\ IF program = "runtime" THEN Return(2) /\ UNCHANGED config
     ELSE Throws("runtime_error")

\* Runtime::Runtime up to the receiver, or run_simulator up to its socket.
Construct ==
  /\ pc = "construct"
  /\ IF program = "runtime"
     THEN IF RuntimeAccepts(config) THEN Goto("create_epoll") /\ OnlySetup
          ELSE Throws("invalid_argument")
     ELSE IF SimulatorAccepts(config) THEN Goto("open") /\ OnlySetup
          ELSE Throws("invalid_argument")

SetUpRuntime ==
  /\ program = "runtime"
  /\ Setup(config)
  /\ OnlySetup

SetUpSocket ==
  /\ \/ program = "udp_receiver" /\ \/ OpenSocket("bind")
                                    \/ BindTo(config, "local_endpoint")
                                    \/ LocalEndpoint("receive")
     \/ program = "udp_sender" /\ OpenSocket("send")
     \/ program = "simulator" /\ OpenSocket("run")
  /\ UNCHANGED receiverVars
  /\ OnlySetup

\* What Runtime::run checks when it makes its parts and when it polls.
RunAccepts ==
  program = "runtime" =>
    MonitorAccepts(config) /\ PipelineAccepts(config) /\ PollAccepts(config)

\* A run without a limit goes on until the handlers stop it.
RunReturns ==
  /\ pc = "run" /\ RunAccepts
  /\ stop_requested \/ config.packet_count # Absent
  /\ Return(0)
  /\ UNCHANGED config

RunThrows ==
  /\ pc = "run"
  /\ Throws(IF RunAccepts THEN "system_error" ELSE "invalid_argument")

\* send_to of one packet.
SendOne ==
  /\ pc = "send"
  /\ IF config.address \in Addresses THEN Return(0) /\ UNCHANGED config
     ELSE Throws("invalid_argument")

\* receive() and what the decoders say of the datagram.
ReceiveOne(decoded) ==
  /\ pc = "receive"
  /\ Return(CASE decoded = "sample" -> 0
              [] decoded = "rejected packet" -> 2
              [] decoded = "rejected payload" -> 3)
  /\ UNCHANGED config

TransferFails ==
  /\ pc \in {"send", "receive"}
  /\ Throws("system_error")

\* The exception handlers of the four mains.
Caught ==
  CASE program = "runtime" -> 3
    [] program \in {"simulator", "udp_sender"} -> 2
    [] program = "udp_receiver" -> 4

Exit ==
  /\ pc = "left"
  /\ status' = IF thrown = "none" THEN status ELSE Caught
  /\ Goto("exited")
  /\ UNCHANGED <<program, line, config, handled, stop_requested>>

\* A signal without a handler ends the process, and the kernel closes all.
Signal(s) ==
  /\ pc \notin {"exited", "killed"}
  /\ IF s \in handled
     THEN /\ ~stop_requested
          /\ stop_requested' = TRUE
          /\ OnlyMain
          /\ UNCHANGED <<program, line, config, handled, status>>
     ELSE /\ pc' = "killed"
          /\ descriptors' = << >> /\ listeners' = <<>>
          /\ socket' = None /\ epoll' = None
          /\ UNCHANGED thrown
          /\ OnlySetup

Ended ==
  /\ pc \in {"exited", "killed"}
  /\ UNCHANGED programVars

ProgramNext ==
  \/ ShowHelp
  \/ ParseConfig
  \/ ParseEndpoint
  \/ InstallHandler
  \/ InstallFails
  \/ Construct
  \/ SetUpRuntime
  \/ SetUpSocket
  \/ SetupFails /\ OnlySetup
  \/ RunReturns
  \/ RunThrows
  \/ \E decoded \in {"sample", "rejected packet", "rejected payload"} :
       ReceiveOne(decoded)
  \/ SendOne
  \/ TransferFails
  \/ Unwind /\ OnlySetup
  \/ Exit
  \/ \E s \in Signals : Signal(s)
  \/ Ended

ProgramSpec == ProgramInit /\ [][ProgramNext]_programVars
-----------------------------------------------------------------------------
\* A program gets past its command line exactly if the documentation allows
\* that line, and then with the configuration the line asks for: repeated
\* --listen options add up and replace the default, nothing else is repeated,
\* no number is out of range, what is not given has its default, and the
\* rules that relate two options are those of the documentation.
ConfigIsWhatWasAsked ==
  /\ program \in Servers /\ config # Unparsed =>
       IF program = "runtime"
       THEN RuntimeMayAsk(line) /\ config = RuntimeAsked(line)
       ELSE SimulatorMayAsk(line) /\ config = SimulatorAsked(line)
  /\ program \in Servers /\ status = 1 =>
       IF program = "runtime" THEN ~RuntimeMayAsk(line)
       ELSE ~SimulatorMayAsk(line)

\* No configuration that a parser accepts is refused as invalid later, by
\* one of the checks the constructors, poll() and run_simulator make again.
AcceptedConfigRuns ==
  program \in Servers => thrown # "invalid_argument"

\* When the receiver is complete there is one listener per requested
\* endpoint, in that order and registered at its position; before that and
\* after, whatever is registered names its listener.
ListenersServe ==
  /\ EventsNameListeners
  /\ program = "runtime" /\ pc = "run" =>
       /\ Len(listeners) = Len(config.listen_endpoints)
       /\ \A i \in DOMAIN listeners :
            /\ listeners[i].endpoint = config.listen_endpoints[i]
            /\ descriptors[listeners[i].fd].index = i - 1

GracefulStep ==
  /\ pc' = "killed" => descriptors = << >>
  /\ /\ pc' = "exited" /\ thrown = "none"
     /\ stop_requested /\ handled = Signals
     => status' = 0

\* Ctrl+C and SIGTERM end the runtime and the simulator in an orderly way: a
\* signal never kills one that has opened a descriptor, and a program that
\* has its handlers, was asked to stop and met no exception reports success.
SignalsAreGraceful ==
  [][(program \in Servers) => GracefulStep]_programVars
=============================================================================
