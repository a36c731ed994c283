---------------------------- MODULE RuntimeConfig ----------------------------
(***************************************************************************)
(* parse_runtime_config (src/runtime/runtime_config.cpp) and the checks    *)
(* that the constructors make of the configuration it returns.  The limits *)
(* and the defaults are scaled down with their order kept; what the error  *)
(* messages say is left out.                                               *)
(***************************************************************************)
EXTENDS CommandLine

CONSTANTS
  IntMax,                        \* the largest int
  RepMax,                        \* the largest std::chrono::nanoseconds::rep
  NanosecondsPerMillisecond

ASSUME RuntimeConfigAssumption ==
  /\ IntMax \in Nat \ {0} /\ RepMax \in Nat
  /\ NanosecondsPerMillisecond \in 2..(RepMax \div 4)

Milliseconds(n) == n * NanosecondsPerMillisecond

\* 500, 2000 and 1000 ms are scaled to 1, 4 and 2; healthy_after_packets has
\* no option.
RuntimeDefaults ==
  [listen_endpoints |-> <<Endpoint("0.0.0.0", 1)>>, max_drain |-> 2,
   worker_count |-> 2, queue_capacity |-> 2, max_sources |-> 2,
   healthy_after_packets |-> 2, degraded_after |-> Milliseconds(1),
   offline_after |-> Milliseconds(4), recovery_after |-> Milliseconds(2),
   packet_count |-> Absent, poll_timeout |-> 1]

\* The field each option but --listen sets.
Field ==
  [option \in {"--count", "--poll-timeout-ms", "--max-drain", "--max-sources",
               "--health-degraded-ms", "--health-offline-ms",
               "--health-recovery-ms", "--workers", "--queue-capacity"} |->
     CASE option = "--count" -> "packet_count"
       [] option = "--poll-timeout-ms" -> "poll_timeout"
       [] option = "--max-drain" -> "max_drain"
       [] option = "--max-sources" -> "max_sources"
       [] option = "--health-degraded-ms" -> "degraded_after"
       [] option = "--health-offline-ms" -> "offline_after"
       [] option = "--health-recovery-ms" -> "recovery_after"
       [] option = "--workers" -> "worker_count"
       [] option = "--queue-capacity" -> "queue_capacity"]

Durations == {"degraded_after", "offline_after", "recovery_after"}

\* A conversion to a signed integer whose largest value is max.
Wrapped(n, max) == ((n + max + 1) % (2 * (max + 1))) - (max + 1)

\* Faulty variant: the limit is that of nanoseconds.
LargestInNanoseconds(field) ==
  IF field = "poll_timeout" THEN IntMax
  ELSE IF field \in Durations THEN RepMax
  ELSE NumberMax

\* The check before a number is converted to the type of its field.
LargestAccepted(field) ==
  IF field = "poll_timeout" THEN IntMax
  ELSE IF field \in Durations THEN RepMax \div NanosecondsPerMillisecond
  ELSE NumberMax

Converted(field, n) ==
  IF field = "poll_timeout" THEN Wrapped(n, IntMax)
  ELSE IF field \in Durations THEN Wrapped(Milliseconds(n), RepMax)
  ELSE n

IsEndpoint(text) == text.word \in Addresses /\ text.number \in 1..PortMax

\* Faulty variant: every --listen replaces the ones before it.
ListenersReplaced(state, endpoint) == <<endpoint>>

\* The first --listen replaces the default listener.
ListenersWith(state, endpoint) ==
  IF state.explicit_listener
  THEN Append(state.config.listen_endpoints, endpoint)
  ELSE <<endpoint>>

\* One round of the loop.  The value is read before the option is known.
ParseRuntimeOption(state, pair) ==
  LET text == pair.value
      failure == [state EXCEPT !.failed = TRUE]
  IN  IF state.failed THEN state
      ELSE IF pair.option = "--listen" THEN
        IF ~IsEndpoint(text) THEN failure
        ELSE [state EXCEPT
               !.config.listen_endpoints =
                  ListenersWith(state, Endpoint(text.word, text.number)),
               !.explicit_listener = TRUE]
      ELSE IF \/ pair.option \in state.seen
              \/ ~IsPositive(text)
              \/ pair.option \notin DOMAIN Field THEN failure
      ELSE IF text.number > LargestAccepted(Field[pair.option]) THEN failure
      ELSE [state EXCEPT
             !.config[Field[pair.option]] =
                Converted(Field[pair.option], text.number),
             !.seen = @ \cup {pair.option}]

ParseRuntimeConfig(line) ==
  LET start == [config |-> RuntimeDefaults, explicit_listener |-> FALSE,
                seen |-> {}, failed |-> FALSE]
      end == FoldLeft(ParseRuntimeOption, start, line.pairs)
  IN  [ok |-> /\ ~end.failed
              /\ Complete(line)
              /\ end.config.offline_after > end.config.degraded_after,
       config |-> end.config]

\* The checks of Runtime, EpollReceiver, SourceHealthMonitor (which holds the
\* tracker), WorkerPipeline and of poll().
RuntimeAccepts(config) ==
  /\ config.packet_count # 0
  /\ config.poll_timeout > 0
  /\ config.worker_count # 0 /\ config.queue_capacity # 0
  /\ config.max_sources # 0 /\ config.healthy_after_packets # 0
  /\ config.degraded_after > 0 /\ config.recovery_after > 0
  /\ config.offline_after > config.degraded_after

ReceiverAccepts(config) ==
  /\ config.listen_endpoints # <<>>
  /\ config.max_drain # 0
  /\ Len(config.listen_endpoints) <= IntMax

MonitorAccepts(config) ==
  /\ config.max_sources # 0 /\ config.healthy_after_packets # 0
  /\ config.degraded_after > 0
  /\ config.offline_after > config.degraded_after
  /\ config.recovery_after > 0

PipelineAccepts(config) == config.worker_count # 0 /\ config.queue_capacity # 0

PollAccepts(config) == config.poll_timeout \in 0..IntMax
-----------------------------------------------------------------------------
\* The options table of docs/runtime-receiver.md and the paragraph below it,
\* with the limits of the types that hold the values.
RuntimeAsked(line) ==
  LET listeners == Given(line, "--listen")
      value(option, default) ==
        GivenOr(line, option, [word |-> "", number |-> default]).number
      duration(option, default) == Milliseconds(value(option, default))
  IN  [listen_endpoints |->
         IF listeners = <<>> THEN <<Endpoint("0.0.0.0", 1)>>
         ELSE [i \in DOMAIN listeners |->
                 Endpoint(listeners[i].word, listeners[i].number)],
       max_drain |-> value("--max-drain", 2),
       worker_count |-> value("--workers", 2),
       queue_capacity |-> value("--queue-capacity", 2),
       max_sources |-> value("--max-sources", 2),
       healthy_after_packets |-> 2,
       degraded_after |-> duration("--health-degraded-ms", 1),
       offline_after |-> duration("--health-offline-ms", 4),
       recovery_after |-> duration("--health-recovery-ms", 2),
       packet_count |-> value("--count", Absent),
       poll_timeout |-> value("--poll-timeout-ms", 1)]

RuntimeMayAsk(line) ==
  /\ Complete(line)
  /\ \A i \in DOMAIN line.pairs :
       LET pair == line.pairs[i] IN
       IF pair.option = "--listen" THEN IsEndpoint(pair.value)
       ELSE /\ pair.option \in DOMAIN Field
            /\ IsPositive(pair.value)
            /\ Len(Given(line, pair.option)) = 1
  /\ LET asked == RuntimeAsked(line)
     IN  /\ asked.poll_timeout <= IntMax
         /\ \A field \in Durations : asked[field] <= RepMax
         /\ asked.offline_after > asked.degraded_after
=============================================================================
