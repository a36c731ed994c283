--------------------------- MODULE SimulatorConfig ---------------------------
(***************************************************************************)
(* parse_simulator_config and validate_runtime_config                      *)
(* (src/simulator/sensor_simulator.cpp).  A rate is kept as the text it    *)
(* was read from: its number is in a scaled unit, and std::from_chars also *)
(* reads the words inf and nan.                                            *)
(***************************************************************************)
EXTENDS CommandLine

CONSTANTS
  MaximumRate,               \* kMaximumRateHz
  MaximumFaultDelay,         \* kMaximumFaultDelay, in milliseconds
  MaxCameraExtraDataSize     \* kMaxCameraExtraDataSize

ASSUME SimulatorConfigAssumption ==
  /\ MaximumRate \in Nat /\ MaximumRate >= 3
  /\ MaximumFaultDelay \in 1..NumberMax
  /\ MaxCameraExtraDataSize \in Nat

DefaultRate == [imu |-> 3, gnss |-> 1, camera |-> 2]

Sensors == DOMAIN DefaultRate

Rate(number) == [word |-> "", number |-> number]

SimulatorDefaults ==
  [sensor_type |-> "imu", address |-> "127.0.0.1", port |-> 1,
   rate_hz |-> Rate(0), packet_count |-> Absent, camera_extra |-> 0,
   drop_every |-> Absent, duplicate_every |-> Absent,
   reorder_every |-> Absent, corrupt_every |-> Absent,
   delay_every |-> Absent, delay_ms |-> Absent]

SimulatorField ==
  [option \in {"--sensor", "--destination", "--port", "--rate-hz", "--count",
               "--camera-extra-bytes", "--drop-every", "--duplicate-every",
               "--reorder-every", "--corrupt-every", "--delay-every",
               "--delay-ms"} |->
     CASE option = "--sensor" -> "sensor_type"
       [] option = "--destination" -> "address"
       [] option = "--port" -> "port"
       [] option = "--rate-hz" -> "rate_hz"
       [] option = "--count" -> "packet_count"
       [] option = "--camera-extra-bytes" -> "camera_extra"
       [] option = "--drop-every" -> "drop_every"
       [] option = "--duplicate-every" -> "duplicate_every"
       [] option = "--reorder-every" -> "reorder_every"
       [] option = "--corrupt-every" -> "corrupt_every"
       [] option = "--delay-every" -> "delay_every"
       [] option = "--delay-ms" -> "delay_ms"]

Intervals ==
  {"drop_every", "duplicate_every", "reorder_every", "corrupt_every",
   "delay_every"}

\* The check inside the loop, before the field is assigned.
Readable(field, text) ==
  CASE field = "sensor_type" -> text.word \in Sensors
    [] field = "address" -> TRUE
    [] field = "port" -> IsUnsigned(text) /\ text.number <= PortMax
    [] field = "rate_hz" -> text.word \in {"", "inf", "nan"}
    [] field \in {"packet_count", "camera_extra"} -> IsUnsigned(text)
    [] field = "delay_ms" -> /\ IsPositive(text)
                             /\ text.number <= MaximumFaultDelay
    [] field \in Intervals -> IsPositive(text)

Assigned(field, text) ==
  CASE field \in {"sensor_type", "address"} -> text.word
    [] field = "rate_hz" -> text
    [] OTHER -> text.number

\* One round of the loop.  has_sensor and has_explicit_rate are whether the
\* option was seen.
ParseSimulatorOption(state, pair) ==
  IF state.failed THEN state
  ELSE IF \/ pair.option \in state.seen
          \/ pair.option \notin DOMAIN SimulatorField
  THEN [state EXCEPT !.failed = TRUE]
  ELSE LET field == SimulatorField[pair.option] IN
       IF ~Readable(field, pair.value) THEN [state EXCEPT !.failed = TRUE]
       ELSE [state EXCEPT !.config[field] = Assigned(field, pair.value),
                          !.seen = @ \cup {pair.option}]

FiniteRate(rate) == rate.word = "" /\ rate.number \in 1..MaximumRate

\* The checks the parser makes after the loop and the simulator repeats.
CommonChecks(config) ==
  /\ config.address \in Addresses
  /\ config.port # 0
  /\ FiniteRate(config.rate_hz)
  /\ config.packet_count # 0
  /\ config.camera_extra <= MaxCameraExtraDataSize
  /\ config.sensor_type = "camera" \/ config.camera_extra = 0

\* config.faults.delay is present when delay_every is: the two options come
\* together.
ParseSimulatorConfig(line) ==
  LET start == [config |-> SimulatorDefaults, seen |-> {}, failed |-> FALSE]
      end == FoldLeft(ParseSimulatorOption, start, line.pairs)
      config == IF "--rate-hz" \in end.seen THEN end.config
                ELSE [end.config EXCEPT
                       !.rate_hz = Rate(DefaultRate[end.config.sensor_type])]
  IN  [ok |-> /\ ~end.failed
              /\ Complete(line)
              /\ "--sensor" \in end.seen
              /\ CommonChecks(config)
              /\ (config.delay_every = Absent) = (config.delay_ms = Absent),
       config |-> config]

SimulatorAccepts(config) ==
  /\ config.sensor_type \in Sensors
  /\ CommonChecks(config)
  /\ \A field \in Intervals : config[field] # 0
  /\ \/ config.delay_every = Absent
     \/ config.delay_ms \in 1..MaximumFaultDelay
-----------------------------------------------------------------------------
\* The options table of docs/simulator.md and the paragraph below it.
SimulatorAsked(line) ==
  LET text(option, default) == GivenOr(line, option, default)
      word(option, default) ==
        text(option, [word |-> default, number |-> -1]).word
      number(option, default) == text(option, Rate(default)).number
      sensor == word("--sensor", "none")
  IN  [sensor_type |-> sensor,
       address |-> word("--destination", "127.0.0.1"),
       port |-> number("--port", 1),
       rate_hz |-> text("--rate-hz", Rate(DefaultRate[sensor])),
       packet_count |-> number("--count", Absent),
       camera_extra |-> number("--camera-extra-bytes", 0),
       drop_every |-> number("--drop-every", Absent),
       duplicate_every |-> number("--duplicate-every", Absent),
       reorder_every |-> number("--reorder-every", Absent),
       corrupt_every |-> number("--corrupt-every", Absent),
       delay_every |-> number("--delay-every", Absent),
       delay_ms |-> number("--delay-ms", Absent)]

\* The values the documentation allows for an option.
Allowed(line, option, text) ==
  CASE option = "--sensor" -> text.word \in Sensors
    [] option = "--destination" -> text.word \in Addresses
    [] option = "--port" -> text.word = "" /\ text.number \in 1..PortMax
    [] option = "--rate-hz" -> text.word = "" /\ text.number \in 1..MaximumRate
    [] option = "--camera-extra-bytes" ->
         /\ IsUnsigned(text)
         /\ text.number = 0 \/ /\ text.number <= MaxCameraExtraDataSize
                               /\ Given(line, "--sensor")[1].word = "camera"
    [] option = "--delay-ms" ->
         text.word = "" /\ text.number \in 1..MaximumFaultDelay
    [] OTHER -> IsPositive(text)

SimulatorMayAsk(line) ==
  /\ Complete(line)
  /\ Len(Given(line, "--sensor")) = 1
  /\ \A i \in DOMAIN line.pairs :
       LET pair == line.pairs[i] IN
       /\ pair.option \in DOMAIN SimulatorField
       /\ Len(Given(line, pair.option)) = 1
       /\ Allowed(line, pair.option, pair.value)
  /\ Len(Given(line, "--delay-every")) = Len(Given(line, "--delay-ms"))
=============================================================================
