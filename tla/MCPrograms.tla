------------------------------ MODULE MCPrograms ------------------------------
(***************************************************************************)
(* Command lines for Programs.  Every pair of options with values on both  *)
(* sides of every limit, and longer lines for the options that depend on   *)
(* each other.                                                             *)
(***************************************************************************)
EXTENDS Programs

Number(n) == [word |-> "", number |-> n]
Word(w) == [word |-> w, number |-> -1]

Pair(option, text) == [option |-> option, value |-> text]
Pairs(options, texts) == {Pair(o, t) : o \in options, t \in texts}
Lists(pairs, lengths) == UNION {[1..n -> pairs] : n \in lengths}
LinesOf(lists, lasts) == [pairs : lists, last : lasts]

Numbers == {Number(n) : n \in {0, 1, 4, 7, 8, 9}}

Listens ==
  {Pair("--listen", [word |-> a, number |-> p]) :
     a \in {"0.0.0.0", "127.0.0.1"}, p \in {1, PortMax}}
  \cup {Pair("--listen", [word |-> a, number |-> p]) :
          a \in {"127.0.0.1"}, p \in {0, PortMax + 1}}
  \cup {Pair("--listen", Word("localhost"))}

RuntimePairs ==
  Pairs(DOMAIN Field \ {"--poll-timeout-ms"}, Numbers) \cup Listens
  \cup Pairs({"--poll-timeout-ms"}, {Number(1), Number(IntMax), Number(IntMax + 1)})
  \cup {Pair("--workers", Word("many")), Pair("--help", Number(1))}

HealthPairs ==
  Pairs({"--health-degraded-ms", "--health-offline-ms"}, Numbers)

RuntimeLines ==
  LinesOf(Lists(RuntimePairs, 0..2), {"none"})
  \cup LinesOf(Lists(Listens, {3}), {"none"})
  \cup LinesOf(Lists(HealthPairs, {3}), {"none"})
  \cup LinesOf(Lists(Listens, 0..1), {"--help", "--count"})

SensorPairs ==
  Pairs({"--sensor"}, {Word("imu"), Word("gnss"), Word("camera"), Word("radar")})

SimulatorPairs ==
  Pairs({"--destination"}, {Word("127.0.0.1"), Word("localhost")})
  \cup Pairs({"--port", "--camera-extra-bytes"},
             {Number(0), Number(1), Number(2), Number(4), Number(9)})
  \cup Pairs({"--rate-hz"}, {Number(-1), Number(0), Number(1), Number(MaximumRate),
                             Number(MaximumRate + 1), Word("inf"), Word("nan"),
                             Word("fast")})
  \cup Pairs({"--delay-ms"}, {Number(0), Number(1), Number(MaximumFaultDelay),
                              Number(MaximumFaultDelay + 1)})
  \cup Pairs({"--count", "--drop-every", "--duplicate-every", "--reorder-every",
              "--corrupt-every", "--delay-every"}, {Number(0), Number(1), Number(9)})
  \cup {Pair("--loss", Number(1)), Pair("--help", Number(1))}

SimulatorLines ==
  LinesOf({<<s>> \o rest : s \in SensorPairs, rest \in Lists(SimulatorPairs, 0..2)},
          {"none"})
  \cup LinesOf({<<p>> \o rest : p \in SimulatorPairs, rest \in Lists(SensorPairs, 0..2)},
               {"none", "--count", "--help"})

DemoLines ==
  LinesOf(Lists(Pairs({"127.0.0.1", "localhost"},
                      {Number(-1), Number(0), Number(1), Number(PortMax + 1)}), 0..1),
          {"none", "1"})

MCLines ==
  [p \in ProgramNames |->
     CASE p = "runtime" -> RuntimeLines
       [] p = "simulator" -> SimulatorLines
       [] OTHER -> DemoLines]
=============================================================================
