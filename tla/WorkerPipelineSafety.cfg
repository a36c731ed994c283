CONSTANTS
  WorkerCount = 3
  QueueCapacity = 2
  Producers = {p1, p2}
  Stoppers = {s1, s2}
  Owner = owner
  MaxSubmits = 5
SPECIFICATION SafeSpec
SYMMETRY ProducerSymmetry
INVARIANTS
  TypeOK
  WakeupsReachWorkers
  Conservation
  DrainedWhenStopped
  StableSnapshot
  QuiescentAtDestruction
  JoinIsExclusive
PROPERTIES
  ExitIsFinal
  ImplementsSink
