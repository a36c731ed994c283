CONSTANTS
  WorkerCount = 2
  QueueCapacity = 1
  Producers = {p1, p2}
  Stoppers = {s1, s2}
  Owner = owner
  MaxSubmits = 3
SPECIFICATION Spec
PROPERTIES
  CallsReturn
  ImplementsLiveSink
