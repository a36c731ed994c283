CONSTANTS
  Listeners = {l1, l2}
  MaxPerPoll = 2
  MaxDatagrams = 3
  PacketCount = 2
  WorkerCount = 2
  QueueCapacity = 1
SPECIFICATION RuntimeSpec
INVARIANTS
  SummaryAddsUp
  ReportIsComplete
  ObservedInArrivalOrder
  LimitIsExact
  NoUseAfterReturn
  StopIsNoticed
PROPERTY
  StopEndsRun
