CONSTANTS
  Sources = {s1, s2}
  MaxSources = 1
  SequenceSpace = 8
  RecentCount = 3
  CounterMax = 2
  MaxPackets = 3
  Numbers = {0, 1, 2}
  HealthyAfter = 2
  DegradedAfter = 1
  OfflineAfter = 2
  RecoveryAfter = 2
  MaxTime = 3
SPECIFICATION MonitorSpec
CHECK_DEADLOCK FALSE
SYMMETRY SourceSymmetry
INVARIANTS
  CountersAgree
  StatusFollowsHistory
