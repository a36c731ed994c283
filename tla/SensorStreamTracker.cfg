CONSTANTS
  Sources = {s1, s2, s3}
  MaxSources = 2
  SequenceSpace = 8
  RecentCount = 3
  CounterMax = 4
  MaxPackets = 5
SPECIFICATION TrackerSpec
CHECK_DEADLOCK FALSE
SYMMETRY SourceSymmetry
INVARIANTS
  BitmapIsRecentHistory
  StreamCountsAddUp
PROPERTY
  StatusIsTruthful
