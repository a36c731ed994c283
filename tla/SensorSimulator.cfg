CONSTANTS
  Intervals = {0, 1, 2, 3}
  Counts = {0, 3, 5}
  MaxPackets = 5
SPECIFICATION Spec
INVARIANTS
  PacketsAccounted
  SummaryDescribesDatagrams
  OnlyAdjacentSwaps
  StopIsPrompt
PROPERTY
  RunEnds
