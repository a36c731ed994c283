CONSTANTS
  Intervals = {0, 2, 3}
  Counts = {4}
  MaxPackets = 4
SPECIFICATION SafeSpec
INVARIANT
  FiniteRunTotals
