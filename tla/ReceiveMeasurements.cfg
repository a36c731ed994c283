CONSTANTS
  Capacity = 3
  MaxTime = 2
  MaxArrivals = 5
SPECIFICATION Spec
CHECK_DEADLOCK FALSE
INVARIANTS
  MeasurementsFollowHistory
