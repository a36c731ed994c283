CONSTANTS
  nan = nan
  inf = inf
  NonFinite <- SpecialNumbers
  Accelerations <- SomeAccelerations
  Latitudes <- SomeLatitudes
  Longitudes <- SomeLongitudes
  Altitudes <- SomeAltitudes
  Accuracies <- SomeAccuracies
  Pixels = {0, 1}
  MaxPayload = 34
SPECIFICATION Spec
CHECK_DEADLOCK FALSE
INVARIANTS
  SamplesAgree
