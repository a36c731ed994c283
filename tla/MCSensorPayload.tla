--------------------------- MODULE MCSensorPayload ---------------------------
(* SensorPayload for TLC: values on both sides of every limit.             *)
EXTENDS SensorPayload

CONSTANTS nan, inf

SpecialNumbers == {nan, inf}
SomeAccelerations == {nan, inf, 0}
SomeLatitudes == {nan, -91, -90, 90, 91}
SomeLongitudes == {inf, -181, -180, 180, 181}
SomeAltitudes == {nan, 0}
SomeAccuracies == {nan, -1, 0}
=============================================================================
