------------------------ MODULE MCSensorStreamTracker ------------------------
(* SensorStreamTracker for TLC: symmetric sources.                         *)
EXTENDS SensorStreamTracker, TLC

SourceSymmetry == Permutations(Sources)
=============================================================================
