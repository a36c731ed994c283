------------------------ MODULE MCSourceHealthMonitor ------------------------
(* SourceHealthMonitor for TLC: symmetric sources.                         *)
EXTENDS SourceHealthMonitor, TLC

SourceSymmetry == Permutations(Sources)
=============================================================================
