---------------------------- MODULE MCTrafficSpike ----------------------------
(* Instances of TrafficSpike for TLC. *)
EXTENDS TrafficSpike, TLC

CONSTANTS k1, k2
TwoKeys == {k1, k2}
KeySymmetry == Permutations(TwoKeys)
=============================================================================
