------------------------------ MODULE MCPortScan ------------------------------
(* Instances of PortScan for TLC. *)
EXTENDS PortScan, TLC

CONSTANTS s1, s2, d1, p1, p2, p3
TwoSources == {s1, s2}
OneTarget == {d1}
ThreePorts == {p1, p2, p3}
Symmetries == Permutations(TwoSources) \cup Permutations(ThreePorts)
=============================================================================
