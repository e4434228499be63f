------------------------------ MODULE MCArpSpoof ------------------------------
(* Instances of ArpSpoof for TLC. *)
EXTENDS ArpSpoof, TLC

CONSTANTS i1, i2, m1, m2
TwoIPs == {i1, i2}
TwoMacs == {m1, m2}
Gateway == {i1}
MacSymmetry == Permutations(TwoMacs)
=============================================================================
