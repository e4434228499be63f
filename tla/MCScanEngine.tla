---------------------------- MODULE MCScanEngine ----------------------------
(* Instances of ScanEngine for TLC; callers are model values. *)
EXTENDS ScanEngine

CONSTANTS c1, c2

OneCaller == {c1}
TwoCallers == {c1, c2}

NoFaults == {}
\* The faults after which a single caller's engine keeps all its promises.
Tolerated == {"factory", "pcap", "socket", "exit"}
SlowSniffer == {"slow_sniffer"}
=============================================================================
