------------------------------ MODULE MCPipeline ------------------------------
(* Instances of Pipeline for TLC. *)
EXTENDS Pipeline, TLC

CONSTANTS h1, h2, earlier
TwoHosts == {h1, h2}
HostSymmetry == Permutations(TwoHosts)
OnlyScan == {Scan}
TwoThreads == {Scan, earlier}
\* The order of cli.build_detectors(): rules, new_host, ml_anomaly.
ThreeDetectors == <<"other", "new_host", "other">>
OneSink == <<"json">>
TwoSinks == <<"console", "json">>
ConsoleAndFile == {"console", "json"}
=============================================================================
