---------------------------- MODULE MCWebDashboard ----------------------------
(* Instances of WebDashboard for TLC. *)
EXTENDS WebDashboard

CONSTANTS p1, p2
ThePage == {Page}
TwoPolls == {p1, p2}
Sources == {"live"}
\* How a live scan can come to an end that nobody asked for.
Endings == {"socket", "callback"}
AnyPacket == 1 .. Packets
=============================================================================
