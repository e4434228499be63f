-------------------------------- MODULE NewHost --------------------------------
(***************************************************************************)
(* detectors/new_host.py: which addresses a packet introduces, and which of *)
(* them the detector reports given those it has seen in this scan.          *)
(***************************************************************************)
EXTENDS Sequences

CONSTANTS
  Hosts,   \* the addresses of real hosts
  Null     \* "0.0.0.0"

ASSUME HostAssumption == Null \notin Hosts

Addresses == Hosts \cup {Null}
PacketKinds == {"ip", "arp", "other"}
HostPackets == [kind : PacketKinds, src : Addresses, dst : Addresses]

\* _addresses(): both ends of IP traffic, the real addresses of an ARP packet.
Introduced(pkt) ==
  CASE pkt.kind = "ip"    -> {pkt.src, pkt.dst}
    [] pkt.kind = "arp"   -> {pkt.src, pkt.dst} \ {Null}
    [] pkt.kind = "other" -> {}

\* process(): one alert for each address not seen before, the source's first.
NewHosts(seen, pkt) ==
  LET fresh == Introduced(pkt) \ seen
      once(ip, among) == IF ip \in among THEN <<ip>> ELSE <<>>
  IN once(pkt.src, fresh) \o once(pkt.dst, fresh \ {pkt.src})
=============================================================================
