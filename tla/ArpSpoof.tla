------------------------------- MODULE ArpSpoof -------------------------------
(***************************************************************************)
(* detectors/arp_spoof.py over state.py, MacTable: the detector learns which *)
(* MAC an address belongs to from ARP replies and reports an address that    *)
(* moves to another MAC, unless it reported it within the cooldown.          *)
(***************************************************************************)
EXTENDS Naturals, Sequences

CONSTANTS
  IPs, Macs,          \* what a reply may say
  Gateways,           \* gateway_ips
  Cooldown,           \* cooldown_seconds
  Start,              \* the clock when the scan starts
  MaxTime, MaxPackets \* bounds

\* The clock counts from 1970: an address never reported is not in a cooldown.
ASSUME ArpAssumption ==
  /\ Gateways \subseteq IPs
  /\ Cooldown \in Nat /\ Start \in Nat /\ MaxTime \in Nat /\ MaxPackets \in Nat
  /\ Start >= Cooldown

NoMac == "00:00:00:00:00:00"
ASSUME MacAssumption == NoMac \notin Macs

Unbound == [mac |-> NoMac, seen_count |-> 0]

VARIABLES
  now,         \* time.time()
  bindings,    \* self._table._bindings
  last_alert,  \* self._last_alert
  claims,      \* history: the valid replies for each address, oldest first
  alerts,      \* history: the alerts, by the number of the reply they answer
  sent         \* number of ARP packets so far

vars == <<now, bindings, last_alert, claims, alerts, sent>>

Init ==
  /\ now = Start
  /\ bindings = [ip \in IPs |-> Unbound]
  /\ last_alert = [ip \in IPs |-> 0]
  /\ claims = [ip \in IPs |-> <<>>]
  /\ alerts = {} /\ sent = 0

Tick ==
  /\ now < MaxTime
  /\ now' = now + 1
  /\ UNCHANGED <<bindings, last_alert, claims, alerts, sent>>

Packet == sent < MaxPackets /\ sent' = sent + 1 /\ UNCHANGED now

Last(s) == s[Len(s)]

\* Defect: a request that names its sender updates the table like a reply.
DefectTrustRequests(op, ip, mac) ==
  /\ Packet
  /\ op = "who-has" /\ mac # NoMac
  /\ bindings' = [bindings EXCEPT ![ip] = [mac |-> mac, seen_count |-> 1]]
  /\ UNCHANGED <<last_alert, claims, alerts>>

\* Requests and null senders say nothing.
Ignored(op, ip, mac) ==
  /\ Packet
  /\ op = "who-has" \/ mac = NoMac
  /\ UNCHANGED <<bindings, last_alert, claims, alerts>>

\* MacTable.observe(): the binding after a reply.
Observed(binding, mac) ==
  [mac |-> mac, seen_count |-> IF binding.mac = mac THEN binding.seen_count + 1 ELSE 1]

Conflict(ip, mac) == bindings[ip] # Unbound /\ bindings[ip].mac # mac

Reply(ip, mac) ==
  /\ Packet
  /\ bindings' = [bindings EXCEPT ![ip] = Observed(@, mac)]
  /\ claims' = [claims EXCEPT ![ip] = Append(@, [mac |-> mac, time |-> now])]

InCooldown(ip) == now < last_alert[ip] + Cooldown

Agree(ip, mac) ==
  /\ Reply(ip, mac)
  /\ ~Conflict(ip, mac)
  /\ UNCHANGED <<last_alert, alerts>>

Suppress(ip, mac) ==
  /\ Reply(ip, mac)
  /\ Conflict(ip, mac) /\ InCooldown(ip)
  /\ UNCHANGED <<last_alert, alerts>>

Severity(ip) == IF ip \in Gateways THEN "critical" ELSE "high"

Alarm(ip, mac) ==
  [ip |-> ip, old |-> bindings[ip].mac, old_count |-> bindings[ip].seen_count,
   new |-> mac, time |-> now, severity |-> Severity(ip)]

\* Defect: the alert is built from the binding after the move.
DefectReportNew(ip, mac) ==
  /\ Reply(ip, mac)
  /\ Conflict(ip, mac) /\ ~InCooldown(ip)
  /\ last_alert' = [last_alert EXCEPT ![ip] = now]
  /\ alerts' = alerts \cup
       {[Alarm(ip, mac) EXCEPT !.old = mac, !.old_count = bindings'[ip].seen_count]}

Report(ip, mac) ==
  /\ Reply(ip, mac)
  /\ Conflict(ip, mac) /\ ~InCooldown(ip)
  /\ last_alert' = [last_alert EXCEPT ![ip] = now]
  /\ alerts' = alerts \cup {Alarm(ip, mac)}

Next ==
  \/ Tick
  \/ \E ip \in IPs : \E op \in {"who-has", "is-at"}, mac \in Macs \cup {NoMac} :
       Ignored(op, ip, mac)
  \/ \E ip \in IPs, mac \in Macs : Agree(ip, mac) \/ Suppress(ip, mac) \/ Report(ip, mac)

Spec == Init /\ [][Next]_vars

-----------------------------------------------------------------------------
(* Properties *)

\* The last n replies for an address name one MAC.
Unanimous(ip, n) ==
  \A i \in Len(claims[ip]) - n + 1 .. Len(claims[ip]) :
    claims[ip][i].mac = Last(claims[ip]).mac

\* The table always holds the MAC of the latest reply for an address and how
\* often in a row it was claimed, whatever came for other addresses or in
\* requests; it knows nothing of an address without a reply.
TableIsLatest ==
  \A ip \in IPs :
    IF claims[ip] = <<>> THEN bindings[ip] = Unbound
    ELSE LET n == bindings[ip].seen_count IN
         /\ bindings[ip].mac = Last(claims[ip]).mac
         /\ n \in 1 .. Len(claims[ip])
         /\ Unanimous(ip, n) /\ (n < Len(claims[ip]) => ~Unanimous(ip, n + 1))

\* The replies by which an address moved from one MAC to another.
Moves(ip) ==
  {i \in 2 .. Len(claims[ip]) : claims[ip][i].mac # claims[ip][i - 1].mac}

\* The alert came with the i-th reply, or less than a cooldown before it.
Covers(a, ip, i) ==
  /\ a.ip = ip /\ a.time <= claims[ip][i].time
  /\ claims[ip][i].time < a.time + Cooldown \/ claims[ip][i].time = a.time

\* The alert tells the move: both MACs, and how often in a row the old one had
\* been claimed.
Tells(a, i) ==
  LET said == claims[a.ip]
      run == i - a.old_count .. i - 1
  IN /\ said[i].time = a.time
     /\ said[i].mac = a.new /\ said[i - 1].mac = a.old
     /\ a.old_count \in 1 .. i - 1
     /\ \A j \in run : said[j].mac = a.old
     /\ i - a.old_count > 1 => said[i - a.old_count - 1].mac # a.old

\* README.md:104-106: an address that moves is flagged, by an alert at that
\* moment or less than a cooldown before, and an alert is never about anything
\* but a move: it says which one.
MovesReported ==
  /\ \A ip \in IPs : \A i \in Moves(ip) : \E a \in alerts : Covers(a, ip, i)
  /\ \A a \in alerts : \E i \in Moves(a.ip) : Tells(a, i)
=============================================================================
