------------------------------- MODULE PortScan -------------------------------
(***************************************************************************)
(* detectors/port_scan.py: the detector keeps, for each source, the TCP      *)
(* ports it sent packets to within the window, and reports a source that     *)
(* reaches the threshold unless it was reported within the cooldown.  Time   *)
(* is that of time.time(): a clock that may be set back.  What the flags of  *)
(* the packet add to the report, its label and severity, is left out.        *)
(***************************************************************************)
EXTENDS ExpiringSet, FiniteSets

CONSTANTS
  Sources, Targets, Ports,   \* what a TCP packet may say
  Threshold,                 \* port_threshold
  Cooldown,                  \* cooldown_seconds
  Start,                     \* the clock when the scan starts
  MaxTime, MaxPackets,       \* bounds
  MaxSlips                   \* bound: how often the clock is set back

\* The clock counts from 1970: a source never reported is not in a cooldown.
ASSUME ScanAssumption ==
  /\ Threshold \in Nat \ {0} /\ Cooldown \in Nat
  /\ Start \in Nat /\ MaxTime \in Nat /\ MaxPackets \in Nat /\ Start >= Cooldown
  /\ MaxSlips \in Nat

VARIABLES
  now,         \* time.time()
  entries,     \* self._ports_seen
  last_alert,  \* self._last_alert
  touched,     \* history: the packets of each source
  alerts,      \* history: what was reported
  sent,        \* number of packets so far
  slips        \* how often the clock was set back so far

vars == <<now, entries, last_alert, touched, alerts, sent, slips>>

Init ==
  /\ now = Start
  /\ entries = [s \in Sources |-> <<>>]
  /\ last_alert = [s \in Sources |-> 0]
  /\ touched = [s \in Sources |-> {}]
  /\ alerts = {} /\ sent = 0 /\ slips = 0

Tick ==
  /\ now < MaxTime
  /\ now' = now + 1
  /\ UNCHANGED <<entries, last_alert, touched, alerts, sent, slips>>

SetBack ==
  /\ slips < MaxSlips /\ slips' = slips + 1
  /\ now' \in Start .. now - 1
  /\ UNCHANGED <<entries, last_alert, touched, alerts, sent>>

\* Defect: the cooldown ends one unit early.
DefectShortCooldown(s) == now + 1 < last_alert[s] + Cooldown

InCooldown(s) == now < last_alert[s] + Cooldown

Seen(s, dst, port) ==
  /\ sent < MaxPackets /\ sent' = sent + 1
  /\ touched' = [touched EXCEPT ![s] = @ \cup {[time |-> now, dst |-> dst, port |-> port]}]
  /\ entries' = [entries EXCEPT ![s] = Add(@, now, port)]
  /\ UNCHANGED <<now, slips>>

Distinct(s) == Cardinality(DistinctValues(entries'[s], now))

Quiet(s, dst, port) ==
  /\ Seen(s, dst, port)
  /\ Distinct(s) < Threshold \/ InCooldown(s)
  /\ UNCHANGED <<last_alert, alerts>>

Report(s, dst, port) ==
  /\ Seen(s, dst, port)
  /\ Distinct(s) >= Threshold /\ ~InCooldown(s)
  /\ last_alert' = [last_alert EXCEPT ![s] = now]
  /\ alerts' = alerts \cup {[src |-> s, dst |-> dst, time |-> now, count |-> Distinct(s)]}

Next ==
  \/ Tick \/ SetBack
  \/ \E s \in Sources, d \in Targets, p \in Ports : Quiet(s, d, p) \/ Report(s, d, p)

Spec == Init /\ [][Next]_vars

-----------------------------------------------------------------------------
(* Properties *)

\* The packets of a source that lie within the window, by their stamps.
Recent(s) == {t \in touched[s] : t.time + Window >= now}

TruePorts(s) == {t.port : t \in Recent(s)}

\* state.py:21-22 "entries older than the window are evicted lazily on access":
\* unless the clock was set back, which leaves stamps out of order, the set a
\* look-up would see is exactly the ports of the last window.
WindowExact ==
  slips = 0 => \A s \in Sources : DistinctValues(entries[s], now) = TruePorts(s)

\* The report came with the last packet of the source, or less than a cooldown
\* before it.
Fresh(a) == \A t \in touched[a.src] : t.time < a.time + Cooldown \/ t.time = a.time

Apart(a, b) == a.time + Cooldown <= b.time \/ b.time + Cooldown <= a.time

\* A source that has reached the threshold with its last packet has been
\* reported at that packet or within the cooldown before it, unless the clock
\* was set back; and the reports about one source lie a cooldown apart even if
\* it was: then a report waits until the clock has caught up.
ScansReportedOncePerCooldown ==
  /\ \A s \in Sources :
       slips = 0 /\ Cardinality(TruePorts(s)) >= Threshold =>
         \E a \in alerts : a.src = s /\ Fresh(a)
  /\ \A a, b \in alerts : a.src = b.src /\ a # b => Apart(a, b)
=============================================================================
