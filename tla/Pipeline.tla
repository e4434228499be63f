------------------------------- MODULE Pipeline -------------------------------
(***************************************************************************)
(* ScanEngine._process(): the scan thread gives each packet to one detector *)
(* after the other and emits what each reports.  An exception, of the       *)
(* detector or of a sink, ends that detector's turn and no more.            *)
(* NewHost is modelled with its state; what the other detectors report is   *)
(* left open.  The alert history outlives a scan, the detectors do not.     *)
(* A thread of an earlier scan, left over by a stop() that has timed out,    *)
(* may still be emitting alerts of its own.                                  *)
(***************************************************************************)
EXTENDS AlertManager, NewHost

CONSTANTS
  Scan,        \* the scan thread; the other emitters are left over
  Detectors,   \* the detectors' names, in the order they run
  MaxWork,     \* bound on packets, of all scans, and late alerts together
  MaxScans     \* bound on the scans

ASSUME PipelineAssumption ==
  /\ Scan \in Emitters
  /\ "rule" \notin Addresses
  /\ Detectors \in Seq({"new_host", "other"})
  /\ MaxWork \in Nat /\ MaxScans \in Nat

VARIABLES
  scan,     \* the number of the scan that runs
  step,     \* "take" a packet, let a detector "detect", "emit" its alerts
  turn,     \* index of the detector whose turn it is
  pkt,      \* the packet
  todo,     \* the alerts the detector returned that are still to be emitted
  seen,     \* NewHostDetector._seen
  packets,  \* packets taken so far in this scan
  total,    \* packets taken so far in all scans
  given,    \* packets each detector was given in this scan
  reports   \* what each recorded alert says: the scan and the address or rule

turnVars == <<scan, step, turn, pkt, todo, seen, packets, total, given>>
vars == <<alertVars, turnVars, reports>>

Init ==
  /\ AlertInit
  /\ scan = 1 /\ step = "take" /\ turn = 0
  /\ pkt = [kind |-> "other", src |-> Null, dst |-> Null]
  /\ todo = <<>> /\ seen = {}
  /\ packets = 0 /\ total = 0
  /\ given = [d \in 1 .. Len(Detectors) |-> 0]
  /\ reports = <<>>

Busy == at[Scan] # Outside

\* What a thread that is left over emits: never anything of this scan.
Late == <<0, "rule">>
Work == total + Cardinality({i \in DOMAIN reports : reports[i] = Late})

\* Whose turn is next; after the last detector it is the next packet's.
PassTurn ==
  IF turn < Len(Detectors) THEN step' = "detect" /\ turn' = turn + 1
                           ELSE step' = "take" /\ turn' = 0

TakePacket(p) ==
  /\ step = "take" /\ Work < MaxWork
  /\ pkt' = p /\ PassTurn
  /\ packets' = packets + 1 /\ total' = total + 1
  /\ UNCHANGED <<alertVars, scan, todo, seen, given, reports>>

\* Defect: a scan goes on with the detectors of the last one.
DefectKeepDetectors ==
  /\ step = "take" /\ scan < MaxScans
  /\ scan' = scan + 1
  /\ packets' = 0
  /\ given' = [d \in 1 .. Len(Detectors) |-> 0]
  /\ UNCHANGED <<alertVars, step, turn, pkt, todo, seen, total, reports>>

\* start() builds fresh detectors; the AlertManager stays.
NewScan ==
  /\ step = "take" /\ scan < MaxScans
  /\ scan' = scan + 1
  /\ seen' = {} /\ packets' = 0
  /\ given' = [d \in 1 .. Len(Detectors) |-> 0]
  /\ UNCHANGED <<alertVars, step, turn, pkt, todo, total, reports>>

Given == given' = [given EXCEPT ![turn] = @ + 1]

Detect ==
  /\ step = "detect" /\ step' = "emit"
  /\ Given
  /\ IF Detectors[turn] = "new_host"
     THEN /\ todo' = NewHosts(seen, pkt)
          /\ seen' = seen \cup Introduced(pkt)
     ELSE /\ todo' \in {<<>>, <<"rule">>}
          /\ UNCHANGED seen
  /\ UNCHANGED <<alertVars, scan, turn, pkt, packets, total, reports>>

DetectorRaises ==
  /\ step = "detect" /\ Detectors[turn] = "other"
  /\ Given
  /\ PassTurn
  /\ UNCHANGED <<alertVars, scan, pkt, todo, seen, packets, total, reports>>

EmitNext ==
  /\ step = "emit" /\ todo # <<>>
  /\ Record(Scan)
  /\ reports' = Append(reports, <<scan, Head(todo)>>)
  /\ todo' = Tail(todo)
  /\ UNCHANGED <<scan, step, turn, pkt, seen, packets, total, given>>

EmitWrites ==
  /\ Write(Scan)
  /\ UNCHANGED <<turnVars, reports>>

\* Defect: the try block does not cover emit().
DefectDropPacket ==
  /\ SinkRaises(Scan)
  /\ todo' = <<>> /\ step' = "take" /\ turn' = 0
  /\ UNCHANGED <<scan, pkt, seen, packets, total, given, reports>>

\* The exception of a sink ends the detector's turn: the alerts it returned
\* after this one are never emitted.
EmitRaises ==
  /\ SinkRaises(Scan)
  /\ todo' = <<>>
  /\ PassTurn
  /\ UNCHANGED <<scan, pkt, seen, packets, total, given, reports>>

EndTurn ==
  /\ step = "emit" /\ todo = <<>> /\ ~Busy
  /\ PassTurn
  /\ UNCHANGED <<alertVars, scan, pkt, todo, seen, packets, total, given, reports>>

LateEmits(e) ==
  /\ Work < MaxWork /\ Record(e)
  /\ reports' = Append(reports, Late)
  /\ UNCHANGED turnVars

LateGoesOn(e) ==
  /\ Write(e) \/ SinkRaises(e)
  /\ UNCHANGED <<turnVars, reports>>

Next ==
  \/ \E p \in HostPackets : TakePacket(p)
  \/ NewScan \/ Detect \/ DetectorRaises
  \/ EmitNext \/ EmitWrites \/ EmitRaises \/ EndTurn
  \/ \E e \in Emitters \ {Scan} : LateEmits(e) \/ LateGoesOn(e)

Spec == Init /\ [][Next]_vars

-----------------------------------------------------------------------------
(* Properties *)

Reported(s, ip) == {i \in 1 .. Len(reports) : reports[i] = <<s, ip>>}

\* engine.py:190 "one bad packet must never kill the scan": whatever raised,
\* every detector is given every packet.
EveryDetectorEveryPacket ==
  step = "take" => \A d \in 1 .. Len(Detectors) : given[d] = packets

Unreported == {ip \in seen : Reported(scan, ip) = {}}
FailedReports ==
  {f[2] : f \in {g \in failures : reports[g[2]][1] = scan /\ reports[g[2]][2] \in Addresses}}

\* new_host.py:12 "Each address is reported once per scan": never twice, and not
\* never but for a sink that raised: each report of this scan that a sink raised
\* on costs the report of at most one other address.
HostsReportedOnce ==
  /\ \A s \in 1 .. MaxScans, ip \in Addresses : Cardinality(Reported(s, ip)) <= 1
  /\ step = "take" => Cardinality(Unreported) <= Cardinality(FailedReports)

\* What the sentence says: what NewHost has seen it has reported in this scan.
SeenIsReported == step = "take" => \A ip \in seen : Reported(scan, ip) # {}
=============================================================================
