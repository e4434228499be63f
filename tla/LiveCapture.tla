----------------------------- MODULE LiveCapture -----------------------------
(***************************************************************************)
(* The way of a packet in a live scan: Scapy's sniffer thread hands it to   *)
(* LiveCapture._on_packet, which puts it on a bounded queue or counts it as *)
(* dropped; the loop of ScanEngine._run takes it off and processes it, and  *)
(* copies the drop counter to the status.  stop() comes from another thread.*)
(* The sniffer is up: its startup is ScanEngine's subject.                  *)
(***************************************************************************)
EXTENDS Naturals, Sequences

CONSTANTS
  QueueSize,   \* queue.Queue's maxsize
  MaxArrivals, \* bound: packets on the wire during the scan
  MayRaise     \* whether on_packet() or a failure report may raise

ASSUME CaptureAssumption ==
  /\ QueueSize \in Nat \ {0}
  /\ MaxArrivals \in Nat
  /\ MayRaise \in BOOLEAN

NoPacket == 0

VARIABLES
  arrived,   \* packets given to _on_packet so far; the n-th is called n
  queue,     \* self._queue
  dropped,   \* self._dropped
  sniffing,  \* the sniffer's thread is capturing
  stop_flag, \* the engine's _stop_flag
  stopper,   \* where stop() is
  pc,        \* where the loop of _run() is
  hand,      \* the loop's local pkt
  shown,     \* status.dropped_count
  log,       \* history: the packets _process() was called with
  mark       \* history: Len(log) when stop was requested

wireVars == <<arrived, queue, dropped>>
vars == <<wireVars, sniffing, stop_flag, stopper, pc, hand, shown, log, mark>>

Init ==
  /\ arrived = 0 /\ queue = <<>> /\ dropped = 0
  /\ sniffing = TRUE /\ stop_flag = FALSE /\ stopper = "idle"
  /\ pc = "poll" /\ hand = NoPacket /\ shown = 0
  /\ log = <<>> /\ mark = 0

-----------------------------------------------------------------------------
(* The sniffer's thread: _on_packet() *)

\* Defect: a full queue makes room by discarding its oldest packet, uncounted.
DefectDropOldest ==
  /\ sniffing /\ arrived < MaxArrivals
  /\ Len(queue) = QueueSize
  /\ arrived' = arrived + 1
  /\ queue' = Append(Tail(queue), arrived')
  /\ UNCHANGED <<dropped, sniffing, stop_flag, stopper, pc, hand, shown, log, mark>>

Arrive ==
  /\ sniffing /\ arrived < MaxArrivals
  /\ arrived' = arrived + 1
  /\ UNCHANGED <<sniffing, stop_flag, stopper, pc, hand, shown, log, mark>>

Enqueue ==
  /\ Arrive
  /\ Len(queue) < QueueSize
  /\ queue' = Append(queue, arrived')
  /\ UNCHANGED dropped

Drop ==
  /\ Arrive
  /\ Len(queue) = QueueSize
  /\ dropped' = dropped + 1
  /\ UNCHANGED queue

-----------------------------------------------------------------------------
(* The scan thread: the live loop of _run() *)

LoopAt(from, to) == pc = from /\ pc' = to

\* Defect: the loop empties the queue before it looks at the stop flag.
DefectDrainFirst ==
  /\ LoopAt("poll", IF stop_flag /\ queue = <<>> THEN "halt" ELSE "get")
  /\ UNCHANGED <<wireVars, sniffing, stop_flag, stopper, hand, shown, log, mark>>

Poll ==
  /\ LoopAt("poll", IF stop_flag THEN "halt" ELSE "get")
  /\ UNCHANGED <<wireVars, sniffing, stop_flag, stopper, hand, shown, log, mark>>

\* Defect: the queue hands out its newest packet.
DefectNewestFirst ==
  /\ LoopAt("get", "process")
  /\ queue # <<>>
  /\ hand' = queue[Len(queue)]
  /\ queue' = SubSeq(queue, 1, Len(queue) - 1)
  /\ UNCHANGED <<arrived, dropped, sniffing, stop_flag, stopper, shown, log, mark>>

Get ==
  /\ LoopAt("get", "process")
  /\ queue # <<>>
  /\ hand' = Head(queue)
  /\ queue' = Tail(queue)
  /\ UNCHANGED <<arrived, dropped, sniffing, stop_flag, stopper, shown, log, mark>>

\* Defect: no packet within the timeout is taken for the end of the capture.
DefectNoneEndsLoop ==
  /\ LoopAt("get", "halt")
  /\ queue = <<>>
  /\ UNCHANGED <<wireVars, sniffing, stop_flag, stopper, hand, shown, log, mark>>

GetTimesOut ==
  /\ LoopAt("get", "publish")
  /\ queue = <<>>
  /\ UNCHANGED <<wireVars, sniffing, stop_flag, stopper, hand, shown, log, mark>>

Processed == log' = Append(log, hand) /\ hand' = NoPacket

Process ==
  /\ LoopAt("process", "publish") /\ Processed
  /\ UNCHANGED <<wireVars, sniffing, stop_flag, stopper, shown, mark>>

\* The exception path skips both capture.stop() and the last look at the counter.
ProcessRaises ==
  /\ MayRaise
  /\ LoopAt("process", "failed") /\ Processed
  /\ UNCHANGED <<wireVars, sniffing, stop_flag, stopper, shown, mark>>

Publish ==
  /\ LoopAt("publish", "poll")
  /\ shown' = dropped
  /\ UNCHANGED <<wireVars, sniffing, stop_flag, stopper, hand, log, mark>>

\* Defect: the loop ends without stopping the capture.
DefectNoHalt ==
  /\ LoopAt("halt", "final")
  /\ UNCHANGED <<wireVars, sniffing, stop_flag, stopper, hand, shown, log, mark>>

\* capture.stop() joins the sniffer's thread, also when stop() got there first.
Halt ==
  /\ LoopAt("halt", "final")
  /\ sniffing' = FALSE
  /\ UNCHANGED <<wireVars, stop_flag, stopper, hand, shown, log, mark>>

LastLook ==
  /\ LoopAt("final", "ended")
  /\ shown' = dropped
  /\ UNCHANGED <<wireVars, sniffing, stop_flag, stopper, hand, log, mark>>

-----------------------------------------------------------------------------
(* The thread that calls stop() *)

StopperAt(from, to) == stopper = from /\ stopper' = to

StopRequest ==
  /\ StopperAt("idle", "capture")
  /\ stop_flag' = TRUE
  /\ mark' = Len(log)
  /\ UNCHANGED <<wireVars, sniffing, pc, hand, shown, log>>

StopCapture ==
  /\ StopperAt("capture", "join")
  /\ sniffing' = FALSE
  /\ UNCHANGED <<wireVars, stop_flag, pc, hand, shown, log, mark>>

StopJoined ==
  /\ StopperAt("join", "done")
  /\ pc \in {"ended", "failed"}
  /\ UNCHANGED <<wireVars, sniffing, stop_flag, pc, hand, shown, log, mark>>

-----------------------------------------------------------------------------
Loop ==
  \/ Poll \/ Get \/ GetTimesOut \/ Process \/ ProcessRaises \/ Publish
  \/ Halt \/ LastLook

Stop == StopRequest \/ StopCapture \/ StopJoined

Next == Enqueue \/ Drop \/ Loop \/ Stop

Spec == Init /\ [][Next]_vars

\* The loop's thread is scheduled and its get() has a timeout; nobody has to
\* stop the scan and no packet has to come.
FairSpec == Spec /\ WF_vars(Loop)

-----------------------------------------------------------------------------
(* Properties *)

\* The values of every variable.
TypeOK ==
  /\ arrived \in Nat /\ dropped \in Nat /\ shown \in Nat /\ mark \in Nat
  /\ hand \in Nat
  /\ queue \in Seq(Nat) /\ Len(queue) <= QueueSize
  /\ log \in Seq(Nat)
  /\ sniffing \in BOOLEAN /\ stop_flag \in BOOLEAN
  /\ stopper \in {"idle", "capture", "join", "done"}
  /\ pc \in {"poll", "get", "process", "publish", "halt", "final", "ended", "failed"}

InHand == IF hand = NoPacket THEN 0 ELSE 1

\* Every packet the sniffer saw is processed, on its way or counted as dropped:
\* none is lost without a trace while the scan goes on.
EveryPacketAccounted == arrived = Len(log) + InHand + Len(queue) + dropped

Increasing(s) == \A i, j \in 1 .. Len(s) : i < j => s[i] < s[j]

\* Detectors see the packets in the order of the wire, each once, however the
\* sniffer's thread, the loop and drops interleave.
SeenInOrder == Increasing(log)

\* A scan that ended without an exception shows the true number of drops: the
\* counter is read once more after the sniffer's thread has gone.
FinalCountExact == pc = "ended" => shown = dropped

\* A stop request lets at most one more packet reach the detectors, however
\* many are queued.
StopSkipsBacklog == stop_flag => Len(log) <= mark + 1

\* A queued packet is processed in the end, unless the scan is stopped or fails.
QueueDrains ==
  \A p \in 1 .. MaxArrivals :
    (\E i \in 1 .. Len(queue) : queue[i] = p)
      ~> ((\E i \in 1 .. Len(log) : log[i] = p) \/ stop_flag \/ pc = "failed")
=============================================================================
