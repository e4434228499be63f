------------------------------ MODULE ScanEngine ------------------------------
(***************************************************************************)
(* The scan lifecycle of sentrynet/engine.py: callers (HTTP handler         *)
(* threads, the CLI's main thread, the demo's watchdog) call start() and    *)
(* stop() on one shared ScanEngine, and every accepted start() spawns a     *)
(* scan thread that runs _run() over a replayed file or a live capture.     *)
(*                                                                         *)
(* A step is what a thread does between two points where another thread     *)
(* can be observed.  A block under self._lock that makes no foreign call    *)
(* is one step taken while the lock is free; the block of start(), which    *)
(* calls the detector factory and spawns a thread, holds the lock across    *)
(* two steps, because _stop_flag and status are read without the lock.      *)
(***************************************************************************)
EXTENDS Naturals, FiniteSets

CONSTANTS
  Callers,   \* the threads that call start() and stop()
  MaxScans,  \* bound: start() is accepted at most this many times
  Packets,   \* length of the replayed file; bound on a live scan's packets
  Faults     \* the faults the environment may commit, a subset of FaultKinds

FaultKinds == {
  "long_gap",      \* a realtime replay sleeps longer than join(timeout=5)
  "factory",       \* the detector factory raises
  "spawn",         \* Thread.start() raises: no thread can be created
  "pcap",          \* the replayed file cannot be opened or read
  "socket",        \* the sniffer's thread cannot open its socket
  "slow_sniffer",  \* the sniffer's thread needs more than the 0.2 s sleep
  "exit",          \* the sniffer's thread ends on its own in mid-scan
  "callback"}      \* an exception leaves _process()

ASSUME EngineAssumption ==
  /\ IsFiniteSet(Callers)
  /\ MaxScans \in Nat
  /\ Packets \in Nat
  /\ Faults \subseteq FaultKinds

Scans == 1 .. MaxScans
NoScan == 0   \* Python's None, where a scan's object could be
Free == "free"
ASSUME LockAssumption == Free \notin Callers

VARIABLES
  lock,       \* the caller inside start()'s critical section, or Free
  stop_flag,  \* self._stop_flag
  status,     \* self.status; scan and error name the scan they stem from
  capture,    \* self._capture
  thread,     \* self._thread
  pc,         \* where each scan's thread is in _run()
  sniffer,    \* the AsyncSniffer of each scan's LiveCapture
  processed,  \* packets each scan's thread has processed
  call        \* each caller: where it is, and the locals of start() or stop()

engineVars == <<lock, stop_flag, status, capture, thread>>
scanVars == <<pc, sniffer, processed>>
vars == <<engineVars, scanVars, call>>

Alive(n) == pc[n] \notin {"unborn", "stillborn", "dead"}
MayFail(kind) == kind \in Faults

\* A caller outside the engine; was, cap and thr are stop()'s was_running,
\* capture and thread, mode is start()'s argument.
Idle == [at |-> "idle", mode |-> "none", was |-> FALSE, cap |-> NoScan, thr |-> NoScan]

\* Defect: a new scan goes on counting where the last one ended.
DefectKeepCount(n, mode) ==
  [scan |-> n, running |-> TRUE, mode |-> mode, error |-> NoScan,
   packets |-> status.packets]

NewStatus(n, mode) ==
  [scan |-> n, running |-> TRUE, mode |-> mode, error |-> NoScan, packets |-> 0]

Init ==
  /\ lock = Free
  /\ stop_flag = FALSE
  /\ status = [scan |-> NoScan, running |-> FALSE, mode |-> "none",
               error |-> NoScan, packets |-> 0]
  /\ capture = NoScan
  /\ thread = NoScan
  /\ pc = [n \in Scans |-> "unborn"]
  /\ sniffer = [n \in Scans |-> "absent"]
  /\ processed = [n \in Scans |-> 0]
  /\ call = [c \in Callers |-> Idle]

-----------------------------------------------------------------------------
(* start() *)

At(c, place) == call[c].at = place
GoTo(c, place) == call' = [call EXCEPT ![c].at = place]
Return(c) == call' = [call EXCEPT ![c] = Idle]

\* How many starts could still be accepted within the bound.
Starting == {c \in Callers : call[c].at \in {"start", "launch"}}

Start(c, mode) ==
  /\ At(c, "idle")
  /\ status.scan + Cardinality(Starting) < MaxScans
  /\ call' = [call EXCEPT ![c] = [Idle EXCEPT !.at = "start", !.mode = mode]]
  /\ UNCHANGED <<engineVars, scanVars>>

\* ValueError for a bad mode or path, RuntimeError while a scan is running.
StartRefused(c) ==
  /\ At(c, "start") /\ Return(c)
  /\ call[c].mode = "bad" \/ (lock = Free /\ status.running)
  /\ UNCHANGED <<engineVars, scanVars>>

\* Defects: start() forgets the mode check, or the check of status.running.
StartUnchecked(c, ok) ==
  /\ At(c, "start") /\ GoTo(c, "launch")
  /\ ok /\ lock = Free
  /\ lock' = c
  /\ stop_flag' = FALSE
  /\ UNCHANGED <<status, capture, thread, scanVars>>
DefectAnyMode(c) == StartUnchecked(c, ~status.running)
DefectAlwaysStart(c) == StartUnchecked(c, call[c].mode # "bad")

StartClear(c) ==
  /\ At(c, "start") /\ GoTo(c, "launch")
  /\ call[c].mode # "bad"
  /\ lock = Free /\ ~status.running
  /\ lock' = c
  /\ stop_flag' = FALSE
  /\ UNCHANGED <<status, capture, thread, scanVars>>

FirstStep(mode) == IF mode = "pcap" THEN "next" ELSE "register"

\* "stillborn": the status is already published when Thread.start() raises.
Spawned(mode) ==
  {FirstStep(mode)} \cup IF MayFail("spawn") THEN {"stillborn"} ELSE {}

\* The factory has built the detectors: publish the status, spawn the thread.
Publish(c, where) ==
  LET n == status.scan + 1 IN
  /\ At(c, "launch") /\ Return(c)
  /\ status' = NewStatus(n, call[c].mode)
  /\ thread' = n
  /\ pc' = [pc EXCEPT ![n] = where]
  /\ lock' = Free
  /\ UNCHANGED <<stop_flag, capture, sniffer, processed>>

StartLaunch(c) == \E where \in Spawned(call[c].mode) : Publish(c, where)

StartFactoryFails(c) ==
  /\ MayFail("factory")
  /\ At(c, "launch") /\ Return(c)
  /\ lock' = Free
  /\ UNCHANGED <<stop_flag, status, capture, thread, scanVars>>

-----------------------------------------------------------------------------
(* LiveCapture.stop(): nothing without a sniffer, Scapy_Exception (swallowed)*)
(* when the sniffer is not up yet or no longer, and a stored failure is      *)
(* raised again.                                                             *)

\* Defects: LiveCapture.stop() swallows every exception, or does not stop.
DefectSwallow(n) == FALSE
DefectStillSniffing(n) == sniffer

CaptureStopRaises(n) == sniffer[n] = "failed"
SnifferAfterStop(n) ==
  IF sniffer[n] = "up" THEN [sniffer EXCEPT ![n] = "ended"] ELSE sniffer

(* stop() *)

StopBegin(c) ==
  /\ At(c, "idle")
  /\ lock = Free
  /\ call' = [call EXCEPT ![c] =
       [Idle EXCEPT !.at = IF capture = NoScan THEN "stop_thread" ELSE "stop_capture",
                    !.was = status.running, !.cap = capture]]
  /\ stop_flag' = TRUE
  /\ UNCHANGED <<lock, status, capture, thread, scanVars>>

\* The error goes to whatever status is current by now.
StopCapture(c) ==
  /\ At(c, "stop_capture") /\ GoTo(c, "stop_thread")
  /\ status' = IF CaptureStopRaises(call[c].cap)
               THEN [status EXCEPT !.error = call[c].cap] ELSE status
  /\ sniffer' = SnifferAfterStop(call[c].cap)
  /\ UNCHANGED <<lock, stop_flag, capture, thread, pc, processed>>

\* Defects: stop() does not join, or joins without a timeout.
DefectNoJoin(c) ==
  /\ At(c, "stop_thread") /\ GoTo(c, "stop_finish")
  /\ UNCHANGED <<engineVars, scanVars>>
DefectNoTimeout(n) == FALSE

StopThread(c) ==
  /\ At(c, "stop_thread")
  /\ call' = [call EXCEPT ![c] =
       [Idle EXCEPT !.at = IF thread # NoScan /\ Alive(thread)
                           THEN "stop_join" ELSE "stop_finish",
                    !.was = call[c].was, !.thr = thread]]
  /\ UNCHANGED <<engineVars, scanVars>>

\* Five seconds pass only if the thread sleeps in a long gap of the replay, or if
\* it is not going to stop because a later start() cleared the flag.  The packets
\* of the model stand for those of longer files, so a gap may precede any of them.
MayOutlastJoin(n) ==
  \/ ~stop_flag
  \/ MayFail("long_gap") /\ pc[n] = "next"

\* A local is dropped after its last use.
StopJoined(c) ==
  /\ At(c, "stop_join")
  /\ Alive(call[c].thr) => MayOutlastJoin(call[c].thr)
  /\ call' = [call EXCEPT ![c] = [Idle EXCEPT !.at = "stop_finish", !.was = call[c].was]]
  /\ UNCHANGED <<engineVars, scanVars>>

StopFinish(c) ==
  /\ At(c, "stop_finish") /\ Return(c)
  /\ lock = Free
  /\ status' = IF call[c].was THEN [status EXCEPT !.running = FALSE] ELSE status
  /\ thread' = NoScan
  /\ capture' = NoScan
  /\ UNCHANGED <<lock, stop_flag, scanVars>>

-----------------------------------------------------------------------------
(* _run(): the replay loop *)

ScanAt(n, from, to) == pc[n] = from /\ pc' = [pc EXCEPT ![n] = to]
Fail(n) == status' = [status EXCEPT !.error = n]

\* One packet comes out of PcapReplay, after its realtime delay if any.
ReplayRead(n) ==
  /\ ScanAt(n, "next", "check")
  /\ processed[n] < Packets
  /\ UNCHANGED <<engineVars, sniffer, processed, call>>

\* Defect: the replay loses its last packet.
DefectLastLost(n) ==
  /\ ScanAt(n, "next", "finish")
  /\ processed[n] + 1 >= Packets
  /\ UNCHANGED <<engineVars, sniffer, processed, call>>

ReplayEnd(n) ==
  /\ ScanAt(n, "next", "finish")
  /\ processed[n] = Packets
  /\ UNCHANGED <<engineVars, sniffer, processed, call>>

ReplayFails(n) ==
  /\ MayFail("pcap")
  /\ ScanAt(n, "next", "finish")
  /\ Fail(n)
  /\ UNCHANGED <<lock, stop_flag, capture, thread, sniffer, processed, call>>

\* Defect: a stop request pauses the replay instead of ending it.
DefectPause(n) ==
  /\ ScanAt(n, "check", IF stop_flag THEN "check" ELSE "process")
  /\ UNCHANGED <<engineVars, sniffer, processed, call>>

ReplayCheck(n) ==
  /\ ScanAt(n, "check", IF stop_flag THEN "finish" ELSE "process")
  /\ UNCHANGED <<engineVars, sniffer, processed, call>>

(* _process(): the packet is counted in the current status, then detectors run. *)

IsReplay(n) == sniffer[n] = "absent"

Counted == [status EXCEPT !.packets = @ + 1]

\* If on_packet() or the report of a detector's failure raises, the scan ends
\* as failed, and a live scan ends without stopping its capture.
AfterPacket(n, raises) ==
  IF raises THEN "finish" ELSE IF IsReplay(n) THEN "next" ELSE "poll"

ProcessPacket(n) == \E raises \in {FALSE, MayFail("callback")} :
  /\ ScanAt(n, "process", AfterPacket(n, raises))
  /\ processed' = [processed EXCEPT ![n] = @ + 1]
  /\ status' = IF raises THEN [Counted EXCEPT !.error = n] ELSE Counted
  /\ UNCHANGED <<lock, stop_flag, capture, thread, sniffer, call>>

(* _run(): the live loop *)

RegisterCapture(n) ==
  /\ ScanAt(n, "register", "open")
  /\ lock = Free
  /\ capture' = n
  /\ UNCHANGED <<lock, stop_flag, status, thread, sniffer, processed, call>>

\* capture.start() raises if it cannot create the sniffer's thread.
OpenCapture(n) == \E raises \in {FALSE, MayFail("spawn")} :
  /\ ScanAt(n, "open", IF raises THEN "finish" ELSE "settle")
  /\ sniffer' = [sniffer EXCEPT ![n] = IF raises THEN "ended" ELSE "starting"]
  /\ IF raises THEN Fail(n) ELSE UNCHANGED status
  /\ UNCHANGED <<lock, stop_flag, capture, thread, processed, call>>

\* Defect: whether the sniffer came up is not looked at.
DefectNoSettleCheck(n) ==
  /\ ScanAt(n, "settle", "poll")
  /\ UNCHANGED <<engineVars, sniffer, processed, call>>

\* After the 0.2 s sleep, capture.is_alive().
SettleAlive(n) ==
  /\ ScanAt(n, "settle", "poll")
  /\ sniffer[n] \in {"starting", "up"}
  /\ sniffer[n] = "starting" => MayFail("slow_sniffer")
  /\ UNCHANGED <<engineVars, sniffer, processed, call>>

SettleDead(n) ==
  /\ ScanAt(n, "settle", "finish")
  /\ sniffer[n] \in {"failed", "ended"}
  /\ IF CaptureStopRaises(n) THEN Fail(n) ELSE UNCHANGED status
  /\ UNCHANGED <<lock, stop_flag, capture, thread, sniffer, processed, call>>

Poll(n) ==
  /\ ScanAt(n, "poll", IF stop_flag THEN "halt" ELSE "get")
  /\ UNCHANGED <<engineVars, sniffer, processed, call>>

GetPacket(n) ==
  /\ ScanAt(n, "get", "process")
  /\ sniffer[n] \in {"up", "ended"}
  /\ processed[n] < Packets
  /\ UNCHANGED <<engineVars, sniffer, processed, call>>

GetTimesOut(n) ==
  /\ ScanAt(n, "get", "poll")
  /\ UNCHANGED <<engineVars, sniffer, processed, call>>

Halt(n) ==
  /\ ScanAt(n, "halt", "finish")
  /\ IF CaptureStopRaises(n) THEN Fail(n) ELSE UNCHANGED status
  /\ sniffer' = SnifferAfterStop(n)
  /\ UNCHANGED <<lock, stop_flag, capture, thread, processed, call>>

(* _run(): the finally block, the thread's last act *)

\* Defects: the status stays "running", or the capture stays registered.
DefectStillRunning(n) ==
  /\ ScanAt(n, "finish", "dead")
  /\ lock = Free
  /\ capture' = NoScan
  /\ UNCHANGED <<lock, stop_flag, status, thread, sniffer, processed, call>>
DefectKeepCapture(n) ==
  /\ ScanAt(n, "finish", "dead")
  /\ lock = Free
  /\ status' = [status EXCEPT !.running = FALSE]
  /\ UNCHANGED <<lock, stop_flag, capture, thread, sniffer, processed, call>>

Finish(n) ==
  /\ ScanAt(n, "finish", "dead")
  /\ lock = Free
  /\ status' = [status EXCEPT !.running = FALSE]
  /\ capture' = NoScan
  /\ UNCHANGED <<lock, stop_flag, thread, sniffer, processed, call>>

-----------------------------------------------------------------------------
(* Scapy's AsyncSniffer: "starting" until its thread has flipped .running,   *)
(* "failed" once that thread died of an exception that stop() raises again.  *)

SnifferStep(n, from, to) == sniffer[n] = from /\ sniffer' = [sniffer EXCEPT ![n] = to]

SnifferUp(n) ==
  /\ SnifferStep(n, "starting", "up")
  /\ UNCHANGED <<engineVars, pc, processed, call>>

SnifferFails(n) ==
  /\ MayFail("socket")
  /\ SnifferStep(n, "starting", "failed")
  /\ UNCHANGED <<engineVars, pc, processed, call>>

SnifferExits(n) ==
  /\ MayFail("exit")
  /\ SnifferStep(n, "up", "ended")
  /\ UNCHANGED <<engineVars, pc, processed, call>>

-----------------------------------------------------------------------------

StartBody(c) ==
  \/ StartRefused(c) \/ StartClear(c) \/ StartLaunch(c) \/ StartFactoryFails(c)

StopBody(c) ==
  \/ StopCapture(c) \/ StopThread(c) \/ StopJoined(c) \/ StopFinish(c)

ReplayStep(n) ==
  \/ ReplayRead(n) \/ ReplayEnd(n) \/ ReplayFails(n) \/ ReplayCheck(n)

LiveStep(n) ==
  \/ RegisterCapture(n) \/ OpenCapture(n) \/ SettleAlive(n) \/ SettleDead(n)
  \/ Poll(n) \/ GetPacket(n) \/ GetTimesOut(n) \/ Halt(n)

ScanStep(n) ==
  \/ ReplayStep(n) \/ LiveStep(n) \/ ProcessPacket(n) \/ Finish(n)

SnifferSettles(n) == SnifferUp(n) \/ SnifferFails(n)

Next ==
  \/ \E c \in Callers :
       \/ \E mode \in {"live", "pcap", "bad"} : Start(c, mode)
       \/ StopBegin(c)
       \/ StartBody(c)
       \/ StopBody(c)
  \/ \E n \in Scans : ScanStep(n) \/ SnifferSettles(n) \/ SnifferExits(n)

Spec == Init /\ [][Next]_vars

(***************************************************************************)
(* Every thread that can run is scheduled, every blocking call of a scan   *)
(* thread has a timeout, and a caller inside start() or stop() goes on.    *)
(* Nobody is obliged to call start() or stop().                            *)
(***************************************************************************)
Fairness ==
  /\ \A c \in Callers : WF_vars(StartBody(c)) /\ WF_vars(StopBody(c))
  /\ \A n \in Scans : WF_vars(ScanStep(n)) /\ WF_vars(SnifferSettles(n))

FairSpec == Spec /\ Fairness

-----------------------------------------------------------------------------
(* Properties *)

\* The values of every variable.
TypeOK ==
  /\ lock \in Callers \cup {Free}
  /\ stop_flag \in BOOLEAN
  /\ status \in [scan : Scans \cup {NoScan}, running : BOOLEAN,
                 mode : {"none", "live", "pcap"},
                 error : Scans \cup {NoScan}, packets : Nat]
  /\ capture \in Scans \cup {NoScan}
  /\ thread \in Scans \cup {NoScan}
  /\ pc \in [Scans -> {"unborn", "stillborn", "dead", "next", "check", "process", "register",
                       "open", "settle", "poll", "get", "halt", "finish"}]
  /\ sniffer \in [Scans -> {"absent", "starting", "up", "ended", "failed"}]
  /\ processed \in [Scans -> Nat]
  /\ call \in [Callers ->
       [at : {"idle", "start", "launch", "stop_capture", "stop_thread", "stop_join",
              "stop_finish"},
        mode : {"none", "live", "pcap", "bad"}, was : BOOLEAN,
        cap : Scans \cup {NoScan}, thr : Scans \cup {NoScan}]]

\* engine.py:37 "Runs at most one scan at a time": no two scan threads are
\* alive, whatever start() and stop() calls came in between.
AtMostOneScan == \A m, n \in Scans : Alive(m) /\ Alive(n) => m = n

\* A status that says "running" has a scan thread behind it, unless the thread
\* could not be created: nobody who waits for the scan to end (the CLI and demo
\* loops on status.running) waits for a thread that is gone.
RunningScanIsAlive ==
  status.running =>
    \E n \in Scans : n = status.scan /\ (Alive(n) \/ pc[n] = "stillborn")

\* A registered capture belongs to a live scan thread: a stop() that begins never
\* takes up the capture of a scan that is over by then.
NoStaleCapture == capture # NoScan => Alive(capture)

\* Error and packet count shown in the status are those of the scan it names,
\* although every scan thread and every stop() writes to the shared status.
StatusIsOwn ==
  /\ status.error \in {NoScan, status.scan}
  /\ status.scan # NoScan => status.packets = processed[status.scan]

\* capture.py:64-70: the reason a capture never started must surface as a scan
\* error; a scan that ends with a failed sniffer has its error in the status.
FailedCaptureReported ==
  \A n \in Scans :
    pc[n] = "dead" /\ sniffer[n] = "failed" /\ status.scan = n => status.error = n

\* No sniffer outlives the scan that started it.
NoSnifferLeak ==
  \A n \in Scans : pc[n] = "dead" => sniffer[n] \notin {"starting", "up"}

\* When stop() has joined the thread and is about to report "idle", no scan
\* thread is left that could go on processing packets.
StopLeavesIdle ==
  \A c \in Callers : call[c].at = "stop_finish" => \A n \in Scans : ~Alive(n)

\* A replay that ends without a stop request or an error has processed the
\* whole file, each packet once.
ReplayIsComplete ==
  [][\A n \in Scans :
       Alive(n) /\ pc'[n] = "dead" /\ IsReplay(n) /\ ~stop_flag /\ status.error # n
         => processed[n] = Packets]_vars

\* README.md:174-176: a live scan whose socket cannot be opened reports its
\* error and ends "instead of just sitting there".
FailedCaptureEndsScan ==
  \A n \in Scans : (Alive(n) /\ sniffer[n] = "failed") ~> ~Alive(n)

\* A replay settles to idle by itself.
ReplaySettlesIdle == \A n \in Scans : pc[n] = "next" ~> pc[n] = "dead"

\* The engine with one caller implements the slot it promises.
Slot == INSTANCE ScanSlot WITH
  begun <- status.scan,
  workers <- {n \in Scans : Alive(n)},
  running <- status.running,
  stopping <- stop_flag

SlotSafety == Slot!Safety
SlotSpec == Slot!Spec
=============================================================================
