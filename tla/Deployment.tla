----------------------------- MODULE Deployment -----------------------------
(***************************************************************************)
(* The processes that contain a ScanEngine, and who calls it there:         *)
(*                                                                         *)
(*   "demo"      render_demo.py: a watchdog thread that restarts the replay *)
(*               for ever, next to the visitors of the web page;            *)
(*   "served"    cli.run() with the web server: an own scan or none, then   *)
(*               until Ctrl+C whatever the visitors do;                     *)
(*   "terminal"  cli.run() with the terminal dashboard alone: an own scan,  *)
(*               then until Ctrl+C;                                         *)
(*   "script"    cli.run() with neither: one scan, and the process ends.    *)
(*                                                                         *)
(* Which one it is follows from the configuration that Boot has loaded.     *)
(* The driver is the thread that runs loop_pcap_forever() or cli.run();     *)
(* every other caller is a handler thread of the web server.                *)
(***************************************************************************)
EXTENDS ScanEngine, Boot

CONSTANT Driver  \* the caller that is the watchdog or the CLI's main thread

\* Both programs build the detectors once before they serve anyone, so that a
\* configuration the factory fails on never gets here.
ASSUME DeploymentAssumption == Driver \in Callers /\ "factory" \notin Faults

VARIABLES
  role,   \* the kind of this process, "none" before it is known
  driver  \* where the driver is outside the engine, or in which call

deployVars == <<vars, bootVars, role, driver>>

Visitors == Callers \ {Driver}

DeployInit ==
  /\ Init /\ BootInit
  /\ role = "none"
  /\ driver = "boot"

DriverMoves(from, to) ==
  /\ driver = from /\ driver' = to
  /\ UNCHANGED <<role, bootVars>>

\* A step of another thread: none is left once the process has exited.
Elsewhere == driver # "exited" /\ UNCHANGED <<role, driver, bootVars>>

-----------------------------------------------------------------------------
(* The process comes up *)

Boots ==
  /\ driver = "boot" /\ BootNext
  /\ UNCHANGED <<vars, role, driver>>

RoleOf ==
  CASE program = "demo" -> "demo"
    [] program = "cli" /\ Enabled(cfg, <<"web">>) -> "served"
    [] program = "cli" /\ ~Enabled(cfg, <<"web">>) /\ Enabled(cfg, <<"dashboard">>) -> "terminal"
    [] OTHER -> "script"

BootEnds(place, driver_to, role_to) ==
  /\ driver = "boot" /\ boot = place
  /\ driver' = driver_to /\ role' = role_to
  /\ Forget
  /\ UNCHANGED vars

Booted == BootEnds("done", "call", RoleOf)
BootAborted == \E place \in {"failed", "lacking"} : BootEnds(place, "exited", role)

-----------------------------------------------------------------------------
(* The driver's start() *)

\* The demo always replays its own file.
DriverCalls(mode) ==
  /\ DriverMoves("call", "starting")
  /\ role = "demo" => mode = "pcap"
  /\ Start(Driver, mode)

\* Neither a file nor an interface was given: the page is to start the scan.
ServeIdle ==
  /\ role = "served"
  /\ DriverMoves("call", "wait")
  /\ UNCHANGED vars

DriverClears == DriverMoves("starting", "starting") /\ StartClear(Driver)
DriverStarted ==
  /\ DriverMoves("starting", "wait")
  /\ Publish(Driver, FirstStep(call[Driver].mode))

DriverRaises ==
  \/ StartRefused(Driver)
  \/ MayFail("spawn") /\ Publish(Driver, "stillborn")

\* Defect: the watchdog does not catch the RuntimeError of a start() that a
\* visitor's start() has overtaken.
DefectWatchdogDies ==
  /\ DriverMoves("starting", IF role = "demo" THEN "ended" ELSE "exited")
  /\ DriverRaises

\* The watchdog takes a RuntimeError for a scan that is already running; any
\* exception leaves cli.run() and ends its process.
DriverStartRaises ==
  /\ DriverMoves("starting", IF role = "demo" THEN "wait" ELSE "exited")
  /\ DriverRaises

-----------------------------------------------------------------------------
(* What the driver waits for *)

DemoSeesIdle ==
  /\ role = "demo" /\ ~status.running
  /\ DriverMoves("wait", "pause")
  /\ UNCHANGED vars

DemoPaused ==
  /\ DriverMoves("pause", "call")
  /\ UNCHANGED vars

\* Defect: a script waits for Ctrl+C only.
DefectAwaitsInterrupt == FALSE

ScriptSeesIdle ==
  /\ role = "script" /\ ~status.running
  /\ DriverMoves("wait", "finally")
  /\ UNCHANGED vars

Interrupt ==
  /\ role # "demo"
  /\ DriverMoves("wait", "finally")
  /\ UNCHANGED vars

(* The finally block of cli.run(): engine.stop(), then web.stop() *)

DriverStopBegins == DriverMoves("finally", "stopping") /\ StopBegin(Driver)

DriverStops ==
  /\ DriverMoves("stopping", "stopping")
  /\ StopCapture(Driver) \/ StopThread(Driver) \/ StopJoined(Driver)

DriverStopped ==
  /\ DriverMoves("stopping", IF role = "served" THEN "closing" ELSE "exited")
  /\ StopFinish(Driver)

\* Scan, sniffer and handler threads are daemons: they end with the process.
ServerCloses ==
  /\ DriverMoves("closing", "exited")
  /\ UNCHANGED vars

-----------------------------------------------------------------------------
(* The visitors: POST /api/start and /api/stop.  An exception of start() is *)
(* answered with status 400 and ends nothing.                               *)

VisitorCalls(v) ==
  /\ Elsewhere
  /\ role \in {"demo", "served"}
  /\ StopBegin(v) \/ \E mode \in {"live", "pcap", "bad"} : Start(v, mode)

VisitorServed(v) == Elsewhere /\ (StartBody(v) \/ StopBody(v))

ScanRuns(n) == Elsewhere /\ ScanStep(n)
SnifferRuns(n) == Elsewhere /\ SnifferSettles(n)

-----------------------------------------------------------------------------

DriverStart == \E mode \in {"live", "pcap", "bad"} : DriverCalls(mode)

\* What the driver does without being asked and without a bound of the model.
DriverGoesOn ==
  \/ Boots \/ Booted \/ BootAborted
  \/ DriverClears \/ DriverStarted \/ DriverStartRaises
  \/ DemoSeesIdle \/ DemoPaused \/ ScriptSeesIdle
  \/ DriverStopBegins \/ DriverStops \/ DriverStopped \/ ServerCloses

DeployNext ==
  \/ DriverStart \/ ServeIdle \/ Interrupt \/ DriverGoesOn
  \/ \E v \in Visitors : VisitorCalls(v) \/ VisitorServed(v)
  \/ \E n \in Scans : ScanRuns(n) \/ SnifferRuns(n)

(***************************************************************************)
(* Threads are scheduled, as in ScanEngine.  The driver's call is strongly *)
(* fair only because the bound on the number of scans, which the code does *)
(* not have, disables it while a visitor is about to start one.            *)
(***************************************************************************)
DeployFairness ==
  /\ SF_deployVars(DriverStart)
  /\ WF_deployVars(DriverGoesOn)
  /\ \A v \in Visitors : WF_deployVars(VisitorServed(v))
  /\ \A n \in Scans : WF_deployVars(ScanRuns(n)) /\ WF_deployVars(SnifferRuns(n))

DeploySpec == DeployInit /\ [][DeployNext]_deployVars /\ DeployFairness

-----------------------------------------------------------------------------
(* Properties *)

\* Every start() and stop() returns, whatever the scan threads, the driver and
\* the visitors do, unless the process ends first.
CallsReturn ==
  \A c \in Callers :
    call[c].at # "idle" ~> (call[c].at = "idle" \/ driver = "exited")

\* render_demo.py:13-15 "anyone who opens the link always finds it running":
\* whatever visitors start and stop, the demo does not stay idle.  The one
\* exception is a thread that could not be created, which leaves a status that
\* says running and a watchdog that waits on it until a visitor stops the scan.
Idling == \A n \in Scans : ~Alive(n)
Orphaned == \E n \in Scans : n = status.scan /\ status.running /\ pc[n] = "stillborn"
DemoGoesOn ==
  (role = "demo" /\ status.scan < MaxScans /\ Idling) ~> (~Idling \/ Orphaned)

\* cli.py:127-128: without a user interface the process ends when its replay
\* does, also when its thread cannot be created or a gap outlasts the join.
ScriptEnds == (role = "script" /\ status.mode = "pcap") ~> driver = "exited"
=============================================================================
