# Sentrynet: specifications, model checking and proofs

Sentrynet is a small intrusion detection system in Python: it captures packets
(or replays a capture file), gives each of them to a handful of detectors, and
sends what they report to a history and to output sinks; a web page starts and
stops scans. This directory holds TLA+ specifications of it, the TLC
configurations that check them on small instances, and theorems whose proofs
TLAPS checks for every value of the constants.

`tlc -config X.cfg M` runs one check, `tlapm M.tla` checks the proofs in `M`;
`PROJECT.json` lists which configuration belongs to which module, what each
definition was translated from, and for every checked property a defect
(the `Defect...` operators beside the action they replace) that breaks it.

## 1. The system

### Components, their state and their operations

| component | source | state | operations | modelled by |
|---|---|---|---|---|
| ScanEngine, lifecycle | `sentrynet/engine.py:36-181` | `_lock`, `_stop_flag`, `status`, `_capture`, `_thread` | `start()`, `stop()`, `_run()` on a thread of its own per scan | `ScanEngine`, `ScanSlot` |
| ScanEngine, packet pipeline | `sentrynet/engine.py:183-191` | the packet, the detectors of this scan | `_process()` | `Pipeline` |
| LiveCapture | `sentrynet/capture.py:18-93` | `_queue`, `_dropped`, `_sniffer` | `_on_packet()`, `start()`, `stop()`, `is_alive()`, `get()` | `LiveCapture` (queue), `ScanEngine` (sniffer) |
| PcapReplay | `sentrynet/capture.py:96-121` | the open file | iteration, with the gaps of the recording when real-time | `ScanEngine` |
| AlertManager | `sentrynet/alerting.py:55-112` | `_history`, the sinks | `emit()`, `recent()` | `AlertManager` |
| port_scan | `detectors/port_scan.py` | `_ports_seen`, `_last_alert` | `process()` | `PortScan`, `ExpiringSet` |
| arp_spoof | `detectors/arp_spoof.py` | `_table`, `_last_alert` | `process()` | `ArpSpoof` |
| traffic_spike | `detectors/traffic_spike.py` | `_counts`, `_window_start`, `_rates` | `process()`, `_flush()` | `TrafficSpike`, `RollingRate` |
| new_host | `detectors/new_host.py` | `_seen` | `process()`, `_addresses()` | `NewHost` |
| ml_anomaly | `detectors/ml_anomaly.py` | `_buffer`, `_model`, `_since_retrain` | `process()` | `MlAnomaly` |
| state primitives | `sentrynet/state.py` | deques, means and variances, MAC bindings | `ExpiringSet`, `RollingRate`, `MacTable` | with the detector that uses them |
| configuration | `sentrynet/config.py` | `DEFAULT_CONFIG` | `load_config()`, `_deep_merge()` | `Config`, `Boot` |
| CLI launcher | `sentrynet/cli.py` | `cfg` | `main()`, `build_*()`, `run()` | `Config`, `Boot`, `Deployment` |
| web dashboard, server | `sentrynet/web.py:626-751` | the server | `/api/state`, `/api/start`, `/api/stop` | `WebDashboard`, `Deployment` |
| web dashboard, page | `sentrynet/web.py` (HTML) | last state, last poll | `poll()`, start and stop buttons | `WebDashboard` |
| terminal dashboard | `sentrynet/dashboard.py` | a packet counter | coming up, drawing | `Boot`, `Deployment` (coming up) |
| demo deployment | `render_demo.py` | `cfg` | `main()`, `loop_pcap_forever()` | `Boot`, `Deployment` |

### Who calls whom, on which thread

* **Callers** — the HTTP server's handler threads, the CLI's main thread, the
  demo's watchdog thread — call `ScanEngine.start()` and `stop()` on one shared
  engine. Nothing keeps two of them apart but the engine's lock.
* Each accepted `start()` creates a **scan thread** that runs `_run()`: it reads
  packets from `PcapReplay`, or opens a `LiveCapture` and polls its queue, and
  calls `_process()` on each. `_process()` calls every detector in turn and
  `AlertManager.emit()` with each alert.
* Scapy's **sniffer thread** calls `LiveCapture._on_packet()`; the bounded queue
  is all it shares with the scan thread, apart from the drop counter.
* A process **comes up** on its main thread alone: configuration, alert manager,
  terminal dashboard, detectors, web server, in this order. Any of them may raise,
  which ends it; what the configuration says decides what kind of process it is.
* **Readers** (the page's polling of `/api/state`, the CLI's and the demo's
  loops) read `status` without a lock and `recent()` under the AlertManager's.

### What is hard about it

* `stop()` is three steps (flag; capture and join; reset) with the lock released
  in between, against `start()`s, other `stop()`s and the scan's own `finally`.
* The join gives up after five seconds, on a thread that a real-time replay may
  keep asleep for longer, and the sniffer's start-up is looked at once, after
  0.2 seconds.
* The status is one object, replaced by `start()` and written to by whatever
  scan thread or `stop()` still runs.
* The page asks for `/api/state` every second without waiting for the answer, and
  the handler reads history and status piece by piece while scans go on.
* A configuration is shared: the merge copies the dictionaries it descends into
  and hands on the others, and the programs then assign into what they got.
* Exceptions: of the factory, of `Thread.start()`, of the file, of the socket,
  of a detector, of a sink, of `fit()`, of a division in `_flush()`; each leaves
  a different half of the work done.
* Bounded things: the packet queue, the alert ring, the expiring window, the
  cooldowns, the retraining counter, each with its own boundary.

`PROJECT.json` lists these as hazards, each at its line and with the
properties that watch it, or the reason why none does.

### What makes each component correct

* engine: at most one scan at a time; a status that says what is the case; a
  scan that is told to stop ends, and so does one whose capture failed, with the
  reason shown; nothing (thread, sniffer, capture) left behind; no call hangs.
* capture: every packet processed, in the order of the wire, or counted.
* alerts: the history is what was emitted last; a sink lacks an alert only for
  an exception there or before.
* pipeline: one failing detector or sink costs nobody else a packet; a new host
  is reported exactly once in a scan.
* configuration: every setting is the command line's, else the file's, else the
  default; a file that cannot be used ends the process before it serves anyone.
* web dashboard: an answer agrees with itself; the page ends up showing what is
  the case, whichever answers are lost or late.
* detectors: each reports when its rule says so, and only then, over a history
  that eviction, cooldowns and baselines have already forgotten.

## 2. The modules

### ScanEngine — `engine.py`, with the sniffer's life and the replay

The variables are the engine's attributes (`lock`, `stop_flag`, `status`,
`capture`, `thread`), the place of each scan's thread in `_run()` (`pc`), the
state of each scan's sniffer (`sniffer`), the packets each scan processed, and
where each caller is in `start()` or `stop()` with its locals (`call`). Scans
are named 1, 2, ... in the order in which they start, so that a status can tell
whose error and whose counter it shows.

A step is the code between two points where another thread can see a
difference. A block under `self._lock` that calls nothing foreign is one step
taken while the lock is free. The block of `start()` is two (`StartClear`,
then `StartLaunch` or `StartFactoryFails`), because the
detector factory runs inside it and the stop flag and the status are read
without the lock meanwhile.

| code | actions |
|---|---|
| `start()` | `Start`, `StartRefused`, `StartClear`, `StartLaunch` (with a thread or without), `StartFactoryFails` |
| `stop()` | `StopBegin`, `StopCapture`, `StopThread`, `StopJoined` (in time or not), `StopFinish` |
| `_run()`, replay | `ReplayRead`, `ReplayEnd`, `ReplayFails`, `ReplayCheck` |
| `_run()`, live | `RegisterCapture`, `OpenCapture`, `SettleAlive`, `SettleDead`, `Poll`, `GetPacket`, `GetTimesOut`, `Halt` |
| `_process()`, `except`, `finally` | `ProcessPacket` (which may raise), `Finish` |
| Scapy's AsyncSniffer | `SnifferUp`, `SnifferFails`, `SnifferExits` |

What the environment may do wrong is the constant `Faults`: a gap in the
recording longer than the join's timeout, a factory, thread creation, file or
socket that fails, a sniffer slower than 0.2 s or one that ends by itself, and
an exception out of `_process()`. `MayOutlastJoin` says when five seconds can
pass in `join()`: in such a gap, or when a later `start()` has withdrawn the
stop request; every other step of the loop takes a second at most.

### ScanSlot — what the engine promises

A slot that holds at most one scan, a status that says running exactly while it
does, and a stop request after which the scan must end. `ScanEngine` contains
the instance (`Slot`): workers are the live scan threads, `running` the
status, `stopping` the flag. A `Withdraw` step is needed because `start()`
clears the flag before the factory has succeeded.

### Config, Boot — `config.py`, the two `main()`s, `build_*()`

In `Config` a configuration is a function from paths, the keys that lead to a
place, to what is there; each dictionary carries whose it is: the defaults', the
file's, or a copy made by the merge (`TreeOf`). `DeepMerge` is what
`_deep_merge()` returns: the dictionaries that are in both trees are copies that
hold what is in either, and below them the file's entries take the place of the
defaults'. The recursion itself is `MergedKeys` in `MCDeployment`, and the
assumption `MergeIsRecursive` there, which TLC evaluates on the run, compares the
two for every file that the run enumerates. `Config` also has the assignments of
the command line and of the demo, and what each reader of a configuration cannot
take (`Malformed`) or needs from outside (`NeedsOutside`). A reader indexes its
sections, hands what is beside `enabled` to a constructor (`DetectorRaises`), makes
an address for the log server (`NoServer`), and uses single settings in a way that
not every value bears (`Demands`): the list of gateways, the size of a buffer, and
the web server's host and port, for which a null or a dictionary will not do
(`Refused`), but only where that part of the program is enabled.
`Boot` is `main()` up to the point where there is an engine:

| code | actions |
|---|---|
| `load_config()` | `LoadConfig`, `LoadRaises` (the file is no mapping), `Unreadable` (it cannot be opened or is no YAML); `OrEmpty` is the `or {}` for a file that holds nothing |
| `cfg[...] = ...` in either `main()`, one after the other | `Assign`, `AssignRaises`; `NotOrdered` passes over one whose option is not given; `Assigned` |
| `build_alert_manager()`, `Dashboard()`, `build_detectors()`, `WebDashboard.start()` | `Build`, at its stage |

`Assign` writes into the module's own `DEFAULT_CONFIG` too when the dictionary
it finds is the defaults' own. Of the settings one stands for each way in which
a setting is read: `traffic_spike` is like `port_scan`, whose numbers its
constructor stores unread, so that a text for a threshold fails in the scan only,
as an exception of that detector. What a leaf is to Python are two constants: `Falsy` are
those it takes for false, `Takes` those that each use of a leaf bears. All that is
assumed of them (`LeavesAssumption`) is that the built-in values, and those that
the programs assign, are of use to their readers.

### Deployment — `cli.run()`, `loop_pcap_forever()`, the POST handlers

Extends `ScanEngine` and `Boot` with the processes an engine runs in. The driver
first boots (`Boots`, `Booted`, `BootAborted`); `role` then says what came up
(the demo, the CLI with the web server, with the terminal dashboard alone, with
neither), which `RoleOf` reads off the configuration, and `driver` where the
thread that runs `loop_pcap_forever()` or `cli.run()` is; inside the engine that
thread is the caller `Driver` and takes `ScanEngine`'s own steps. The other
callers are HTTP handler threads, whose `start()` and `stop()` come whenever a
visitor likes.

| code | actions |
|---|---|
| the driver's `start()` | `DriverCalls`, `DriverClears`, `DriverStarted`, `DriverStartRaises`; `ServeIdle` when the command line names no source |
| `loop_pcap_forever()`'s waiting | `DemoSeesIdle`, `DemoPaused` |
| `cli.run()`'s two loops | `ScriptSeesIdle`, `Interrupt` |
| its `finally` blocks | `DriverStopBegins`, `DriverStops`, `DriverStopped`, `ServerCloses` |
| `do_POST()` | `VisitorCalls`, `VisitorServed` |

An exception from `start()` is caught by the watchdog (a RuntimeError) and
answered by the handlers, but ends the CLI. Every other thread is a daemon: when
`driver` is `"exited"` nothing moves any more. Both programs have called
the detector factory once before anyone can start a scan (`cli.py:76`,
`render_demo.py:78`), hence the assumption that `"factory"` is no fault here.
When it serves, nobody looks at the configuration again, and `Forget` drops it.

### WebDashboard — `web.py`, one page and its server

Extends `ScanEngine` with the history of alerts, one page and its requests. The
page is the engine's caller: its clicks are served one after the other.

| code | actions |
|---|---|
| `_process()` | `ProcessPacket` counts the packet, `Detected` puts its alerts into the history |
| `_state_payload()` | `ReadCounts` (history, then the status object and its counter), `ReadScan` (`running`, then `error`), each in two steps |
| `poll()`, `renderScan()` | `Draw`, in any order of the answers, or `PollFails` |
| `startScan()`, `do_POST()` | `ClickStart`, `StartServed` |
| `stopScan()`, `do_POST()` | `ClickStop`, `StopServed` |

The handler holds on to the status object it has read, so `retired` keeps those
that `start()` has replaced. Requests only read and cannot disturb each other,
so one is being read at a time while any number wait to be drawn; an answer's
alerts are dropped once they have been compared with its counter.

### LiveCapture — the queue

One packet from the wire to the detectors: `Enqueue` and `Drop` are
`_on_packet()`, `Poll`, `Get`, `GetTimesOut`, `Process`, `ProcessRaises`,
`Publish`, `Halt` and `LastLook` the loop of `_run()` and its look at the drop
counter, and `StopRequest`, `StopCapture`, `StopJoined` another thread's
`stop()`. `log` records what the detectors saw.

### AlertManager, NewHost, Pipeline — from a packet to the sinks

`AlertManager` is `emit()` — one step under the lock (`Record`), then one
step for each sink (`Write` or `SinkRaises`) — for any number of threads; two
can be inside it when a scan outlives its `stop()`, and in `Pipeline` the
emitters other than `Scan` are such leftovers (`LateEmits`, `LateGoesOn`). The syslog handler
swallows its errors and so never raises here. `Pipeline` extends it with the
scan thread of `_process()`: `TakePacket`, a detector's turn (`Detect`,
`DetectorRaises`), the loop over its alerts (`EmitNext`, `EmitWrites`,
`EmitRaises`) and `EndTurn`, and `NewScan`, which gives a scan fresh detectors.
The new_host detector runs with its own state from `NewHost`; what the others
return is left open. An alert is what a property needs of it, the scan and the
address.

### The detectors

* `PortScan` over `ExpiringSet`: `Quiet` and `Report` are the two outcomes of
  `process()` for a TCP packet, `Tick` and `SetBack` the clock. The packet's
  flags, which only pick the report's label and severity, are left out.
* `ArpSpoof`, with `MacTable.observe()` as `Observed`: `Ignored`, `Agree`,
  `Suppress` and `Report` are the four ways through `process()`.
* `TrafficSpike` over `RollingRate`: `Count`, `Flush` and `FlushRaises` are a
  packet within the interval, one that closes it, and one whose scoring divides
  by zero. Means and variances are exact fractions, scaled by a power of the
  weight's denominator, and the comparison with the standard deviation is
  squared; the threshold and `min_stddev` are fractions over `Den`, as the default
  threshold of 3.5 is. Rates are in packets per interval instead of per second, which
  changes no score. `min_stddev` is chosen from `Floors` at the start. The
  histories `seen` and `ends` number a key's packets and say with which one each of
  its intervals ended.
* `MlAnomaly`: `Collect`, `Train`, `TrainRaises`, `Score` and `ScoreRaises`;
  feature vectors and the forest are left open, so any packet that a fitted
  model scores may be reported.

## 3. The runs

| run | instance | what it asks |
|---|---|---|
| `engine_single` | one caller, 3 scans, 2 packets; factory, file and socket may fail, sniffers may end | `AtMostOneScan`, `StatusIsOwn`, `FailedCaptureReported`, `NoSnifferLeak`, `StopLeavesIdle`, `ReplayIsComplete`; refinement of `ScanSlot` (`SlotSpec`, liveness included); `FailedCaptureEndsScan`, `ReplaySettlesIdle` |
| `deployment` | both programs, 5 sets of options, 141 files; what comes up, with a driver and a visitor where there is a page, 2 scans, 1 packet; thread creation may fail, gaps may outlast the join | `ConfigIsLayered`, `DefaultsKeptWhereOverridden`, `MalformedFilesEndTheProcess`; what still holds then: `RunningScanIsAlive`, `NoStaleCapture`, `CallsReturn`; `DemoGoesOn`, `ScriptEnds` |
| `web_page` | one page, 2 polls in flight, 2 live scans, 1 packet; socket and callback may fail | `IdleAnswerIsFinal`, `AlertsAreCounted`, `PageCatchesUp` |
| `two_scans_callers` | two callers, no fault | violated: `AtMostOneScan` |
| `slow_sniffer_leak` | one caller, a sniffer that is slow to come up | violated: `NoSnifferLeak` |
| `capture_queue` | queue of 2, 6 packets, an exception possible | `EveryPacketAccounted`, `SeenInOrder`, `FinalCountExact`, `StopSkipsBacklog`, `QueueDrains` |
| `pipeline_faults` | 2 scans and a thread left over from before, 3 detectors, 2 sinks that may raise, ring of 2; 2 packets or late alerts in all | `EveryDetectorEveryPacket`, `HostsReportedOnce`, `HistoryIsLatest`, `MissingHasCause`, `NoSpuriousOutput` |
| `host_never_reported` | 1 scan, 1 sink that may raise | violated: `SeenIsReported` |
| `port_scan_window` | 2 sources, 3 ports, threshold 2, window 2, cooldown 3, 5 units of time, clock set back once | `WindowExact`, `ScansReportedOncePerCooldown` |
| `arp_table` | 2 addresses (one a gateway), 2 MACs, 5 packets | `TableIsLatest`, `MovesReported` |
| `spike_intervals` | 2 keys, 5 packets of each, 3 closed intervals, threshold 3.5, floor 0 or 1/2 | `IntervalsPartitionPackets`, `BaselineWithinHistory`, `JumpsReported` |
| `ml_training` | buffer of 4, retraining every 4, warm-up 2, 13 packets, `fit()` may raise | `FlaggedByFreshModel`, `ReadyAfterWarmup` |

### Why the bounds are enough to be interesting

* **Engine.** Three scans let an old thread, a stop and two later starts
  overlap; `deployment` needs two scans and two callers for a visitor's call at
  every place of the driver's, and for the demo to be started again. One packet is enough
  for the loops to be in every place, two for a stop between packets; a
  gap that outlasts the join may precede any packet of the model, so that `deployment`
  needs no second one. Every branch of `start()`, `stop()` and `_run()` is
  taken in one of the runs.
* **Configuration.** Files give each section in every way that matters: not at
  all, in part, with an argument that does not exist or that its reader cannot take,
  empty, as null or as something else. A file speaks of one section, alone or beside
  the gateways or the terminal dashboard, because sections are merged and read one by
  one: the gateways are what the `arp_spoof` section demands, and the dashboard is a
  stage that must not hide what a later one finds. The roots that are no mapping (a
  text, a null) are files too. The options are those of the web server one after the
  other, the ones that are not its, and all together.
* **Web.** Two polls are enough for an older answer to be drawn last, two scans
  for an answer that begins in one and ends in the next.
* **Queue.** A queue of two fills, overflows, drains and fills again within six
  packets.
* **Alerts.** One packet alone overflows a ring of two, and of two sinks that may
  raise one is before the other; alerts of two threads are in flight together.
* **Pipeline.** Two hosts and the null address suffice for every kind of packet:
  both ends new, one of them, the same address twice, none. Two scans show what
  survives a restart and what does not.
* **Detectors.** Times are chosen so that the window and the cooldown end at
  different moments and both end within the run; `port_scan_window` has four
  packets to reach the threshold, lose it by eviction and reach it again.
  `MaxUpdates` is three because the fractions grow with each update; a third
  interval is the first that is scored against a baseline with a variance.
  `ml_training` sees three trainings, each of which may fail.

Every bound (`MaxScans`, `Packets`, `Polls`, `MaxArrivals`, `MaxAlerts`, `MaxWork`,
`MaxPackets`, `MaxTime`, `MaxUpdates`, `MaxSlips`) is a constant of its module
that guards the action it limits. Runs in which such a bound, or in
`deployment` the end of the process, stops everything switch deadlock checking
off; `engine_single` does not, because its caller may always call `stop()`.
Symmetry is used in runs without liveness.

### Fairness

`ScanEngine` assumes weak fairness of each scan thread, of a sniffer that is
coming up, and of each caller within `start()` and `stop()`: threads are
scheduled, `queue.get()`, `join()` and the sleeps have timeouts, and the lock is
held only for a few statements. Nobody is obliged to call anything. Python's
lock is not fair: a caller whose factory failed and who called `start()` again
for ever could keep the lock from another one; `Deployment` has no such fault,
and `engine_single`, which has it, does not check `CallsReturn`. `Deployment`
demands the same of its threads, nothing of the visitors, and of the driver that
it goes on by itself (Ctrl+C never has to come). Its next `start()` is strongly
fair, because `MaxScans`, which the code does not have, disables it while a
visitor is about to take the last scan. `WebDashboard` demands that the page's
timer goes on ticking, that requests are answered, and that not every answer is
lost (strong fairness of `Draw`, since `PollFails` may take one and then the
next); nobody has to click. `LiveCapture` assumes weak fairness of the loop only.

### What the violated runs show

* `two_scans_callers`: `stop()` reads `self._thread` after it released the lock
  (`engine.py:120`) and clears it in a later block, whichever scan is in it by then.
  B's `stop()` begins while nothing runs and finds no thread; meanwhile A's
  `start()` launches a scan; B then clears `self._thread` of that scan, which goes
  on with a status that says running. A later `stop()` has no thread to join and
  marks the scan as not running without waiting for it, and the next `start()`
  withdraws the stop request before the scan has looked at it and runs a second one
  beside it. The class comment (`engine.py:37-38`) promises at most one scan, with
  `start()` and `stop()` callable from any thread.
* `slow_sniffer_leak`: a sniffer that is not up yet when `stop()` comes raises
  Scapy's "Not running", which `capture.py:59-62` takes to mean that there is
  nothing to stop. The thread comes up afterwards and captures for a scan that
  is over.
* `host_never_reported`: the try block of `_process()` (`engine.py:187`) is
  around a detector's whole list of alerts. If a sink raises on the first, the
  second is never emitted, though the detector has noted its address as seen;
  `new_host.py:12` says each address is reported once per scan.

Other disagreements met while modelling have no run of their own; the
properties are stated so as to hold around them:

* The page may keep the error of an earlier scan on show for a scan that
  succeeded: an answer from before the click that is drawn after it brings the
  line back, and an idle scan without an error leaves it there
  (`web.py:402`). `PageCatchesUp` promises the error of a scan that failed, not
  the absence of one.
* The answer to a refused start is erased by the next poll of a running scan.
* An option assigns into `DEFAULT_CONFIG` itself where the file says nothing of
  the section (`cli.py:184-190`, and the demo's `render_demo.py:73-75`, of which
  lines 61-63 say "not the real defaults in config.py").
  `DefaultsKeptWhereOverridden` says where this happens and that it happens
  nowhere else; each process loads its configuration once.
* A section that the file sets to null makes even the option that "overrides
  config" (`cli.py:170`) crash, because `setdefault()` finds the null.
* One caller is enough for two scans if a real-time replay sleeps for more than
  five seconds between two packets (`capture.py:118`): the join at `engine.py:122`
  gives up, `stop()` reports idle all the same, and the next `start()` withdraws the
  stop request before the sleeper wakes up. `engine_single` leaves `"long_gap"` out.
* An exception out of `_process()` skips `capture.stop()`, so that the sniffer
  stays; a socket that fails later than 0.2 s after the start is reported only
  when somebody stops the scan. `engine_single` leaves `"callback"` and
  `"slow_sniffer"` out.
* If `Thread.start()` raises, the status says running for ever until someone
  stops; `RunningScanIsAlive` names this as its one exception, and the demo's
  watchdog waits on it (`Orphaned` in `DemoGoesOn`).
* The CLI opens its web server before its own `start()` (`cli.py:89-98`): a
  visitor who is quicker makes that `start()` raise, and the process ends. After
  its `stop()` a visitor may start one more scan, which ends with the process.
* `port_scan` counts the ports of a source over all targets but its message
  names the last target (`port_scan.py:76`).
* `new_host` filters 0.0.0.0 from ARP packets but not from IP packets.
* `traffic_spike` scores a key's first interval against itself, so that a first
  burst is never reported; with `min_stddev` 0 an interval may be open for ever
  and keys be fed twice, which is why its properties ask for a floor.
* `ml_anomaly` with a warm-up longer than its buffer never trains, and with
  `retrain_every` 1 never scores.
* `recent(0)` returns the whole history.

## 4. The proofs

Each proof module extends the module it is about. No theorem assumes the bounds
to be small, or anything about constants beyond the `ASSUME` of the module,
unless its statement says so.

**ScanEngineProofs.** For any set of callers, any faults:

* `TypeCorrect` — `TypeOK`. The strengthening (`TypeInv`) adds that the callers
  inside `start()` have left room within the bound for their scans, or the new
  scan's number could leave `Scans`; it counts a finite set.
* `CaptureNeverStale` — `NoStaleCapture`: a scan registers its capture while
  alive and `finally` clears it in the step in which the thread dies.
* `RunningIsAlive` — `RunningScanIsAlive`, because the same step clears
  `running`: a dying thread may declare a newer scan over, but never leaves a
  status that says running behind. `NeverRevived` is the lemma that a thread
  that was born stays so until it ends.

For one caller, no gap longer than the join and no failing thread creation
(each needed: without it the statement is false):

* `OneScanAtATime`, `StoppedIsIdle` — `AtMostOneScan` and `StopLeavesIdle` from
  the inductive invariant `SoleInv`: a live thread is the one `_thread` and the
  status name, the status says running while it lives, and at each place of
  `start()` and `stop()` the caller knows what it has established so far
  (`CallerSound`): the slot is free at `"launch"`, the flag is set from the
  first step of `stop()` on, and after the join nobody is alive. The flag is
  what excludes a timed-out join.
* `StatusOwn` (`StatusIsOwn`), with the two facts it rests on (`OwnInv`): a scan to
  come has processed nothing, and the capture that `stop()` is about to stop is
  that of the scan the status names.
* `FailureReported` (`FailedCaptureReported`), if in addition sniffers come up
  within 0.2 s. `FailureSaid` is the invariant: whoever gets a scan to its last
  step with a failed sniffer has written the error before, and `ErrorStays` says
  that nobody takes it back.
* `ReplayComplete` (`ReplayIsComplete`, about steps): a replay comes to its last step
  by a stop request, which no `start()` withdraws while its thread lives, by an
  error, or at the end of the file (`ReplaySound`), and ends there only
  (`EndsByFinish`).
* `ImplementsSlot` — initial states and steps of the engine are those of
  `ScanSlot` or stutter (`StepRefines`), so its safety part is implemented.

For any callers again, if sniffers come up within 0.2 s and no exception leaves
`_process()`: `NoSnifferLeft` (`NoSnifferLeak`). `SnifferSound` relates the place of
a scan's thread to the state of its sniffer.

**WebDashboardProofs.** For any number of scans, packets and polls in flight:

* `WebRunsEngine` — the behaviours of `WebDashboard` are behaviours of `ScanEngine`
  with one caller, so that the theorems above hold behind the page.
* `AlertsCounted` (`AlertsAreCounted`), unless a join times out: what the history
  holds is counted by the status, and what was counted stays so when the counter
  grows or the next scan begins (`CountedGrows`).
* `IdleAnswers` (`IdleAnswerIsFinal`), unless a join times out or a sniffer comes up
  late. The step that matters is `IdleObjectStays`: a status object that is idle,
  current or replaced, is written to no more, because the last one who might, a
  `stop()` that finds the capture failed, writes what the scan has said already.

**LiveCaptureProofs.** For any queue size and number of packets, from one
invariant `CaptureInv`: `CaptureTypeCorrect`, `NothingUncounted`
(`EveryPacketAccounted`), `OrderKept` (`SeenInOrder`), `FinalCount`
(`FinalCountExact`) and `BacklogSkipped` (`StopSkipsBacklog`). The order of
`log` is not inductive alone: the invariant orders log, packet in hand, queue
and the number of the next packet as one chain.

**PipelineProofs.** Of `AlertManager`, for any emitters, sinks and ring size:

* `AlertTypeCorrect`; `HistoryCurrent` (`HistoryIsLatest`), from the fact that the
  ring holds consecutive numbers up to the last.
* `GapsExplained` (`MissingHasCause`), `NothingSpurious` (`NoSpuriousOutput`) and
  `EarlierHaveMore` (a sink has nothing that one configured before it lacks), from
  `FanOutInv`. It says where an alert in flight is: in every sink before the one
  its emitter is about to serve and in none from there on, and that two emitters
  never carry the same alert.

Of `Pipeline`, for any detectors, addresses and left-over emitters as well:

* `PipelineFansOut` — every behaviour of `Pipeline` is one of `AlertManager`;
  `PipelineAlerts` draws the consequence for its three properties.
* `NoneSkipped` (`EveryDetectorEveryPacket`), from `TurnInv`: during a packet the
  detectors before the one whose turn it is have it, the others do not.
* `HostsOnce` (`HostsReportedOnce`), from `HostInv`: what was reported was seen, what
  waits to be reported was seen and not reported, and at most one alert waits
  behind the one in hand. So each exception loses at most one address
  (`LossPaid`), which the failed report in hand pays for.

**PortScanProofs.** For any sources, ports, window, threshold and cooldown:

* `WindowIsExact` (`WindowExact`): as long as the clock does not go back the stamps in
  the deque are in order, and then evicting up to the first entry that is not too
  old is evicting all that are (`EvictKeeps`). The deque loses nothing of the
  window (`Agrees`).
* `ReportedOnce` (`ScansReportedOncePerCooldown`): a cooldown runs from a report, and
  time that passes only lowers the count of ports (`PortsOfFew`).

**TrafficSpikeProofs.** For any keys and interval, any weight, any positive threshold
and any floor (the last three fractions), from `SpikeInv`:

* `PacketsPartitioned` (`IntervalsPartitionPackets`): the invariant numbers a key's
  packets, so that the open interval holds those since `ends` and the closed ones
  lie end to end before it; with a floor each of them was fed to the baseline once,
  since `FlushRaises` cannot occur.
* `BaselineBounded` (`BaselineWithinHistory`): one step of the recurrence keeps the
  mean between two rates that the key has shown (`MeanBetween`) and the variance
  below the square of their distance (`VarianceBelow`), also where a division of
  scaled integers is rounded down, so that nothing rests on the choice of `Scale`.
  `Follows` relates a baseline to the closed intervals it was fed.
* `JumpsFound` (`JumpsReported`): a baseline that has seen one rate only has that
  mean and no variance, so that a jump is scored against the floor
  (`JumpIsAnomalous`), and what is anomalous is above a mean that lies above the
  smallest rate before it (`AnomalousIsRise`).

**DetectorProofs.** Of `ArpSpoof`, for any addresses, MACs and cooldown: `TableLatest`
(`TableIsLatest`), by what `observe()` does to one binding (`ObservedIsLatest`), and
`MovesFlagged` (`MovesReported`), because a cooldown runs from an alert
(`CooldownFromAlert`); the clock starts past the first cooldown, as in 1970. Of
`MlAnomaly`, for any buffer, warm-up and retraining interval: `FreshModels`
(`FlaggedByFreshModel`) and `ReadyOnceWarm` (`ReadyAfterWarmup`), from `MlInv`: the
retraining counter is the age of a fitted model and at least that of a failed
training.

**DeploymentProofs.** For any visitors, scans and packets:

* `DeploymentRunsEngine` — whatever a process does with its engine is what
  `ScanEngine` allows; with the theorems about that, `DeployedScansAlive`.

For whatever trees files are (`BootAssumption`), whatever leaves the readers take
(`LeavesAssumption`) and any options, from `BootIInv`:

* `SettingsAreLayered` (`ConfigIsLayered`). The properties speak of settings only; the
  invariant has to know of every path what is there (`CfgFits`): what is ordered
  there, nothing below an order, else what the merge has (`Merged`). The lemmas
  under it are about paths (`BeginsOrder`, `FrontBegins`), about trees, of which
  whatever is above a place is a dictionary and nothing is below a leaf
  (`TreeClosed`, `LeavesEnd`), and about the two ways in which a tree changes
  (`MergeHolds`, `PutHolds`).
* `DefaultsSurvive` (`DefaultsKeptWhereOverridden`): a section that is the defaults'
  own in the merge is one that the file has nothing at.
* `MalformedNeverComesUp` (`MalformedFilesEndTheProcess`): a section of the
  configuration is one unless the file has something else in its place or above
  (`SectionPlaces`), and what a reader finds besides the defaults' settings is the
  file's (`ServerIsTheFiles`), what it finds of the settings is what was expected
  (`EnabledAsExpected`, `DemandsFit`). So a reader fails only on a malformed
  file (`ReadersFail`), and some reader does on each (`ReadersDoWell`). `ReadSoFar`
  keeps what the readers passed so far have found.

These theorems are about configurations as functions from paths. A tree given as
nested dictionaries would be data to be proved about by induction on its depth.

**Only model-checked.**

* Liveness, which needs ENABLED: `CallsReturn`, `QueueDrains`, `DemoGoesOn`,
  `ScriptEnds`, `PageCatchesUp`, `FailedCaptureEndsScan`, `ReplaySettlesIdle` and the
  fairness of `ScanSlot`.
* That `DeepMerge` is what the recursion of the code computes (`MergeIsRecursive`, over
  the files of the run): it is about a recursive operator.
* What a sequence of baseline updates computes exactly is an induction over data;
  the theorems about `TrafficSpike` say what every single update keeps.

## 5. What is not modelled, and why

* Ctrl+C anywhere but in the CLI's waiting loops, and at the demo's
  main thread, which only waits for it.
* Drawing (`dashboard.py`; the metrics, the alert feed, HTML and CSS of `web.py`),
  wording of alerts, JSON and syslog formats, feature vectors and the Isolation
  Forest: data that no property here tells apart.
* `RollingRate.zscore()`, `ExpiringSet.keys()`, `MacTable.get()`: never called.
* The locks inside `state.py` and the detectors: one scan thread uses a
  detector, unless two scans run, which have detectors of their own.
* Status fields that only name or date a scan (`source`, `started_at`,
  `finished_at`).
* A page whose own clicks overlap, and several pages: two callers are in
  `deployment` and `two_scans_callers`. What a page on its own shows after a
  sniffer that comes up late is not asked either.
* Time is a natural number; `ArpSpoof` and `TrafficSpike` assume that the clock
  does not go back, `PortScan` lets it. Floating-point rounding is left out.
* Packets still queued at a stop are dropped without being counted; this is the
  code's behaviour and `EveryPacketAccounted` counts them as queued.

## 6. Plan

All the components with a logic of their own are modelled. What could come next:

1. `DemoGoesOn`, `ScriptEnds` and `CallsReturn` stay with TLC; their safety parts
   (who may be waiting for whom) can be stated and proved about `Deployment`.
2. A page that does not wait for the answer to a click, and two pages: `start()` and
   `stop()` of two callers with what each page shows.
3. The drawing of metrics and of the alert feed from an answer, and the terminal
   dashboard, if they come to keep state of their own.
4. Runs are kept few: new ones take the place of those whose properties a
   composed module can check as well.
