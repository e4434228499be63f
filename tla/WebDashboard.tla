----------------------------- MODULE WebDashboard -----------------------------
(***************************************************************************)
(* sentrynet/web.py: one open page and the server it talks to.  The page     *)
(* polls /api/state every second, whether or not the last answer is there,   *)
(* and its two buttons post to /api/start and /api/stop.  The server answers *)
(* each request on a thread of its own; it reads the alert history and the   *)
(* status one after the other while scans go on.                             *)
(***************************************************************************)
EXTENDS ScanEngine

CONSTANTS
  Page,        \* the caller: the handler threads that serve the page's clicks
  Modes,       \* the sources a user picks
  Suspicious,  \* which packets of a scan the detectors report
  Polls        \* bound on the polls in flight: one slot each

ASSUME WebAssumption ==
  /\ Callers = {Page}
  /\ Modes \subseteq {"live", "pcap", "bad"}
  /\ Suspicious \subseteq 1 .. Packets
  /\ IsFiniteSet(Polls)
  /\ Faults \cap {"factory", "spawn"} = {}

VARIABLES
  inside,   \* the scans whose thread is inside the detectors
  history,  \* the alerts emitted: pairs of a scan and a packet of it
  retired,  \* the status objects that start() has replaced, by scan
  polls,    \* each poll of the page: where it is and what it has read
  view      \* what the page shows of the scan: running or idle, and the error line

serverVars == <<inside, history, retired>>
pageVars == <<polls, view>>
webVars == <<vars, serverVars, pageVars>>

\* The error line: empty, a scan's error, or the answer to a refused start.
NoError == NoScan
Refusal == MaxScans + 1

NoPoll == [at |-> "off", alerts |-> {}, scan |-> NoScan, packets |-> 0,
           running |-> FALSE, error |-> NoError]

WebInit ==
  /\ Init
  /\ inside = {} /\ history = {}
  /\ retired = [n \in Scans \cup {NoScan} |-> status]
  /\ polls = [p \in Polls |-> NoPoll]
  /\ view = [running |-> FALSE, text |-> NoError]

-----------------------------------------------------------------------------
(* The scan thread, with its alerts *)

\* The packet is counted; unless on_packet() raised, the detectors run.
CountPacket(n) ==
  /\ ProcessPacket(n)
  /\ inside' = IF pc'[n] = "finish" THEN inside ELSE inside \cup {n}

ScanThread(n) ==
  /\ n \notin inside
  /\ CountPacket(n) \/ (UNCHANGED inside /\ (ReplayStep(n) \/ LiveStep(n) \/ Finish(n)))
  /\ UNCHANGED <<history, retired, pageVars>>

\* A packet's alerts enter the history together.
Detected(n) ==
  /\ n \in inside /\ inside' = inside \ {n}
  /\ history' = history \cup {<<n, k>> : k \in {processed[n]} \cap Suspicious}
  /\ UNCHANGED <<vars, retired, pageVars>>

SnifferThread(n) ==
  /\ SnifferSettles(n)
  /\ UNCHANGED <<serverVars, pageVars>>

-----------------------------------------------------------------------------
(* GET /api/state: the page's poll() and the server's _state_payload() *)

Becomes(p, poll) ==
  /\ polls' = [polls EXCEPT ![p] = poll]
  /\ UNCHANGED <<vars, serverVars>>

\* The status object as it is now, or as it was when start() replaced it.
StatusOf(n) == IF n = status.scan THEN status ELSE retired[n]

\* Requests only read: it is enough to look at one being read at a time.
Reading == {p \in Polls : polls[p].at \in {"alerts", "status", "running"}}
Reads(p, from, poll) ==
  /\ polls[p].at = from
  /\ Reading \subseteq {p}
  /\ Becomes(p, poll)
  /\ UNCHANGED view

WithAlerts(poll) == [poll EXCEPT !.alerts = history]
WithStatus(poll) == [poll EXCEPT !.scan = status.scan, !.packets = status.packets]
WithRunning(poll) == [poll EXCEPT !.running = StatusOf(poll.scan).running]
WithError(poll) == [poll EXCEPT !.error = StatusOf(poll.scan).error]

\* Defects: the payload is put together in another order.
DefectStatusFirst(p) ==
  \/ Reads(p, "off", [WithStatus(polls[p]) EXCEPT !.at = "alerts"])
  \/ Reads(p, "alerts", [WithAlerts(polls[p]) EXCEPT !.at = "status"])
DefectErrorFirst(p) ==
  \/ Reads(p, "status", [WithError(polls[p]) EXCEPT !.at = "running", !.alerts = {}, !.packets = 0])
  \/ Reads(p, "running", [WithRunning(polls[p]) EXCEPT !.at = "answered"])

\* A tick of the timer or the page's first poll: self.alert_manager.recent(limit),
\* and then self.engine.status and its counter.
ReadCounts(p) ==
  \/ Reads(p, "off", [WithAlerts(polls[p]) EXCEPT !.at = "alerts"])
  \/ Reads(p, "alerts", [WithStatus(polls[p]) EXCEPT !.at = "status"])

\* Of the answer only the scan's part is looked at from here on.
ReadScan(p) ==
  \/ Reads(p, "status", [WithRunning(polls[p]) EXCEPT !.at = "running", !.alerts = {}, !.packets = 0])
  \/ Reads(p, "running", [WithError(polls[p]) EXCEPT !.at = "answered"])

\* Defect: the page does not show the error of a scan it finds idle.
DefectDropError(answer) ==
  [running |-> answer.running, text |-> IF answer.running THEN NoError ELSE view.text]

\* renderScan(): a running scan clears the error line, an idle one fills it or
\* leaves it as it is.
Rendered(answer) ==
  [running |-> answer.running,
   text |-> IF answer.running THEN NoError
            ELSE IF answer.error # NoError THEN answer.error ELSE view.text]

Draw(p) ==
  /\ polls[p].at = "answered"
  /\ Becomes(p, NoPoll)
  /\ view' = Rendered(polls[p])

\* A request without an answer: the page waits for the next tick.
PollFails(p) ==
  /\ polls[p].at = "answered"
  /\ Becomes(p, NoPoll)
  /\ UNCHANGED view

-----------------------------------------------------------------------------
(* POST /api/start and /api/stop; the answer is there when the call returns. *)
(* A click waits for the answer to the one before.                           *)

\* The button is there while the page shows idle.
ClickStart(mode) ==
  /\ ~view.running
  /\ view' = [view EXCEPT !.text = NoError]
  /\ Start(Page, mode)
  /\ UNCHANGED <<serverVars, polls>>

\* ValueError and RuntimeError are answered with status 400 and their text.
Refused == At(Page, "start") /\ call'[Page].at = "idle"

StartServed ==
  /\ StartBody(Page)
  /\ retired' = IF status'.scan = status.scan THEN retired
                ELSE [retired EXCEPT ![status.scan] = status]
  /\ view' = IF Refused THEN [view EXCEPT !.text = Refusal] ELSE view
  /\ UNCHANGED <<inside, history, polls>>

ClickStop ==
  /\ view.running
  /\ StopBegin(Page)
  /\ UNCHANGED <<serverVars, pageVars>>

StopServed ==
  /\ StopBody(Page)
  /\ UNCHANGED <<serverVars, pageVars>>

-----------------------------------------------------------------------------

ServeState(p) == ReadCounts(p) \/ ReadScan(p)

ScanGoesOn == \E n \in Scans : ScanThread(n) \/ Detected(n)
SnifferGoesOn == \E n \in Scans : SnifferThread(n)

WebNext ==
  \/ ScanGoesOn \/ SnifferGoesOn \/ StartServed \/ StopServed
  \/ \E p \in Polls : ServeState(p) \/ Draw(p) \/ PollFails(p)
  \/ ClickStop \/ \E mode \in Modes : ClickStart(mode)

(***************************************************************************)
(* Threads are scheduled, as in ScanEngine, where one caller has one scan at *)
(* a time; the timer goes on ticking, and of the polls it sends not every    *)
(* one fails.  Nobody is obliged to click.                                   *)
(***************************************************************************)
WebFairness ==
  /\ WF_webVars(StartServed \/ StopServed)
  /\ WF_webVars(ScanGoesOn) /\ WF_webVars(SnifferGoesOn)
  /\ \A p \in Polls : WF_webVars(ServeState(p)) /\ SF_webVars(Draw(p))

WebSpec == WebInit /\ [][WebNext]_webVars /\ WebFairness

-----------------------------------------------------------------------------
(* Properties *)

\* engine.py:175-179 sets the error before it clears running, and web.py:666-669
\* reads running before error, without the lock: an answer that calls a scan idle
\* has the last word on how it ended.
IdleAnswerIsFinal ==
  \A p \in Polls :
    polls[p].at = "answered" /\ ~polls[p].running
      => polls[p].error = StatusOf(polls[p].scan).error

\* The alerts of an answer are never ahead of its packet counter: each stems
\* from an earlier scan or from a packet that the answer counts.
AlertsAreCounted ==
  \A p \in Polls : polls[p].at = "status" =>
    \A a \in polls[p].alerts :
      a[1] < polls[p].scan \/ (a[1] = polls[p].scan /\ a[2] <= polls[p].packets)

Shows(s) == view.running = s.running /\ (s.error # NoError => view.text = s.error)

\* README.md:174-176: whatever order answers are drawn in, and whichever polls
\* are lost, the page gets to show that a scan is over, with its error if it
\* failed, and that a scan is running, unless that has changed meanwhile.
PageCatchesUp ==
  \A n \in Scans :
    /\ (status.scan = n /\ ~status.running /\ ~Alive(n)) ~> (Shows(status) \/ status.scan # n)
    /\ (status.scan = n /\ status.running) ~> (view.running \/ status.scan # n \/ ~status.running)
=============================================================================
