-------------------------- MODULE WebDashboardProofs --------------------------
(***************************************************************************)
(* Proofs about WebDashboard, for any number of scans, packets and polls in  *)
(* flight: its engine is ScanEngine's, and the pieces of an answer, read one *)
(* after the other without a lock, agree with each other.                    *)
(***************************************************************************)
EXTENDS WebDashboard, ScanEngineProofs

-----------------------------------------------------------------------------
(* The page and its server are an environment of the engine                  *)

\* One page is one caller, who picks valid modes or bad ones.
LEMMA OnePage ==
  /\ Page \in Callers /\ OneCallerOnly /\ "spawn" \notin Faults
  /\ Modes \subseteq {"live", "pcap", "bad"}
BY WebAssumption DEF OneCallerOnly

\* Every step is one of the engine or leaves it alone.
LEMMA StepIsEngines == [WebNext]_webVars => [Next]_vars
<1> SUFFICES ASSUME [WebNext]_webVars PROVE [Next]_vars
  OBVIOUS
<1>1. ASSUME NEW n \in Scans, ScanThread(n) \/ Detected(n) \/ SnifferThread(n) PROVE [Next]_vars
  <2>1. CASE ScanThread(n)
    BY <2>1 DEF ScanThread, CountPacket, Next, ScanStep
  <2>2. CASE Detected(n)
    BY <2>2 DEF Detected
  <2>3. CASE SnifferThread(n)
    BY <2>3 DEF SnifferThread, Next
  <2> QED
    BY <1>1, <2>1, <2>2, <2>3
<1>2. CASE StartServed \/ StopServed \/ ClickStop
  BY <1>2, OnePage DEF StartServed, StopServed, ClickStop, Next
<1>3. ASSUME NEW mode \in Modes, ClickStart(mode) PROVE [Next]_vars
  BY <1>3, OnePage DEF ClickStart, Next
<1>4. ASSUME NEW p \in Polls, ServeState(p) \/ Draw(p) \/ PollFails(p) PROVE UNCHANGED vars
  BY <1>4 DEF ServeState, ReadCounts, ReadScan, Reads, Draw, PollFails, Becomes
<1>5. CASE UNCHANGED webVars
  BY <1>5 DEF webVars
<1> QED
  BY <1>1, <1>2, <1>3, <1>4, <1>5 DEF WebNext, ScanGoesOn, SnifferGoesOn

\* What is proved of ScanEngine therefore holds of the engine behind the page.
THEOREM WebRunsEngine == WebSpec => Spec
<1>1. WebInit => Init
  BY DEF WebInit
<1> QED
  BY <1>1, StepIsEngines, PTL DEF WebSpec, Spec

-----------------------------------------------------------------------------
(* The status and its number *)

\* A step of the engine keeps the number of the scan that the status names and
\* never lowers its counter, unless it begins the next scan.
LEMMA StatusStep ==
  ASSUME TypeInv, [Next]_vars
  PROVE  \/ status'.scan = status.scan /\ status'.packets \in {status.packets, status.packets + 1}
         \/ status'.scan = status.scan + 1
<1> USE DEF TypeInv
<1>1. ASSUME NEW n \in Scans, ScanStep(n) \/ SnifferSettles(n) \/ SnifferExits(n)
      PROVE  status'.packets \in {status.packets, status.packets + 1}
  <2>1. CASE ReplayStep(n)
    BY <2>1 DEF ReplayStep, ReplayRead, ReplayEnd, ReplayFails, ReplayCheck, Fail, engineVars, TypeOK
  <2>2. CASE LiveStep(n)
    BY <2>2 DEF LiveStep, RegisterCapture, OpenCapture, SettleAlive, SettleDead, Poll, GetPacket,
       GetTimesOut, Halt, Fail, engineVars, TypeOK
  <2>3. CASE ProcessPacket(n)
    BY <2>3 DEF ProcessPacket, Counted, TypeOK
  <2>4. CASE Finish(n) \/ SnifferSettles(n) \/ SnifferExits(n)
    BY <2>4 DEF Finish, SnifferSettles, SnifferUp, SnifferFails, SnifferExits, engineVars, TypeOK
  <2> QED
    BY <1>1, <2>1, <2>2, <2>3, <2>4 DEF ScanStep
<1>2. ASSUME NEW n \in Scans, ScanStep(n) \/ SnifferSettles(n) \/ SnifferExits(n)
      PROVE  status'.scan = status.scan
  BY <1>2, ScanEffect
<1>3. ASSUME NEW c \in Callers, StartLaunch(c) PROVE status'.scan = status.scan + 1
  BY <1>3 DEF StartLaunch, Publish, NewStatus
<1>4. ASSUME NEW c \in Callers,
             \/ \E mode \in {"live", "pcap", "bad"} : Start(c, mode)
             \/ StopBegin(c) \/ StartRefused(c) \/ StartClear(c) \/ StartFactoryFails(c)
             \/ StopBody(c)
      PROVE  status'.scan = status.scan /\ status'.packets = status.packets
  BY <1>4 DEF StopBody, Start, StopBegin, StartRefused, StartClear, StartFactoryFails,
     StopCapture, StopThread, StopJoined, StopFinish, engineVars, TypeOK
<1>5. CASE UNCHANGED vars
  BY <1>5 DEF vars, engineVars
<1> QED
  BY <1>1, <1>2, <1>3, <1>4, <1>5 DEF Next, StartBody

\* An idle status is final until the next scan begins: its last writer, a stop()
\* that finds the capture of that scan failed, finds it reported, too.
LEMMA IdleStays ==
  ASSUME SaidInv, OneCallerOnly, [Next]_vars, ~status.running, status'.scan = status.scan
  PROVE  status'.running = FALSE /\ status'.error = status.error
<1>0. /\ TypeInv /\ TypeOK /\ FailureSaid /\ OwnCapture /\ StatusIsOwn
      /\ \A n \in Scans : SnifferSound(n) /\ ~Alive(n)
  BY DEF SaidInv, OwnInv, SoleInv, AliveInv, StaleInv, TypeInv, SnifferInv, SoleScan, SoleThread
<1>1. ASSUME NEW n \in Scans, ScanStep(n) PROVE FALSE
  <2>1. pc[n] \in {"unborn", "stillborn", "dead"}
    BY <1>0 DEF Alive, TypeOK
  <2> QED
    BY <1>1, <2>1 DEF ScanStep, ReplayStep, ReplayRead, ReplayEnd, ReplayFails, ReplayCheck,
       LiveStep, RegisterCapture, OpenCapture, SettleAlive, SettleDead, Poll, GetPacket,
       GetTimesOut, Halt, ProcessPacket, Finish, ScanAt
<1>2. ASSUME NEW n \in Scans, SnifferSettles(n) \/ SnifferExits(n) PROVE status' = status
  BY <1>2 DEF SnifferSettles, SnifferUp, SnifferFails, SnifferExits, engineVars
<1>3. ASSUME NEW c \in Callers, StartLaunch(c) PROVE FALSE
  <2>1. status'.scan = status.scan + 1
    BY <1>3 DEF StartLaunch, Publish, NewStatus
  <2>2. status.scan \in Nat
    BY <1>0, EngineAssumption DEF TypeOK, Scans, NoScan
  <2> QED
    BY <2>1, <2>2
<1>4. ASSUME NEW c \in Callers, StopCapture(c)
      PROVE  status'.running = status.running /\ status'.error = status.error
  <2>1. call[c].cap = status.scan
    BY <1>0, <1>4 DEF StopCapture, OwnCapture
  <2>2. CASE status.scan = NoScan
    BY <1>0, <1>4, <2>1, <2>2 DEF StopCapture, StatusIsOwn, TypeOK
  <2>3. CASE status.scan \in Scans /\ sniffer[status.scan] = "failed"
    <3>1. pc[status.scan] = "dead"
      BY <1>0, <2>3 DEF Alive, SnifferSound, TypeOK
    <3>2. status.error = status.scan
      BY <1>0, <2>3, <3>1 DEF FailureSaid
    <3> QED
      BY <1>0, <1>4, <2>1, <3>2 DEF StopCapture, TypeOK
  <2>4. CASE sniffer[status.scan] # "failed"
    BY <1>4, <2>1, <2>4 DEF StopCapture, CaptureStopRaises
  <2> QED
    BY <1>0, <2>2, <2>3, <2>4 DEF TypeOK
<1>5. ASSUME NEW c \in Callers,
             \/ \E mode \in {"live", "pcap", "bad"} : Start(c, mode)
             \/ StopBegin(c) \/ StartRefused(c) \/ StartClear(c) \/ StartFactoryFails(c)
             \/ StopThread(c) \/ StopJoined(c) \/ StopFinish(c)
      PROVE  status'.running \in {status.running, FALSE} /\ status'.error = status.error
  BY <1>0, <1>5 DEF Start, StopBegin, StartRefused, StartClear, StartFactoryFails, StopThread,
     StopJoined, StopFinish, engineVars, TypeOK
<1>6. CASE UNCHANGED vars
  BY <1>6 DEF vars, engineVars
<1> QED
  BY <1>0, <1>1, <1>2, <1>3, <1>4, <1>5, <1>6 DEF Next, StartBody, StopBody, TypeOK

-----------------------------------------------------------------------------
(* What the steps of the server and the page do to what an answer is read of *)

StatusType == [scan : Scans \cup {NoScan}, running : BOOLEAN, mode : {"none", "live", "pcap"},
               error : Scans \cup {NoScan}, packets : Nat]
PollType == [at : {"off", "alerts", "status", "running", "answered"},
             alerts : SUBSET (Scans \X Nat), scan : Scans \cup {NoScan}, packets : Nat,
             running : BOOLEAN, error : Scans \cup {NoScan}]

WebTypes ==
  /\ TypeInv
  /\ inside \subseteq Scans /\ history \subseteq Scans \X Nat
  /\ retired \in [Scans \cup {NoScan} -> StatusType]
  /\ polls \in [Polls -> PollType]

\* The steps at the engine: the polls stay, and a status object that is replaced
\* is kept.
EngineSide ==
  \/ \E n \in Scans : ScanThread(n) \/ Detected(n) \/ SnifferThread(n)
  \/ StartServed \/ StopServed \/ ClickStop \/ \E mode \in Modes : ClickStart(mode)

LEMMA EngineSideEffect ==
  ASSUME TypeInv, EngineSide
  PROVE  /\ polls' = polls
         /\ \/ status'.scan = status.scan /\ retired' = retired
            \/ /\ status'.scan = status.scan + 1
               /\ retired' = [retired EXCEPT ![status.scan] = status]
<1>0. status.scan \in Nat
  BY EngineAssumption DEF TypeInv, TypeOK, Scans, NoScan
<1>1. ASSUME NEW n \in Scans, ScanThread(n)
      PROVE  polls' = polls /\ status'.scan = status.scan /\ retired' = retired
  <2>1. ScanStep(n)
    BY <1>1 DEF ScanThread, CountPacket, ScanStep
  <2> QED
    BY <1>1, <2>1, ScanEffect DEF ScanThread, pageVars
<1>2. ASSUME NEW n \in Scans, Detected(n)
      PROVE  polls' = polls /\ status'.scan = status.scan /\ retired' = retired
  BY <1>2 DEF Detected, pageVars, vars, engineVars
<1>3. ASSUME NEW n \in Scans, SnifferThread(n)
      PROVE  polls' = polls /\ status'.scan = status.scan /\ retired' = retired
  BY <1>3, ScanEffect DEF SnifferThread, pageVars, serverVars
<1>4. CASE StartServed
  <2>1. [Next]_vars
    BY <1>4, StepIsEngines DEF WebNext
  <2>2. status'.scan = status.scan \/ status'.scan = status.scan + 1
    BY <2>1, StatusStep
  <2> QED
    BY <1>0, <1>4, <2>2 DEF StartServed
<1>5. CASE StopServed
  <2>1. polls' = polls /\ retired' = retired /\ StopBody(Page)
    BY <1>5 DEF StopServed, pageVars, serverVars
  <2>2. status'.scan = status.scan
    BY <2>1 DEF StopBody, StopCapture, StopThread, StopJoined, StopFinish, engineVars,
       TypeInv, TypeOK
  <2> QED
    BY <2>1, <2>2
<1>6. CASE ClickStop
  BY <1>6 DEF ClickStop, StopBegin, pageVars, serverVars
<1>7. ASSUME NEW mode \in Modes, ClickStart(mode)
      PROVE  polls' = polls /\ status'.scan = status.scan /\ retired' = retired
  BY <1>7 DEF ClickStart, Start, serverVars, engineVars
<1> QED
  BY <1>1, <1>2, <1>3, <1>4, <1>5, <1>6, <1>7 DEF EngineSide

\* A step is one at the engine, or of one poll.
LEMMA SidesOfStep ==
  ASSUME WebNext
  PROVE  EngineSide \/ \E p \in Polls : ServeState(p) \/ Draw(p) \/ PollFails(p)
BY DEF WebNext, EngineSide, ScanGoesOn, SnifferGoesOn

\* A poll's step: what has been read is added to the poll, or the poll is over.
PollStep(p) ==
  \/ polls[p].at = "off" /\ polls'[p] = [WithAlerts(polls[p]) EXCEPT !.at = "alerts"]
  \/ polls[p].at = "alerts" /\ polls'[p] = [WithStatus(polls[p]) EXCEPT !.at = "status"]
  \/ /\ polls[p].at = "status"
     /\ polls'[p] = [WithRunning(polls[p]) EXCEPT !.at = "running", !.alerts = {}, !.packets = 0]
  \/ polls[p].at = "running" /\ polls'[p] = [WithError(polls[p]) EXCEPT !.at = "answered"]
  \/ polls'[p] = NoPoll

LEMMA PollEffect ==
  ASSUME WebTypes, NEW p \in Polls, ServeState(p) \/ Draw(p) \/ PollFails(p)
  PROVE  /\ UNCHANGED <<vars, inside, history, retired>>
         /\ PollStep(p)
         /\ \A q \in Polls \ {p} : polls'[q] = polls[q]
         /\ polls' = [polls EXCEPT ![p] = polls'[p]]
<1>0. polls \in [Polls -> PollType]
  BY DEF WebTypes
<1>1. ASSUME NEW poll, Becomes(p, poll)
      PROVE  /\ UNCHANGED <<vars, inside, history, retired>> /\ polls'[p] = poll
             /\ \A q \in Polls \ {p} : polls'[q] = polls[q]
             /\ polls' = [polls EXCEPT ![p] = polls'[p]]
  BY <1>0, <1>1 DEF Becomes, serverVars
<1>2. CASE ReadCounts(p)
  <2>1. CASE Reads(p, "off", [WithAlerts(polls[p]) EXCEPT !.at = "alerts"])
    BY <1>1, <2>1 DEF Reads, PollStep
  <2>2. CASE Reads(p, "alerts", [WithStatus(polls[p]) EXCEPT !.at = "status"])
    BY <1>1, <2>2 DEF Reads, PollStep
  <2> QED
    BY <1>2, <2>1, <2>2 DEF ReadCounts
<1>3. CASE ReadScan(p)
  <2>1. CASE Reads(p, "status", [WithRunning(polls[p]) EXCEPT !.at = "running", !.alerts = {},
                                                              !.packets = 0])
    BY <1>1, <2>1 DEF Reads, PollStep
  <2>2. CASE Reads(p, "running", [WithError(polls[p]) EXCEPT !.at = "answered"])
    BY <1>1, <2>2 DEF Reads, PollStep
  <2> QED
    BY <1>3, <2>1, <2>2 DEF ReadScan
<1>4. CASE Draw(p) \/ PollFails(p)
  BY <1>1, <1>4 DEF Draw, PollFails, PollStep
<1> QED
  BY <1>2, <1>3, <1>4 DEF ServeState

\* The same, field by field.
LEMMA PollFields ==
  ASSUME NEW p \in Polls, polls[p] \in PollType, PollStep(p)
  PROVE  \/ /\ polls'[p].at = "alerts" /\ polls'[p].alerts = history
            /\ polls'[p].scan = polls[p].scan
         \/ /\ polls[p].at = "alerts" /\ polls'[p].at = "status"
            /\ polls'[p].alerts = polls[p].alerts
            /\ polls'[p].scan = status.scan /\ polls'[p].packets = status.packets
         \/ /\ polls'[p].at = "running" /\ polls'[p].scan = polls[p].scan
            /\ polls'[p].running = StatusOf(polls[p].scan).running
         \/ /\ polls[p].at = "running" /\ polls'[p].at = "answered"
            /\ polls'[p].scan = polls[p].scan /\ polls'[p].running = polls[p].running
            /\ polls'[p].error = StatusOf(polls[p].scan).error
         \/ polls'[p].at = "off" /\ polls'[p].scan = NoScan
<1>1. CASE polls'[p] = [WithAlerts(polls[p]) EXCEPT !.at = "alerts"]
  BY <1>1 DEF PollType, WithAlerts
<1>2. CASE polls[p].at = "alerts" /\ polls'[p] = [WithStatus(polls[p]) EXCEPT !.at = "status"]
  BY <1>2 DEF PollType, WithStatus
<1>3. CASE polls'[p] = [WithRunning(polls[p]) EXCEPT !.at = "running", !.alerts = {}, !.packets = 0]
  <2>1. PICK r : r = StatusOf(polls[p].scan).running
    OBVIOUS
  <2>2. polls'[p] = [polls[p] EXCEPT !.running = r, !.at = "running", !.alerts = {}, !.packets = 0]
    BY <1>3, <2>1 DEF WithRunning, PollType
  <2> QED
    BY <2>1, <2>2 DEF PollType
<1>4. CASE polls[p].at = "running" /\ polls'[p] = [WithError(polls[p]) EXCEPT !.at = "answered"]
  <2>1. PICK e : e = StatusOf(polls[p].scan).error
    OBVIOUS
  <2>2. polls'[p] = [polls[p] EXCEPT !.error = e, !.at = "answered"]
    BY <1>4, <2>1 DEF WithError, PollType
  <2> QED
    BY <1>4, <2>1, <2>2 DEF PollType
<1>5. CASE polls'[p] = NoPoll
  BY <1>5 DEF NoPoll
<1> QED
  BY <1>1, <1>2, <1>3, <1>4, <1>5 DEF PollStep

\* The types.
LEMMA StepWebTyped ==
  ASSUME WebTypes, [WebNext]_webVars
  PROVE  WebTypes'
<1>0. /\ TypeInv /\ TypeOK /\ inside \subseteq Scans /\ history \subseteq Scans \X Nat
      /\ retired \in [Scans \cup {NoScan} -> StatusType] /\ polls \in [Polls -> PollType]
      /\ status \in StatusType /\ processed \in [Scans -> Nat]
  BY DEF WebTypes, TypeInv, TypeOK, StatusType
<1>1. TypeInv' /\ status' \in StatusType
  BY <1>0, StepIsEngines, StepTyped DEF TypeInv, TypeOK, StatusType
<1>2. CASE EngineSide
  <2>1. polls' = polls /\ retired' \in [Scans \cup {NoScan} -> StatusType]
    BY <1>0, <1>2, EngineSideEffect
  <2>2. inside' \subseteq Scans /\ history' \subseteq Scans \X Nat
    BY <1>0, <1>2 DEF EngineSide, ScanThread, CountPacket, Detected, SnifferThread, StartServed,
       StopServed, ClickStop, ClickStart, serverVars
  <2> QED
    BY <1>1, <2>1, <2>2 DEF WebTypes
<1>3. ASSUME NEW p \in Polls, ServeState(p) \/ Draw(p) \/ PollFails(p) PROVE WebTypes'
  <2>1. /\ UNCHANGED <<inside, history, retired>> /\ PollStep(p)
        /\ polls' = [polls EXCEPT ![p] = polls'[p]]
    BY <1>3, PollEffect
  <2>2. StatusOf(polls[p].scan) \in StatusType
    BY <1>0 DEF StatusOf, PollType
  <2>3. polls'[p] \in PollType
    <3>1. polls[p] \in PollType /\ history \in SUBSET (Scans \X Nat)
      BY <1>0
    <3>2. CASE polls'[p] = [WithAlerts(polls[p]) EXCEPT !.at = "alerts"]
      BY <3>1, <3>2 DEF PollType, WithAlerts
    <3>3. CASE polls'[p] = [WithStatus(polls[p]) EXCEPT !.at = "status"]
      BY <1>0, <3>1, <3>3 DEF PollType, StatusType, WithStatus
    <3>4. CASE polls'[p] = [WithRunning(polls[p]) EXCEPT !.at = "running", !.alerts = {}, !.packets = 0]
      <4>1. StatusOf(polls[p].scan).running \in BOOLEAN
        BY <2>2 DEF StatusType
      <4>2. PICK r : r = StatusOf(polls[p].scan).running
        OBVIOUS
      <4>3. polls'[p] = [[polls[p] EXCEPT !.running = r] EXCEPT !.at = "running", !.alerts = {},
                                                                !.packets = 0]
        BY <3>4, <4>2 DEF WithRunning
      <4>4. polls'[p] = [polls[p] EXCEPT !.running = r, !.at = "running", !.alerts = {},
                                         !.packets = 0]
        BY <3>1, <4>3 DEF PollType
      <4>5. polls'[p] = [at |-> "running", alerts |-> {}, scan |-> polls[p].scan, packets |-> 0,
                         running |-> r, error |-> polls[p].error]
        BY <3>1, <4>4 DEF PollType
      <4>6. polls[p].scan \in Scans \cup {NoScan} /\ polls[p].error \in Scans \cup {NoScan}
        BY <3>1 DEF PollType
      <4> QED
        BY <4>1, <4>2, <4>5, <4>6 DEF PollType
    <3>5. CASE polls'[p] = [WithError(polls[p]) EXCEPT !.at = "answered"]
      <4>1. StatusOf(polls[p].scan).error \in Scans \cup {NoScan}
        BY <2>2 DEF StatusType
      <4> QED
        BY <3>1, <3>5, <4>1 DEF PollType, WithError
    <3>6. CASE polls'[p] = NoPoll
      BY <3>6 DEF PollType, NoPoll, NoError
    <3> QED
      BY <2>1, <3>2, <3>3, <3>4, <3>5, <3>6 DEF PollStep
  <2>4. polls' \in [Polls -> PollType]
    BY <1>0, <2>1, <2>3
  <2> QED
    BY <1>0, <1>1, <2>1, <2>4 DEF WebTypes
<1>4. CASE UNCHANGED webVars
  BY <1>0, <1>1, <1>4 DEF webVars, serverVars, pageVars, WebTypes
<1> QED
  BY <1>2, <1>3, <1>4, SidesOfStep

LEMMA InitWebTyped == WebInit => WebTypes
<1> SUFFICES ASSUME WebInit PROVE WebTypes
  OBVIOUS
<1>1. TypeInv
  BY InitTyped DEF WebInit
<1>2. status \in StatusType
  BY <1>1 DEF TypeInv, TypeOK, StatusType
<1>3. NoPoll \in PollType
  BY DEF NoPoll, NoError, PollType
<1> QED
  BY <1>1, <1>2, <1>3 DEF WebInit, WebTypes

-----------------------------------------------------------------------------
(* Alerts and counter                                                        *)

\* Every alert is of a scan before n, or of one of the first k packets of n.
AllCounted(alerts, n, k) == \A a \in alerts : a[1] < n \/ (a[1] = n /\ a[2] <= k)

AlertInv ==
  /\ WebTypes /\ OwnInv
  /\ \A n \in inside : n <= status.scan
  /\ AllCounted(history, status.scan, status.packets)
  /\ \A p \in Polls :
       /\ polls[p].at = "alerts" => AllCounted(polls[p].alerts, status.scan, status.packets)
       /\ polls[p].at = "status" => AllCounted(polls[p].alerts, polls[p].scan, polls[p].packets)

\* What is counted stays so while the scan goes on and when the next one begins.
LEMMA CountedGrows ==
  ASSUME NEW alerts \in SUBSET (Scans \X Nat), NEW n \in Nat, NEW k \in Nat,
         NEW m, NEW j, (m = n /\ j \in {k, k + 1}) \/ m = n + 1, AllCounted(alerts, n, k)
  PROVE  AllCounted(alerts, m, j)
<1>1. \A a \in alerts : a[1] \in Nat /\ a[2] \in Nat
  BY EngineAssumption DEF Scans
<1> QED
  BY <1>1 DEF AllCounted

LEMMA StepAlerts ==
  ASSUME "long_gap" \notin Faults, AlertInv, [WebNext]_webVars
  PROVE  AlertInv'
<1>0. /\ WebTypes /\ TypeInv /\ OwnInv /\ StatusIsOwn /\ history \in SUBSET (Scans \X Nat)
      /\ inside \subseteq Scans /\ polls \in [Polls -> PollType]
      /\ status.scan \in Nat /\ status.packets \in Nat /\ processed \in [Scans -> Nat]
      /\ \A n \in Scans : Alive(n) => n = status.scan
  BY EngineAssumption DEF AlertInv, WebTypes, OwnInv, SoleInv, SoleScan, SoleThread, TypeInv,
     TypeOK, Scans, NoScan
<1>1. [Next]_vars
  BY StepIsEngines
<1>2. WebTypes' /\ OwnInv'
  BY <1>0, <1>1, StepWebTyped, StepOwn, OnePage
<1>3. \/ status'.scan = status.scan /\ status'.packets \in {status.packets, status.packets + 1}
      \/ status'.scan = status.scan + 1
  BY <1>0, <1>1, StatusStep
<1>4. ASSUME NEW alerts \in SUBSET (Scans \X Nat), AllCounted(alerts, status.scan, status.packets)
      PROVE  AllCounted(alerts, status'.scan, status'.packets)
  BY <1>0, <1>3, <1>4, CountedGrows
<1>5. CASE EngineSide
  <2>1. polls' = polls
    BY <1>0, <1>5, EngineSideEffect
  <2>2. \A n \in inside' : n <= status'.scan
    <3>1. ASSUME NEW n \in inside', n \notin inside PROVE n = status.scan
      <4>1. PICK m \in Scans : ScanThread(m) \/ Detected(m) \/ SnifferThread(m)
        BY <1>5, <3>1 DEF EngineSide, StartServed, StopServed, ClickStop, ClickStart, serverVars
      <4>2. CountPacket(m) /\ n = m
        BY <3>1, <4>1 DEF ScanThread, CountPacket, Detected, SnifferThread, serverVars
      <4>3. Alive(m)
        BY <4>2 DEF CountPacket, ProcessPacket, ScanAt, Alive
      <4> QED
        BY <1>0, <4>2, <4>3
    <3>2. \A n \in inside : n <= status.scan /\ n \in Nat
      BY <1>0, EngineAssumption DEF AlertInv, Scans
    <3> QED
      BY <1>0, <1>3, <3>1, <3>2
  <2>3. AllCounted(history', status'.scan, status'.packets)
    <3>1. CASE history' = history
      BY <1>0, <1>4, <3>1 DEF AlertInv
    <3>2. CASE history' # history
      <4>1. PICK n \in Scans : Detected(n)
        BY <1>5, <3>2 DEF EngineSide, ScanThread, SnifferThread, StartServed, StopServed,
           ClickStop, ClickStart, serverVars
      <4>2. /\ n \in inside /\ status' = status
            /\ history' = history \cup {<<n, k>> : k \in {processed[n]} \cap Suspicious}
        BY <4>1 DEF Detected, vars, engineVars
      <4>3. n <= status.scan /\ n \in Nat /\ n # NoScan
        BY <4>2, EngineAssumption DEF AlertInv, Scans, NoScan
      <4>4. n = status.scan => processed[n] = status.packets
        BY <1>0, <4>3 DEF StatusIsOwn
      <4>5. \A a \in history' \ history :
              a[1] < status.scan \/ (a[1] = status.scan /\ a[2] <= status.packets)
        BY <1>0, <4>2, <4>3, <4>4
      <4> QED
        BY <4>2, <4>5 DEF AlertInv, AllCounted
    <3> QED
      BY <3>1, <3>2
  <2>4. \A p \in Polls :
          /\ polls[p].at = "alerts" => AllCounted(polls[p].alerts, status'.scan, status'.packets)
          /\ polls[p].at = "status" => AllCounted(polls[p].alerts, polls[p].scan, polls[p].packets)
    <3>1. \A p \in Polls : polls[p].alerts \in SUBSET (Scans \X Nat)
      BY <1>0 DEF PollType
    <3> QED
      BY <1>4, <3>1 DEF AlertInv
  <2> QED
    BY <1>2, <2>1, <2>2, <2>3, <2>4 DEF AlertInv
<1>6. ASSUME NEW p \in Polls, ServeState(p) \/ Draw(p) \/ PollFails(p) PROVE AlertInv'
  <2>1. /\ UNCHANGED <<vars, inside, history>> /\ PollStep(p)
        /\ \A q \in Polls \ {p} : polls'[q] = polls[q]
    BY <1>0, <1>6, PollEffect
  <2>2. status' = status
    BY <2>1 DEF vars, engineVars
  <2>3. polls[p] \in PollType
    BY <1>0
  <2>4. polls'[p].at = "alerts" => polls'[p].alerts = history
    BY <2>1, <2>3, PollFields
  <2>5. polls'[p].at = "status" =>
          /\ polls[p].at = "alerts" /\ polls'[p].alerts = polls[p].alerts
          /\ polls'[p].scan = status.scan /\ polls'[p].packets = status.packets
    BY <2>1, <2>3, PollFields
  <2>6. /\ polls'[p].at = "alerts" => AllCounted(polls'[p].alerts, status.scan, status.packets)
        /\ polls'[p].at = "status" => AllCounted(polls'[p].alerts, polls'[p].scan, polls'[p].packets)
    BY <2>4, <2>5 DEF AlertInv
  <2>7. \A q \in Polls :
          /\ polls'[q].at = "alerts" => AllCounted(polls'[q].alerts, status.scan, status.packets)
          /\ polls'[q].at = "status" => AllCounted(polls'[q].alerts, polls'[q].scan, polls'[q].packets)
    BY <2>1, <2>6 DEF AlertInv
  <2> QED
    BY <1>2, <2>1, <2>2, <2>7 DEF AlertInv
<1>7. CASE UNCHANGED webVars
  BY <1>2, <1>7 DEF webVars, serverVars, pageVars, vars, engineVars, AlertInv
<1> QED
  BY <1>5, <1>6, <1>7, SidesOfStep

\* Unless a join times out, an answer never shows an alert of a packet that its
\* counter does not count, in whatever order it was read.
THEOREM AlertsCounted ==
  ASSUME "long_gap" \notin Faults
  PROVE  WebSpec => []AlertsAreCounted
<1>1. WebInit => AlertInv
  BY InitWebTyped, InitOwn DEF WebInit, AlertInv, AllCounted, NoPoll
<1>2. AlertInv /\ [WebNext]_webVars => AlertInv'
  BY StepAlerts
<1>3. AlertInv => AlertsAreCounted
  BY DEF AlertInv, AllCounted, AlertsAreCounted
<1> QED
  BY <1>1, <1>2, <1>3, PTL DEF WebSpec

-----------------------------------------------------------------------------
(* An idle answer and the error                                              *)

\* What a poll has read of a scan that is over stays as it was read.
FinalInv ==
  /\ WebTypes /\ SaidInv
  /\ \A p \in Polls :
       /\ polls[p].scan <= status.scan
       /\ polls[p].at \in {"running", "answered"} /\ ~polls[p].running
            => ~StatusOf(polls[p].scan).running
       /\ polls[p].at = "answered" /\ ~polls[p].running
            => polls[p].error = StatusOf(polls[p].scan).error

\* A status object that is idle, the current one or a replaced one, is written
\* to no more.
LEMMA IdleObjectStays ==
  ASSUME "long_gap" \notin Faults, "slow_sniffer" \notin Faults, WebTypes, SaidInv, EngineSide,
         NEW n \in Nat, n <= status.scan, ~StatusOf(n).running
  PROVE  ~(StatusOf(n)').running /\ (StatusOf(n)').error = StatusOf(n).error
<1>0. /\ TypeInv /\ status.scan \in Nat /\ status.scan \in Scans \cup {NoScan}
      /\ retired \in [Scans \cup {NoScan} -> StatusType] /\ [Next]_vars
  BY EngineAssumption, StepIsEngines DEF WebTypes, TypeInv, TypeOK, Scans, NoScan, WebNext, EngineSide,
     ScanGoesOn, SnifferGoesOn
<1>1. n \in Scans \cup {NoScan}
  BY <1>0, EngineAssumption DEF Scans, NoScan
<1>2. CASE status'.scan = status.scan /\ retired' = retired
  <2>1. CASE n = status.scan
    <3>1. ~status.running
      BY <2>1 DEF StatusOf
    <3>2. status'.running = FALSE /\ status'.error = status.error
      BY <1>0, <1>2, <3>1, IdleStays, OnePage
    <3> QED
      BY <1>2, <2>1, <3>2 DEF StatusOf
  <2>2. CASE n # status.scan
    BY <1>2, <2>2 DEF StatusOf
  <2> QED
    BY <2>1, <2>2
<1>3. CASE status'.scan = status.scan + 1 /\ retired' = [retired EXCEPT ![status.scan] = status]
  <2>1. n # status'.scan
    BY <1>0, <1>3
  <2>2. retired'[n] = StatusOf(n)
    BY <1>0, <1>1, <1>3 DEF StatusOf
  <2> QED
    BY <2>1, <2>2 DEF StatusOf
<1> QED
  BY <1>0, <1>2, <1>3, EngineSideEffect

LEMMA StepFinal ==
  ASSUME "long_gap" \notin Faults, "slow_sniffer" \notin Faults, FinalInv, [WebNext]_webVars
  PROVE  FinalInv'
<1>0. /\ WebTypes /\ TypeInv /\ SaidInv /\ polls \in [Polls -> PollType] /\ status.scan \in Nat
      /\ \A p \in Polls : polls[p].scan \in Nat
  <2>1. WebTypes /\ SaidInv /\ TypeInv /\ polls \in [Polls -> PollType]
    BY DEF FinalInv, WebTypes
  <2>2. \A p \in Polls : polls[p].scan \in Scans \cup {NoScan}
    BY <2>1 DEF PollType
  <2> QED
    BY <2>1, <2>2, EngineAssumption DEF TypeInv, TypeOK, Scans, NoScan
<1>1. [Next]_vars
  BY StepIsEngines
<1>2. WebTypes' /\ SaidInv'
  BY <1>0, <1>1, StepWebTyped, StepSaid, OnePage
<1>3. CASE EngineSide
  <2>1. polls' = polls /\ status.scan <= status'.scan
    BY <1>0, <1>3, EngineSideEffect
  <2>2. ASSUME NEW p \in Polls
        PROVE  /\ polls[p].scan <= status'.scan
               /\ polls[p].at \in {"running", "answered"} /\ ~polls[p].running
                    => ~(StatusOf(polls[p].scan)').running
               /\ polls[p].at = "answered" /\ ~polls[p].running
                    => polls[p].error = (StatusOf(polls[p].scan)').error
    <3>1. PICK n \in Nat : n = polls[p].scan
      BY <1>0
    <3>2. n <= status.scan
      BY <3>1 DEF FinalInv
    <3>3. status'.scan \in Nat
      BY <1>0, <1>3, EngineSideEffect
    <3>4. ~StatusOf(n).running =>
            ~(StatusOf(n)').running /\ (StatusOf(n)').error = StatusOf(n).error
      BY <1>0, <1>3, <3>2, IdleObjectStays
    <3>5. polls'[p].scan = n
      BY <2>1, <3>1
    <3>6. StatusOf(polls[p].scan)' = StatusOf(n)'
      BY <3>5 DEF StatusOf
    <3> QED
      BY <1>0, <2>1, <3>1, <3>2, <3>3, <3>4, <3>6 DEF FinalInv
  <2> QED
    BY <1>2, <2>1, <2>2 DEF FinalInv
<1>4. ASSUME NEW p \in Polls, ServeState(p) \/ Draw(p) \/ PollFails(p) PROVE FinalInv'
  <2>1. /\ UNCHANGED <<vars, inside, history, retired>> /\ PollStep(p)
        /\ \A q \in Polls \ {p} : polls'[q] = polls[q]
    BY <1>0, <1>4, PollEffect
  <2>2. status' = status /\ retired' = retired
    BY <2>1 DEF vars, engineVars
  <2>3. \A n : StatusOf(n)' = StatusOf(n)
    BY <2>2 DEF StatusOf
  <2>4. polls[p] \in PollType
    BY <1>0
  <2>5. /\ polls'[p].scan <= status.scan
        /\ polls'[p].at \in {"running", "answered"} /\ ~polls'[p].running
             => ~StatusOf(polls'[p].scan).running
        /\ polls'[p].at = "answered" /\ ~polls'[p].running
             => polls'[p].error = StatusOf(polls'[p].scan).error
    <3>1. polls[p].scan <= status.scan /\ NoScan <= status.scan /\ status.scan <= status.scan
      BY <1>0 DEF FinalInv, NoScan
    <3>2. polls[p].at = "running" /\ ~polls[p].running => ~StatusOf(polls[p].scan).running
      BY DEF FinalInv
    <3> QED
      BY <2>1, <2>4, <3>1, <3>2, PollFields
  <2>6. ASSUME NEW q \in Polls
        PROVE  /\ polls'[q].scan <= status.scan
               /\ polls'[q].at \in {"running", "answered"} /\ ~polls'[q].running
                    => ~StatusOf(polls'[q].scan).running
               /\ polls'[q].at = "answered" /\ ~polls'[q].running
                    => polls'[q].error = StatusOf(polls'[q].scan).error
    BY <2>1, <2>5 DEF FinalInv
  <2> QED
    BY <1>2, <2>2, <2>6 DEF FinalInv, StatusOf
<1>5. CASE UNCHANGED webVars
  BY <1>2, <1>5 DEF webVars, serverVars, pageVars, vars, engineVars, FinalInv, StatusOf
<1> QED
  BY <1>3, <1>4, <1>5, SidesOfStep

\* Unless a join times out or a sniffer comes up late, an answer that calls a
\* scan idle has the last word on how it ended, whatever began since.
THEOREM IdleAnswers ==
  ASSUME "long_gap" \notin Faults, "slow_sniffer" \notin Faults
  PROVE  WebSpec => []IdleAnswerIsFinal
<1>1. WebInit => FinalInv
  <2> SUFFICES ASSUME WebInit PROVE FinalInv
    OBVIOUS
  <2>1. WebTypes /\ SaidInv
    BY InitWebTyped, InitSaid DEF WebInit
  <2>2. status.scan = 0 /\ \A p \in Polls : polls[p] = NoPoll
    BY DEF WebInit, Init, NoScan
  <2> QED
    BY <2>1, <2>2 DEF FinalInv, NoPoll, NoScan
<1>2. FinalInv /\ [WebNext]_webVars => FinalInv'
  BY StepFinal
<1>3. FinalInv => IdleAnswerIsFinal
  BY DEF FinalInv, IdleAnswerIsFinal
<1> QED
  BY <1>1, <1>2, <1>3, PTL DEF WebSpec
=============================================================================
