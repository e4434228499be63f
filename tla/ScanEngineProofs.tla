--------------------------- MODULE ScanEngineProofs ---------------------------
(***************************************************************************)
(* Proofs about ScanEngine for any number of callers, scans and packets.    *)
(***************************************************************************)
EXTENDS ScanEngine, FiniteSetTheorems, TLAPS

-----------------------------------------------------------------------------
(* Type correctness *)

\* The starts under way fit within the bound: what makes status.scan + 1 a scan.
Bounded == status.scan + Cardinality(Starting) <= MaxScans

\* A start() has a mode, and one that got as far as the factory a valid one.
ModeChecked == \A c \in Callers :
  /\ At(c, "start") => call[c].mode \in {"live", "pcap", "bad"}
  /\ At(c, "launch") => call[c].mode \in {"live", "pcap"}

TypeInv == TypeOK /\ Bounded /\ ModeChecked

LEMMA StartingIsFinite ==
  /\ IsFiniteSet(Starting)
  /\ Cardinality(Starting) \in Nat
  /\ \A c \in Starting : Cardinality(Starting) >= 1
<1>1. IsFiniteSet(Starting)
  BY EngineAssumption, FS_Subset DEF Starting
<1>2. Cardinality(Starting) \in Nat
  BY <1>1, FS_CardinalityType
<1>3. ASSUME NEW c \in Starting PROVE Cardinality(Starting) >= 1
  BY <1>1, <1>2, FS_EmptySet
<1> QED BY <1>1, <1>2, <1>3

\* A step that moves no caller in or out of a start() keeps the count.
LEMMA SameStarting ==
  ASSUME TypeOK, TypeOK', Bounded, Starting' = Starting, status'.scan = status.scan
  PROVE  Bounded'
BY DEF Bounded

\* A caller that leaves start() makes room for one scan.
LEMMA LeaveStarting ==
  ASSUME TypeOK, Bounded, NEW c \in Callers, c \in Starting, Starting' = Starting \ {c},
         status'.scan \in {status.scan, status.scan + 1}
  PROVE  Bounded'
<1>1. Cardinality(Starting') = Cardinality(Starting) - 1
  BY StartingIsFinite, FS_RemoveElement
<1>2. status.scan \in Nat /\ MaxScans \in Nat
  BY EngineAssumption DEF TypeOK, Scans, NoScan
<1> QED BY <1>1, <1>2, StartingIsFinite DEF Bounded

LEMMA InitTyped == Init => TypeInv
<1> SUFFICES ASSUME Init PROVE TypeInv
  OBVIOUS
<1>1. TypeOK
  BY EngineAssumption DEF Init, TypeOK, Scans, NoScan, Free, Idle
<1>2. Starting = {}
  BY DEF Init, Starting, Idle
<1>3. Bounded
  BY <1>2, EngineAssumption, FS_EmptySet DEF Bounded, Init, NoScan
<1>4. ModeChecked
  BY DEF Init, ModeChecked, At, Idle
<1> QED BY <1>1, <1>3, <1>4 DEF TypeInv

\* start() publishes its scan with a thread at its first step, or with none.
LEMMA LaunchPublishes ==
  ASSUME NEW c \in Callers, StartLaunch(c)
  PROVE  \E where \in {"next", "register", "stillborn"} :
           Publish(c, where) /\ ("spawn" \notin Faults => where # "stillborn")
BY DEF StartLaunch, Spawned, FirstStep, MayFail

\* The lemmas for a caller's step and for a scan's step have the same shape:
\* the types, then the callers inside start(), then the mode of a launch.
LEMMA CallersStepTyped ==
  ASSUME TypeInv, NEW c \in Callers,
         \/ \E mode \in {"live", "pcap", "bad"} : Start(c, mode)
         \/ StopBegin(c) \/ StartBody(c) \/ StopBody(c)
  PROVE  TypeInv'
<1> USE DEF TypeInv
<1>0. /\ status.scan \in Nat /\ MaxScans \in Nat
      /\ c \in Starting <=> call[c].at \in {"start", "launch"}
  BY EngineAssumption DEF TypeOK, Scans, NoScan, Starting
<1>1. ASSUME NEW mode \in {"live", "pcap", "bad"}, Start(c, mode) PROVE TypeInv'
  <2>1. TypeOK'
    BY <1>1 DEF Start, TypeOK, At, Idle, NoScan, engineVars, scanVars
  <2>2. Starting' = Starting \cup {c} /\ c \notin Starting
    BY <1>0, <1>1 DEF Start, At, Idle, Starting, TypeOK
  <2>3. Cardinality(Starting') = Cardinality(Starting) + 1
    BY <2>2, StartingIsFinite, FS_AddElement
  <2>4. Bounded'
    BY <1>0, <1>1, <2>3, StartingIsFinite DEF Start, Bounded, engineVars
  <2>5. ModeChecked'
    BY <1>1 DEF Start, At, Idle, ModeChecked, TypeOK
  <2> QED BY <2>1, <2>4, <2>5
<1>2. CASE StartRefused(c)
  <2>1. TypeOK'
    BY <1>2 DEF StartRefused, TypeOK, At, Return, Idle, engineVars, scanVars, NoScan
  <2>2. Starting' = Starting \ {c}
    BY <1>2 DEF StartRefused, At, Return, Idle, Starting, TypeOK
  <2>3. Bounded'
    BY <1>0, <1>2, <2>2, LeaveStarting DEF StartRefused, At, engineVars
  <2>4. ModeChecked'
    BY <1>2 DEF StartRefused, At, Return, Idle, ModeChecked, TypeOK
  <2> QED BY <2>1, <2>3, <2>4
<1>3. CASE StartClear(c)
  <2>1. TypeOK'
    BY <1>3 DEF StartClear, TypeOK, At, GoTo, scanVars
  <2>2. Starting' = Starting
    BY <1>3 DEF StartClear, At, GoTo, Starting, TypeOK
  <2>3. Bounded'
    BY <1>3, <2>1, <2>2, SameStarting DEF StartClear
  <2>4. ModeChecked'
    BY <1>3 DEF StartClear, At, GoTo, ModeChecked, TypeOK
  <2> QED BY <2>1, <2>3, <2>4
<1>4. ASSUME NEW where \in {"next", "register", "stillborn"}, Publish(c, where) PROVE TypeInv'
  <2>1. Starting' = Starting \ {c} /\ c \in Starting
    BY <1>0, <1>4 DEF Publish, At, Return, Idle, Starting, TypeOK
  <2>2. status.scan + 1 \in Scans
    BY <1>0, <2>1, StartingIsFinite DEF Bounded, Scans
  <2>3. call[c].mode \in {"live", "pcap"}
    BY <1>4 DEF ModeChecked, Publish
  <2>4. TypeOK'
    BY <1>4, <2>2, <2>3
    DEF Publish, TypeOK, At, Return, Idle, NewStatus, NoScan
  <2>5. status'.scan = status.scan + 1
    BY <1>4 DEF Publish, NewStatus
  <2>6. Bounded'
    BY <2>1, <2>5, LeaveStarting
  <2>7. ModeChecked'
    BY <1>4 DEF Publish, At, Return, Idle, ModeChecked, TypeOK
  <2> QED BY <2>4, <2>6, <2>7
<1>5. CASE StartLaunch(c)
  BY <1>4, <1>5, LaunchPublishes
<1>7. CASE StartFactoryFails(c)
  <2>1. TypeOK'
    BY <1>7 DEF StartFactoryFails, TypeOK, At, Return, Idle, scanVars, NoScan
  <2>2. Starting' = Starting \ {c}
    BY <1>7 DEF StartFactoryFails, At, Return, Idle, Starting, TypeOK
  <2>3. Bounded'
    BY <1>0, <1>7, <2>2, LeaveStarting DEF StartFactoryFails, At
  <2>4. ModeChecked'
    BY <1>7 DEF StartFactoryFails, At, Return, Idle, ModeChecked, TypeOK
  <2> QED BY <2>1, <2>3, <2>4
<1>8. ASSUME StopBegin(c) \/ StopBody(c) PROVE TypeInv'
  <2>1. TypeOK'
    <3>1. CASE StopBegin(c)
      BY <3>1 DEF StopBegin, TypeOK, At, Idle, scanVars, NoScan
    <3>2. CASE StopCapture(c)
      BY <3>2 DEF StopCapture, TypeOK, At, GoTo, SnifferAfterStop
    <3>3. CASE StopThread(c)
      BY <3>3 DEF StopThread, TypeOK, At, Idle, engineVars, scanVars, NoScan
    <3>4. CASE StopJoined(c)
      BY <3>4 DEF StopJoined, TypeOK, Idle, engineVars, scanVars, NoScan
    <3>5. CASE StopFinish(c)
      BY <3>5 DEF StopFinish, TypeOK, At, Return, Idle, scanVars, NoScan
    <3> QED BY <1>8, <3>1, <3>2, <3>3, <3>4, <3>5 DEF StopBody
  <2>2. /\ \A d \in Callers \ {c} : call'[d] = call[d]
        /\ call[c].at \notin {"start", "launch"}
        /\ call'[c].at \notin {"start", "launch"}
        /\ status'.scan = status.scan
    <3>1. CASE StopBegin(c)
      BY <3>1 DEF StopBegin, TypeOK, At, Idle
    <3>2. CASE StopCapture(c)
      BY <3>2 DEF StopCapture, TypeOK, At, GoTo
    <3>3. CASE StopThread(c)
      BY <3>3 DEF StopThread, TypeOK, At, Idle, engineVars
    <3>4. CASE StopJoined(c)
      BY <3>4 DEF StopJoined, engineVars, TypeOK, At, Idle
    <3>5. CASE StopFinish(c)
      BY <3>5 DEF StopFinish, TypeOK, At, Return, Idle
    <3> QED BY <1>8, <3>1, <3>2, <3>3, <3>4, <3>5 DEF StopBody
  <2>3. Starting' = Starting
    BY <2>2 DEF Starting
  <2>4. Bounded'
    BY <2>1, <2>2, <2>3, SameStarting
  <2>5. ModeChecked'
    BY <2>2 DEF ModeChecked, At
  <2> QED BY <2>1, <2>4, <2>5
<1> QED BY <1>1, <1>2, <1>3, <1>5, <1>7, <1>8 DEF StartBody

LEMMA ScanStepTyped ==
  ASSUME TypeInv, NEW n \in Scans, ScanStep(n) \/ SnifferSettles(n) \/ SnifferExits(n)
  PROVE  TypeInv'
<1> USE DEF TypeInv
<1>1. TypeOK'
  <2>1. CASE ReplayStep(n)
    BY <2>1 DEF ReplayStep, ReplayRead, ReplayEnd, ReplayFails, ReplayCheck, ScanAt, Fail,
                TypeOK, engineVars
  <2>2. CASE LiveStep(n)
    BY <2>2 DEF LiveStep, RegisterCapture, OpenCapture, SettleAlive, SettleDead, Poll,
                GetPacket, GetTimesOut, Halt, SnifferAfterStop, ScanAt, Fail, TypeOK, engineVars
  <2>3. CASE ProcessPacket(n)
    <3> DEFINE Statuses == [scan : Scans \cup {NoScan}, running : BOOLEAN,
                            mode : {"none", "live", "pcap"},
                            error : Scans \cup {NoScan}, packets : Nat]
    <3>1. Counted \in Statuses
      BY DEF Counted, TypeOK
    <3> HIDE DEF Counted
    <3>2. status' \in Statuses
      BY <2>3, <3>1 DEF ProcessPacket
    <3> QED BY <2>3, <3>2 DEF ProcessPacket, AfterPacket, ScanAt, TypeOK
  <2>5. CASE Finish(n)
    BY <2>5 DEF Finish, ScanAt, TypeOK, NoScan
  <2>6. CASE SnifferSettles(n) \/ SnifferExits(n)
    BY <2>6 DEF SnifferSettles, SnifferUp, SnifferFails, SnifferExits, SnifferStep, TypeOK,
                engineVars
  <2> QED BY <2>1, <2>2, <2>3, <2>5, <2>6 DEF ScanStep
<1>2. call' = call /\ status'.scan = status.scan
  BY DEF ScanStep, ReplayStep, ReplayRead, ReplayEnd, ReplayFails, ReplayCheck, LiveStep,
     RegisterCapture, OpenCapture, SettleAlive, SettleDead, Poll, GetPacket, GetTimesOut,
     Halt, ProcessPacket, Counted, Finish, SnifferSettles, SnifferUp, SnifferFails,
     SnifferExits, Fail, engineVars, TypeOK
<1>3. Starting' = Starting /\ ModeChecked'
  BY <1>2 DEF Starting, ModeChecked, At
<1> QED BY <1>1, <1>2, <1>3, SameStarting

LEMMA StepTyped == TypeInv /\ [Next]_vars => TypeInv'
<1> SUFFICES ASSUME TypeInv, [Next]_vars PROVE TypeInv'
  OBVIOUS
<1>1. CASE Next
  BY <1>1, CallersStepTyped, ScanStepTyped DEF Next
<1>2. CASE UNCHANGED vars
  BY <1>2 DEF vars, engineVars, scanVars, TypeInv, TypeOK, Bounded, Starting, ModeChecked, At
<1> QED BY <1>1, <1>2

\* Every variable keeps to its values; in particular no status names a scan
\* beyond the bound.
THEOREM TypeCorrect == Spec => []TypeOK
<1>1. Spec => []TypeInv
  BY InitTyped, StepTyped, PTL DEF Spec
<1> QED BY <1>1, PTL DEF TypeInv

-----------------------------------------------------------------------------
(* What a step does to the scan threads, as the invariants below need it     *)

\* A step of a scan keeps every thread's life and the running status, unless it
\* is the thread's last step.
LEMMA ScanEffect ==
  ASSUME TypeInv, NEW n \in Scans, ScanStep(n) \/ SnifferSettles(n) \/ SnifferExits(n)
  PROVE  /\ UNCHANGED <<lock, stop_flag, thread, call>> /\ status'.scan = status.scan
         /\ \/ /\ \A m \in Scans : Alive(m)' <=> Alive(m)
               /\ status'.running = status.running
               /\ capture' = capture \/ (capture' = n /\ Alive(n))
            \/ /\ Alive(n)
               /\ \A m \in Scans : Alive(m)' <=> Alive(m) /\ m # n
               /\ status'.running = FALSE
               /\ capture' = NoScan
<1> USE DEF TypeInv
<1>1. CASE ReplayStep(n)
  BY <1>1 DEF ReplayStep, ReplayRead, ReplayEnd, ReplayFails, ReplayCheck, ScanAt, Fail,
              Alive, TypeOK, engineVars
<1>2. CASE LiveStep(n)
  BY <1>2 DEF LiveStep, RegisterCapture, OpenCapture, SettleAlive, SettleDead, Poll,
              GetPacket, GetTimesOut, Halt, ScanAt, Fail, Alive, TypeOK, engineVars
<1>3. CASE ProcessPacket(n)
  BY <1>3 DEF ProcessPacket, AfterPacket, Counted, ScanAt, Alive, TypeOK
<1>5. CASE Finish(n)
  BY <1>5 DEF Finish, ScanAt, Alive, TypeOK
<1>6. CASE SnifferSettles(n) \/ SnifferExits(n)
  BY <1>6 DEF SnifferSettles, SnifferUp, SnifferFails, SnifferExits, SnifferStep, Alive,
              engineVars
<1> QED BY <1>1, <1>2, <1>3, <1>5, <1>6 DEF ScanStep

\* A thread that is not alive stays what it is, whatever the scans do.
LEMMA NeverRevived ==
  ASSUME TypeInv, NEW n \in Scans, ScanStep(n) \/ SnifferSettles(n) \/ SnifferExits(n)
  PROVE  \A m \in Scans : ~Alive(m) => pc'[m] = pc[m]
BY DEF ScanStep, ReplayStep, ReplayRead, ReplayEnd, ReplayFails, ReplayCheck,
   LiveStep, RegisterCapture, OpenCapture, SettleAlive, SettleDead, Poll, GetPacket,
   GetTimesOut, Halt, ProcessPacket, AfterPacket, Finish, SnifferSettles, SnifferUp,
   SnifferFails, SnifferExits, ScanAt, Alive, TypeInv, TypeOK

\* A caller that neither publishes a scan nor returns from stop() leaves the
\* threads, the running status and the registered capture alone.
LEMMA CallEffect ==
  ASSUME TypeInv, NEW c \in Callers,
         \/ \E mode \in {"live", "pcap", "bad"} : Start(c, mode)
         \/ StartRefused(c) \/ StartClear(c) \/ StartFactoryFails(c)
         \/ StopBegin(c) \/ StopCapture(c) \/ StopThread(c)
         \/ StopJoined(c)
  PROVE  /\ pc' = pc /\ thread' = thread /\ capture' = capture
         /\ status'.scan = status.scan /\ status'.running = status.running
BY DEF Start, StartRefused, StartClear, StartFactoryFails, StopBegin, StopCapture,
   StopThread, StopJoined, engineVars, scanVars, TypeInv, TypeOK

\* No scan beyond the one the status names was ever spawned.
Unborn == \A n \in Scans : n > status.scan => pc[n] = "unborn"

LEMMA PublishEffect ==
  ASSUME TypeInv, Unborn, NEW c \in Callers, NEW where \in {"next", "register", "stillborn"},
         Publish(c, where)
  PROVE  /\ status.scan + 1 \in Scans /\ ~Alive(status.scan + 1)
         /\ status'.scan = status.scan + 1 /\ status'.running = TRUE
         /\ thread' = status.scan + 1 /\ capture' = capture /\ Unborn'
         /\ \A m \in Scans :
              Alive(m)' <=> Alive(m) \/ (m = status.scan + 1 /\ where # "stillborn")
<1>1. status.scan \in Nat /\ MaxScans \in Nat
  BY EngineAssumption DEF TypeInv, TypeOK, Scans, NoScan
<1>2. c \in Starting
  BY DEF Publish, At, Starting
<1>3. status.scan + 1 \in Scans
  BY <1>1, <1>2, StartingIsFinite DEF TypeInv, Bounded, Scans
<1>4. pc[status.scan + 1] = "unborn"
  BY <1>1, <1>3 DEF Unborn
<1>5. /\ status' = NewStatus(status.scan + 1, call[c].mode)
      /\ thread' = status.scan + 1 /\ capture' = capture
      /\ pc' = [pc EXCEPT ![status.scan + 1] = where]
  BY DEF Publish
<1>6. Unborn'
  BY <1>1, <1>3, <1>5 DEF Unborn, NewStatus, TypeInv, TypeOK, Scans
<1> QED BY <1>3, <1>4, <1>5, <1>6 DEF Alive, NewStatus, TypeInv, TypeOK

-----------------------------------------------------------------------------
(* What holds however many callers there are and whatever fails              *)

StaleInv == TypeInv /\ Unborn /\ NoStaleCapture

LEMMA StepNotStale == StaleInv /\ [Next]_vars => StaleInv'
<1> SUFFICES ASSUME StaleInv, [Next]_vars PROVE Unborn' /\ NoStaleCapture'
  BY StepTyped DEF StaleInv
<1> USE DEF StaleInv
<1>1. capture \in Scans \cup {NoScan} /\ status.scan \in Nat
  BY EngineAssumption DEF TypeInv, TypeOK, Scans, NoScan
<1>2. ASSUME NEW n \in Scans, ScanStep(n) \/ SnifferSettles(n) \/ SnifferExits(n)
      PROVE  Unborn' /\ NoStaleCapture'
  <2>1. NoStaleCapture'
    BY <1>1, <1>2, ScanEffect DEF NoStaleCapture
  <2>2. \A m \in Scans : pc[m] = "unborn" => pc'[m] = "unborn"
    BY <1>2, NeverRevived DEF Alive
  <2>3. status'.scan = status.scan
    BY <1>2, ScanEffect
  <2> QED BY <2>1, <2>2, <2>3 DEF Unborn
<1>3. ASSUME NEW c \in Callers, NEW where \in {"next", "register", "stillborn"},
             Publish(c, where)
      PROVE  Unborn' /\ NoStaleCapture'
  BY <1>1, <1>3, PublishEffect DEF NoStaleCapture
<1>4. ASSUME NEW c \in Callers, StopFinish(c) PROVE Unborn' /\ NoStaleCapture'
  <2>1. pc' = pc /\ capture' = NoScan /\ status'.scan = status.scan
    BY <1>4 DEF StopFinish, scanVars, TypeInv, TypeOK
  <2> QED BY <2>1 DEF Unborn, NoStaleCapture
<1>5. ASSUME NEW c \in Callers,
             \/ \E mode \in {"live", "pcap", "bad"} : Start(c, mode)
             \/ StopBegin(c) \/ StartBody(c) \/ StopBody(c)
      PROVE  Unborn' /\ NoStaleCapture'
  <2>1. ASSUME pc' = pc, capture' = capture, status'.scan = status.scan
        PROVE  Unborn' /\ NoStaleCapture'
    BY <2>1 DEF Unborn, NoStaleCapture, Alive
  <2> QED BY <1>3, <1>4, <1>5, <2>1, CallEffect, LaunchPublishes DEF StartBody, StopBody
<1>6. CASE UNCHANGED vars
  BY <1>6 DEF vars, engineVars, scanVars, Unborn, NoStaleCapture, Alive
<1> QED BY <1>2, <1>5, <1>6 DEF Next

\* Whatever fails and however many callers there are, a registered capture
\* belongs to a live scan thread.
THEOREM CaptureNeverStale == Spec => []NoStaleCapture
<1>1. Init => StaleInv
  BY InitTyped DEF StaleInv, Init, Unborn, NoStaleCapture
<1>2. Spec => []StaleInv
  BY <1>1, StepNotStale, PTL DEF Spec
<1> QED BY <1>2, PTL DEF StaleInv

RunInv == StaleInv /\ RunningScanIsAlive

LEMMA StepRunInv == RunInv /\ [Next]_vars => RunInv'
<1> SUFFICES ASSUME RunInv, [Next]_vars PROVE RunningScanIsAlive'
  BY StepNotStale DEF RunInv
<1> USE DEF RunInv, StaleInv
<1>1. ASSUME NEW n \in Scans, ScanStep(n) \/ SnifferSettles(n) \/ SnifferExits(n)
      PROVE  RunningScanIsAlive'
  BY <1>1, ScanEffect, NeverRevived DEF RunningScanIsAlive
<1>2. ASSUME NEW c \in Callers, StartLaunch(c)
      PROVE  RunningScanIsAlive'
  <2>1. PICK where \in {"next", "register", "stillborn"} : Publish(c, where)
    BY <1>2, LaunchPublishes
  <2>2. status'.scan = status.scan + 1 /\ status.scan + 1 \in Scans
    BY <2>1, PublishEffect
  <2>3. CASE where # "stillborn"
    BY <2>1, <2>2, <2>3, PublishEffect DEF RunningScanIsAlive
  <2>4. CASE where = "stillborn"
    <3>1. pc'[status.scan + 1] = "stillborn"
      BY <2>1, <2>2, <2>4 DEF Publish, TypeInv, TypeOK
    <3> QED BY <2>2, <3>1 DEF RunningScanIsAlive
  <2> QED BY <2>3, <2>4
<1>3. ASSUME NEW c \in Callers, StopFinish(c) PROVE RunningScanIsAlive'
  <2>1. pc' = pc /\ (status' = status \/ status'.running = FALSE)
    BY <1>3 DEF StopFinish, scanVars, TypeInv, TypeOK
  <2> QED BY <2>1 DEF RunningScanIsAlive, Alive
<1>4. ASSUME NEW c \in Callers,
             \/ \E mode \in {"live", "pcap", "bad"} : Start(c, mode)
             \/ StopBegin(c) \/ StartBody(c) \/ StopBody(c)
      PROVE  RunningScanIsAlive'
  <2>1. ASSUME pc' = pc, status'.scan = status.scan, status'.running = status.running
        PROVE  RunningScanIsAlive'
    BY <2>1 DEF RunningScanIsAlive, Alive
  <2> QED BY <1>2, <1>3, <1>4, <2>1, CallEffect DEF StartBody, StopBody
<1>5. CASE UNCHANGED vars
  BY <1>5 DEF vars, engineVars, scanVars, RunningScanIsAlive, Alive
<1> QED BY <1>1, <1>4, <1>5 DEF Next

\* However many callers there are and whatever fails, a status that says
\* "running" has a live scan thread behind it, or one that was never created.
THEOREM RunningIsAlive == Spec => []RunningScanIsAlive
<1>1. Init => RunInv
  BY InitTyped DEF RunInv, StaleInv, Init, Unborn, NoStaleCapture, RunningScanIsAlive
<1>2. Spec => []RunInv
  BY <1>1, StepRunInv, PTL DEF Spec
<1> QED BY <1>2, PTL DEF RunInv

-----------------------------------------------------------------------------
(* One caller, and no gap of a replay longer than stop() waits: then the      *)
(* engine runs one scan at a time.                                            *)

\* As long as threads can be spawned, status.running means a live thread.
TrulyRunning == status.running => \E n \in Scans : n = status.scan /\ Alive(n)

AliveInv == StaleInv /\ TrulyRunning

LEMMA StepRunning == "spawn" \notin Faults /\ AliveInv /\ [Next]_vars => AliveInv'
<1> SUFFICES ASSUME "spawn" \notin Faults, AliveInv, [Next]_vars PROVE TrulyRunning'
  BY StepNotStale DEF AliveInv
<1> USE DEF AliveInv, StaleInv
<1>1. ASSUME NEW n \in Scans, ScanStep(n) \/ SnifferSettles(n) \/ SnifferExits(n)
      PROVE  TrulyRunning'
  BY <1>1, ScanEffect DEF TrulyRunning
<1>2. ASSUME NEW c \in Callers, StartLaunch(c) PROVE TrulyRunning'
  <2>1. PICK where \in {"next", "register"} : Publish(c, where)
    BY <1>2, LaunchPublishes
  <2> QED BY <2>1, PublishEffect DEF TrulyRunning
<1>4. ASSUME NEW c \in Callers, StopFinish(c) PROVE TrulyRunning'
  <2>1. pc' = pc /\ (status' = status \/ status'.running = FALSE)
    BY <1>4 DEF StopFinish, scanVars, TypeInv, TypeOK
  <2> QED BY <2>1 DEF TrulyRunning, Alive
<1>5. ASSUME NEW c \in Callers,
             \/ \E mode \in {"live", "pcap", "bad"} : Start(c, mode)
             \/ StopBegin(c) \/ StartBody(c) \/ StopBody(c)
      PROVE  TrulyRunning'
  <2>1. ASSUME pc' = pc, status'.scan = status.scan, status'.running = status.running
        PROVE  TrulyRunning'
    BY <2>1 DEF TrulyRunning, Alive
  <2> QED BY <1>2, <1>4, <1>5, <2>1, CallEffect DEF StartBody, StopBody
<1>6. CASE UNCHANGED vars
  BY <1>6 DEF vars, engineVars, scanVars, TrulyRunning, Alive
<1> QED BY <1>1, <1>5, <1>6 DEF Next

OneCallerOnly == \A c, d \in Callers : c = d
StopPlaces == {"stop_capture", "stop_thread", "stop_join", "stop_finish"}

\* The thread that is alive is the one the status and self._thread name.
SoleThread == \A n \in Scans : Alive(n) => n = status.scan /\ status.running /\ thread = n

\* A caller inside start() found no scan; one inside stop() keeps the flag set
\* and waits for the thread there is.
CallerSound(c) ==
  /\ At(c, "launch") => ~status.running /\ ~stop_flag
  /\ call[c].at \in StopPlaces => stop_flag
  /\ At(c, "stop_join") => call[c].thr = thread
  /\ At(c, "stop_finish") => \A n \in Scans : ~Alive(n)

SoleScan == SoleThread /\ \A c \in Callers : CallerSound(c)

SoleInv == AliveInv /\ SoleScan

LEMMA StepSole ==
  "spawn" \notin Faults /\ "long_gap" \notin Faults /\ OneCallerOnly /\ SoleInv /\ [Next]_vars
    => SoleInv'
<1> SUFFICES ASSUME "spawn" \notin Faults, "long_gap" \notin Faults, OneCallerOnly, SoleInv,
                    [Next]_vars
             PROVE  SoleScan'
  BY StepRunning DEF SoleInv
<1>0. TypeInv /\ Unborn /\ SoleScan /\ \A c, d \in Callers : c = d
  BY DEF SoleInv, AliveInv, StaleInv, OneCallerOnly
<1>1. ASSUME NEW n \in Scans, ScanStep(n) \/ SnifferSettles(n) \/ SnifferExits(n)
      PROVE  SoleScan'
  <2>1. SoleThread'
    BY <1>0, <1>1, ScanEffect DEF SoleScan, SoleThread
  <2>2. \A m \in Scans : Alive(m)' => Alive(m)
    BY <1>0, <1>1, ScanEffect
  <2>3. call' = call /\ stop_flag' = stop_flag /\ thread' = thread
        /\ (status.running = status'.running \/ status'.running = FALSE)
    BY <1>0, <1>1, ScanEffect
  <2>4. \A c \in Callers : CallerSound(c)'
    BY <1>0, <2>2, <2>3 DEF SoleScan, CallerSound, At
  <2> QED BY <2>1, <2>4 DEF SoleScan
<1>2. ASSUME NEW c \in Callers, StartLaunch(c) PROVE SoleScan'
  <2>1. PICK where \in {"next", "register"} : Publish(c, where)
    BY <1>2, LaunchPublishes
  <2>2. \A m \in Scans : ~Alive(m)
    BY <1>0, <2>1 DEF Publish, SoleScan, SoleThread, CallerSound
  <2>3. SoleThread'
    BY <1>0, <2>1, <2>2, PublishEffect DEF SoleThread
  <2>4. call'[c] = Idle
    BY <1>0, <2>1 DEF Publish, Return, TypeInv, TypeOK
  <2>5. CallerSound(c)'
    BY <2>4 DEF CallerSound, At, Idle, StopPlaces
  <2> QED BY <1>0, <2>3, <2>5 DEF SoleScan
<1>3. ASSUME NEW c \in Callers, pc' = pc, thread' = thread,
             status'.scan = status.scan, status'.running = status.running, CallerSound(c)'
      PROVE  SoleScan'
  BY <1>0, <1>3 DEF SoleScan, SoleThread, Alive
<1>4. ASSUME NEW c \in Callers, NEW mode \in {"live", "pcap", "bad"}, Start(c, mode)
      PROVE  SoleScan'
  <2>1. call'[c].at = "start"
    BY <1>0, <1>4 DEF Start, Idle, TypeInv, TypeOK
  <2> QED BY <1>0, <1>3, <1>4, <2>1, CallEffect DEF CallerSound, At, StopPlaces
<1>5. ASSUME NEW c \in Callers, StartRefused(c) \/ StartFactoryFails(c) PROVE SoleScan'
  <2>1. call'[c].at = "idle"
    BY <1>0, <1>5 DEF StartRefused, StartFactoryFails, Return, Idle, TypeInv, TypeOK
  <2> QED BY <1>0, <1>3, <1>5, <2>1, CallEffect DEF CallerSound, At, StopPlaces
<1>6. ASSUME NEW c \in Callers, StartClear(c) PROVE SoleScan'
  <2>1. call'[c].at = "launch" /\ ~stop_flag' /\ ~status.running
    BY <1>0, <1>6 DEF StartClear, GoTo, TypeInv, TypeOK
  <2> QED BY <1>0, <1>3, <1>6, <2>1, CallEffect DEF CallerSound, At, StopPlaces
<1>7. ASSUME NEW c \in Callers, StopBegin(c) PROVE SoleScan'
  <2>1. call'[c].at \in {"stop_capture", "stop_thread"} /\ stop_flag'
    BY <1>0, <1>7 DEF StopBegin, Idle, TypeInv, TypeOK
  <2> QED BY <1>0, <1>3, <1>7, <2>1, CallEffect DEF CallerSound, At, StopPlaces
<1>8. ASSUME NEW c \in Callers, StopCapture(c) PROVE SoleScan'
  <2>1. call'[c].at = "stop_thread" /\ stop_flag'
    BY <1>0, <1>8 DEF StopCapture, GoTo, At, SoleScan, CallerSound, StopPlaces, TypeInv, TypeOK
  <2> QED BY <1>0, <1>3, <1>8, <2>1, CallEffect DEF CallerSound, At, StopPlaces
<1>9. ASSUME NEW c \in Callers, StopThread(c) PROVE SoleScan'
  <2>1. stop_flag' /\ call'[c].thr = thread'
    BY <1>0, <1>9 DEF StopThread, At, SoleScan, CallerSound, StopPlaces, Idle, engineVars,
       TypeInv, TypeOK
  <2>2. call'[c].at = "stop_join"
        \/ (call'[c].at = "stop_finish" /\ \A n \in Scans : ~Alive(n))
    <3>1. thread = NoScan \/ ~Alive(thread) => \A n \in Scans : ~Alive(n)
      BY <1>0, EngineAssumption DEF SoleScan, SoleThread, Scans, NoScan
    <3> QED BY <1>0, <1>9, <3>1 DEF StopThread, Idle, TypeInv, TypeOK
  <2>3. pc' = pc
    BY <1>0, <1>9, CallEffect
  <2>4. CallerSound(c)'
    BY <2>1, <2>2, <2>3 DEF CallerSound, At, StopPlaces, Alive
  <2> QED BY <1>0, <1>3, <1>9, <2>4, CallEffect
<1>10. ASSUME NEW c \in Callers, StopJoined(c) PROVE SoleScan'
  <2>1. At(c, "stop_join") /\ stop_flag' = stop_flag /\ stop_flag
    BY <1>0, <1>10 DEF StopJoined, engineVars, At, SoleScan, CallerSound, StopPlaces
  <2>2. ~Alive(call[c].thr)
    BY <1>10, <2>1 DEF StopJoined, MayOutlastJoin, MayFail
  <2>3. call'[c].at = "stop_finish" /\ stop_flag'
    BY <1>10, <2>1, <1>0 DEF StopJoined, Idle, TypeInv, TypeOK
  <2>4. pc' = pc /\ \A n \in Scans : ~Alive(n)
    BY <1>0, <1>10, <2>1, <2>2, CallEffect DEF SoleScan, SoleThread, CallerSound
  <2>5. CallerSound(c)'
    BY <2>3, <2>4 DEF CallerSound, At, Alive
  <2> QED BY <1>0, <1>3, <1>10, <2>5, CallEffect
<1>12. ASSUME NEW c \in Callers, StopFinish(c) PROVE SoleScan'
  <2>1. \A n \in Scans : ~Alive(n)
    BY <1>0, <1>12 DEF StopFinish, SoleScan, CallerSound
  <2>2. pc' = pc /\ call'[c] = Idle
    BY <1>0, <1>12 DEF StopFinish, Return, scanVars, TypeInv, TypeOK
  <2>3. CallerSound(c)'
    BY <2>2 DEF CallerSound, At, Idle, StopPlaces
  <2> QED BY <1>0, <2>1, <2>2, <2>3 DEF SoleScan, SoleThread, Alive
<1>13. CASE UNCHANGED vars
  BY <1>0, <1>13 DEF vars, engineVars, scanVars, SoleScan, SoleThread, CallerSound, At, Alive
<1> QED BY <1>1, <1>2, <1>3, <1>4, <1>5, <1>6, <1>7, <1>8, <1>9, <1>10, <1>12, <1>13
        DEF Next, StartBody, StopBody

LEMMA InitSole == Init => SoleInv
BY InitTyped DEF SoleInv, AliveInv, StaleInv, Init, Unborn, NoStaleCapture,
   TrulyRunning, SoleScan, SoleThread, CallerSound, Alive, At, Idle, StopPlaces

\* With one caller and no join that times out, no two scan threads are alive.
THEOREM OneScanAtATime ==
  ASSUME "spawn" \notin Faults, "long_gap" \notin Faults, OneCallerOnly
  PROVE  Spec => []AtMostOneScan
<1>1. SoleInv /\ [Next]_vars => SoleInv'
  BY StepSole
<1>2. Spec => []SoleInv
  BY <1>1, InitSole, PTL DEF Spec
<1>3. SoleInv => AtMostOneScan
  BY DEF SoleInv, SoleScan, SoleThread, AtMostOneScan
<1> QED BY <1>2, <1>3, PTL

\* ... and stop() returns only when every scan thread is gone.
THEOREM StoppedIsIdle ==
  ASSUME "spawn" \notin Faults, "long_gap" \notin Faults, OneCallerOnly
  PROVE  Spec => []StopLeavesIdle
<1>1. SoleInv /\ [Next]_vars => SoleInv'
  BY StepSole
<1>2. Spec => []SoleInv
  BY <1>1, InitSole, PTL DEF Spec
<1>3. SoleInv => StopLeavesIdle
  BY DEF SoleInv, SoleScan, CallerSound, StopLeavesIdle, At
<1> QED BY <1>2, <1>3, PTL

-----------------------------------------------------------------------------
(* Under the same assumptions the engine implements ScanSlot                 *)

Workers == {n \in Scans : Alive(n)}

LEMMA StepRefines ==
  "spawn" \notin Faults /\ "long_gap" \notin Faults /\ OneCallerOnly /\ SoleInv /\ [Next]_vars
    => [Slot!Next]_(Slot!slotVars)
<1> SUFFICES ASSUME "spawn" \notin Faults, "long_gap" \notin Faults, OneCallerOnly, SoleInv,
                    [Next]_vars
             PROVE  [Slot!Next]_(Slot!slotVars)
  OBVIOUS
<1>0. TypeInv /\ Unborn /\ SoleScan /\ TrulyRunning
  BY DEF SoleInv, AliveInv, StaleInv
\* A stutter: the threads, the names and the flags stay.
<1>1. ASSUME \A m \in Scans : Alive(m)' <=> Alive(m), status'.scan = status.scan,
             status'.running = status.running, stop_flag' = stop_flag
      PROVE  UNCHANGED Slot!slotVars
  <2>1. Workers' = Workers
    BY <1>1 DEF Workers
  <2> QED BY <1>1, <2>1 DEF Slot!slotVars, Workers
<1>2. ASSUME NEW n \in Scans, ScanStep(n) \/ SnifferSettles(n) \/ SnifferExits(n)
      PROVE  [Slot!Next]_(Slot!slotVars)
  <2>1. stop_flag' = stop_flag /\ status'.scan = status.scan
    BY <1>0, <1>2, ScanEffect
  <2>2. ASSUME Alive(n), \A m \in Scans : Alive(m)' <=> Alive(m) /\ m # n,
               status'.running = FALSE
        PROVE  Slot!End
    <3>1. Workers = {n} /\ Workers' = {}
      BY <1>0, <2>2 DEF Workers, SoleScan, SoleThread
    <3> QED BY <2>1, <2>2, <3>1 DEF Slot!End, Workers
  <2> QED BY <1>0, <1>1, <1>2, <2>1, <2>2, ScanEffect DEF Slot!Next
<1>3. ASSUME NEW c \in Callers, StartLaunch(c) PROVE Slot!Begin
  <2>1. PICK where \in {"next", "register"} : Publish(c, where)
    BY <1>3, LaunchPublishes
  <2>2. Workers = {} /\ ~stop_flag /\ stop_flag' = stop_flag /\ ~status.running
    BY <1>0, <2>1 DEF Publish, SoleScan, SoleThread, CallerSound, Workers
  <2>3. Workers' = {status.scan + 1}
    BY <1>0, <2>1, <2>2, PublishEffect DEF Workers
  <2>4. status.scan + 1 \in Scans /\ status'.scan = status.scan + 1 /\ status'.running = TRUE
    BY <1>0, <2>1, PublishEffect
  <2>5. status.scan < MaxScans
    BY <1>0, <2>4, EngineAssumption DEF Scans, TypeInv, TypeOK, NoScan
  <2> QED BY <2>2, <2>3, <2>4, <2>5 DEF Slot!Begin, Workers
<1>4. ASSUME NEW c \in Callers, StartClear(c) PROVE Slot!Withdraw
  <2>1. ~status.running /\ stop_flag' = FALSE /\ pc' = pc /\ status' = status
    BY <1>4 DEF StartClear, scanVars
  <2>2. Workers = {} /\ Workers' = {}
    BY <1>0, <2>1 DEF SoleScan, SoleThread, Workers, Alive
  <2> QED BY <2>1, <2>2 DEF Slot!Withdraw, Workers
<1>5. ASSUME NEW c \in Callers, StopBegin(c) PROVE Slot!RequestStop
  <2>1. stop_flag' = TRUE /\ pc' = pc /\ status' = status
    BY <1>5 DEF StopBegin, scanVars
  <2>2. Workers' = Workers
    BY <2>1 DEF Workers, Alive
  <2> QED BY <2>1, <2>2 DEF Slot!RequestStop, Workers
<1>6. ASSUME NEW c \in Callers, StopFinish(c) PROVE UNCHANGED Slot!slotVars
  <2>1. \A n \in Scans : ~Alive(n)
    BY <1>0, <1>6 DEF StopFinish, SoleScan, CallerSound
  <2>2. ~status.running
    BY <1>0, <2>1 DEF TrulyRunning
  <2>3. pc' = pc /\ stop_flag' = stop_flag /\ status'.scan = status.scan
        /\ status'.running = status.running
    BY <1>0, <1>6, <2>2 DEF StopFinish, scanVars, TypeInv, TypeOK
  <2> QED BY <1>1, <2>3 DEF Alive
<1>7. ASSUME NEW c \in Callers,
             \/ \E mode \in {"live", "pcap", "bad"} : Start(c, mode)
             \/ StartRefused(c) \/ StartFactoryFails(c) \/ StopCapture(c)
             \/ StopThread(c) \/ StopJoined(c)
      PROVE  UNCHANGED Slot!slotVars
  <2>1. stop_flag' = stop_flag
    BY <1>7 DEF Start, StartRefused, StartFactoryFails, StopCapture, StopThread,
       StopJoined, engineVars
  <2>2. pc' = pc /\ status'.scan = status.scan /\ status'.running = status.running
    BY <1>0, <1>7, CallEffect
  <2> QED BY <1>1, <2>1, <2>2 DEF Alive
<1>8. CASE UNCHANGED vars
  BY <1>1, <1>8 DEF vars, engineVars, scanVars, Alive
<1> QED BY <1>2, <1>3, <1>4, <1>5, <1>6, <1>7, <1>8
        DEF Next, StartBody, StopBody, Slot!Next

\* With one caller and no join that times out, the engine implements ScanSlot's
\* safety part: scans begin only in an empty slot that nobody asked to stop, and
\* "running" is shown exactly while the slot is taken.
THEOREM ImplementsSlot ==
  ASSUME "spawn" \notin Faults, "long_gap" \notin Faults, OneCallerOnly
  PROVE  Spec => SlotSafety
<1>1. Init => Slot!Init
  BY DEF Init, Slot!Init, Alive, NoScan
<1>2. SoleInv /\ [Next]_vars => SoleInv' /\ [Slot!Next]_(Slot!slotVars)
  BY StepSole, StepRefines
<1> QED BY <1>1, <1>2, InitSole, PTL DEF Spec, SlotSafety, Slot!Safety

-----------------------------------------------------------------------------
(* What becomes of a scan's sniffer, however many callers there are           *)

\* Where the scan thread is tells how far the sniffer can be; a thread that lets
\* an exception of on_packet() end it may leave a sniffer running.
SnifferSound(n) ==
  /\ pc[n] \in {"unborn", "stillborn", "next", "check", "register", "open"}
       => sniffer[n] = "absent"
  /\ pc[n] \in {"poll", "get", "halt"} => sniffer[n] \in {"up", "ended"}
  /\ pc[n] = "process" => sniffer[n] \in {"absent", "up", "ended"}
  /\ pc[n] \in {"finish", "dead"} =>
       sniffer[n] # "starting" /\ ("callback" \notin Faults => sniffer[n] # "up")

SnifferInv == StaleInv /\ \A n \in Scans : SnifferSound(n)

\* A sniffer only ever moves on, and only if its scan or a stop() makes it.
LEMMA StepSniffer == "slow_sniffer" \notin Faults /\ SnifferInv /\ [Next]_vars => SnifferInv'
<1> SUFFICES ASSUME "slow_sniffer" \notin Faults, SnifferInv, [Next]_vars,
                    NEW m \in Scans
             PROVE  SnifferSound(m)'
  BY StepNotStale DEF SnifferInv
<1>0. TypeInv /\ Unborn /\ TypeOK /\ SnifferSound(m)
  BY DEF SnifferInv, StaleInv, TypeInv
<1>1. ASSUME NEW n \in Scans, ReplayStep(n) PROVE SnifferSound(m)'
  BY <1>0, <1>1 DEF ReplayStep, ReplayRead, ReplayEnd, ReplayFails, ReplayCheck, ScanAt,
     SnifferSound, TypeOK
<1>2. ASSUME NEW n \in Scans, LiveStep(n) PROVE SnifferSound(m)'
  <2>1. CASE RegisterCapture(n) \/ OpenCapture(n) \/ Poll(n) \/ GetPacket(n) \/ GetTimesOut(n)
    BY <1>0, <2>1 DEF RegisterCapture, OpenCapture, Poll, GetPacket, GetTimesOut, ScanAt,
       SnifferSound, TypeOK
  <2>2. CASE SettleAlive(n) \/ SettleDead(n)
    BY <1>0, <2>2 DEF SettleAlive, SettleDead, MayFail, ScanAt, SnifferSound, TypeOK
  <2>3. CASE Halt(n)
    BY <1>0, <2>3 DEF Halt, SnifferAfterStop, ScanAt, SnifferSound, TypeOK
  <2> QED
    BY <1>2, <2>1, <2>2, <2>3 DEF LiveStep
<1>3. ASSUME NEW n \in Scans, ProcessPacket(n) PROVE SnifferSound(m)'
  BY <1>0, <1>3 DEF ProcessPacket, AfterPacket, IsReplay, MayFail, ScanAt, SnifferSound, TypeOK
<1>4. ASSUME NEW n \in Scans, Finish(n) PROVE SnifferSound(m)'
  BY <1>0, <1>4 DEF Finish, ScanAt, SnifferSound, TypeOK
<1>5. ASSUME NEW n \in Scans, SnifferSettles(n) \/ SnifferExits(n) PROVE SnifferSound(m)'
  BY <1>0, <1>5 DEF SnifferSettles, SnifferUp, SnifferFails, SnifferExits, SnifferStep,
     SnifferSound, TypeOK
<1>6. ASSUME NEW c \in Callers, StartLaunch(c) PROVE SnifferSound(m)'
  <2>1. PICK where \in {"next", "register", "stillborn"} : Publish(c, where)
    BY <1>6, LaunchPublishes
  <2>2. status.scan + 1 \in Scans /\ ~Alive(status.scan + 1) /\ status.scan \in Nat
    <3>1. status.scan + 1 \in Scans /\ ~Alive(status.scan + 1)
      BY <1>0, <2>1, PublishEffect
    <3> QED
      BY <1>0, <3>1, EngineAssumption DEF TypeOK, Scans, NoScan
  <2>3. pc[status.scan + 1] = "unborn"
    BY <1>0, <2>2 DEF Unborn, Scans
  <2> QED
    BY <1>0, <2>1, <2>3 DEF Publish, SnifferSound, TypeOK
<1>7. ASSUME NEW c \in Callers, StopCapture(c) PROVE SnifferSound(m)'
  BY <1>0, <1>7 DEF StopCapture, SnifferAfterStop, SnifferSound, TypeOK
<1>8. ASSUME UNCHANGED scanVars PROVE SnifferSound(m)'
  BY <1>0, <1>8 DEF scanVars, SnifferSound
<1>9. ASSUME NEW c \in Callers,
             \/ \E mode \in {"live", "pcap", "bad"} : Start(c, mode)
             \/ StopBegin(c) \/ StartBody(c) \/ StopBody(c)
      PROVE  SnifferSound(m)'
  BY <1>6, <1>7, <1>8, <1>9 DEF StartBody, StopBody, Start, StopBegin, StartRefused,
     StartClear, StartFactoryFails, StopThread, StopJoined, StopFinish
<1> QED
  BY <1>1, <1>2, <1>3, <1>4, <1>5, <1>8, <1>9 DEF Next, ScanStep, vars

LEMMA InitSniffer == Init => SnifferInv
BY InitTyped DEF SnifferInv, StaleInv, Init, Unborn, NoStaleCapture, SnifferSound

\* No sniffer outlives its scan, for any callers, unless it may come up late or
\* an exception may leave _process().
THEOREM NoSnifferLeft ==
  ASSUME "slow_sniffer" \notin Faults, "callback" \notin Faults
  PROVE  Spec => []NoSnifferLeak
<1>1. SnifferInv /\ [Next]_vars => SnifferInv'
  BY StepSniffer
<1>2. Spec => []SnifferInv
  BY <1>1, InitSniffer, PTL DEF Spec
<1>3. SnifferInv => NoSnifferLeak
  BY DEF SnifferInv, SnifferSound, NoSnifferLeak
<1> QED BY <1>2, <1>3, PTL

-----------------------------------------------------------------------------
(* One caller again: what the status says stems from the scan it names        *)

\* No packet of a scan to come, and stop() has read the capture of this one.
OwnCounts == \A n \in Scans : n > status.scan => processed[n] = 0
OwnCapture == \A c \in Callers : At(c, "stop_capture") => call[c].cap = status.scan

OwnInv == SoleInv /\ StatusIsOwn /\ OwnCounts /\ OwnCapture

\* Whoever writes to the status belongs to the scan that it names.
LEMMA StepOwn ==
  "spawn" \notin Faults /\ "long_gap" \notin Faults /\ OneCallerOnly /\ OwnInv /\ [Next]_vars
    => OwnInv'
<1> SUFFICES ASSUME "spawn" \notin Faults, "long_gap" \notin Faults, OneCallerOnly, OwnInv,
                    [Next]_vars
             PROVE  StatusIsOwn' /\ OwnCounts' /\ OwnCapture'
  BY StepSole DEF OwnInv
<1>0. /\ TypeInv /\ TypeOK /\ Unborn /\ SoleScan /\ NoStaleCapture /\ \A c, d \in Callers : c = d
      /\ StatusIsOwn /\ OwnCounts /\ OwnCapture
      /\ \A n \in Scans : Alive(n) => n = status.scan
  BY DEF OwnInv, SoleInv, AliveInv, StaleInv, TypeInv, OneCallerOnly, SoleScan, SoleThread
<1>1. status.scan \in Nat /\ status.scan \in Scans \cup {NoScan} /\ NoScan = 0 /\ NoScan \notin Scans
  BY <1>0, EngineAssumption DEF TypeOK, Scans, NoScan
\* A step that only may write its own scan's error.
<1>2. ASSUME UNCHANGED <<processed>>, status'.scan = status.scan, status'.packets = status.packets,
             status'.error \in {status.error, status.scan},
             \A c \in Callers : At(c, "stop_capture")' => call'[c].cap = status.scan
      PROVE  StatusIsOwn' /\ OwnCounts' /\ OwnCapture'
  BY <1>0, <1>2 DEF StatusIsOwn, OwnCounts, OwnCapture
<1>3. ASSUME NEW n \in Scans, ScanStep(n) \/ SnifferSettles(n) \/ SnifferExits(n)
      PROVE  StatusIsOwn' /\ OwnCounts' /\ OwnCapture'
  <2>1. call' = call /\ status'.scan = status.scan
    BY <1>0, <1>3, ScanEffect
  <2>2. CASE ProcessPacket(n)
    <3>1. n = status.scan /\ n # NoScan
      BY <1>0, <1>1, <2>2 DEF ProcessPacket, ScanAt, Alive
    <3>2. /\ processed' = [processed EXCEPT ![n] = @ + 1]
          /\ status'.packets = status.packets + 1 /\ status'.error \in {status.error, n}
      BY <1>0, <2>2 DEF ProcessPacket, Counted, TypeOK
    <3> QED
      BY <1>0, <1>1, <2>1, <3>1, <3>2 DEF StatusIsOwn, OwnCounts, OwnCapture, At, TypeOK
  <2>3. CASE ~ProcessPacket(n)
    <3>1. processed' = processed /\ status'.packets = status.packets
          /\ (status'.error = status.error \/ (status'.error = n /\ Alive(n)))
      <4>1. CASE ReplayStep(n)
        BY <1>0, <4>1 DEF ReplayStep, ReplayRead, ReplayEnd, ReplayFails, ReplayCheck, ScanAt,
           Fail, Alive, engineVars, TypeOK
      <4>2. CASE LiveStep(n)
        BY <1>0, <4>2 DEF LiveStep, RegisterCapture, OpenCapture, SettleAlive, SettleDead, Poll,
           GetPacket, GetTimesOut, Halt, ScanAt, Fail, Alive, engineVars, TypeOK
      <4>3. CASE Finish(n) \/ SnifferSettles(n) \/ SnifferExits(n)
        BY <1>0, <4>3 DEF Finish, SnifferSettles, SnifferUp, SnifferFails, SnifferExits,
           engineVars, TypeOK
      <4> QED
        BY <1>3, <2>3, <4>1, <4>2, <4>3 DEF ScanStep
    <3> QED
      BY <1>0, <1>2, <2>1, <3>1 DEF OwnCapture, At
  <2> QED
    BY <2>2, <2>3
<1>4. ASSUME NEW c \in Callers, StartLaunch(c) PROVE StatusIsOwn' /\ OwnCounts' /\ OwnCapture'
  <2>1. PICK where \in {"next", "register"} : Publish(c, where)
    BY <1>4, LaunchPublishes
  <2>2. status.scan + 1 \in Scans
    BY <1>0, <2>1, PublishEffect
  <2>3. /\ status' = NewStatus(status.scan + 1, call[c].mode) /\ processed' = processed
        /\ call'[c] = Idle
    BY <1>0, <2>1 DEF Publish, Return, TypeOK
  <2>4. processed[status.scan + 1] = 0 /\ \A n \in Scans : n > status.scan + 1 => processed[n] = 0
    BY <1>0, <1>1, <2>2 DEF OwnCounts, Scans
  <2> QED
    BY <1>0, <2>2, <2>3, <2>4 DEF NewStatus, StatusIsOwn, OwnCounts, OwnCapture, At, Idle
<1>5. ASSUME NEW c \in Callers, StopBegin(c) PROVE StatusIsOwn' /\ OwnCounts' /\ OwnCapture'
  <2>1. capture # NoScan => capture = status.scan
    BY <1>0 DEF NoStaleCapture, TypeOK
  <2>2. /\ UNCHANGED <<processed, status>>
        /\ At(c, "stop_capture")' => call'[c].cap = capture /\ capture # NoScan
    BY <1>0, <1>5 DEF StopBegin, At, Idle, scanVars, TypeOK
  <2> QED
    BY <1>0, <1>2, <2>1, <2>2
<1>6. ASSUME NEW c \in Callers, StopCapture(c) PROVE StatusIsOwn' /\ OwnCounts' /\ OwnCapture'
  <2>1. call[c].cap = status.scan /\ call'[c].at = "stop_thread" /\ processed' = processed
    BY <1>0, <1>6 DEF StopCapture, OwnCapture, GoTo, At, TypeOK
  <2>2. status'.scan = status.scan /\ status'.packets = status.packets
        /\ status'.error \in {status.error, status.scan}
    BY <1>0, <1>6, <2>1 DEF StopCapture, TypeOK
  <2> QED
    BY <1>0, <1>2, <2>1, <2>2 DEF At
<1>7. ASSUME NEW c \in Callers, call'[c].at # "stop_capture", UNCHANGED processed,
             status'.scan = status.scan, status'.packets = status.packets,
             status'.error = status.error
      PROVE  StatusIsOwn' /\ OwnCounts' /\ OwnCapture'
  BY <1>0, <1>2, <1>7 DEF At
<1>8. ASSUME NEW c \in Callers,
             \/ \E mode \in {"live", "pcap", "bad"} : Start(c, mode)
             \/ StartRefused(c) \/ StartClear(c) \/ StartFactoryFails(c)
             \/ StopThread(c) \/ StopJoined(c) \/ StopFinish(c)
      PROVE  StatusIsOwn' /\ OwnCounts' /\ OwnCapture'
  <2>1. call'[c].at # "stop_capture"
    <3>1. ASSUME NEW mode \in {"live", "pcap", "bad"}, Start(c, mode)
          PROVE  call'[c].at # "stop_capture"
      <4>1. call'[c].at = "start"
        BY <1>0, <3>1 DEF Start, Idle, TypeOK
      <4> QED BY <4>1
    <3>2. CASE StartClear(c)
      <4>1. call'[c].at = "launch"
        BY <1>0, <3>2 DEF StartClear, GoTo, TypeOK
      <4> QED BY <4>1
    <3>3. CASE StartRefused(c) \/ StartFactoryFails(c) \/ StopFinish(c)
      BY <1>0, <3>3 DEF StartRefused, StartFactoryFails, StopFinish, Return, Idle, TypeOK
    <3>4. CASE StopThread(c)
      <4>1. call'[c].at = "stop_join" \/ call'[c].at = "stop_finish"
        BY <1>0, <3>4 DEF StopThread, Idle, TypeOK
      <4> QED BY <4>1
    <3>5. CASE StopJoined(c)
      <4>1. call'[c].at = "stop_finish"
        BY <1>0, <3>5 DEF StopJoined, Idle, TypeOK
      <4> QED BY <4>1
    <3> QED
      BY <1>8, <3>1, <3>2, <3>3, <3>4, <3>5
  <2>2. /\ UNCHANGED processed /\ status'.scan = status.scan
        /\ status'.packets = status.packets /\ status'.error = status.error
    BY <1>0, <1>8 DEF Start, StartRefused, StartClear, StartFactoryFails, StopThread, StopJoined,
       StopFinish, engineVars, scanVars, TypeOK
  <2> QED
    BY <1>7, <2>1, <2>2
<1>9. CASE UNCHANGED vars
  BY <1>0, <1>2, <1>9 DEF vars, engineVars, scanVars, OwnCapture, At
<1> QED
  BY <1>3, <1>4, <1>5, <1>6, <1>8, <1>9 DEF Next, StartBody, StopBody

LEMMA InitOwn == Init => OwnInv
BY InitSole DEF OwnInv, Init, StatusIsOwn, OwnCounts, OwnCapture, At, Idle

\* With one caller and no join that times out, error and counter in the status
\* are those of the scan it names.
THEOREM StatusOwn ==
  ASSUME "spawn" \notin Faults, "long_gap" \notin Faults, OneCallerOnly
  PROVE  Spec => []StatusIsOwn
<1>1. OwnInv /\ [Next]_vars => OwnInv'
  BY StepOwn
<1>2. Spec => []OwnInv
  BY <1>1, InitOwn, PTL DEF Spec
<1>3. OwnInv => StatusIsOwn
  BY DEF OwnInv
<1> QED BY <1>2, <1>3, PTL

-----------------------------------------------------------------------------
(* ... and a capture that failed has its reason there                        *)

\* A scan on its last step, or over, whose sniffer failed has said so.
FailureSaid ==
  \A n \in Scans :
    pc[n] \in {"finish", "dead"} /\ sniffer[n] = "failed" /\ status.scan = n => status.error = n

SaidInv == OwnInv /\ SnifferInv /\ FailureSaid

\* The error of the scan that the status names is never taken back.
LEMMA ErrorStays ==
  ASSUME OwnInv, OneCallerOnly, "spawn" \notin Faults, "long_gap" \notin Faults, Next,
         status'.scan = status.scan, status.error = status.scan
  PROVE  status'.error = status.scan
<1>1. TypeOK /\ OwnInv' /\ OwnCapture /\ \A n \in Scans : Alive(n) => n = status.scan
  BY StepOwn DEF OwnInv, SoleInv, AliveInv, StaleInv, TypeInv, SoleScan, SoleThread
<1>2. ASSUME NEW n \in Scans, ScanStep(n) \/ SnifferSettles(n) \/ SnifferExits(n)
      PROVE  status'.error \in {status.error, status.scan}
  <2>1. CASE ReplayStep(n)
    BY <1>1, <2>1 DEF ReplayStep, ReplayRead, ReplayEnd, ReplayFails, ReplayCheck, ScanAt,
       Fail, Alive, engineVars, TypeOK
  <2>2. CASE LiveStep(n)
    BY <1>1, <2>2 DEF LiveStep, RegisterCapture, OpenCapture, SettleAlive, SettleDead, Poll,
       GetPacket, GetTimesOut, Halt, ScanAt, Fail, Alive, engineVars, TypeOK
  <2>3. CASE ProcessPacket(n)
    BY <1>1, <2>3 DEF ProcessPacket, Counted, ScanAt, Alive, TypeOK
  <2>4. CASE Finish(n) \/ SnifferSettles(n) \/ SnifferExits(n)
    BY <1>1, <2>4 DEF Finish, SnifferSettles, SnifferUp, SnifferFails, SnifferExits,
       engineVars, TypeOK
  <2> QED
    BY <1>2, <2>1, <2>2, <2>3, <2>4 DEF ScanStep
<1>3. ASSUME NEW c \in Callers, StartLaunch(c) PROVE FALSE
  <2>1. status'.scan = status.scan + 1
    BY <1>3 DEF StartLaunch, Publish, NewStatus
  <2>2. status.scan \in Nat
    BY <1>1, EngineAssumption DEF TypeOK, Scans, NoScan
  <2> QED
    BY <2>1, <2>2
<1>4. ASSUME NEW c \in Callers, StopCapture(c) PROVE status'.error \in {status.error, status.scan}
  BY <1>1, <1>4 DEF StopCapture, OwnCapture, TypeOK
<1>5. ASSUME NEW c \in Callers,
             \/ \E mode \in {"live", "pcap", "bad"} : Start(c, mode)
             \/ StopBegin(c) \/ StartRefused(c) \/ StartClear(c) \/ StartFactoryFails(c)
             \/ StopThread(c) \/ StopJoined(c) \/ StopFinish(c)
      PROVE  status'.error = status.error
  BY <1>1, <1>5 DEF Start, StopBegin, StartRefused, StartClear, StartFactoryFails, StopThread,
     StopJoined, StopFinish, engineVars, TypeOK
<1> QED
  BY <1>2, <1>3, <1>4, <1>5 DEF Next, StartBody, StopBody

\* A scan comes to its last step with a failed sniffer only by saying so.
LEMMA StepSaid ==
  "spawn" \notin Faults /\ "long_gap" \notin Faults /\ "slow_sniffer" \notin Faults
    /\ OneCallerOnly /\ SaidInv /\ [Next]_vars => SaidInv'
<1> SUFFICES ASSUME "spawn" \notin Faults, "long_gap" \notin Faults,
                    "slow_sniffer" \notin Faults, OneCallerOnly, SaidInv, [Next]_vars,
                    NEW m \in Scans, pc'[m] \in {"finish", "dead"}, sniffer'[m] = "failed",
                    status'.scan = m
             PROVE  status'.error = m
  BY StepOwn, StepSniffer DEF SaidInv, FailureSaid
<1>0. /\ TypeInv /\ TypeOK /\ Unborn /\ FailureSaid /\ SnifferSound(m) /\ OwnInv
      /\ \A n \in Scans : Alive(n) => n = status.scan
  BY DEF SaidInv, OwnInv, SoleInv, AliveInv, StaleInv, TypeInv, SnifferInv, SoleScan, SoleThread
\* If it was there before, it had said so.
<1>1. ASSUME status'.scan = status.scan, Next,
             pc[m] \in {"finish", "dead"}, sniffer[m] = "failed"
      PROVE  status'.error = m
  BY <1>0, <1>1, ErrorStays DEF FailureSaid
<1>2. ASSUME NEW n \in Scans, ScanStep(n) \/ SnifferSettles(n) \/ SnifferExits(n)
      PROVE  status'.error = m
  <2>1. status'.scan = status.scan /\ Next
    BY <1>0, <1>2, ScanEffect DEF Next
  <2>2. \/ pc[m] \in {"finish", "dead"} /\ sniffer[m] = "failed"
        \/ status'.error = m
    <3>1. CASE ReplayStep(n)
      BY <1>0, <3>1 DEF ReplayStep, ReplayRead, ReplayEnd, ReplayFails, ReplayCheck, ScanAt,
         SnifferSound, TypeOK
    <3>2. CASE RegisterCapture(n) \/ OpenCapture(n) \/ SettleAlive(n) \/ Poll(n) \/ GetPacket(n)
                 \/ GetTimesOut(n)
      BY <1>0, <3>2 DEF RegisterCapture, OpenCapture, SettleAlive, Poll, GetPacket, GetTimesOut,
         ScanAt, SnifferSound, TypeOK
    <3>3. CASE SettleDead(n)
      BY <1>0, <3>3 DEF SettleDead, CaptureStopRaises, Fail, ScanAt, TypeOK
    <3>4. CASE Halt(n)
      BY <1>0, <3>4 DEF Halt, SnifferAfterStop, CaptureStopRaises, Fail, ScanAt, SnifferSound,
         TypeOK
    <3>5. CASE ProcessPacket(n)
      BY <1>0, <3>5 DEF ProcessPacket, ScanAt, SnifferSound, TypeOK
    <3>6. CASE Finish(n)
      BY <1>0, <3>6 DEF Finish, ScanAt, TypeOK
    <3>7. CASE SnifferSettles(n) \/ SnifferExits(n)
      BY <1>0, <3>7 DEF SnifferSettles, SnifferUp, SnifferFails, SnifferExits, SnifferStep,
         SnifferSound, TypeOK
    <3> QED
      BY <1>2, <3>1, <3>2, <3>3, <3>4, <3>5, <3>6, <3>7 DEF ScanStep, LiveStep
  <2> QED
    BY <1>1, <2>1, <2>2
<1>3. ASSUME NEW c \in Callers, StartLaunch(c) PROVE FALSE
  <2>1. PICK where \in {"next", "register"} : Publish(c, where)
    BY <1>3, LaunchPublishes
  <2>2. status'.scan = status.scan + 1 /\ status.scan + 1 \in Scans
    BY <1>0, <2>1, PublishEffect
  <2>3. pc'[m] = where
    BY <1>0, <2>1, <2>2 DEF Publish, TypeOK
  <2> QED
    BY <2>3
<1>4. ASSUME NEW c \in Callers,
             \/ \E mode \in {"live", "pcap", "bad"} : Start(c, mode)
             \/ StopBegin(c) \/ StartBody(c) \/ StopBody(c)
      PROVE  status'.error = m
  <2>1. Next
    BY <1>4 DEF Next
  <2>2. CASE StopFinish(c)
    BY <1>0, <1>1, <2>1, <2>2 DEF StopFinish, scanVars, TypeOK
  <2>3. CASE StopCapture(c)
    <3>1. pc' = pc /\ status'.scan = status.scan /\ sniffer[m] = "failed"
      BY <1>0, <2>3 DEF StopCapture, SnifferAfterStop, TypeOK
    <3> QED
      BY <1>1, <2>1, <3>1
  <2>4. ASSUME UNCHANGED scanVars, status'.scan = status.scan PROVE status'.error = m
    BY <1>1, <2>1, <2>4 DEF scanVars
  <2>5. CASE \/ \E mode \in {"live", "pcap", "bad"} : Start(c, mode)
             \/ StopBegin(c) \/ StartRefused(c) \/ StartClear(c) \/ StartFactoryFails(c)
             \/ StopThread(c) \/ StopJoined(c)
    BY <2>4, <2>5 DEF Start, StopBegin, StartRefused, StartClear, StartFactoryFails, StopThread,
       StopJoined, engineVars
  <2> QED
    BY <1>3, <1>4, <2>2, <2>3, <2>5 DEF StartBody, StopBody
<1>5. CASE UNCHANGED vars
  BY <1>0, <1>5 DEF vars, engineVars, scanVars, FailureSaid
<1> QED
  BY <1>2, <1>4, <1>5 DEF Next

LEMMA InitSaid == Init => SaidInv
BY InitOwn, InitSniffer DEF SaidInv, Init, FailureSaid

\* With one caller, no join that times out and no sniffer that comes up late, a
\* scan that ends with a failed sniffer has its error in the status.
THEOREM FailureReported ==
  ASSUME "spawn" \notin Faults, "long_gap" \notin Faults, "slow_sniffer" \notin Faults,
         OneCallerOnly
  PROVE  Spec => []FailedCaptureReported
<1>1. SaidInv /\ [Next]_vars => SaidInv'
  BY StepSaid
<1>2. Spec => []SaidInv
  BY <1>1, InitSaid, PTL DEF Spec
<1>3. SaidInv => FailedCaptureReported
  BY DEF SaidInv, FailureSaid, FailedCaptureReported
<1> QED BY <1>2, <1>3, PTL
-----------------------------------------------------------------------------
(* ... and a replay that nobody stops is complete                            *)

\* A live scan past its start-up has a sniffer; a replay on its last step was
\* stopped, has failed, or has processed its file.
ReplaySound(n) ==
  /\ pc[n] \in {"settle", "poll", "get", "halt"} => sniffer[n] # "absent"
  /\ pc[n] = "finish" /\ sniffer[n] = "absent"
       => stop_flag \/ status.error = n \/ processed[n] = Packets

ReplayInv == OwnInv /\ \A n \in Scans : ReplaySound(n)

\* A scan thread's step on its own way to the end.
LEMMA ScanKeepsReplay ==
  ASSUME TypeInv, NEW n \in Scans, ScanStep(n) \/ SnifferSettles(n) \/ SnifferExits(n),
         NEW m \in Scans, ReplaySound(m), status.error = m => status'.error = m
  PROVE  ReplaySound(m)'
<1> USE DEF TypeInv
<1>1. CASE ReplayStep(n)
  <2>1. CASE ReplayRead(n) \/ ReplayEnd(n)
    BY <2>1 DEF ReplayRead, ReplayEnd, ScanAt, ReplaySound, engineVars, TypeOK
  <2>2. CASE ReplayFails(n)
    BY <2>2 DEF ReplayFails, Fail, ScanAt, ReplaySound, TypeOK
  <2>3. CASE ReplayCheck(n)
    BY <2>3 DEF ReplayCheck, ScanAt, ReplaySound, engineVars, TypeOK
  <2> QED
    BY <1>1, <2>1, <2>2, <2>3 DEF ReplayStep
<1>2. CASE LiveStep(n)
  <2>1. CASE RegisterCapture(n) \/ OpenCapture(n)
    BY <2>1 DEF RegisterCapture, OpenCapture, ScanAt, ReplaySound, engineVars, TypeOK
  <2>2. CASE SettleAlive(n) \/ Poll(n) \/ GetPacket(n) \/ GetTimesOut(n)
    BY <2>2 DEF SettleAlive, Poll, GetPacket, GetTimesOut, ScanAt, ReplaySound, engineVars, TypeOK
  <2>3. CASE SettleDead(n)
    BY <2>3 DEF SettleDead, ScanAt, ReplaySound, TypeOK
  <2>4. CASE Halt(n)
    BY <2>4 DEF Halt, SnifferAfterStop, ScanAt, ReplaySound, TypeOK
  <2> QED
    BY <1>2, <2>1, <2>2, <2>3, <2>4 DEF LiveStep
<1>3. CASE ProcessPacket(n)
  BY <1>3 DEF ProcessPacket, AfterPacket, IsReplay, ScanAt, ReplaySound, TypeOK
<1>4. CASE Finish(n)
  BY <1>4 DEF Finish, ScanAt, ReplaySound, TypeOK
<1>5. CASE SnifferSettles(n) \/ SnifferExits(n)
  BY <1>5 DEF SnifferSettles, SnifferUp, SnifferFails, SnifferExits, SnifferStep, ReplaySound,
     engineVars, TypeOK
<1> QED
  BY <1>1, <1>2, <1>3, <1>4, <1>5 DEF ScanStep

\* While a scan thread lives nobody withdraws a stop request or takes its error
\* back.
LEMMA StepReplay ==
  "spawn" \notin Faults /\ "long_gap" \notin Faults /\ OneCallerOnly /\ ReplayInv /\ [Next]_vars
    => ReplayInv'
<1> SUFFICES ASSUME "spawn" \notin Faults, "long_gap" \notin Faults, OneCallerOnly, ReplayInv,
                    [Next]_vars, NEW m \in Scans
             PROVE  ReplaySound(m)'
  BY StepOwn DEF ReplayInv
<1>0. /\ TypeInv /\ TypeOK /\ Unborn /\ OwnInv /\ ReplaySound(m) /\ StatusIsOwn
      /\ \A n \in Scans : Alive(n) => n = status.scan /\ status.running
      /\ \A c \in Callers : At(c, "launch") => ~status.running
  BY DEF ReplayInv, OwnInv, SoleInv, AliveInv, StaleInv, TypeInv, SoleScan, SoleThread, CallerSound
<1>1. ASSUME Next, status'.scan = status.scan, status.error = m PROVE status'.error = m
  <2>1. m = status.scan
    BY <1>0, <1>1, EngineAssumption DEF StatusIsOwn, Scans, NoScan
  <2> QED
    BY <1>0, <1>1, <2>1, ErrorStays
<1>2. ASSUME NEW n \in Scans, ScanStep(n) \/ SnifferSettles(n) \/ SnifferExits(n)
      PROVE  ReplaySound(m)'
  <2>1. Next /\ status'.scan = status.scan
    BY <1>0, <1>2, ScanEffect DEF Next
  <2> QED
    BY <1>0, <1>1, <1>2, <2>1, ScanKeepsReplay
<1>3. ASSUME NEW c \in Callers, StartLaunch(c) PROVE ReplaySound(m)'
  <2>1. PICK where \in {"next", "register"} : Publish(c, where)
    BY <1>3, LaunchPublishes
  <2>2. \A n \in Scans : ~Alive(n)
    BY <1>0, <2>1 DEF Publish
  <2>3. pc'[m] = pc[m] \/ pc'[m] = where
    BY <1>0, <2>1 DEF Publish, TypeOK
  <2> QED
    BY <2>2, <2>3 DEF ReplaySound, Alive
<1>4. ASSUME NEW c \in Callers, StartClear(c) PROVE ReplaySound(m)'
  <2>1. ~Alive(m) /\ pc' = pc
    BY <1>0, <1>4 DEF StartClear, scanVars
  <2> QED
    BY <2>1 DEF ReplaySound, Alive
<1>5. ASSUME NEW c \in Callers, StopCapture(c) PROVE ReplaySound(m)'
  <2>1. Next
    BY <1>5 DEF Next, StopBody
  <2>2. /\ pc' = pc /\ processed' = processed /\ stop_flag' = stop_flag
        /\ status'.scan = status.scan /\ (sniffer'[m] = "absent" <=> sniffer[m] = "absent")
    BY <1>0, <1>5 DEF StopCapture, SnifferAfterStop, TypeOK
  <2> QED
    BY <1>0, <1>1, <2>1, <2>2 DEF ReplaySound
<1>6. ASSUME NEW c \in Callers,
             \/ \E mode \in {"live", "pcap", "bad"} : Start(c, mode)
             \/ StopBegin(c) \/ StartRefused(c) \/ StartFactoryFails(c)
             \/ StopThread(c) \/ StopJoined(c) \/ StopFinish(c)
      PROVE  ReplaySound(m)'
  <2>1. UNCHANGED scanVars /\ stop_flag' \in {stop_flag, TRUE} /\ status'.error = status.error
    BY <1>0, <1>6 DEF Start, StopBegin, StartRefused, StartFactoryFails, StopThread, StopJoined,
       StopFinish, engineVars, TypeOK
  <2> QED
    BY <1>0, <2>1 DEF ReplaySound, scanVars, TypeOK
<1>7. CASE UNCHANGED vars
  BY <1>0, <1>7 DEF vars, engineVars, scanVars, ReplaySound
<1> QED
  BY <1>2, <1>3, <1>4, <1>5, <1>6, <1>7 DEF Next, StartBody, StopBody

\* A scan thread ends by its finally block only.
LEMMA EndsByFinish ==
  ASSUME TypeInv, Unborn, [Next]_vars, NEW n \in Scans, Alive(n), pc'[n] = "dead"
  PROVE  pc[n] = "finish"
<1> USE DEF TypeInv
<1>1. ASSUME NEW m \in Scans, ScanStep(m) PROVE pc[n] = "finish"
  <2>1. CASE ReplayStep(m)
    BY <2>1 DEF ReplayStep, ReplayRead, ReplayEnd, ReplayFails, ReplayCheck, ScanAt, Alive, TypeOK
  <2>2. CASE LiveStep(m)
    BY <2>2 DEF LiveStep, RegisterCapture, OpenCapture, SettleAlive, SettleDead, Poll, GetPacket,
       GetTimesOut, Halt, ScanAt, Alive, TypeOK
  <2>3. CASE ProcessPacket(m)
    BY <2>3 DEF ProcessPacket, AfterPacket, ScanAt, Alive, TypeOK
  <2>4. CASE Finish(m)
    BY <2>4 DEF Finish, ScanAt, Alive, TypeOK
  <2> QED
    BY <1>1, <2>1, <2>2, <2>3, <2>4 DEF ScanStep
<1>2. ASSUME NEW m \in Scans, SnifferSettles(m) \/ SnifferExits(m) PROVE pc' = pc
  BY <1>2 DEF SnifferSettles, SnifferUp, SnifferFails, SnifferExits
<1>3. ASSUME NEW c \in Callers, StartLaunch(c) PROVE FALSE
  <2>1. PICK where \in {"next", "register", "stillborn"} : Publish(c, where)
    BY <1>3, LaunchPublishes
  <2>2. pc'[n] \in {pc[n], where}
    BY <2>1 DEF Publish, TypeOK
  <2> QED
    BY <2>2 DEF Alive
<1>4. ASSUME NEW c \in Callers, StopFinish(c) PROVE pc' = pc
  BY <1>4 DEF StopFinish, scanVars
<1>5. CASE UNCHANGED vars
  BY <1>5 DEF vars, scanVars, Alive
<1> QED
  BY <1>1, <1>2, <1>3, <1>4, <1>5, CallEffect DEF Next, StartBody, StopBody, Alive

\* With one caller and no join that times out, a replay that ends without a stop
\* request or an error has processed every packet of its file.
THEOREM ReplayComplete ==
  ASSUME "spawn" \notin Faults, "long_gap" \notin Faults, OneCallerOnly
  PROVE  Spec => ReplayIsComplete
<1>1. Init => ReplayInv
  BY InitOwn DEF ReplayInv, ReplaySound, Init
<1>2. ReplayInv /\ [Next]_vars => ReplayInv'
  BY StepReplay
<1>3. ReplayInv /\ [Next]_vars =>
        [\A n \in Scans :
           Alive(n) /\ pc'[n] = "dead" /\ IsReplay(n) /\ ~stop_flag /\ status.error # n
             => processed[n] = Packets]_vars
  <2> SUFFICES ASSUME ReplayInv, [Next]_vars, NEW n \in Scans,
                      Alive(n), pc'[n] = "dead", IsReplay(n), ~stop_flag, status.error # n
               PROVE  processed[n] = Packets
    OBVIOUS
  <2>1. pc[n] = "finish"
    BY EndsByFinish DEF ReplayInv, OwnInv, SoleInv, AliveInv, StaleInv
  <2> QED
    BY <2>1 DEF ReplayInv, ReplaySound, IsReplay
<1> QED
  BY <1>1, <1>2, <1>3, PTL DEF Spec, ReplayIsComplete
=============================================================================
