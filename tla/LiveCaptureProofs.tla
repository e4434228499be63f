-------------------------- MODULE LiveCaptureProofs --------------------------
(***************************************************************************)
(* Proofs about LiveCapture for every queue size and number of packets.     *)
(***************************************************************************)
EXTENDS LiveCapture, TLAPS

Places == {"poll", "get", "process", "publish", "halt", "final", "ended", "failed"}

\* The types the order of the packets does not need a bound for.
Typed ==
  /\ arrived \in Nat /\ dropped \in Nat /\ shown \in Nat /\ mark \in Nat /\ hand \in Nat
  /\ queue \in Seq(Nat) /\ log \in Seq(Nat)
  /\ Len(queue) <= QueueSize
  /\ sniffing \in BOOLEAN /\ stop_flag \in BOOLEAN
  /\ stopper \in {"idle", "capture", "join", "done"} /\ pc \in Places

LEMMA TypedIsTypeOK == Typed <=> TypeOK
BY DEF Typed, TypeOK, Places

\* The loop has a packet in hand exactly while it processes it.
HandInv == hand # NoPacket <=> pc = "process"

\* log, then hand, then queue: one increasing sequence of packets that arrived.
OrderInv ==
  /\ Increasing(log) /\ Increasing(queue)
  /\ \A j \in 1 .. Len(queue) : queue[j] >= 1 /\ queue[j] <= arrived
  /\ \A i \in 1 .. Len(log) : log[i] <= arrived
  /\ \A i \in 1 .. Len(log), j \in 1 .. Len(queue) : log[i] < queue[j]
  /\ hand # NoPacket =>
       /\ hand <= arrived
       /\ \A i \in 1 .. Len(log) : log[i] < hand
       /\ \A j \in 1 .. Len(queue) : hand < queue[j]

\* After the loop the sniffer is gone, so that the last look stays true.
EndInv ==
  /\ pc \in {"final", "ended"} => ~sniffing
  /\ pc = "ended" => shown = dropped

\* A stop request finds the loop with at most one packet to process.
BacklogInv ==
  stop_flag => /\ Len(log) <= mark + 1
               /\ pc \in {"get", "process"} => Len(log) = mark

CaptureInv ==
  /\ Typed /\ HandInv /\ OrderInv /\ EveryPacketAccounted /\ EndInv /\ BacklogInv

LEMMA InitCapture == Init => CaptureInv
<1> SUFFICES ASSUME Init PROVE CaptureInv
  OBVIOUS
<1>1. Typed
  <2>1. QueueSize \in Nat
    BY CaptureAssumption
  <2>2. queue = <<>> /\ log = <<>>
    BY DEF Init
  <2>3. queue \in Seq(Nat) /\ log \in Seq(Nat) /\ Len(queue) = 0
    BY <2>2
  <2>4. /\ arrived = 0 /\ dropped = 0 /\ shown = 0 /\ mark = 0 /\ hand = 0
        /\ sniffing = TRUE /\ stop_flag = FALSE /\ stopper = "idle" /\ pc = "poll"
    BY DEF Init, NoPacket
  <2>5. Len(queue) <= QueueSize
    BY <2>1, <2>3
  <2>6. arrived \in Nat /\ dropped \in Nat /\ shown \in Nat /\ mark \in Nat /\ hand \in Nat
    BY <2>4
  <2>7. sniffing \in BOOLEAN /\ stop_flag \in BOOLEAN
    BY <2>4
  <2> QED BY <2>3, <2>4, <2>5, <2>6, <2>7 DEF Typed, Places
<1>2. HandInv /\ EndInv /\ BacklogInv
  BY DEF Init, HandInv, EndInv, BacklogInv, NoPacket
<1>3. OrderInv
  BY DEF Init, OrderInv, Increasing, NoPacket
<1>4. EveryPacketAccounted
  BY DEF Init, EveryPacketAccounted, InHand, NoPacket
<1> QED BY <1>1, <1>2, <1>3, <1>4 DEF CaptureInv

-----------------------------------------------------------------------------
(* Sequences: what Append and Tail keep increasing *)

LEMMA AppendIncreasing ==
  ASSUME NEW s \in Seq(Nat), NEW x \in Nat, Increasing(s), \A i \in 1 .. Len(s) : s[i] < x
  PROVE  Increasing(Append(s, x))
BY DEF Increasing

LEMMA TailIncreasing ==
  ASSUME NEW s \in Seq(Nat), s # <<>>, Increasing(s)
  PROVE  /\ Increasing(Tail(s))
         /\ Tail(s) \in Seq(Nat) /\ Len(Tail(s)) = Len(s) - 1
         /\ Head(s) = s[1] /\ Len(s) >= 1
         /\ \A i \in 1 .. Len(Tail(s)) : Tail(s)[i] = s[i + 1] /\ i + 1 \in 1 .. Len(s)
         /\ \A i \in 1 .. Len(Tail(s)) : Head(s) < Tail(s)[i]
<1>1. /\ Tail(s) \in Seq(Nat) /\ Len(Tail(s)) = Len(s) - 1
      /\ Head(s) = s[1] /\ Len(s) >= 1 /\ Len(s) \in Nat
      /\ \A i \in 1 .. Len(Tail(s)) : Tail(s)[i] = s[i + 1] /\ i + 1 \in 1 .. Len(s)
  OBVIOUS
<1>2. Increasing(Tail(s))
  BY <1>1 DEF Increasing
<1>3. \A i \in 1 .. Len(Tail(s)) : Head(s) < Tail(s)[i]
  BY <1>1 DEF Increasing
<1> QED BY <1>1, <1>2, <1>3

-----------------------------------------------------------------------------
LEMMA EnqueueKeeps == CaptureInv /\ Enqueue => CaptureInv'
<1> SUFFICES ASSUME CaptureInv, Enqueue PROVE CaptureInv'
  OBVIOUS
<1> USE DEF CaptureInv
<1>1. /\ arrived' = arrived + 1 /\ queue' = Append(queue, arrived + 1) /\ dropped' = dropped
      /\ UNCHANGED <<sniffing, stop_flag, stopper, pc, hand, shown, log, mark>>
      /\ sniffing /\ Len(queue) < QueueSize
  BY DEF Enqueue, Arrive
<1>2. Typed'
  BY <1>1, CaptureAssumption DEF Typed
<1>3. Increasing(queue')
  BY <1>1, AppendIncreasing DEF Typed, OrderInv
<1>4. /\ Len(queue') = Len(queue) + 1
      /\ \A j \in 1 .. Len(queue') : queue'[j] = IF j = Len(queue) + 1 THEN arrived + 1
                                                                     ELSE queue[j]
  BY <1>1 DEF Typed
<1>5. OrderInv'
  BY <1>1, <1>3, <1>4 DEF OrderInv, Typed
<1>6. EveryPacketAccounted'
  <2>1. InHand' = InHand /\ InHand \in Nat
    BY <1>1 DEF InHand
  <2>2. Len(log) \in Nat /\ Len(log') = Len(log) /\ Len(queue) \in Nat
    BY <1>1 DEF Typed
  <2> QED BY <1>1, <1>4, <2>1, <2>2 DEF EveryPacketAccounted, Typed
<1> QED BY <1>1, <1>2, <1>5, <1>6 DEF HandInv, EndInv, BacklogInv

LEMMA DropKeeps == CaptureInv /\ Drop => CaptureInv'
<1> SUFFICES ASSUME CaptureInv, Drop PROVE CaptureInv'
  OBVIOUS
<1> USE DEF CaptureInv
<1>1. /\ arrived' = arrived + 1 /\ queue' = queue /\ dropped' = dropped + 1
      /\ UNCHANGED <<sniffing, stop_flag, stopper, pc, hand, shown, log, mark>>
      /\ sniffing
  BY DEF Drop, Arrive
<1>2. Typed' /\ HandInv' /\ EndInv' /\ BacklogInv'
  BY <1>1 DEF Typed, HandInv, EndInv, BacklogInv
<1>3. OrderInv'
  BY <1>1 DEF OrderInv, Typed, Increasing
<1>4. EveryPacketAccounted'
  <2>1. InHand' = InHand /\ InHand \in Nat
    BY <1>1 DEF InHand
  <2>2. Len(log) \in Nat /\ Len(log') = Len(log) /\ Len(queue) \in Nat
    BY <1>1 DEF Typed
  <2> QED BY <1>1, <2>1, <2>2 DEF EveryPacketAccounted, Typed
<1> QED BY <1>2, <1>3, <1>4

LEMMA GetKeeps == CaptureInv /\ Get => CaptureInv'
<1> SUFFICES ASSUME CaptureInv, Get PROVE CaptureInv'
  OBVIOUS
<1> USE DEF CaptureInv
<1>1. /\ pc = "get" /\ pc' = "process" /\ queue # <<>>
      /\ hand' = Head(queue) /\ queue' = Tail(queue)
      /\ UNCHANGED <<arrived, dropped, sniffing, stop_flag, stopper, shown, log, mark>>
  BY DEF Get, LoopAt
<1>2. /\ Increasing(queue') /\ queue' \in Seq(Nat) /\ Len(queue') = Len(queue) - 1
      /\ hand' = queue[1] /\ Len(queue) >= 1
      /\ \A i \in 1 .. Len(queue') : queue'[i] = queue[i + 1] /\ i + 1 \in 1 .. Len(queue)
      /\ \A i \in 1 .. Len(queue') : hand' < queue'[i]
  BY <1>1, TailIncreasing DEF Typed, OrderInv
<1>3. hand' \in Nat /\ hand' >= 1 /\ hand' <= arrived /\ hand = NoPacket
  BY <1>1, <1>2 DEF Typed, OrderInv, HandInv
<1>4. Typed' /\ HandInv'
  BY <1>1, <1>2, <1>3, CaptureAssumption DEF Typed, HandInv, Places, NoPacket
<1>5. OrderInv'
  BY <1>1, <1>2, <1>3 DEF OrderInv, Typed
<1>6. EveryPacketAccounted'
  BY <1>1, <1>2, <1>3 DEF EveryPacketAccounted, InHand, Typed, NoPacket
<1> QED BY <1>1, <1>4, <1>5, <1>6 DEF EndInv, BacklogInv

LEMMA ProcessKeeps == CaptureInv /\ (Process \/ ProcessRaises) => CaptureInv'
<1> SUFFICES ASSUME CaptureInv, Process \/ ProcessRaises PROVE CaptureInv'
  OBVIOUS
<1> USE DEF CaptureInv
<1>1. /\ pc = "process" /\ pc' \in {"publish", "failed"}
      /\ log' = Append(log, hand) /\ hand' = NoPacket
      /\ UNCHANGED <<arrived, queue, dropped, sniffing, stop_flag, stopper, shown, mark>>
  BY DEF Process, ProcessRaises, Processed, LoopAt, wireVars
<1>2. hand \in Nat /\ hand # NoPacket
  BY <1>1 DEF Typed, HandInv
<1>3. Increasing(log')
  BY <1>1, <1>2, AppendIncreasing DEF Typed, OrderInv
<1>4. /\ log' \in Seq(Nat) /\ Len(log') = Len(log) + 1
      /\ \A i \in 1 .. Len(log') : log'[i] = IF i = Len(log) + 1 THEN hand ELSE log[i]
  BY <1>1, <1>2 DEF Typed
<1>5. Typed' /\ HandInv' /\ EndInv'
  BY <1>1, <1>4 DEF Typed, HandInv, EndInv, Places, NoPacket
<1>6. OrderInv'
  BY <1>1, <1>2, <1>3, <1>4 DEF OrderInv, Typed
<1>7. EveryPacketAccounted'
  BY <1>1, <1>2, <1>4 DEF EveryPacketAccounted, InHand, Typed, NoPacket
<1>8. BacklogInv'
  BY <1>1, <1>4 DEF BacklogInv, Typed
<1> QED BY <1>5, <1>6, <1>7, <1>8

\* The other steps move no packet.
LEMMA OthersKeep ==
  CaptureInv /\ (Poll \/ GetTimesOut \/ Publish \/ Halt \/ LastLook \/ Stop) => CaptureInv'
<1> SUFFICES ASSUME CaptureInv, Poll \/ GetTimesOut \/ Publish \/ Halt \/ LastLook \/ Stop
             PROVE  CaptureInv'
  OBVIOUS
<1> USE DEF CaptureInv
<1>1. UNCHANGED <<arrived, queue, dropped, hand, log>>
  BY DEF Poll, GetTimesOut, Publish, Halt, LastLook, Stop, StopRequest, StopCapture,
         StopJoined, wireVars
<1>2. OrderInv'
  BY <1>1 DEF OrderInv, Increasing
<1>3. EveryPacketAccounted'
  BY <1>1 DEF EveryPacketAccounted, InHand
<1>4. Typed' /\ HandInv' /\ EndInv' /\ BacklogInv'
  <2> USE DEF LoopAt, StopperAt, Places
  <2>1. CASE Poll
    BY <2>1 DEF Poll, wireVars, Typed, HandInv, EndInv, BacklogInv
  <2>2. CASE GetTimesOut
    BY <2>2 DEF GetTimesOut, wireVars, Typed, HandInv, EndInv, BacklogInv
  <2>3. CASE Publish
    BY <2>3 DEF Publish, wireVars, Typed, HandInv, EndInv, BacklogInv
  <2>4. CASE Halt
    BY <2>4 DEF Halt, wireVars, Typed, HandInv, EndInv, BacklogInv
  <2>5. CASE LastLook
    BY <2>5 DEF LastLook, wireVars, Typed, HandInv, EndInv, BacklogInv
  <2>6. CASE StopRequest
    <3>1. Len(log) \in Nat /\ mark' = Len(log) /\ log' = log
      BY <2>6 DEF StopRequest, Typed
    <3> QED BY <2>6, <3>1 DEF StopRequest, wireVars, Typed, HandInv, EndInv, BacklogInv
  <2>7. CASE StopCapture
    BY <2>7 DEF StopCapture, wireVars, Typed, HandInv, EndInv, BacklogInv
  <2>8. CASE StopJoined
    BY <2>8 DEF StopJoined, wireVars, Typed, HandInv, EndInv, BacklogInv
  <2> QED BY <2>1, <2>2, <2>3, <2>4, <2>5, <2>6, <2>7, <2>8 DEF Stop
<1> QED BY <1>2, <1>3, <1>4

LEMMA StepCapture == CaptureInv /\ [Next]_vars => CaptureInv'
<1> SUFFICES ASSUME CaptureInv, [Next]_vars PROVE CaptureInv'
  OBVIOUS
<1>1. CASE Next
  BY <1>1, EnqueueKeeps, DropKeeps, GetKeeps, ProcessKeeps, OthersKeep DEF Next, Loop
<1>2. CASE UNCHANGED vars
  BY <1>2 DEF vars, wireVars, CaptureInv, Typed, HandInv, OrderInv, Increasing,
              EveryPacketAccounted, InHand, EndInv, BacklogInv
<1> QED BY <1>1, <1>2

LEMMA CaptureInvariant == Spec => []CaptureInv
BY InitCapture, StepCapture, PTL DEF Spec

\* Every variable keeps its type, and the queue its bound.
THEOREM CaptureTypeCorrect == Spec => []TypeOK
<1>1. CaptureInv => TypeOK
  BY TypedIsTypeOK DEF CaptureInv
<1> QED BY <1>1, CaptureInvariant, PTL

\* For every queue size: no packet the sniffer saw vanishes uncounted.
THEOREM NothingUncounted == Spec => []EveryPacketAccounted
<1>1. CaptureInv => EveryPacketAccounted
  BY DEF CaptureInv
<1> QED BY <1>1, CaptureInvariant, PTL

\* For every queue size: detectors see packets in the order of the wire, each once.
THEOREM OrderKept == Spec => []SeenInOrder
<1>1. CaptureInv => SeenInOrder
  BY DEF CaptureInv, OrderInv, SeenInOrder
<1> QED BY <1>1, CaptureInvariant, PTL

\* The number of drops shown after a scan is the true one.
THEOREM FinalCount == Spec => []FinalCountExact
<1>1. CaptureInv => FinalCountExact
  BY DEF CaptureInv, EndInv, FinalCountExact
<1> QED BY <1>1, CaptureInvariant, PTL

\* However long the queue, a stop request lets at most one more packet through.
THEOREM BacklogSkipped == Spec => []StopSkipsBacklog
<1>1. CaptureInv => StopSkipsBacklog
  BY DEF CaptureInv, BacklogInv, StopSkipsBacklog
<1> QED BY <1>1, CaptureInvariant, PTL
=============================================================================
