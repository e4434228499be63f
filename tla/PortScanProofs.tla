---------------------------- MODULE PortScanProofs ----------------------------
(***************************************************************************)
(* Proofs about PortScan and ExpiringSet, for any sources, ports, window,    *)
(* threshold and cooldown: what eviction leaves of a deque, and when a       *)
(* source is reported.                                                       *)
(***************************************************************************)
EXTENDS PortScan, FiniteSetTheorems, SequenceTheorems, WellFoundedInduction, TLAPS

Entry == [time : Nat, value : Ports]
Packet == [time : Nat, dst : Targets, port : Ports]

\* The deque's stamps do not go back.
Ordered(dq) == \A i, j \in 1 .. Len(dq) : i <= j => dq[i].time <= dq[j].time

-----------------------------------------------------------------------------
(* Lemmas about ExpiringSet *)

\* A non-empty set of numbers has a least one.
LEMMA LeastNumber ==
  ASSUME NEW T \in SUBSET Nat, T # {}
  PROVE  \E x \in T : \A y \in T : x <= y
<1> DEFINE R == StrictSubsetOrdering(Nat)
           F == FiniteSubsetsOf(Nat)
           U == {0 .. x : x \in T}
<1>1. IsWellFoundedOn(R, F)
  BY FS_StrictSubsetOrderingWellFounded
<1>2. U \subseteq F /\ U # {}
  <2>1. \A x \in T : 0 .. x \in SUBSET Nat /\ IsFiniteSet(0 .. x)
    <3> TAKE x \in T
    <3>1. 0 \in Int /\ x \in Int
      OBVIOUS
    <3> QED
      BY <3>1, FS_Interval
  <2>2. \A x \in T : 0 .. x \in F
    BY <2>1 DEF FiniteSubsetsOf
  <2> QED
    BY <2>2
<1>3. \A x, y \in Nat : y < x => <<0 .. y, 0 .. x>> \in R
  <2> TAKE x, y \in Nat
  <2> HAVE y < x
  <2>1. 0 .. y \subseteq 0 .. x /\ x \in 0 .. x /\ x \notin 0 .. y
    OBVIOUS
  <2>2. 0 .. y \in SUBSET Nat /\ 0 .. x \in SUBSET Nat /\ 0 .. y # 0 .. x
    BY <2>1
  <2> QED
    BY <2>1, <2>2 DEF StrictSubsetOrdering
<1> HIDE DEF R, F
<1>4. PICK m \in U : \A u \in U : ~ (<<u, m>> \in R)
  <2> HIDE DEF U
  <2> QED BY <1>1, <1>2, WFMin
<1>5. PICK x \in T : m = 0 .. x
  OBVIOUS
<1>6. \A y \in T : ~(y < x)
  BY <1>3, <1>4, <1>5
<1> QED
  BY <1>6

\* The loop of popleft() stops at the first entry that is not too old, or at
\* the end.
LEMMA FirstKeptExists ==
  ASSUME NEW dq \in Seq(Entry), NEW t \in Nat
  PROVE  /\ FirstKept(dq, t) \in 1 .. Len(dq) + 1
         /\ \A j \in 1 .. FirstKept(dq, t) - 1 : Expired(dq[j], t)
         /\ FirstKept(dq, t) <= Len(dq) => ~Expired(dq[FirstKept(dq, t)], t)
<1> DEFINE T == {i \in 1 .. Len(dq) + 1 : i <= Len(dq) => ~Expired(dq[i], t)}
<1>1. Len(dq) \in Nat
  OBVIOUS
<1>2. T \in SUBSET Nat /\ Len(dq) + 1 \in T
  BY <1>1
<1>3. PICK x \in T : \A y \in T : x <= y
  <2> HIDE DEF T
  <2> QED BY <1>2, LeastNumber
<1>4. \A j \in 1 .. x - 1 : Expired(dq[j], t)
  BY <1>1, <1>3
<1>5. x \in 1 .. Len(dq) + 1 /\ (x <= Len(dq) => ~Expired(dq[x], t))
  BY <1>3
<1> QED
  BY <1>4, <1>5 DEF FirstKept

\* Eviction leaves a deque in order, and of one in order exactly the entries
\* that are not too old.
LEMMA EvictKeeps ==
  ASSUME NEW dq \in Seq(Entry), NEW t \in Nat
  PROVE  /\ Evict(dq, t) \in Seq(Entry)
         /\ Ordered(dq) =>
              /\ Ordered(Evict(dq, t))
              /\ \A i \in 1 .. Len(Evict(dq, t)) :
                   /\ ~Expired(Evict(dq, t)[i], t)
                   /\ \E j \in 1 .. Len(dq) : dq[j] = Evict(dq, t)[i]
              /\ \A j \in 1 .. Len(dq) : ~Expired(dq[j], t) =>
                   \E i \in 1 .. Len(Evict(dq, t)) : Evict(dq, t)[i] = dq[j]
<1> DEFINE k == FirstKept(dq, t)
           e == Evict(dq, t)
<1>1. /\ Len(dq) \in Nat /\ k \in 1 .. Len(dq) + 1
      /\ \A j \in 1 .. k - 1 : Expired(dq[j], t)
      /\ k <= Len(dq) => ~Expired(dq[k], t)
  BY FirstKeptExists
<1>2. e = SubSeq(dq, k, Len(dq))
  BY DEF Evict
<1> HIDE DEF k, e
<1>3. \A i \in k .. Len(dq) : dq[i] \in Entry
  BY <1>1
<1>4. e \in Seq(Entry) /\ Len(e) = Len(dq) - k + 1 /\ Len(e) \in Nat
      /\ \A i \in 1 .. Len(e) : e[i] = dq[k + i - 1] /\ k + i - 1 \in 1 .. Len(dq)
  <2>1. \A i \in k .. Len(dq) : dq[i] \in Entry
    BY <1>3
  <2>2. /\ e \in Seq(Entry)
        /\ Len(e) = IF k <= Len(dq) THEN Len(dq) - k + 1 ELSE 0
        /\ \A i \in 1 .. Len(dq) - k + 1 : e[i] = dq[k + i - 1]
    BY <1>1, <1>2, SubSeqProperties
  <2>3. Len(e) = Len(dq) - k + 1 /\ Len(e) \in Nat
    BY <2>2, <1>1
  <2> QED
    BY <2>2, <2>3, <1>1
<1>5. ASSUME Ordered(dq)
      PROVE  /\ Ordered(e)
             /\ \A i \in 1 .. Len(e) :
                  ~Expired(e[i], t) /\ \E j \in 1 .. Len(dq) : dq[j] = e[i]
             /\ \A j \in 1 .. Len(dq) : ~Expired(dq[j], t) =>
                  \E i \in 1 .. Len(e) : e[i] = dq[j]
  <2>1. Ordered(e)
    <3> SUFFICES ASSUME NEW a \in 1 .. Len(e), NEW b \in 1 .. Len(e), a <= b
                 PROVE  e[a].time <= e[b].time
      BY DEF Ordered
    <3>1. /\ e[a] = dq[k + a - 1] /\ k + a - 1 \in 1 .. Len(dq)
          /\ e[b] = dq[k + b - 1] /\ k + b - 1 \in 1 .. Len(dq)
          /\ k + a - 1 <= k + b - 1
      BY <1>1, <1>4
    <3> QED
      BY <3>1, <1>5 DEF Ordered
  <2>2. ASSUME NEW i \in 1 .. Len(e)
        PROVE  ~Expired(e[i], t) /\ \E j \in 1 .. Len(dq) : dq[j] = e[i]
    <3>1. k + i - 1 \in 1 .. Len(dq) /\ e[i] = dq[k + i - 1] /\ k <= Len(dq)
          /\ k \in 1 .. Len(dq) /\ k <= k + i - 1
      BY <1>1, <1>4
    <3>2. dq[k] \in Entry /\ dq[k + i - 1] \in Entry
      BY <3>1
    <3>3. dq[k].time <= dq[k + i - 1].time
      BY <3>1, <1>5 DEF Ordered
    <3>4. ~Expired(dq[k], t)
      BY <1>1, <3>1
    <3>5. ~Expired(dq[k + i - 1], t)
      BY <3>2, <3>3, <3>4, WindowAssumption DEF Expired, Entry
    <3> QED
      BY <3>1, <3>5
  <2>3. ASSUME NEW j \in 1 .. Len(dq), ~Expired(dq[j], t)
        PROVE  \E i \in 1 .. Len(e) : e[i] = dq[j]
    <3>1. j >= k
      BY <1>1, <2>3
    <3>2. j - k + 1 \in 1 .. Len(e) /\ k + (j - k + 1) - 1 = j
      BY <1>1, <1>4, <3>1
    <3> QED
      BY <3>2, <1>4
  <2> QED
    BY <2>1, <2>2, <2>3
<1> QED
  BY <1>4, <1>5 DEF e

-----------------------------------------------------------------------------
(* The inductive invariant *)

ScanTypes ==
  /\ now \in Nat /\ now >= Start /\ slips \in Nat /\ sent \in Nat
  /\ entries \in [Sources -> Seq(Entry)] /\ last_alert \in [Sources -> Nat]
  /\ touched \in [Sources -> SUBSET Packet]
  /\ \A a \in alerts : a.src \in Sources /\ a.time \in Nat

\* The deque of a source against its packets: in order, of nothing else, and
\* without a gap among what is not too old.
Agrees(dq, packets, time) ==
  /\ Ordered(dq)
  /\ \A i \in 1 .. Len(dq) :
       \E t \in packets : t.time = dq[i].time /\ t.port = dq[i].value
  /\ \A t \in packets :
       /\ t.time <= time
       /\ t.time + Window >= time =>
            \E i \in 1 .. Len(dq) : dq[i].time = t.time /\ dq[i].value = t.port

Agreeing == slips = 0 => \A s \in Sources : Agrees(entries[s], touched[s], now)

FewPackets == \A s \in Sources : IsFiniteSet(touched[s])

\* A cooldown runs from the last report, if there was one.
CooldownRuns ==
  /\ \A a \in alerts : a.time <= last_alert[a.src]
  /\ \A s \in Sources : last_alert[s] # 0 =>
       \E a \in alerts : a.src = s /\ a.time = last_alert[s]

ReportsApart == \A a, b \in alerts : a.src = b.src /\ a # b => Apart(a, b)

ReportedIfDue ==
  \A s \in Sources :
    slips = 0 /\ Cardinality(TruePorts(s)) >= Threshold =>
      \E a \in alerts : a.src = s /\ Fresh(a)

ScanInv ==
  /\ ScanTypes /\ Agreeing /\ FewPackets /\ CooldownRuns /\ ReportsApart /\ ReportedIfDue

-----------------------------------------------------------------------------
(* What a look-up sees *)

PortsWithin(packets, time) ==
  {t.port : t \in {u \in packets : u.time + Window >= time}}

\* A look-up in a deque that agrees with the packets sees the ports of the
\* window.
LEMMA LookUpIsExact ==
  ASSUME NEW dq \in Seq(Entry), NEW packets \in SUBSET Packet, NEW time \in Nat,
         Agrees(dq, packets, time)
  PROVE  DistinctValues(dq, time) = PortsWithin(packets, time)
<1> DEFINE e == Evict(dq, time)
<1>1. /\ e \in Seq(Entry)
      /\ \A i \in 1 .. Len(e) :
           ~Expired(e[i], time) /\ \E j \in 1 .. Len(dq) : dq[j] = e[i]
      /\ \A j \in 1 .. Len(dq) : ~Expired(dq[j], time) =>
           \E i \in 1 .. Len(e) : e[i] = dq[j]
  BY EvictKeeps DEF Agrees
<1>2. DistinctValues(dq, time) = {e[i].value : i \in 1 .. Len(e)}
  BY DEF DistinctValues
<1> HIDE DEF e
<1>3. \A j \in 1 .. Len(dq) : dq[j].time \in Nat
  <2>1. \A j \in 1 .. Len(dq) : dq[j] \in Entry
    OBVIOUS
  <2> QED
    BY <2>1 DEF Entry
<1>4. ASSUME NEW i \in 1 .. Len(e) PROVE e[i].value \in PortsWithin(packets, time)
  <2>1. PICK j \in 1 .. Len(dq) : dq[j] = e[i]
    BY <1>1
  <2>2. PICK t \in packets : t.time = dq[j].time /\ t.port = dq[j].value
    BY DEF Agrees
  <2>3. t.time + Window >= time
    BY <1>1, <1>3, <2>1, <2>2, WindowAssumption DEF Expired
  <2> QED
    BY <2>1, <2>2, <2>3 DEF PortsWithin
<1>5. ASSUME NEW t \in packets, t.time + Window >= time
      PROVE  \E i \in 1 .. Len(e) : e[i].value = t.port
  <2>1. PICK j \in 1 .. Len(dq) : dq[j].time = t.time /\ dq[j].value = t.port
    BY <1>5 DEF Agrees
  <2>2. ~Expired(dq[j], time)
    BY <1>3, <1>5, <2>1, WindowAssumption DEF Expired
  <2>3. PICK i \in 1 .. Len(e) : e[i] = dq[j]
    BY <1>1, <2>2
  <2> QED
    BY <2>1, <2>3
<1>6. PortsWithin(packets, time) \subseteq {e[i].value : i \in 1 .. Len(e)}
  BY <1>5 DEF PortsWithin
<1> QED
  BY <1>2, <1>4, <1>6

\* Adding a packet to deque and packets, now, keeps them in agreement.
LEMMA AddAgrees ==
  ASSUME NEW dq \in Seq(Entry), NEW packets \in SUBSET Packet, NEW time \in Nat,
         NEW p \in Packet, p.time = time, Agrees(dq, packets, time)
  PROVE  Agrees(Add(dq, time, p.port), packets \cup {p}, time)
<1> DEFINE new == [time |-> time, value |-> p.port]
           longer == Append(dq, new)
           e == Add(dq, time, p.port)
<1>1. new \in Entry /\ new.time = time /\ new.value = p.port
  BY DEF Entry, Packet
<1>2. e = Evict(longer, time)
  BY DEF Add
<1> HIDE DEF new
<1>3. /\ longer \in Seq(Entry) /\ Len(dq) \in Nat /\ Len(longer) = Len(dq) + 1
      /\ longer[Len(dq) + 1] = new /\ \A i \in 1 .. Len(dq) : longer[i] = dq[i]
  BY <1>1
<1> HIDE DEF longer, e
<1>4. \A i \in 1 .. Len(dq) : dq[i].time \in Nat /\ dq[i].time <= time
  <2> TAKE i \in 1 .. Len(dq)
  <2>1. PICK t \in packets : t.time = dq[i].time
    BY DEF Agrees
  <2> QED
    BY <2>1 DEF Agrees, Packet
<1>5. Ordered(longer)
  <2> SUFFICES ASSUME NEW i \in 1 .. Len(longer), NEW j \in 1 .. Len(longer), i <= j
               PROVE  longer[i].time <= longer[j].time
    BY DEF Ordered
  <2>1. CASE j \in 1 .. Len(dq)
    <3>1. i \in 1 .. Len(dq)
      BY <1>3, <2>1
    <3> QED
      BY <1>3, <2>1, <3>1 DEF Agrees, Ordered
  <2>2. CASE j = Len(dq) + 1 /\ i \in 1 .. Len(dq)
    BY <1>1, <1>3, <1>4, <2>2
  <2>3. CASE j = Len(dq) + 1 /\ i = Len(dq) + 1
    BY <1>1, <1>3, <2>3
  <2> QED
    BY <1>3, <2>1, <2>2, <2>3
<1>6. /\ Ordered(e)
      /\ \A i \in 1 .. Len(e) : \E j \in 1 .. Len(longer) : longer[j] = e[i]
      /\ \A j \in 1 .. Len(longer) : ~Expired(longer[j], time) =>
           \E i \in 1 .. Len(e) : e[i] = longer[j]
  <2> DEFINE ev == Evict(longer, time)
  <2>1. /\ Ordered(ev)
        /\ \A i \in 1 .. Len(ev) : ~Expired(ev[i], time) /\ \E j \in 1 .. Len(longer) : longer[j] = ev[i]
        /\ \A j \in 1 .. Len(longer) : ~Expired(longer[j], time) =>
             \E i \in 1 .. Len(ev) : ev[i] = longer[j]
    BY <1>3, <1>5, EvictKeeps
  <2> HIDE DEF ev
  <2>2. e = ev
    BY <1>2 DEF ev
  <2> QED
    BY <2>1, <2>2
<1>7. ASSUME NEW i \in 1 .. Len(e)
      PROVE  \E t \in packets \cup {p} : t.time = e[i].time /\ t.port = e[i].value
  <2>1. PICK j \in 1 .. Len(longer) : longer[j] = e[i]
    BY <1>6
  <2>2. CASE j \in 1 .. Len(dq)
    BY <1>3, <2>1, <2>2 DEF Agrees
  <2>3. CASE j = Len(dq) + 1
    BY <1>1, <1>3, <2>1, <2>3
  <2> QED
    BY <1>3, <2>2, <2>3
<1>8. ASSUME NEW t \in packets \cup {p}
      PROVE  /\ t.time <= time
             /\ t.time + Window >= time =>
                  \E i \in 1 .. Len(e) : e[i].time = t.time /\ e[i].value = t.port
  <2>1. CASE t \in packets
    <3>1. t.time <= time /\ t.time \in Nat
      BY <2>1 DEF Agrees, Packet
    <3>2. ASSUME t.time + Window >= time
          PROVE  \E i \in 1 .. Len(e) : e[i].time = t.time /\ e[i].value = t.port
      <4>1. PICK j \in 1 .. Len(dq) : dq[j].time = t.time /\ dq[j].value = t.port
        BY <2>1, <3>2 DEF Agrees
      <4>2. j \in 1 .. Len(longer) /\ longer[j] = dq[j] /\ ~Expired(longer[j], time)
        BY <1>3, <3>1, <3>2, <4>1, WindowAssumption DEF Expired
      <4>3. PICK i \in 1 .. Len(e) : e[i] = longer[j]
        BY <1>6, <4>2
      <4> QED
        BY <4>1, <4>2, <4>3
    <3> QED
      BY <3>1, <3>2
  <2>2. CASE t = p
    <3>1. Len(dq) + 1 \in 1 .. Len(longer) /\ ~Expired(longer[Len(dq) + 1], time)
      BY <1>1, <1>3, WindowAssumption DEF Expired
    <3>2. PICK i \in 1 .. Len(e) : e[i] = new
      BY <1>3, <1>6, <3>1
    <3> QED
      BY <1>1, <2>2, <3>2
  <2> QED
    BY <2>1, <2>2
<1>9. Agrees(e, packets \cup {p}, time)
  BY <1>6, <1>7, <1>8 DEF Agrees
<1> QED
  BY <1>9 DEF e

\* Only finitely many ports, and none that come with time alone.
LEMMA PortsOfFew ==
  ASSUME NEW packets \in SUBSET Packet, IsFiniteSet(packets), NEW time \in Nat
  PROVE  /\ IsFiniteSet(PortsWithin(packets, time))
         /\ Cardinality(PortsWithin(packets, time)) \in Nat
         /\ Cardinality(PortsWithin(packets, time + 1)) <= Cardinality(PortsWithin(packets, time))
<1> DEFINE W(n) == {u \in packets : u.time + Window >= n}
           f == [u \in W(time) |-> u.port]
<1>1. IsFiniteSet(W(time))
  <2>1. W(time) \in SUBSET packets
    OBVIOUS
  <2> HIDE DEF W
  <2> QED
    BY <2>1, FS_Subset
<1>2. f \in Surjection(W(time), PortsWithin(packets, time))
  BY DEF Surjection, PortsWithin
<1>3. IsFiniteSet(PortsWithin(packets, time))
  <2> HIDE DEF W, f
  <2> QED
    BY <1>1, <1>2, FS_Surjection
<1>4. PortsWithin(packets, time + 1) \in SUBSET PortsWithin(packets, time)
  BY WindowAssumption DEF PortsWithin, Packet
<1> HIDE DEF W, f
<1> QED
  BY <1>3, <1>4, FS_Subset, FS_CardinalityType

-----------------------------------------------------------------------------
(* Initial states and steps *)

LEMMA InitScan == Init => ScanInv
<1> SUFFICES ASSUME Init PROVE ScanInv
  OBVIOUS
<1>1. <<>> \in Seq(Entry) /\ Len(<<>>) = 0
  BY EmptySeq
<1>2. ScanTypes
  BY <1>1, ScanAssumption DEF Init, ScanTypes
<1>3. Agreeing
  BY <1>1 DEF Init, Agreeing, Agrees, Ordered
<1>4. FewPackets
  BY FS_EmptySet DEF Init, FewPackets
<1>5. CooldownRuns /\ ReportsApart
  BY DEF Init, CooldownRuns, ReportsApart
<1>6. ReportedIfDue
  <2> SUFFICES ASSUME NEW s \in Sources PROVE ~(Cardinality(TruePorts(s)) >= Threshold)
    BY DEF ReportedIfDue
  <2>1. TruePorts(s) = {}
    BY DEF Init, TruePorts, Recent
  <2> QED
    BY <2>1, FS_EmptySet, ScanAssumption
<1> QED
  BY <1>2, <1>3, <1>4, <1>5, <1>6 DEF ScanInv

\* The clock moves: time that passes makes nobody's count of ports grow, and
\* time that is taken back voids what depends on the order of the stamps.
LEMMA ClockMoves ==
  ASSUME ScanInv, Tick \/ SetBack
  PROVE  ScanInv'
<1>1. /\ UNCHANGED <<entries, last_alert, touched, alerts, sent>>
      /\ (now' = now + 1 /\ slips' = slips) \/ (slips' = slips + 1 /\ now' \in Start .. now - 1)
  BY DEF Tick, SetBack
<1>2. ScanTypes'
  BY <1>1, ScanAssumption DEF ScanInv, ScanTypes
<1>3. FewPackets' /\ CooldownRuns' /\ ReportsApart'
  BY <1>1 DEF ScanInv, FewPackets, CooldownRuns, ReportsApart, Apart
<1>4. slips' = 0 => slips = 0 /\ now' = now + 1
  BY <1>1 DEF ScanInv, ScanTypes
<1>5. Agreeing'
  <2> SUFFICES ASSUME slips' = 0, NEW s \in Sources PROVE Agrees(entries[s], touched[s], now + 1)
    BY <1>1, <1>4 DEF Agreeing
  <2>1. Agrees(entries[s], touched[s], now)
    BY <1>4 DEF ScanInv, Agreeing
  <2>2. \A t \in touched[s] : t.time \in Nat
    BY DEF ScanInv, ScanTypes, Packet
  <2> QED
    BY <2>1, <2>2, WindowAssumption DEF Agrees, ScanInv, ScanTypes
<1>6. ReportedIfDue'
  <2> SUFFICES ASSUME NEW s \in Sources, slips' = 0, Cardinality(TruePorts(s)') >= Threshold
               PROVE  \E a \in alerts' : a.src = s /\ Fresh(a)'
    BY DEF ReportedIfDue
  <2>1. TruePorts(s) = PortsWithin(touched[s], now)
        /\ TruePorts(s)' = PortsWithin(touched[s], now + 1)
    BY <1>1, <1>4 DEF TruePorts, Recent, PortsWithin
  <2>2. /\ Cardinality(PortsWithin(touched[s], now)) \in Nat
        /\ Cardinality(PortsWithin(touched[s], now + 1)) <= Cardinality(PortsWithin(touched[s], now))
        /\ Cardinality(PortsWithin(touched[s], now + 1)) \in Nat
    <3>1. touched[s] \in SUBSET Packet /\ IsFiniteSet(touched[s]) /\ now \in Nat /\ now + 1 \in Nat
      BY DEF ScanInv, ScanTypes, FewPackets
    <3> QED
      BY <3>1, PortsOfFew
  <2>3. Cardinality(TruePorts(s)) >= Threshold
    BY <2>1, <2>2, ScanAssumption
  <2>4. PICK a \in alerts : a.src = s /\ Fresh(a)
    BY <1>4, <2>3 DEF ScanInv, ReportedIfDue
  <2> QED
    BY <1>1, <2>4 DEF Fresh
<1> QED
  BY <1>2, <1>3, <1>5, <1>6 DEF ScanInv

\* What a packet changes whether or not it is reported: the deque and the
\* packets of its source, which stay in agreement.
LEMMA PacketSeen ==
  ASSUME ScanInv, NEW s \in Sources, NEW d \in Targets, NEW p \in Ports, Seen(s, d, p)
  PROVE  /\ entries' \in [Sources -> Seq(Entry)] /\ touched' \in [Sources -> SUBSET Packet]
         /\ now' = now /\ slips' = slips /\ sent' \in Nat
         /\ \A u \in Sources \ {s} : entries'[u] = entries[u] /\ touched'[u] = touched[u]
         /\ FewPackets' /\ Agreeing'
<1> DEFINE pk == [time |-> now, dst |-> d, port |-> p]
<1>0. /\ now \in Nat /\ sent \in Nat /\ entries \in [Sources -> Seq(Entry)]
      /\ touched \in [Sources -> SUBSET Packet] /\ FewPackets /\ Agreeing
  BY DEF ScanInv, ScanTypes
<1>1. pk \in Packet /\ pk.time = now /\ pk.port = p
  BY <1>0 DEF Packet
<1>2. /\ touched' = [touched EXCEPT ![s] = touched[s] \cup {pk}]
      /\ entries' = [entries EXCEPT ![s] = Add(entries[s], now, p)]
      /\ now' = now /\ slips' = slips /\ sent' = sent + 1
  BY DEF Seen
<1> HIDE DEF pk
<1>3. Add(entries[s], now, p) \in Seq(Entry)
  <2>1. [time |-> now, value |-> p] \in Entry /\ entries[s] \in Seq(Entry)
    BY <1>0 DEF Entry
  <2>2. Append(entries[s], [time |-> now, value |-> p]) \in Seq(Entry)
    BY <2>1
  <2> QED
    BY <1>0, <2>2, EvictKeeps DEF Add
<1>4. /\ entries' \in [Sources -> Seq(Entry)] /\ touched' \in [Sources -> SUBSET Packet]
      /\ entries'[s] = Add(entries[s], now, p) /\ touched'[s] = touched[s] \cup {pk}
      /\ \A u \in Sources \ {s} : entries'[u] = entries[u] /\ touched'[u] = touched[u]
  BY <1>0, <1>1, <1>2, <1>3
<1>5. FewPackets'
  <2>1. IsFiniteSet(touched[s] \cup {pk})
    BY <1>0, FS_AddElement DEF FewPackets
  <2> QED
    BY <1>0, <1>4, <2>1 DEF FewPackets
<1>6. Agreeing'
  <2> SUFFICES ASSUME slips = 0, NEW u \in Sources PROVE Agrees(entries'[u], touched'[u], now)
    BY <1>2 DEF Agreeing
  <2>1. Agrees(entries[u], touched[u], now)
    BY <1>0 DEF Agreeing
  <2>2. CASE u = s
    <3>1. entries[s] \in Seq(Entry) /\ touched[s] \in SUBSET Packet
      BY <1>0
    <3>2. Agrees(Add(entries[s], now, pk.port), touched[s] \cup {pk}, now)
      BY <1>0, <1>1, <2>1, <2>2, <3>1, AddAgrees
    <3> QED
      BY <1>1, <1>4, <2>2, <3>2
  <2>3. CASE u # s
    BY <1>4, <2>1, <2>3
  <2> QED
    BY <2>2, <2>3
<1> QED
  BY <1>0, <1>2, <1>4, <1>5, <1>6

\* For the sources a packet is not from, nothing becomes due.
LEMMA OthersNotDue ==
  ASSUME ScanInv, NEW s \in Sources, NEW d \in Targets, NEW p \in Ports, Seen(s, d, p),
         alerts \subseteq alerts', NEW u \in Sources \ {s},
         slips' = 0, Cardinality(TruePorts(u)') >= Threshold
  PROVE  \E a \in alerts' : a.src = u /\ Fresh(a)'
<1>1. now' = now /\ slips' = slips /\ touched'[u] = touched[u]
  BY PacketSeen
<1>2. TruePorts(u)' = TruePorts(u)
  BY <1>1 DEF TruePorts, Recent
<1>3. PICK a \in alerts : a.src = u /\ Fresh(a)
  BY <1>1, <1>2 DEF ScanInv, ReportedIfDue
<1> QED
  BY <1>1, <1>3 DEF Fresh

\* The detector counts what the property counts.
LEMMA DistinctIsTrue ==
  ASSUME ScanInv, NEW s \in Sources, NEW d \in Targets, NEW p \in Ports, Seen(s, d, p),
         slips = 0
  PROVE  Distinct(s) = Cardinality(TruePorts(s)') /\ Distinct(s) \in Nat
<1>1. /\ entries'[s] \in Seq(Entry) /\ touched'[s] \in SUBSET Packet /\ now \in Nat
      /\ now' = now /\ IsFiniteSet(touched'[s]) /\ Agrees(entries'[s], touched'[s], now)
  BY PacketSeen DEF ScanInv, ScanTypes, Agreeing, FewPackets
<1>2. DistinctValues(entries'[s], now) = PortsWithin(touched'[s], now)
  BY <1>1, LookUpIsExact
<1>3. TruePorts(s)' = PortsWithin(touched'[s], now)
  BY <1>1 DEF TruePorts, Recent, PortsWithin
<1>4. Cardinality(PortsWithin(touched'[s], now)) \in Nat
  BY <1>1, PortsOfFew
<1> QED
  BY <1>2, <1>3, <1>4 DEF Distinct

\* A packet that is not reported: below the threshold, or within a cooldown
\* that a report began.
LEMMA StaysQuiet ==
  ASSUME ScanInv, NEW s \in Sources, NEW d \in Targets, NEW p \in Ports, Quiet(s, d, p)
  PROVE  ScanInv'
<1>1. Seen(s, d, p) /\ UNCHANGED <<last_alert, alerts>>
      /\ (Distinct(s) < Threshold \/ InCooldown(s))
  BY DEF Quiet
<1>2. /\ entries' \in [Sources -> Seq(Entry)] /\ touched' \in [Sources -> SUBSET Packet]
      /\ now' = now /\ slips' = slips /\ sent' \in Nat /\ FewPackets' /\ Agreeing'
  BY <1>1, PacketSeen
<1>3. ScanTypes' /\ CooldownRuns' /\ ReportsApart'
  BY <1>1, <1>2 DEF ScanInv, ScanTypes, CooldownRuns, ReportsApart, Apart
<1>4. ReportedIfDue'
  <2> SUFFICES ASSUME NEW u \in Sources, slips' = 0, Cardinality(TruePorts(u)') >= Threshold
               PROVE  \E a \in alerts' : a.src = u /\ Fresh(a)'
    BY DEF ReportedIfDue
  <2>1. CASE u # s
    BY <1>1, <2>1, OthersNotDue
  <2>2. CASE u = s
    <3>1. InCooldown(s)
      BY <1>1, <1>2, <2>2, DistinctIsTrue, ScanAssumption
    <3>2. /\ now \in Nat /\ now >= Start /\ last_alert[s] \in Nat
          /\ now < last_alert[s] + Cooldown
      BY <3>1 DEF InCooldown, ScanInv, ScanTypes
    <3>3. last_alert[s] # 0
      BY <3>2, ScanAssumption
    <3>4. PICK a \in alerts : a.src = s /\ a.time = last_alert[s]
      BY <3>3 DEF ScanInv, CooldownRuns
    <3>5. \A t \in touched'[s] : t.time <= now /\ t.time \in Nat
      BY <1>2 DEF Agreeing, Agrees, Packet
    <3>6. Fresh(a)'
      BY <3>2, <3>4, <3>5, ScanAssumption DEF Fresh
    <3> QED
      BY <1>1, <2>2, <3>4, <3>6
  <2> QED
    BY <2>1, <2>2
<1> QED
  BY <1>2, <1>3, <1>4 DEF ScanInv

\* A packet that is reported: the last cooldown of its source is over, and a
\* new one begins.
LEMMA IsReported ==
  ASSUME ScanInv, NEW s \in Sources, NEW d \in Targets, NEW p \in Ports, Report(s, d, p)
  PROVE  ScanInv'
<1>1. PICK n : n = Distinct(s)
  OBVIOUS
<1> DEFINE al == [src |-> s, dst |-> d, time |-> now, count |-> n]
<1>2. /\ Seen(s, d, p) /\ ~InCooldown(s)
      /\ last_alert' = [last_alert EXCEPT ![s] = now] /\ alerts' = alerts \cup {al}
  BY <1>1 DEF Report
<1>3. PICK new : new = al
  OBVIOUS
<1>4. new.src = s /\ new.time = now /\ alerts' = alerts \cup {new}
  BY <1>2, <1>3
<1> HIDE DEF al
<1>5. /\ entries' \in [Sources -> Seq(Entry)] /\ touched' \in [Sources -> SUBSET Packet]
      /\ now' = now /\ slips' = slips /\ sent' \in Nat /\ FewPackets' /\ Agreeing'
  BY <1>2, PacketSeen
<1>6. /\ now \in Nat /\ last_alert \in [Sources -> Nat] /\ slips \in Nat /\ now >= Start
      /\ now >= last_alert[s] + Cooldown
      /\ \A a \in alerts : a.src \in Sources /\ a.time \in Nat
      /\ \A a \in alerts : a.time <= last_alert[a.src]
  BY <1>2, ScanAssumption DEF InCooldown, ScanInv, ScanTypes, CooldownRuns
<1>7. /\ last_alert' \in [Sources -> Nat] /\ last_alert'[s] = now
      /\ \A u \in Sources \ {s} : last_alert'[u] = last_alert[u]
  BY <1>2, <1>6
<1>8. ScanTypes'
  BY <1>4, <1>5, <1>6, <1>7 DEF ScanTypes
<1>9. CooldownRuns'
  <2>1. ASSUME NEW a \in alerts' PROVE a.time <= last_alert'[a.src]
    <3>1. CASE a = new
      BY <1>4, <1>6, <1>7, <3>1
    <3>2. CASE a \in alerts /\ a.src = s
      BY <1>6, <1>7, <3>2, ScanAssumption
    <3>3. CASE a \in alerts /\ a.src # s
      BY <1>6, <1>7, <3>3
    <3> QED
      BY <1>4, <3>1, <3>2, <3>3
  <2>2. ASSUME NEW u \in Sources, last_alert'[u] # 0
        PROVE  \E a \in alerts' : a.src = u /\ a.time = last_alert'[u]
    <3>1. CASE u = s
      BY <1>4, <1>7, <3>1
    <3>2. CASE u # s
      BY <1>4, <1>7, <2>2, <3>2 DEF ScanInv, CooldownRuns
    <3> QED
      BY <3>1, <3>2
  <2> QED
    BY <2>1, <2>2 DEF CooldownRuns
<1>10. ReportsApart'
  <2>1. \A a, b : (Apart(a, b))' <=> Apart(a, b)
    BY DEF Apart
  <2>2. ASSUME NEW a \in alerts, a.src = s PROVE a.time + Cooldown <= new.time
    BY <1>4, <1>6, <2>2, ScanAssumption
  <2>3. \A a \in alerts : a.src = s => Apart(a, new) /\ Apart(new, a)
    BY <2>2 DEF Apart
  <2> QED
    BY <1>4, <2>1, <2>3 DEF ScanInv, ReportsApart
<1>11. ReportedIfDue'
  <2> SUFFICES ASSUME NEW u \in Sources, slips' = 0, Cardinality(TruePorts(u)') >= Threshold
               PROVE  \E a \in alerts' : a.src = u /\ Fresh(a)'
    BY DEF ReportedIfDue
  <2>1. CASE u # s
    BY <1>2, <1>4, <2>1, OthersNotDue
  <2>2. CASE u = s
    <3>1. \A t \in touched'[s] : t.time <= now /\ t.time \in Nat
      BY <1>5 DEF Agreeing, Agrees, Packet
    <3>2. \A t \in touched'[s] : t.time < now + Cooldown \/ t.time = now
      BY <1>6, <3>1, ScanAssumption
    <3>3. Fresh(new)'
      BY <1>4, <3>2 DEF Fresh
    <3> QED
      BY <1>4, <2>2, <3>3
  <2> QED
    BY <2>1, <2>2
<1> QED
  BY <1>5, <1>8, <1>9, <1>10, <1>11 DEF ScanInv

\* No step breaks the invariant.
LEMMA StepScan == ScanInv /\ [Next]_vars => ScanInv'
<1> SUFFICES ASSUME ScanInv, [Next]_vars PROVE ScanInv'
  OBVIOUS
<1>1. CASE Tick \/ SetBack
  BY <1>1, ClockMoves
<1>2. ASSUME NEW s \in Sources, NEW d \in Targets, NEW p \in Ports,
             Quiet(s, d, p) \/ Report(s, d, p)
      PROVE  ScanInv'
  BY <1>2, StaysQuiet, IsReported
<1>3. CASE UNCHANGED vars
  <2>1. UNCHANGED <<now, entries, last_alert, touched, alerts, sent, slips>>
    BY <1>3 DEF vars
  <2>2. (ScanTypes /\ Agreeing /\ FewPackets /\ CooldownRuns /\ ReportsApart)'
    BY <2>1 DEF ScanInv, ScanTypes, Agreeing, FewPackets, CooldownRuns, ReportsApart, Apart
  <2>3. \A s : TruePorts(s)' = TruePorts(s)
    BY <2>1 DEF TruePorts, Recent
  <2>4. \A a : Fresh(a)' <=> Fresh(a)
    BY <2>1 DEF Fresh
  <2>5. ReportedIfDue'
    BY <2>1, <2>3, <2>4 DEF ScanInv, ReportedIfDue
  <2> QED
    BY <2>2, <2>5 DEF ScanInv
<1> QED
  BY <1>1, <1>2, <1>3 DEF Next

LEMMA ScanInvariant == Spec => []ScanInv
BY InitScan, StepScan, PTL DEF Spec

-----------------------------------------------------------------------------
(* The theorems *)

\* Unless the clock was set back, a look-up sees exactly the ports of the last
\* window, although eviction is lazy and stops at the first entry that stays.
THEOREM WindowIsExact == Spec => []WindowExact
<1>1. ScanInv => WindowExact
  <2> SUFFICES ASSUME ScanInv, slips = 0, NEW s \in Sources
               PROVE  DistinctValues(entries[s], now) = TruePorts(s)
    BY DEF WindowExact
  <2>1. /\ entries[s] \in Seq(Entry) /\ touched[s] \in SUBSET Packet /\ now \in Nat
        /\ Agrees(entries[s], touched[s], now)
    BY DEF ScanInv, ScanTypes, Agreeing
  <2>2. DistinctValues(entries[s], now) = PortsWithin(touched[s], now)
    BY <2>1, LookUpIsExact
  <2> QED
    BY <2>2 DEF PortsWithin, TruePorts, Recent
<1> QED BY <1>1, ScanInvariant, PTL

\* A source at the threshold has been reported within its cooldown, unless the
\* clock was set back, and its reports lie a cooldown apart in any case.
THEOREM ReportedOnce == Spec => []ScansReportedOncePerCooldown
<1>1. ScanInv => ScansReportedOncePerCooldown
  BY DEF ScanInv, ReportedIfDue, ReportsApart, ScansReportedOncePerCooldown
<1> QED BY <1>1, ScanInvariant, PTL
=============================================================================
