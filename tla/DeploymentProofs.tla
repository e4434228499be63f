--------------------------- MODULE DeploymentProofs ---------------------------
(***************************************************************************)
(* Theorems about Deployment.                                               *)
(***************************************************************************)
EXTENDS Deployment, ScanEngineProofs, SequenceTheorems

\* Whatever a process does with its engine is what ScanEngine allows.
THEOREM DeploymentRunsEngine == DeploySpec => Spec
<1>1. DeployInit => Init
  BY DEF DeployInit
<1>2. [DeployNext]_deployVars => [Next]_vars
  <2> SUFFICES ASSUME [DeployNext]_deployVars PROVE Next \/ UNCHANGED vars
    OBVIOUS
  <2> USE DeploymentAssumption
  <2>1. CASE DriverStart
    BY <2>1 DEF DriverStart, DriverCalls, Next
  <2>2. CASE ServeIdle \/ Interrupt
    BY <2>2 DEF ServeIdle, Interrupt
  <2>3. CASE DriverGoesOn
    <3>1. CASE Boots \/ Booted \/ BootAborted
      BY <3>1 DEF Boots, Booted, BootAborted, BootEnds
    <3>2. CASE DriverClears
      BY <3>2 DEF DriverClears, StartBody, Next
    <3>3. CASE DriverStarted
      BY <3>3 DEF DriverStarted, StartBody, StartLaunch, Spawned, Next
    <3>4. CASE DriverStartRaises
      BY <3>4 DEF DriverStartRaises, DriverRaises, StartBody, StartLaunch, Spawned, Next
    <3>5. CASE DemoSeesIdle \/ DemoPaused \/ ScriptSeesIdle \/ ServerCloses
      BY <3>5 DEF DemoSeesIdle, DemoPaused, ScriptSeesIdle, ServerCloses
    <3>6. CASE DriverStopBegins
      BY <3>6 DEF DriverStopBegins, Next
    <3>7. CASE DriverStops \/ DriverStopped
      BY <3>7 DEF DriverStops, DriverStopped, StopBody, Next
    <3> QED
      BY <2>3, <3>1, <3>2, <3>3, <3>4, <3>5, <3>6, <3>7 DEF DriverGoesOn
  <2>4. ASSUME NEW v \in Visitors, VisitorCalls(v) \/ VisitorServed(v) PROVE Next
    BY <2>4 DEF Visitors, VisitorCalls, VisitorServed, Next
  <2>5. ASSUME NEW n \in Scans, ScanRuns(n) \/ SnifferRuns(n) PROVE Next
    BY <2>5 DEF ScanRuns, SnifferRuns, Next
  <2>6. CASE UNCHANGED deployVars
    BY <2>6 DEF deployVars
  <2> QED
    BY <2>1, <2>2, <2>3, <2>4, <2>5, <2>6 DEF DeployNext
<1> QED
  BY <1>1, <1>2, PTL DEF DeploySpec, Spec

\* RunningScanIsAlive and NoStaleCapture: whoever drives the engine and whatever
\* the visitors do, a status that says running has a scan behind it, and no
\* capture outlasts the scan it belongs to.
THEOREM DeployedScansAlive == DeploySpec => [](RunningScanIsAlive /\ NoStaleCapture)
  BY DeploymentRunsEngine, RunningIsAlive, CaptureNeverStale, PTL

-----------------------------------------------------------------------------
(* Paths and trees *)

\* Where a place of a configuration may be.
Path == Seq(Keys)

\* The first entries of a path.
LEMMA Beginning ==
  ASSUME NEW s \in Path, NEW n \in 0 .. Len(s)
  PROVE  /\ SubSeq(s, 1, n) \in Path /\ Len(SubSeq(s, 1, n)) = n
         /\ \A i \in 1 .. n : SubSeq(s, 1, n)[i] = s[i]
<1>1. Len(s) \in Nat
  BY LenProperties DEF Path
<1>2. \A i \in 1 .. n : s[i] \in Keys
  BY <1>1, ElementOfSeq DEF Path
<1> QED
  BY <1>1, <1>2, SubSeqProperties DEF Path

\* One path begins with another when it has its entries.
LEMMA Begins ==
  ASSUME NEW p \in Path, NEW q \in Path
  PROVE  /\ IsPrefix(p, q) <=> Len(p) <= Len(q) /\ \A i \in 1 .. Len(p) : p[i] = q[i]
         /\ IsPrefix(p, q) => p = SubSeq(q, 1, Len(p))
<1>1. Len(p) \in Nat /\ Len(q) \in Nat
  BY LenProperties DEF Path
<1>2. SubSeq(p, 1, Len(p)) = p
  BY SubSeqFull DEF Path
<1>3. ASSUME Len(p) <= Len(q)
      PROVE  /\ SubSeq(q, 1, Len(p)) \in Path /\ Len(SubSeq(q, 1, Len(p))) = Len(p)
             /\ \A i \in 1 .. Len(p) : SubSeq(q, 1, Len(p))[i] = q[i]
  BY <1>1, <1>3, Beginning
<1>4. ASSUME Len(p) <= Len(q), \A i \in 1 .. Len(p) : p[i] = q[i]
      PROVE  p = SubSeq(q, 1, Len(p))
  BY <1>1, <1>3, <1>4, SeqEqual DEF Path
<1> QED
  BY <1>1, <1>2, <1>3, <1>4 DEF IsPrefix

\* Beginning with is an order, and the beginnings of a path are in line.
LEMMA BeginsOrder ==
  /\ \A p \in Path : IsPrefix(p, p) /\ (IsPrefix(p, <<>>) => p = <<>>) /\ IsPrefix(<<>>, p)
  /\ \A p, q \in Path : IsPrefix(p, q) /\ IsPrefix(q, p) => p = q
  /\ \A p, q, r \in Path : IsPrefix(p, q) /\ IsPrefix(q, r) => IsPrefix(p, r)
  /\ \A p, q, r \in Path : IsPrefix(p, r) /\ IsPrefix(q, r) => IsPrefix(p, q) \/ IsPrefix(q, p)
<1>1. \A p \in Path : Len(p) \in Nat
  BY LenProperties DEF Path
<1>2. ASSUME NEW p \in Path
      PROVE  IsPrefix(p, p) /\ (IsPrefix(p, <<>>) => p = <<>>) /\ IsPrefix(<<>>, p)
  <2>1. <<>> \in Path /\ Len(<<>>) = 0 /\ (Len(p) = 0 => p = <<>>)
    BY EmptySeq DEF Path
  <2> QED
    BY <1>1, <2>1, Begins
<1>3. ASSUME NEW p \in Path, NEW q \in Path, IsPrefix(p, q), IsPrefix(q, p) PROVE p = q
  <2>1. Len(p) = Len(q) /\ \A i \in 1 .. Len(p) : p[i] = q[i]
    BY <1>1, <1>3, Begins
  <2> QED
    BY <2>1, SeqEqual DEF Path
<1>4. ASSUME NEW p \in Path, NEW q \in Path, NEW r \in Path, IsPrefix(p, q), IsPrefix(q, r)
      PROVE  IsPrefix(p, r)
  <2>1. /\ Len(p) <= Len(q) /\ Len(q) <= Len(r)
        /\ \A i \in 1 .. Len(p) : p[i] = q[i]
        /\ \A i \in 1 .. Len(q) : q[i] = r[i]
    BY <1>4, Begins
  <2>2. Len(p) <= Len(r) /\ \A i \in 1 .. Len(p) : p[i] = r[i]
    BY <1>1, <2>1
  <2> QED
    BY <2>2, Begins
<1>5. ASSUME NEW p \in Path, NEW q \in Path, NEW r \in Path, IsPrefix(p, r), IsPrefix(q, r)
      PROVE  IsPrefix(p, q) \/ IsPrefix(q, p)
  <2>1. \A i \in 1 .. Len(p) : p[i] = r[i]
    BY <1>5, Begins
  <2>2. \A i \in 1 .. Len(q) : q[i] = r[i]
    BY <1>5, Begins
  <2>3. CASE Len(p) <= Len(q)
    BY <1>1, <2>1, <2>2, <2>3, Begins
  <2>4. CASE Len(q) <= Len(p)
    BY <1>1, <2>1, <2>2, <2>4, Begins
  <2> QED
    BY <1>1, <2>3, <2>4
<1> QED
  BY <1>2, <1>3, <1>4, <1>5

\* The dictionary a path leads into, and the paths that lead out of one.
LEMMA FrontBegins ==
  ASSUME NEW p \in Path, p # <<>>
  PROVE  /\ Front(p) \in Path /\ IsPrefix(Front(p), p) /\ Front(p) # p
         /\ \A q \in Path : IsPrefix(q, p) /\ q # p => IsPrefix(q, Front(p))
<1>1. Len(p) \in Nat /\ Len(p) > 0
  BY LenProperties, EmptySeq DEF Path
<1>2. /\ Front(p) \in Path /\ Len(Front(p)) = Len(p) - 1
      /\ \A i \in 1 .. Len(p) - 1 : Front(p)[i] = p[i]
  <2>1. Len(p) - 1 \in 0 .. Len(p)
    BY <1>1
  <2> QED
    BY <2>1, Beginning DEF Front
<1>3. ASSUME NEW q \in Path, IsPrefix(q, p), q # p PROVE IsPrefix(q, Front(p))
  <2>1. Len(q) <= Len(p) /\ Len(q) \in Nat /\ \A i \in 1 .. Len(q) : q[i] = p[i]
    BY <1>3, Begins, LenProperties DEF Path
  <2>2. Len(q) # Len(p)
    BY <1>3, <2>1, SeqEqual DEF Path
  <2> QED
    BY <1>1, <1>2, <2>1, <2>2, Begins
<1> QED
  BY <1>1, <1>2, <1>3, Begins

\* A path and the same with one key more.
LEMMA AppendBegins ==
  ASSUME NEW p \in Path, NEW k \in Keys
  PROVE  LET q == Append(p, k) IN q \in Path /\ IsPrefix(p, q) /\ p # q /\ Front(q) = p
<1> DEFINE q == Append(p, k)
<1>1. /\ q \in Path /\ Len(p) \in Nat /\ Len(q) = Len(p) + 1
      /\ \A i \in 1 .. Len(p) : q[i] = p[i]
  BY AppendProperties, LenProperties DEF Path
<1> HIDE DEF q
<1>2. IsPrefix(p, q) /\ p # q
  BY <1>1, Begins
<1>3. Front(q) = SubSeq(q, 1, Len(p))
  BY <1>1 DEF Front
<1> QED
  BY <1>1, <1>2, <1>3, Begins DEF q

\* What is above a place of a tree is a dictionary of it.
LEMMA TreeClosed ==
  ASSUME NEW home, NEW t, TreeOf(home, t), NEW q \in DOMAIN t, NEW p \in Path, IsPrefix(p, q)
  PROVE  p \in DOMAIN t /\ (p # q => p \in Dicts(t))
<1>1. q \in Path /\ \A n \in 0 .. Len(q) - 1 : SubSeq(q, 1, n) \in Dicts(t)
  BY DEF TreeOf, Path
<1>2. Len(p) <= Len(q) /\ Len(p) \in Nat /\ Len(q) \in Nat /\ p = SubSeq(q, 1, Len(p))
  BY <1>1, Begins, LenProperties DEF Path
<1>3. CASE Len(p) = Len(q)
  BY <1>1, <1>2, <1>3, SubSeqFull DEF Path
<1>4. CASE Len(p) # Len(q)
  <2>1. Len(p) \in 0 .. Len(q) - 1
    BY <1>2, <1>4
  <2>2. p \in Dicts(t)
    BY <1>1, <1>2, <2>1
  <2> QED
    BY <2>2 DEF Dicts
<1> QED
  BY <1>3, <1>4

-----------------------------------------------------------------------------
(* The defaults, and what is assigned *)

\* Sequences of up to three entries.
LEMMA ShortSequences ==
  ASSUME NEW S, NEW a \in S, NEW b \in S, NEW c \in S
  PROVE  /\ <<>> \in Seq(S) /\ <<a>> \in Seq(S) /\ <<a, b>> \in Seq(S) /\ <<a, b, c>> \in Seq(S)
         /\ Len(<<a>>) = 1 /\ Len(<<a, b>>) = 2 /\ Len(<<a, b, c>>) = 3
         /\ <<a>>[1] = a /\ <<a, b>>[1] = a /\ <<a, b>>[2] = b
         /\ <<a, b, c>>[1] = a /\ <<a, b, c>>[2] = b /\ <<a, b, c>>[3] = c
  OBVIOUS

\* Sequences of two or three entries are put together with Append().
LEMMA Appends ==
  ASSUME NEW S, NEW a \in S, NEW b \in S, NEW c \in S
  PROVE  Append(<<a>>, b) = <<a, b>> /\ Append(<<a, b>>, c) = <<a, b, c>>
<1>1. /\ Append(<<a>>, b) \in Seq(S) /\ Len(Append(<<a>>, b)) = 2
      /\ Append(<<a>>, b)[1] = a /\ Append(<<a>>, b)[2] = b
  BY ShortSequences, AppendProperties
<1>2. /\ Append(<<a, b>>, c) \in Seq(S) /\ Len(Append(<<a, b>>, c)) = 3
      /\ Append(<<a, b>>, c)[1] = a /\ Append(<<a, b>>, c)[2] = b /\ Append(<<a, b>>, c)[3] = c
  BY ShortSequences, AppendProperties
<1>3. /\ \A s \in Seq(S) : Len(s) = 2 /\ s[1] = a /\ s[2] = b => s = <<a, b>>
      /\ \A s \in Seq(S) : Len(s) = 3 /\ s[1] = a /\ s[2] = b /\ s[3] = c => s = <<a, b, c>>
  OBVIOUS
<1> QED
  BY <1>1, <1>2, <1>3

\* Paths of up to three keys, and what they begin with.
LEMMA ShortPaths ==
  ASSUME NEW a \in Keys, NEW b \in Keys, NEW c \in Keys
  PROVE  /\ <<>> \in Path /\ <<a>> \in Path /\ <<a, b>> \in Path /\ <<a, b, c>> \in Path
         /\ Len(<<a>>) = 1 /\ Len(<<a, b>>) = 2 /\ Len(<<a, b, c>>) = 3
         /\ SubSeq(<<a>>, 1, 0) = <<>>
         /\ SubSeq(<<a, b>>, 1, 0) = <<>> /\ SubSeq(<<a, b>>, 1, 1) = <<a>>
         /\ SubSeq(<<a, b, c>>, 1, 0) = <<>> /\ SubSeq(<<a, b, c>>, 1, 1) = <<a>>
         /\ SubSeq(<<a, b, c>>, 1, 2) = <<a, b>>
<1>1. /\ <<>> \in Path /\ <<a>> \in Path /\ <<a, b>> \in Path /\ <<a, b, c>> \in Path
      /\ Len(<<a>>) = 1 /\ Len(<<a, b>>) = 2 /\ Len(<<a, b, c>>) = 3
      /\ <<a>>[1] = a /\ <<a, b>>[1] = a /\ <<a, b>>[2] = b
      /\ <<a, b, c>>[1] = a /\ <<a, b, c>>[2] = b
  BY ShortSequences DEF Path
<1>2. IsPrefix(<<a>>, <<a, b>>) /\ IsPrefix(<<a>>, <<a, b, c>>) /\ IsPrefix(<<a, b>>, <<a, b, c>>)
  <2>1. ASSUME NEW p \in Path, NEW q \in Path, Len(p) = 1, Len(q) >= 1, p[1] = q[1]
        PROVE  IsPrefix(p, q)
    BY <2>1, Begins
  <2>2. ASSUME NEW p \in Path, NEW q \in Path, Len(p) = 2, Len(q) >= 2, p[1] = q[1], p[2] = q[2]
        PROVE  IsPrefix(p, q)
    <3>1. \A i \in 1 .. 2 : i = 1 \/ i = 2
      OBVIOUS
    <3> QED
      BY <2>2, <3>1, Begins
  <2> QED
    BY <1>1, <2>1, <2>2
<1>3. \A s : SubSeq(s, 1, 0) = <<>>
  BY SubSeqEmpty
<1> QED
  BY <1>1, <1>2, <1>3, Begins

\* The dictionaries that paths of up to three keys lead into.
LEMMA ShortFronts ==
  ASSUME NEW a \in Keys, NEW b \in Keys, NEW c \in Keys
  PROVE  Front(<<a>>) = <<>> /\ Front(<<a, b>>) = <<a>> /\ Front(<<a, b, c>>) = <<a, b>>
<1>1. Len(<<a>>) - 1 = 0 /\ Len(<<a, b>>) - 1 = 1 /\ Len(<<a, b, c>>) - 1 = 2
  BY ShortPaths
<1>2. /\ SubSeq(<<a>>, 1, 0) = <<>> /\ SubSeq(<<a, b>>, 1, 1) = <<a>>
      /\ SubSeq(<<a, b, c>>, 1, 2) = <<a, b>>
  BY ShortPaths
<1> QED
  BY <1>1, <1>2 DEF Front

\* The leaves of the defaults.
DefaultSettings ==
  {<<"interface">>, <<"gateway_ips">>,
   <<"detectors", "port_scan", "enabled">>, <<"detectors", "port_scan", "port_threshold">>,
   <<"detectors", "arp_spoof", "enabled">>,
   <<"detectors", "ml_anomaly", "enabled">>, <<"detectors", "ml_anomaly", "buffer_size">>,
   <<"detectors", "ml_anomaly", "warmup">>,
   <<"alerting", "console">>, <<"alerting", "syslog">>, <<"dashboard", "enabled">>,
   <<"web", "enabled">>, <<"web", "host">>, <<"web", "port">>}

\* What the defaults are.
LEMMA DefaultsListed ==
  /\ DOMAIN DEFAULT_CONFIG = DefaultSections \cup DefaultSettings
  /\ DefaultSections \cap DefaultSettings = {}
  /\ DefaultSections \subseteq Path /\ DefaultSettings \subseteq Path
  /\ \A p \in DefaultSections : DEFAULT_CONFIG[p] = Dict("default")
  /\ \A p \in DefaultSettings : DEFAULT_CONFIG[p] \in {None, On, Off, Leaf("built-in")}
<1>1. DOMAIN DEFAULT_CONFIG = DefaultSections \cup DefaultSettings
  BY DEF DEFAULT_CONFIG, DefaultSettings
<1>2. DefaultSections \cap DefaultSettings = {}
  BY DEF DefaultSections, DefaultSettings
<1>3. DefaultSections \subseteq Path /\ DefaultSettings \subseteq Path
  BY KeysAssumption, ShortPaths, EmptySeq DEF DefaultSections, DefaultSettings, Path, OwnKeys
<1>4. \A p \in DefaultSections : DEFAULT_CONFIG[p] = Dict("default")
  BY DEF DEFAULT_CONFIG, DefaultSections
<1>5. \A p \in DefaultSettings : DEFAULT_CONFIG[p] \in {None, On, Off, Leaf("built-in")}
  BY DEF DEFAULT_CONFIG, DefaultSections, DefaultSettings
<1> QED
  BY <1>1, <1>2, <1>3, <1>4, <1>5

\* The defaults are a tree whose dictionaries are the sections.
LEMMA DefaultTree ==
  TreeOf("default", DEFAULT_CONFIG) /\ Dicts(DEFAULT_CONFIG) = DefaultSections
<1>1. ASSUME NEW x \in {None, On, Off, Leaf("built-in")}
      PROVE  ~x.dict /\ x = Leaf(x.is) /\ x # Missing
  BY DEF On, Off, None, Leaf, Missing
<1>2. \A p \in DefaultSettings : LET x == DEFAULT_CONFIG[p] IN ~x.dict /\ x = Leaf(x.is) /\ x # Missing
  BY <1>1, DefaultsListed
<1>3. Dict("default").dict
  BY DEF Dict
<1>4. Dicts(DEFAULT_CONFIG) = DefaultSections
  BY <1>2, <1>3, DefaultsListed DEF Dicts
<1>5. ASSUME NEW p \in DOMAIN DEFAULT_CONFIG, NEW n \in 0 .. Len(p) - 1
      PROVE  SubSeq(p, 1, n) \in DefaultSections
  <2>1. ASSUME NEW a \in OwnKeys, p = <<a>> PROVE SubSeq(p, 1, n) = <<>>
    <3>1. n = 0
      BY <2>1, KeysAssumption, ShortPaths
    <3> QED
      BY <2>1, <3>1, KeysAssumption, ShortPaths
  <2>2. ASSUME NEW a \in OwnKeys, NEW b \in OwnKeys, p = <<a, b>>
        PROVE  SubSeq(p, 1, n) \in {<<>>, <<a>>}
    <3>1. n = 0 \/ n = 1
      BY <2>2, KeysAssumption, ShortPaths
    <3> QED
      BY <2>2, <3>1, KeysAssumption, ShortPaths
  <2>3. ASSUME NEW a \in OwnKeys, NEW b \in OwnKeys, NEW c \in OwnKeys, p = <<a, b, c>>
        PROVE  SubSeq(p, 1, n) \in {<<>>, <<a>>, <<a, b>>}
    <3>1. n = 0 \/ n = 1 \/ n = 2
      BY <2>3, KeysAssumption, ShortPaths
    <3>2. a \in Keys /\ b \in Keys /\ c \in Keys
      BY KeysAssumption
    <3>3. SubSeq(p, 1, 0) = <<>> /\ SubSeq(p, 1, 1) = <<a>> /\ SubSeq(p, 1, 2) = <<a, b>>
      BY <2>3, <3>2, ShortPaths
    <3> QED
      BY <3>1, <3>3
  <2>4. \/ p = <<>>
        \/ \E a \in OwnKeys : p = <<a>>
        \/ \E a \in {"alerting", "dashboard", "web", "detectors"}, b \in OwnKeys : p = <<a, b>>
        \/ \E b \in {"port_scan", "arp_spoof", "ml_anomaly"}, c \in OwnKeys : p = <<"detectors", b, c>>
    BY DefaultsListed DEF DefaultSections, DefaultSettings, OwnKeys
  <2>5. p # <<>>
    BY EmptySeq
  <2>6. \A a \in {"alerting", "dashboard", "web", "detectors"} : a \in OwnKeys /\ <<a>> \in DefaultSections
    BY DEF DefaultSections, OwnKeys
  <2>7. \A b \in {"port_scan", "arp_spoof", "ml_anomaly"} : b \in OwnKeys /\ <<"detectors", b>> \in DefaultSections
    BY DEF DefaultSections, OwnKeys
  <2>8. <<>> \in DefaultSections
    BY DEF DefaultSections
  <2>9. CASE \E a \in OwnKeys : p = <<a>>
    BY <2>1, <2>8, <2>9
  <2>10. CASE \E a \in {"alerting", "dashboard", "web", "detectors"}, b \in OwnKeys : p = <<a, b>>
    BY <2>2, <2>6, <2>8, <2>10
  <2>11. CASE \E b \in {"port_scan", "arp_spoof", "ml_anomaly"}, c \in OwnKeys : p = <<"detectors", b, c>>
    BY <2>3, <2>6, <2>7, <2>8, <2>11
  <2> QED
    BY <2>4, <2>5, <2>9, <2>10, <2>11
<1>6. <<>> \in DOMAIN DEFAULT_CONFIG
  BY DefaultsListed DEF DefaultSections
<1> QED
  BY <1>2, <1>4, <1>5, <1>6, DefaultsListed DEF TreeOf, Path

\* Each detector has a section of its own, with its switch in it.
LEMMA DetectorSections ==
  ASSUME NEW d \in Detectors
  PROVE  d \in Dicts(DEFAULT_CONFIG) /\ Append(d, "enabled") \in Leaves(DEFAULT_CONFIG)
<1>1. d \in DOMAIN DEFAULT_CONFIG /\ d # <<>> /\ Front(d) = <<"detectors">> /\ d \in Path
  BY DefaultsListed DEF Detectors, Entries
<1>2. Len(d) = 2 /\ d[1] = "detectors"
  <2>1. "detectors" \in Keys
    BY KeysAssumption DEF OwnKeys
  <2>2. Len(<<"detectors">>) = 1 /\ <<"detectors">>[1] = "detectors" /\ <<"detectors">> \in Path
    BY <2>1, ShortSequences DEF Path
  <2>3. Len(d) \in Nat /\ Len(d) > 0
    BY <1>1, LenProperties, EmptySeq DEF Path
  <2>4. /\ Len(d) - 1 \in 0 .. Len(d)
        /\ SubSeq(d, 1, Len(d) - 1) = <<"detectors">>
    BY <1>1, <2>3 DEF Front
  <2>5. Len(d) - 1 = 1 /\ \A i \in 1 .. 1 : <<"detectors">>[i] = d[i]
    <3>1. /\ Len(SubSeq(d, 1, Len(d) - 1)) = Len(d) - 1
          /\ \A i \in 1 .. Len(d) - 1 : SubSeq(d, 1, Len(d) - 1)[i] = d[i]
      BY <1>1, <2>4, Beginning
    <3> QED
      BY <2>2, <2>4, <3>1
  <2> QED
    BY <2>2, <2>3, <2>5
<1> DEFINE sections == {<<"detectors", "port_scan">>, <<"detectors", "arp_spoof">>,
                        <<"detectors", "ml_anomaly">>}
<1> HIDE DEF sections
<1>3. d \in sections
  <2>1. ASSUME NEW k \in OwnKeys, NEW l \in OwnKeys, NEW m \in OwnKeys
        PROVE  Len(<<>>) = 0 /\ Len(<<k>>) = 1 /\ Len(<<k, l, m>>) = 3 /\ <<k, l>>[1] = k
    BY KeysAssumption, ShortSequences
  <2>2. \/ d \in sections
        \/ d = <<>> \/ \E k \in OwnKeys : d = <<k>>
        \/ \E k, l, m \in OwnKeys : d = <<k, l, m>>
        \/ \E k \in {"alerting", "dashboard", "web"}, l \in OwnKeys : d = <<k, l>>
    BY <1>1, DefaultsListed DEF DefaultSections, DefaultSettings, OwnKeys, sections
  <2>3. \A k \in {"alerting", "dashboard", "web"} : k \in OwnKeys /\ k # "detectors"
    BY DEF OwnKeys
  <2>4. /\ d # <<>> /\ \A k \in OwnKeys : d # <<k>>
        /\ \A k, l, m \in OwnKeys : d # <<k, l, m>>
    BY <1>1, <1>2, <2>1
  <2>5. \A k \in {"alerting", "dashboard", "web"}, l \in OwnKeys : d # <<k, l>>
    BY <1>2, <2>1, <2>3
  <2> QED
    BY <2>2, <2>4, <2>5
<1>4. /\ Append(<<"detectors", "port_scan">>, "enabled") = <<"detectors", "port_scan", "enabled">>
      /\ Append(<<"detectors", "arp_spoof">>, "enabled") = <<"detectors", "arp_spoof", "enabled">>
      /\ Append(<<"detectors", "ml_anomaly">>, "enabled") = <<"detectors", "ml_anomaly", "enabled">>
  <2>1. \A k \in {"detectors", "port_scan", "arp_spoof", "ml_anomaly", "enabled"} : k \in Keys
    BY KeysAssumption DEF OwnKeys
  <2> QED
    BY <2>1, Appends
<1>5. /\ sections \subseteq DefaultSections
      /\ {<<"detectors", "port_scan", "enabled">>, <<"detectors", "arp_spoof", "enabled">>,
          <<"detectors", "ml_anomaly", "enabled">>} \subseteq DefaultSettings
  BY DEF DefaultSections, DefaultSettings, sections
<1>6. DefaultSettings = Leaves(DEFAULT_CONFIG)
  BY DefaultTree, DefaultsListed DEF Leaves
<1> QED
  BY <1>3, <1>4, <1>5, <1>6, DefaultTree DEF sections

\* What is assigned goes to settings outside alerting, each at most once, and
\* into sections.
LEMMA AssignmentsFit ==
  /\ Len(Assignments) \in Nat
  /\ \A i \in 1 .. Len(Assignments) :
       LET a == Assignments[i] IN
       /\ a.to \in DefaultSettings /\ Front(a.to) \in DefaultSections
       /\ ~IsPrefix(<<"alerting">>, a.to)
       /\ ~a.be.dict /\ a.be # Missing
  /\ \A i, j \in 1 .. Len(Assignments) : Assignments[i].to = Assignments[j].to => i = j
<1>1. ASSUME NEW a \in OwnKeys, NEW b \in OwnKeys, NEW c \in OwnKeys
      PROVE  /\ Front(<<a>>) = <<>> /\ Front(<<a, b>>) = <<a>> /\ Front(<<a, b, c>>) = <<a, b>>
             /\ \A p \in {<<a>>, <<a, b>>, <<a, b, c>>} : IsPrefix(<<"alerting">>, p) => a = "alerting"
  <2>1. a \in Keys /\ b \in Keys /\ c \in Keys /\ "alerting" \in Keys
    BY KeysAssumption DEF OwnKeys
  <2>2. Front(<<a>>) = <<>> /\ Front(<<a, b>>) = <<a>> /\ Front(<<a, b, c>>) = <<a, b>>
    BY <2>1, ShortFronts
  <2>3. <<"alerting">> \in Path /\ Len(<<"alerting">>) = 1 /\ <<"alerting">>[1] = "alerting"
    BY <2>1, ShortSequences DEF Path
  <2>4. ASSUME NEW p \in Path, p[1] = a, IsPrefix(<<"alerting">>, p) PROVE a = "alerting"
    <3>1. 1 \in 1 .. Len(<<"alerting">>)
      BY <2>3
    <3> QED
      BY <2>3, <2>4, <3>1, Begins
  <2>5. \A p \in {<<a>>, <<a, b>>, <<a, b, c>>} : p \in Path /\ p[1] = a
    <3>1. <<a>> \in Path /\ <<a, b>> \in Path /\ <<a, b, c>> \in Path
      BY <2>1, ShortSequences DEF Path
    <3>2. <<a>>[1] = a /\ <<a, b>>[1] = a /\ <<a, b, c>>[1] = a
      BY <2>1, ShortSequences
    <3> QED
      BY <3>1, <3>2
  <2> QED
    BY <2>2, <2>4, <2>5
<1>2. \A k \in {"interface", "gateway_ips", "dashboard", "web", "detectors", "ml_anomaly",
                "enabled", "port", "warmup"} : k \in OwnKeys /\ k # "alerting"
  BY DEF OwnKeys
<1> DEFINE Fits(p) == /\ p \in DefaultSettings /\ Front(p) \in DefaultSections
                      /\ ~IsPrefix(<<"alerting">>, p)
<1>3. Fits(<<"interface">>) /\ Fits(<<"gateway_ips">>)
  <2>1. ASSUME NEW k \in {"interface", "gateway_ips"} PROVE Fits(<<k>>)
    BY <1>1, <1>2 DEF DefaultSettings, DefaultSections
  <2> QED
    BY <2>1
<1>4. Fits(<<"dashboard", "enabled">>) /\ Fits(<<"web", "enabled">>) /\ Fits(<<"web", "port">>)
  <2>1. ASSUME NEW k \in {"dashboard", "web"}, NEW l \in {"enabled", "port"}, k = "web" \/ l = "enabled"
        PROVE Fits(<<k, l>>)
    <3>1. Front(<<k, l>>) = <<k>> /\ ~IsPrefix(<<"alerting">>, <<k, l>>)
      BY <1>1, <1>2
    <3> QED
      BY <2>1, <3>1 DEF DefaultSettings, DefaultSections
  <2> QED
    BY <2>1
<1>5. \A k \in {"enabled", "warmup"} : Fits(<<"detectors", "ml_anomaly", k>>)
  <2>1. ASSUME NEW k \in {"enabled", "warmup"} PROVE Fits(<<"detectors", "ml_anomaly", k>>)
    <3>1. /\ Front(<<"detectors", "ml_anomaly", k>>) = <<"detectors", "ml_anomaly">>
          /\ ~IsPrefix(<<"alerting">>, <<"detectors", "ml_anomaly", k>>)
      <4>1. "detectors" \in OwnKeys /\ "ml_anomaly" \in OwnKeys /\ k \in OwnKeys /\ "detectors" # "alerting"
        BY <1>2
      <4> QED
        BY <1>1, <4>1
    <3> QED
      BY <3>1 DEF DefaultSettings, DefaultSections
  <2> QED
    BY <2>1
<1>6. CASE program = "demo"
  <2>1. /\ Len(Assignments) = 3
        /\ Assignments[1] = DemoAssignments[1]
        /\ Assignments[2] = DemoAssignments[2]
        /\ Assignments[3] = DemoAssignments[3]
    BY <1>6 DEF Assignments, DemoAssignments
  <2>2. /\ DemoAssignments[1].to = <<"gateway_ips">>
        /\ DemoAssignments[2].to = <<"detectors", "ml_anomaly", "enabled">>
        /\ DemoAssignments[3].to = <<"detectors", "ml_anomaly", "warmup">>
    BY DEF DemoAssignments
  <2>3. \A i \in 1 .. 3 : ~DemoAssignments[i].be.dict /\ DemoAssignments[i].be # Missing
    BY DEF DemoAssignments, Leaf, On, Missing
  <2>4. \A i \in 1 .. 3 : i = 1 \/ i = 2 \/ i = 3
    OBVIOUS
  <2> QED
    BY <2>1, <2>2, <2>3, <2>4, <1>3, <1>5
<1>7. CASE program # "demo"
  <2>1. /\ Len(Assignments) = 4
        /\ Assignments[1] = Flags[1]
        /\ Assignments[2] = Flags[2]
        /\ Assignments[3] = Flags[3]
        /\ Assignments[4] = Flags[4]
    BY <1>7 DEF Assignments, Flags
  <2>2. /\ Flags[1].to = <<"interface">>
        /\ Flags[2].to = <<"dashboard", "enabled">>
        /\ Flags[3].to = <<"web", "enabled">>
        /\ Flags[4].to = <<"web", "port">>
    BY DEF Flags
  <2>3. \A i \in 1 .. 4 : ~Flags[i].be.dict /\ Flags[i].be # Missing
    BY DEF Flags, Leaf, On, Missing
  <2>4. \A i \in 1 .. 4 : i = 1 \/ i = 2 \/ i = 3 \/ i = 4
    OBVIOUS
  <2> QED
    BY <2>1, <2>2, <2>3, <2>4, <1>3, <1>4
<1> QED
  BY <1>6, <1>7

-----------------------------------------------------------------------------
(* What the merge has at a place, and what is there when it is assigned to *)

\* A dictionary of both trees, else what the file has or hides, else a default.
Merged(p) ==
  IF p \in Dicts(DEFAULT_CONFIG) \cap Dicts(file) THEN Dict("copy")
  ELSE IF p \in DOMAIN file THEN file[p]
  ELSE IF \E q \in Leaves(file) : IsPrefix(q, p) THEN Missing
  ELSE Lookup(DEFAULT_CONFIG, p)

\* What is at the places of a tree.
LEMMA TreeNodes ==
  ASSUME NEW home, NEW t, TreeOf(home, t)
  PROVE  /\ DOMAIN t \subseteq Path /\ <<>> \in DOMAIN t
         /\ \A p \in DOMAIN t : t[p] # Missing
         /\ \A p \in Dicts(t) : p \in DOMAIN t /\ t[p] = Dict(home)
         /\ \A p \in Leaves(t) : p \in DOMAIN t /\ p \notin Dicts(t) /\ ~t[p].dict
<1>1. Dict(home) # Missing /\ \A x : ~Leaf(x).dict
  BY DEF Dict, Leaf, Missing
<1>2. \A p \in DOMAIN t : p \in Path /\ (t[p] = Dict(home) \/ (t[p] = Leaf(t[p].is) /\ t[p] # Missing))
  BY DEF TreeOf, Path
<1>3. \A p \in DOMAIN t : t[p] # Missing
  BY <1>1, <1>2
<1>4. \A p \in Dicts(t) : p \in DOMAIN t /\ t[p] = Dict(home)
  BY <1>1, <1>2 DEF Dicts
<1> QED
  BY <1>2, <1>3, <1>4 DEF TreeOf, Dicts, Leaves

\* A tree goes no further below a leaf.
LEMMA LeavesEnd ==
  ASSUME NEW home, NEW t, TreeOf(home, t), NEW q \in Leaves(t), NEW p \in DOMAIN t, IsPrefix(q, p)
  PROVE  q = p
<1>1. q \in Path /\ q \notin Dicts(t)
  BY TreeNodes
<1> QED
  BY <1>1, TreeClosed

\* The dictionaries of the merge are those of both trees; a leaf of the file
\* hides the defaults below its place.
LEMMA MergeHolds ==
  ASSUME TreeOf("file", file)
  PROVE  LET m == DeepMerge(DEFAULT_CONFIG, file) IN
         /\ DOMAIN m \subseteq Path
         /\ \A p \in DOMAIN m : m[p] # Missing
         /\ \A p \in Path : Lookup(m, p) = Merged(p)
<1> DEFINE both == Dicts(DEFAULT_CONFIG) \cap Dicts(file)
           m == DeepMerge(DEFAULT_CONFIG, file)
           below == {p \in DOMAIN DEFAULT_CONFIG : \A q \in DOMAIN file \ both : ~IsPrefix(q, p)}
<1>1. DOMAIN m = both \cup DOMAIN file \cup below
  BY DEF DeepMerge, Layered, Over, Without
<1>2. /\ \A p \in both : m[p] = Dict("copy")
      /\ \A p \in DOMAIN file \ both : m[p] = file[p]
      /\ \A p \in below \ DOMAIN file : m[p] = DEFAULT_CONFIG[p]
  <2>1. both \subseteq DOMAIN file
    BY DEF Dicts
  <2> QED
    BY <2>1 DEF DeepMerge, Layered, Over, Without, CopyOf
<1>3. /\ DOMAIN file \subseteq Path /\ both \subseteq DOMAIN file
      /\ \A p \in DOMAIN file : file[p] # Missing
      /\ \A p \in Leaves(file) : p \in DOMAIN file \ both
  BY TreeNodes
<1>4. /\ DOMAIN DEFAULT_CONFIG \subseteq Path
      /\ \A p \in DOMAIN DEFAULT_CONFIG : DEFAULT_CONFIG[p] # Missing
  BY DefaultTree, TreeNodes
<1>5. Dict("copy") # Missing
  BY DEF Dict, Missing, Leaf
<1>6. ASSUME NEW p \in DOMAIN DEFAULT_CONFIG \ DOMAIN file
      PROVE  p \in below <=> ~\E q \in Leaves(file) : IsPrefix(q, p)
  <2>1. ASSUME NEW q \in DOMAIN file \ both, IsPrefix(q, p) PROVE q \in Leaves(file)
    <3>1. q \in Dicts(DEFAULT_CONFIG)
      BY <1>3, <2>1, DefaultTree, TreeClosed
    <3> QED
      BY <3>1 DEF Leaves
  <2> QED
    BY <1>3, <2>1
<1>7. DOMAIN m \subseteq Path /\ \A p \in DOMAIN m : m[p] # Missing
  BY <1>1, <1>2, <1>3, <1>4, <1>5
<1>8. ASSUME NEW p \in Path PROVE Lookup(m, p) = Merged(p)
  <2>1. CASE p \in both
    BY <1>1, <1>2, <2>1 DEF Lookup, Merged
  <2>2. CASE p \in DOMAIN file \ both
    BY <1>1, <1>2, <2>2 DEF Lookup, Merged
  <2>3. CASE p \in DOMAIN DEFAULT_CONFIG \ DOMAIN file
    BY <1>1, <1>2, <1>3, <1>6, <2>3 DEF Lookup, Merged
  <2>4. CASE p \notin DOMAIN DEFAULT_CONFIG \cup DOMAIN file
    BY <1>1, <1>3, <2>4 DEF Lookup, Merged
  <2> QED
    BY <2>1, <2>2, <2>3, <2>4
<1> QED
  BY <1>7, <1>8

\* An assignment is found at its own place, and nothing below it.
LEMMA PutHolds ==
  ASSUME NEW t, DOMAIN t \subseteq Path, NEW path \in Path, NEW x
  PROVE  LET u == Put(t, path, x) IN
         /\ DOMAIN u \subseteq Path
         /\ \A p \in DOMAIN u : u[p] \in {x} \cup {t[q] : q \in DOMAIN t}
         /\ Lookup(u, path) = x
         /\ \A p \in Path \ {path} :
              Lookup(u, p) = IF IsPrefix(path, p) THEN Missing ELSE Lookup(t, p)
<1> DEFINE u == Put(t, path, x)
<1>1. DOMAIN u = {path} \cup {p \in DOMAIN t : ~IsPrefix(path, p)}
  BY DEF Put, Over, Single, Without
<1>2. u[path] = x /\ \A p \in DOMAIN u \ {path} : u[p] = t[p]
  BY <1>1 DEF Put, Over, Single, Without
<1>3. DOMAIN u \subseteq Path /\ \A p \in DOMAIN u : u[p] \in {x} \cup {t[q] : q \in DOMAIN t}
  BY <1>1, <1>2
<1> QED
  BY <1>1, <1>2, <1>3 DEF Lookup

\* The file is a tree, and no more is assigned than there is to assign.
Sane == TreeOf("file", file) /\ applied \in 0 .. Len(Assignments)

\* What is ordered so far, and that no order is in the way of a section.
LEMMA OrdersFit ==
  ASSUME Sane
  PROVE  \A a \in Orders :
           /\ a.to \in Leaves(DEFAULT_CONFIG) /\ a.to \in Path
           /\ Front(a.to) \in Dicts(DEFAULT_CONFIG)
           /\ ~IsPrefix(<<"alerting">>, a.to)
           /\ ~a.be.dict /\ a.be # Missing
           /\ \A p \in DOMAIN DEFAULT_CONFIG : IsPrefix(a.to, p) => a.to = p
<1>1. \A a \in Orders : \E i \in 1 .. Len(Assignments) : a = Assignments[i]
  BY AssignmentsFit DEF Orders, Sane
<1>2. DefaultSettings = Leaves(DEFAULT_CONFIG)
  BY DefaultTree, DefaultsListed DEF Leaves
<1>3. \A a \in Orders : /\ a.to \in DefaultSettings /\ Front(a.to) \in DefaultSections
                        /\ ~IsPrefix(<<"alerting">>, a.to)
                        /\ ~a.be.dict /\ a.be # Missing
  BY <1>1, AssignmentsFit
<1> QED
  BY <1>2, <1>3, DefaultTree, DefaultsListed, LeavesEnd

\* What the loaded configuration holds: what is ordered, else what is merged.
CfgFits ==
  /\ DOMAIN cfg \subseteq Path
  /\ \A p \in DOMAIN cfg : cfg[p] # Missing
  /\ \A a \in Orders : Front(a.to) \in Dicts(cfg) /\ Lookup(cfg, a.to) = a.be
  /\ \A p \in Path :
       (\A a \in Orders : a.to # p) =>
         Lookup(cfg, p) = IF \E a \in Orders : IsPrefix(a.to, p) THEN Missing ELSE Merged(p)

\* What is in the tree is what Lookup() finds.
LEMMA Found ==
  ASSUME CfgFits
  PROVE  /\ \A p \in Path : p \in DOMAIN cfg <=> Lookup(cfg, p) # Missing
         /\ \A p \in Path : p \in Dicts(cfg) <=> Lookup(cfg, p).dict
<1>1. ~Missing.dict
  BY DEF Missing, Leaf
<1> QED
  BY <1>1 DEF CfgFits, Lookup, Dicts

\* Where no order reaches.
LEMMA Unordered ==
  ASSUME Sane, CfgFits
  PROVE  /\ \A s \in Dicts(DEFAULT_CONFIG) :
              Lookup(cfg, s) = Merged(s) /\ (s \in Dicts(cfg) <=> Merged(s).dict)
         /\ \A s \in Dicts(DEFAULT_CONFIG), p \in Path :
              p # <<>> /\ Front(p) = s /\ p \notin DOMAIN DEFAULT_CONFIG =>
                Lookup(cfg, p) = Merged(p)
         /\ \A s \in Leaves(DEFAULT_CONFIG), p \in Path :
              (\A a \in Orders : a.to # s) /\ IsPrefix(s, p) => Lookup(cfg, p) = Merged(p)
<1>1. Dicts(DEFAULT_CONFIG) \subseteq DOMAIN DEFAULT_CONFIG /\ DOMAIN DEFAULT_CONFIG \subseteq Path
  BY DefaultTree, TreeNodes
<1>2. \A a \in Orders, s \in Dicts(DEFAULT_CONFIG) : ~IsPrefix(a.to, s) /\ a.to # s
  BY <1>1, OrdersFit, DefaultTree, TreeNodes
<1>3. ASSUME NEW p \in Path, \A a \in Orders : ~IsPrefix(a.to, p) PROVE Lookup(cfg, p) = Merged(p)
  BY <1>3, BeginsOrder DEF CfgFits
<1>4. \A s \in Dicts(DEFAULT_CONFIG) : Lookup(cfg, s) = Merged(s) /\ (s \in Dicts(cfg) <=> Merged(s).dict)
  BY <1>1, <1>2, <1>3, Found
<1>5. ASSUME NEW s \in Dicts(DEFAULT_CONFIG), NEW p \in Path, p # <<>>, Front(p) = s,
             p \notin DOMAIN DEFAULT_CONFIG
      PROVE  Lookup(cfg, p) = Merged(p)
  <2>1. \A a \in Orders : IsPrefix(a.to, p) => IsPrefix(a.to, s) \/ a.to = p
    BY <1>5, OrdersFit, FrontBegins
  <2>2. \A a \in Orders : a.to # p
    BY <1>5, OrdersFit, DefaultTree, TreeNodes
  <2> QED
    BY <1>2, <1>3, <2>1, <2>2
<1>6. ASSUME NEW s \in Leaves(DEFAULT_CONFIG), NEW p \in Path, \A a \in Orders : a.to # s, IsPrefix(s, p)
      PROVE  Lookup(cfg, p) = Merged(p)
  <2>1. s \in Path /\ s \in DOMAIN DEFAULT_CONFIG
    BY DefaultTree, TreeNodes
  <2>2. ASSUME NEW a \in Orders, IsPrefix(a.to, p) PROVE FALSE
    <3>1. a.to \in Path /\ a.to \in Leaves(DEFAULT_CONFIG) /\ a.to \in DOMAIN DEFAULT_CONFIG
      BY OrdersFit, DefaultTree, TreeNodes
    <3>2. IsPrefix(a.to, s) \/ IsPrefix(s, a.to)
      BY <1>6, <2>1, <2>2, <3>1, BeginsOrder
    <3> QED
      BY <1>6, <2>1, <3>1, <3>2, DefaultTree, LeavesEnd
  <2> QED
    BY <1>3, <2>2
<1> QED
  BY <1>4, <1>5, <1>6

\* A section is one unless the file has something else in its place or above.
LEMMA SectionPlaces ==
  ASSUME Sane, CfgFits, NEW s \in Dicts(DEFAULT_CONFIG)
  PROVE  /\ NoDict(cfg, s) <=> \E q \in Dicts(DEFAULT_CONFIG) \cap Leaves(file) : IsPrefix(q, s)
         /\ s \in Leaves(file) => NoDict(cfg, s)
<1>1. s \in Path /\ s \in DOMAIN DEFAULT_CONFIG /\ DEFAULT_CONFIG[s] = Dict("default") /\ IsPrefix(s, s)
  BY DefaultTree, TreeNodes, BeginsOrder
<1>2. NoDict(cfg, s) <=> ~Merged(s).dict
  BY Unordered DEF NoDict
<1>3. Dict("copy").dict /\ Dict("default").dict /\ ~Missing.dict
  BY DEF Dict, Missing, Leaf
<1>4. TreeOf("file", file)
  BY DEF Sane
<1>5. CASE s \in Dicts(file)
  <2>1. Merged(s).dict
    BY <1>3, <1>5 DEF Merged
  <2>2. ~\E q \in Leaves(file) : IsPrefix(q, s)
    BY <1>4, <1>5, LeavesEnd, TreeNodes
  <2>3. s \notin Leaves(file)
    BY <1>5 DEF Leaves
  <2> QED
    BY <1>2, <2>1, <2>2, <2>3
<1>6. CASE s \in Leaves(file)
  <2>1. ~Merged(s).dict
    BY <1>4, <1>6, TreeNodes DEF Merged
  <2> QED
    BY <1>1, <1>2, <1>6, <2>1
<1>7. CASE s \notin DOMAIN file
  <2>1. s \notin Leaves(file) /\ s \notin Dicts(file)
    BY <1>7 DEF Leaves, Dicts
  <2>2. ASSUME NEW q \in Leaves(file), IsPrefix(q, s) PROVE q \in Dicts(DEFAULT_CONFIG)
    <3>1. q \in Path /\ q # s
      BY <1>4, <2>1, TreeNodes
    <3> QED
      BY <1>1, <2>2, <3>1, DefaultTree, TreeClosed
  <2>3. Merged(s) = IF \E q \in Leaves(file) : IsPrefix(q, s) THEN Missing ELSE Dict("default")
    BY <1>1, <1>7, <2>1 DEF Merged, Lookup
  <2> QED
    BY <1>2, <1>3, <2>1, <2>2, <2>3
<1> QED
  BY <1>5, <1>6, <1>7 DEF Leaves

-----------------------------------------------------------------------------
(* What the configuration says, in terms of the file and the orders *)

\* Settings are what the orders, the file and the defaults make them.
LEMMA SettingsExpected ==
  ASSUME Sane, CfgFits
  PROVE  \A path \in Settings : Lookup(cfg, path) = Expected(path)
<1> SUFFICES ASSUME NEW path \in Settings PROVE Lookup(cfg, path) = Expected(path)
  OBVIOUS
<1>1. path \in Path /\ path \notin Dicts(DEFAULT_CONFIG) \cap Dicts(file)
  BY DefaultTree, TreeNodes DEF Sane, Settings, Leaves
<1>2. CASE \E a \in Orders : a.to = path
  <2>1. \A a \in Orders : a.to = path => Lookup(cfg, path) = a.be
    BY DEF CfgFits
  <2>2. (CHOOSE a \in Orders : a.to = path) \in {a \in Orders : a.to = path}
    BY <1>2
  <2> QED
    BY <1>2, <2>1, <2>2 DEF Expected
<1>3. CASE ~\E a \in Orders : a.to = path
  <2>1. Merged(path) = IF path \in DOMAIN file THEN file[path]
                       ELSE IF \E q \in Leaves(file) : IsPrefix(q, path) THEN Missing
                       ELSE Lookup(DEFAULT_CONFIG, path)
    BY <1>1 DEF Merged
  <2>2. Lookup(cfg, path) = IF \E a \in Orders : IsPrefix(a.to, path) THEN Missing ELSE Merged(path)
    BY <1>1, <1>3 DEF CfgFits
  <2> QED
    BY <1>3, <2>1, <2>2 DEF Expected
<1> QED
  BY <1>2, <1>3

\* What lies directly in a section and is none of the defaults' is the file's.
LEMMA StrangersAreTheFiles ==
  ASSUME Sane, CfgFits, NEW p \in Path, p \notin DOMAIN DEFAULT_CONFIG, Lookup(cfg, p) = Merged(p)
  PROVE  /\ p \in DOMAIN cfg <=> p \in DOMAIN file
         /\ p \in DOMAIN file => cfg[p] = file[p]
<1>1. p \notin Dicts(DEFAULT_CONFIG) /\ Lookup(DEFAULT_CONFIG, p) = Missing
  BY DEF Dicts, Lookup
<1>2. CASE p \in DOMAIN file
  <2>1. Merged(p) = file[p] /\ file[p] # Missing
    BY <1>1, <1>2, TreeNodes DEF Merged, Sane
  <2> QED
    BY <1>2, <2>1, Found DEF Lookup
<1>3. CASE p \notin DOMAIN file
  <2>1. Merged(p) = Missing
    BY <1>1, <1>3 DEF Merged, Dicts
  <2> QED
    BY <1>3, <2>1, Found
<1> QED
  BY <1>2, <1>3

\* What lies below a setting of the defaults that nothing is ordered for is the
\* file's.
LEMMA TruthIsTheFiles ==
  ASSUME Sane, CfgFits, NEW s \in Leaves(DEFAULT_CONFIG), \A a \in Orders : a.to # s
  PROVE  /\ \A p \in Path : IsPrefix(s, p) /\ p # s => Lookup(cfg, p) = Lookup(file, p)
         /\ Entries(cfg, s) = Entries(file, s)
         /\ Lookup(cfg, s) = IF s \in DOMAIN file THEN file[s] ELSE Merged(s)
         /\ s \notin DOMAIN file => Merged(s) \in {Missing, DEFAULT_CONFIG[s]}
<1>1. s \in Path /\ IsPrefix(s, s) /\ s \notin Dicts(DEFAULT_CONFIG) /\ s \in DOMAIN DEFAULT_CONFIG
  BY DefaultTree, TreeNodes, BeginsOrder
<1>2. ASSUME NEW p \in Path, IsPrefix(s, p), p # s
      PROVE  (p \in DOMAIN cfg <=> p \in DOMAIN file) /\ Lookup(cfg, p) = Lookup(file, p)
  <2>1. p \notin DOMAIN DEFAULT_CONFIG
    BY <1>2, DefaultTree, LeavesEnd
  <2>2. Lookup(cfg, p) = Merged(p)
    BY <1>2, Unordered
  <2> QED
    BY <2>1, <2>2, StrangersAreTheFiles DEF Lookup
<1>3. Entries(cfg, s) = Entries(file, s)
  <2>1. DOMAIN cfg \subseteq Path /\ DOMAIN file \subseteq Path
    BY TreeNodes DEF CfgFits, Sane
  <2>2. \A p \in Path : p # <<>> /\ Front(p) = s => IsPrefix(s, p) /\ p # s
    BY FrontBegins
  <2> QED
    BY <1>2, <2>1, <2>2 DEF Entries
<1>4. Lookup(cfg, s) = Merged(s)
  BY <1>1, Unordered
<1>5. s \in DOMAIN file => Merged(s) = file[s]
  BY <1>1 DEF Merged
<1>6. s \notin DOMAIN file => Merged(s) \in {Missing, DEFAULT_CONFIG[s]}
  BY <1>1 DEF Merged, Lookup
<1> QED
  BY <1>2, <1>3, <1>4, <1>5, <1>6

\* The log server is the file's.
LEMMA ServerIsTheFiles ==
  ASSUME Sane, CfgFits
  PROVE  NoServer(cfg) <=> NoServer(file)
<1>1. "alerting" \in Keys /\ "syslog" \in Keys /\ "host" \in Keys /\ "port" \in Keys
  BY KeysAssumption DEF OwnKeys
<1>2. Syslog \in Path /\ IsPrefix(<<"alerting">>, Syslog)
  <2>1. Syslog \in Path /\ Syslog # <<>> /\ Front(Syslog) = <<"alerting">>
    <3>1. <<"alerting", "syslog">> \in Path /\ Len(<<"alerting", "syslog">>) = 2
      BY <1>1, ShortSequences DEF Path
    <3> QED
      BY <1>1, <3>1, ShortFronts, EmptySeq DEF Syslog
  <2> QED
    BY <2>1, FrontBegins
<1>3. Syslog \in Leaves(DEFAULT_CONFIG) /\ DEFAULT_CONFIG[Syslog] = None
  <2>1. Syslog \in DefaultSettings /\ DEFAULT_CONFIG[Syslog] = None
    BY DEF Syslog, DefaultSettings, DEFAULT_CONFIG, DefaultSections
  <2> QED
    BY <2>1, DefaultTree, DefaultsListed DEF Leaves
<1>4. \A a \in Orders : a.to # Syslog
  BY <1>2, OrdersFit
<1>5. \A k \in {"host", "port"} : Lookup(cfg, Append(Syslog, k)) = Lookup(file, Append(Syslog, k))
  <2>1. ASSUME NEW k \in {"host", "port"}
        PROVE  /\ Append(Syslog, k) \in Path
               /\ IsPrefix(Syslog, Append(Syslog, k)) /\ Append(Syslog, k) # Syslog
    BY <1>1, <1>2, AppendBegins
  <2> QED
    BY <1>3, <1>4, <2>1, TruthIsTheFiles
<1>6. TrueAt(cfg, Syslog) <=> TrueAt(file, Syslog)
  <2>1. CASE Syslog \in DOMAIN file
    <3>1. Lookup(cfg, Syslog) = Lookup(file, Syslog) /\ Entries(cfg, Syslog) = Entries(file, Syslog)
      BY <1>3, <1>4, <2>1, TruthIsTheFiles DEF Lookup
    <3> QED
      BY <3>1 DEF TrueAt
  <2>2. CASE Syslog \notin DOMAIN file
    <3>1. Lookup(cfg, Syslog) \in {Missing, None} /\ Lookup(file, Syslog) = Missing
      BY <1>3, <1>4, <2>2, TruthIsTheFiles DEF Lookup
    <3>2. \A x \in {Missing, None} : \A entries : ~IsTrue(x, entries)
      BY LeavesAssumption DEF IsTrue, Missing, None, Leaf
    <3> QED
      BY <3>1, <3>2 DEF TrueAt
  <2> QED
    BY <2>1, <2>2
<1> QED
  BY <1>5, <1>6 DEF NoServer

\* A part of the program is enabled by the setting that is expected.
LEMMA EnabledAsExpected ==
  ASSUME Sane, CfgFits, NEW s, Append(s, "enabled") \in Leaves(DEFAULT_CONFIG)
  PROVE  Enabled(cfg, s) <=> IsEnabled(s)
<1> DEFINE e == Append(s, "enabled")
<1>1. Lookup(cfg, e) = Expected(e) /\ e \in Path
  BY SettingsExpected, DefaultTree, TreeNodes DEF Settings
<1>2. ASSUME Expected(e).dict PROVE Entries(cfg, e) = Entries(file, e)
  <2>1. \A a \in Orders : a.to # e
    BY <1>1, <1>2, OrdersFit DEF CfgFits
  <2> QED
    BY <2>1, TruthIsTheFiles
<1> HIDE DEF e
<1>3. IsTrue(Expected(e), Entries(cfg, e)) <=> IsTrue(Expected(e), Entries(file, e))
  BY <1>2 DEF IsTrue
<1> QED
  BY <1>1, <1>3 DEF Enabled, TrueAt, IsEnabled, e

\* Each demand is one on a setting of the defaults, and its switch is another.
LEMMA DemandsFit ==
  ASSUME Sane, CfgFits, NEW d \in Demands
  PROVE  /\ d.stage \in {"detectors", "web"}
         /\ Enabled(cfg, d.section) <=> IsEnabled(d.section)
         /\ Lookup(cfg, d.at) = Expected(d.at)
<1>1. /\ d.stage \in {"detectors", "web"}
      /\ d.section \in {<<"detectors", "arp_spoof">>, <<"detectors", "ml_anomaly">>, <<"web">>}
      /\ d.at \in {<<"gateway_ips">>, <<"detectors", "ml_anomaly", "buffer_size">>,
                   <<"web", "host">>, <<"web", "port">>}
  BY DEF Demands
<1>2. /\ Append(<<"detectors", "arp_spoof">>, "enabled") = <<"detectors", "arp_spoof", "enabled">>
      /\ Append(<<"detectors", "ml_anomaly">>, "enabled") = <<"detectors", "ml_anomaly", "enabled">>
      /\ Append(<<"web">>, "enabled") = <<"web", "enabled">>
  <2>1. \A k \in {"detectors", "arp_spoof", "ml_anomaly", "web", "enabled"} : k \in Keys
    BY KeysAssumption DEF OwnKeys
  <2> QED
    BY <2>1, Appends
<1>3. d.at \in DefaultSettings /\ Append(d.section, "enabled") \in DefaultSettings
  BY <1>1, <1>2 DEF DefaultSettings
<1>4. DefaultSettings = Leaves(DEFAULT_CONFIG)
  BY DefaultTree, DefaultsListed DEF Leaves
<1> QED
  BY <1>1, <1>3, <1>4, EnabledAsExpected, SettingsExpected DEF Settings

\* The switch of a detector, and what else its section holds.
LEMMA SwitchesFit ==
  ASSUME Sane, CfgFits, NEW d \in Detectors
  PROVE  LET e == Append(d, "enabled") IN
         /\ e \notin DOMAIN cfg => \E s \in Dicts(DEFAULT_CONFIG) : s \in Leaves(file)
         /\ d \in Leaves(file) => e \notin DOMAIN cfg
         /\ UnknownArguments(cfg, d) = UnknownArguments(file, d)
         /\ Enabled(cfg, d) <=> IsEnabled(d)
<1> DEFINE e == Append(d, "enabled")
<1>1. d \in Dicts(DEFAULT_CONFIG) /\ e \in Leaves(DEFAULT_CONFIG)
  BY DetectorSections
<1>2. /\ d \in Path /\ e \in Path /\ e \in DOMAIN DEFAULT_CONFIG /\ e \notin Dicts(DEFAULT_CONFIG)
      /\ DEFAULT_CONFIG[e] # Missing
  BY <1>1, DefaultTree, TreeNodes
<1>3. IsPrefix(d, e) /\ d # e /\ Front(e) = d
  <2>1. "enabled" \in Keys
    BY KeysAssumption DEF OwnKeys
  <2> QED
    BY <1>2, <2>1, AppendBegins
<1> HIDE DEF e
<1>4. TreeOf("file", file)
  BY DEF Sane
<1>5. ASSUME \A a \in Orders : a.to # e PROVE Lookup(cfg, e) = Merged(e)
  <2>1. ~\E a \in Orders : IsPrefix(a.to, e)
    BY <1>2, <1>5, OrdersFit
  <2> QED
    BY <1>2, <1>5, <2>1 DEF CfgFits
<1>6. ASSUME NEW a \in Orders, a.to = e PROVE e \in DOMAIN cfg /\ d \in Dicts(cfg)
  <2>1. Lookup(cfg, e) = a.be /\ a.be # Missing /\ d \in Dicts(cfg)
    BY <1>3, <1>6, OrdersFit DEF CfgFits
  <2> QED
    BY <1>2, <2>1, Found
<1>7. ASSUME e \notin DOMAIN cfg PROVE \E s \in Dicts(DEFAULT_CONFIG) : s \in Leaves(file)
  <2>1. Merged(e) = Missing
    BY <1>2, <1>5, <1>6, <1>7, Found
  <2>2. e \notin DOMAIN file
    BY <1>2, <1>4, <2>1, TreeNodes DEF Merged
  <2>3. PICK q \in Leaves(file) : IsPrefix(q, e)
    BY <1>2, <2>1, <2>2 DEF Merged, Lookup
  <2>4. q \in Path /\ q # e
    BY <1>4, <2>2, TreeNodes
  <2>5. q \in Dicts(DEFAULT_CONFIG)
    BY <1>2, <2>3, <2>4, DefaultTree, TreeClosed
  <2> QED
    BY <2>5
<1>8. ASSUME d \in Leaves(file) PROVE e \notin DOMAIN cfg
  <2>1. \A a \in Orders : a.to # e
    BY <1>1, <1>6, <1>8, SectionPlaces DEF NoDict
  <2>2. e \notin DOMAIN file
    BY <1>3, <1>4, <1>8, LeavesEnd
  <2>3. Merged(e) = Missing
    BY <1>2, <1>3, <1>8, <2>2 DEF Merged
  <2> QED
    BY <1>2, <1>5, <2>1, <2>3, Found
<1>9. UnknownArguments(cfg, d) = UnknownArguments(file, d)
  <2>1. DOMAIN cfg \subseteq Path /\ DOMAIN file \subseteq Path
    BY <1>4, TreeNodes DEF CfgFits
  <2>2. ASSUME NEW p \in Path, p # <<>>, Front(p) = d, p \notin DOMAIN DEFAULT_CONFIG
        PROVE  p \in DOMAIN cfg <=> p \in DOMAIN file
    BY <1>1, <2>2, Unordered, StrangersAreTheFiles
  <2> QED
    BY <2>1, <2>2 DEF UnknownArguments, Entries
<1>10. Enabled(cfg, d) <=> IsEnabled(d)
  BY <1>1, EnabledAsExpected DEF e
<1> QED
  BY <1>7, <1>8, <1>9, <1>10 DEF e

\* Where a reader fails, the file is malformed ...
LEMMA ReadersFail ==
  ASSUME Sane, CfgFits, NEW stage \in Stages, Malformed(stage, cfg)
  PROVE  FileMalformed
<1>1. ASSUME NEW s \in Dicts(DEFAULT_CONFIG), NoDict(cfg, s) PROVE FileMalformed
  BY <1>1, SectionPlaces DEF FileMalformed
<1>2. {<<"alerting">>, <<"dashboard">>, <<"web">>, <<"detectors">>} \subseteq Dicts(DEFAULT_CONFIG)
  BY DefaultTree DEF DefaultSections
<1>3. CASE NoServer(cfg)
  BY <1>3, ServerIsTheFiles DEF FileMalformed
<1>4. ASSUME NEW d \in Detectors, DetectorRaises(cfg, d) PROVE FileMalformed
  BY <1>4, SwitchesFit DEF FileMalformed, DetectorRaises
<1>5. ASSUME NEW d \in Demands, Enabled(cfg, d.section), Refused(Lookup(cfg, d.at), d.use)
      PROVE  FileMalformed
  BY <1>5, DemandsFit DEF FileMalformed
<1>6. CASE stage = "alerts"
  BY <1>1, <1>2, <1>3, <1>5, <1>6 DEF Malformed
<1>7. CASE stage = "dashboard" \/ stage = "web"
  BY <1>1, <1>2, <1>5, <1>7 DEF Malformed
<1>8. CASE stage = "detectors"
  BY <1>1, <1>2, <1>4, <1>5, <1>8 DEF Malformed
<1> QED
  BY <1>6, <1>7, <1>8 DEF Stages

\* ... and where none does, it is not.
LEMMA ReadersDoWell ==
  ASSUME Sane, CfgFits, ~Malformed("alerts", cfg), ~Malformed("detectors", cfg),
         ~Malformed("web", cfg), ~Malformed("dashboard", cfg) \/ file = Empty("file")
  PROVE  ~FileMalformed
<1>1. ~\E s \in Dicts(DEFAULT_CONFIG) : s \in Leaves(file)
  <2>1. <<>> \notin Leaves(file) /\ <<"web">> \notin Leaves(file)
    <3>1. IsPrefix(<<>>, <<"web">>)
      BY DefaultTree, DefaultsListed, BeginsOrder DEF DefaultSections
    <3>2. <<"web">> \in Dicts(DEFAULT_CONFIG) /\ <<>> \in Dicts(DEFAULT_CONFIG)
      BY DefaultTree DEF DefaultSections
    <3>3. ~NoDict(cfg, <<"web">>)
      BY DEF Malformed
    <3> QED
      BY <3>1, <3>2, <3>3, SectionPlaces
  <2>2. <<"alerting">> \notin Leaves(file) /\ <<"detectors">> \notin Leaves(file)
    <3>1. <<"alerting">> \in Dicts(DEFAULT_CONFIG) /\ <<"detectors">> \in Dicts(DEFAULT_CONFIG)
      BY DefaultTree DEF DefaultSections
    <3> QED
      BY <3>1, SectionPlaces DEF Malformed
  <2>3. \A d \in Detectors : d \notin Leaves(file)
    BY SwitchesFit DEF Malformed, DetectorRaises
  <2>4. <<"dashboard">> \notin Leaves(file)
    <3>1. CASE file = Empty("file")
      BY <3>1 DEF Empty, Single, Leaves, Dicts, Dict
    <3>2. CASE ~Malformed("dashboard", cfg)
      <4>1. <<"dashboard">> \in Dicts(DEFAULT_CONFIG)
        BY DefaultTree DEF DefaultSections
      <4> QED
        BY <3>2, <4>1, SectionPlaces DEF Malformed
    <3> QED
      BY <3>1, <3>2
  <2>5. {<<"detectors", "port_scan">>, <<"detectors", "arp_spoof">>, <<"detectors", "ml_anomaly">>}
          \subseteq Detectors
    <3>1. \A k \in {"detectors", "port_scan", "arp_spoof", "ml_anomaly"} : k \in Keys
      BY KeysAssumption DEF OwnKeys
    <3>2. \A k \in Keys : Front(<<"detectors", k>>) = <<"detectors">>
      BY <3>1, ShortFronts
    <3> QED
      BY <3>1, <3>2, DefaultsListed DEF DefaultSections, Detectors, Entries
  <2> QED
    BY <2>1, <2>2, <2>3, <2>4, <2>5, DefaultTree DEF DefaultSections
<1>2. ~NoServer(file)
  BY ServerIsTheFiles DEF Malformed
<1>3. ASSUME NEW d \in Detectors, UnknownArguments(file, d) # {}, IsEnabled(d) PROVE FALSE
  BY <1>3, SwitchesFit DEF Malformed, DetectorRaises
<1>4. ASSUME NEW d \in Demands, IsEnabled(d.section), Refused(Expected(d.at), d.use) PROVE FALSE
  BY <1>4, DemandsFit DEF Malformed
<1> QED
  BY <1>1, <1>2, <1>3, <1>4 DEF FileMalformed

-----------------------------------------------------------------------------
(* What every step keeps *)

\* How far the process has come, and what the readers it has passed found.
ReadSoFar ==
  /\ boot \in {"dashboard", "detectors", "web", "done"} => ~Malformed("alerts", cfg)
  /\ boot \in {"detectors", "web", "done"} => ~Malformed("dashboard", cfg) \/ file = Empty("file")
  /\ boot \in {"web", "done"} => ~Malformed("detectors", cfg)
  /\ boot = "done" => ~Malformed("web", cfg)
  /\ boot = "failed" => FileMalformed

\* DefaultsKeptWhereOverridden of a process that is coming up.
DefaultsKept ==
  \A path \in DOMAIN DEFAULT_CONFIG :
    Lookup(defaults, path) # DEFAULT_CONFIG[path] =>
      /\ \E a \in Orders : a.to = path
      /\ Front(path) # <<>> /\ Front(path) \notin DOMAIN file

\* The inductive invariant: it says of each tree where every node comes from.
BootIInv ==
  IF boot = "over" THEN cfg = NotLoaded
  ELSE /\ Sane
       /\ program = "demo" \/ program = "cli"
       /\ program = "demo" => file = Empty("file")
       /\ boot = "load" => defaults = DEFAULT_CONFIG /\ applied = 0
       /\ cfg = NotLoaded \/ CfgFits
       /\ boot \in {"load", "failed", "lacking"} \/ CfgFits
       /\ DefaultsKept /\ ReadSoFar

\* An order is a place that no earlier one has, and is written where it fits.
LEMMA OrderIsNew ==
  ASSUME Sane, Ordered
  PROVE  /\ Order.to \in Leaves(DEFAULT_CONFIG) /\ Order.to \in Path /\ Order.to # <<>>
         /\ Target \in Dicts(DEFAULT_CONFIG)
         /\ Order.be # Missing
         /\ \A a \in Orders : a.to # Order.to
         /\ \A p \in DOMAIN DEFAULT_CONFIG : IsPrefix(Order.to, p) => Order.to = p
<1>1. applied + 1 \in 1 .. Len(Assignments) /\ applied \in Nat
  BY AssignmentsFit DEF Sane, Ordered
<1>2. DefaultSettings = Leaves(DEFAULT_CONFIG)
  BY DefaultTree, DefaultsListed DEF Leaves
<1>3. Order.to \in DefaultSettings /\ Front(Order.to) \in DefaultSections /\ Order.be # Missing
  BY <1>1, AssignmentsFit DEF Order
<1>4. ASSUME NEW a \in Orders PROVE a.to # Order.to
  <2>1. PICK i \in 1 .. applied : a = Assignments[i]
    BY DEF Orders
  <2>2. i \in 1 .. Len(Assignments) /\ i # applied + 1
    BY <1>1, <2>1 DEF Sane
  <2> QED
    BY <1>1, <2>1, <2>2, AssignmentsFit DEF Order
<1>5. <<>> \notin DefaultSettings
  BY DefaultsListed DEF DefaultSections
<1> QED
  BY <1>2, <1>3, <1>4, <1>5, DefaultTree, DefaultsListed, LeavesEnd DEF Target

\* The first configuration is the merge.
LEMMA LoadFits ==
  ASSUME BootIInv, LoadConfig
  PROVE  BootIInv'
<1>1. /\ boot = "load" /\ boot' = "assign" /\ UNCHANGED <<program, file, flags, applied, defaults>>
      /\ cfg' = DeepMerge(DEFAULT_CONFIG, file)
      /\ Sane /\ applied = 0 /\ DefaultsKept
      /\ program = "demo" \/ program = "cli"
      /\ program = "demo" => file = Empty("file")
  BY DEF BootIInv, LoadConfig, BootGoes, given
<1>2. Sane' /\ Assignments' = Assignments
  BY <1>1 DEF Sane, Assignments, TreeOf, Dicts
<1>3. Orders' = {} /\ Orders = {}
  BY <1>1 DEF Orders
<1>4. CfgFits'
  <2>1. \A p : Merged(p)' = Merged(p)
    BY <1>1 DEF Merged, Lookup, Leaves, Dicts
  <2>2. /\ DOMAIN cfg' \subseteq Path /\ \A p \in DOMAIN cfg' : cfg'[p] # Missing
        /\ \A p \in Path : Lookup(cfg', p) = Merged(p)
    BY <1>1, MergeHolds DEF Sane
  <2> QED
    BY <1>3, <2>1, <2>2 DEF CfgFits, Lookup, Dicts
<1>5. DefaultsKept'
  BY <1>1, <1>3 DEF DefaultsKept, Lookup
<1>6. ReadSoFar'
  BY <1>1 DEF ReadSoFar
<1> QED
  BY <1>1, <1>2, <1>4, <1>5, <1>6 DEF BootIInv

\* An assignment is one more order.
LEMMA AssignFits ==
  ASSUME BootIInv, Assign
  PROVE  BootIInv'
<1>1. /\ boot = "assign" /\ boot' = "assign" /\ UNCHANGED <<program, file, flags>>
      /\ applied' = applied + 1 /\ Ordered /\ Target \in Dicts(cfg)
      /\ cfg' = Put(cfg, Order.to, Order.be)
      /\ defaults' = IF cfg[Target] = Dict("default") THEN Put(defaults, Order.to, Order.be)
                                                      ELSE defaults
      /\ Sane /\ CfgFits /\ DefaultsKept
      /\ program = "demo" \/ program = "cli"
      /\ program = "demo" => file = Empty("file")
  BY DEF BootIInv, Assign, BootGoes, given
<1>2. Assignments' = Assignments
  BY <1>1 DEF Assignments
<1>3. Sane' /\ applied \in Nat
  BY <1>1, <1>2, AssignmentsFit DEF Sane, Ordered, TreeOf, Dicts
<1>4. Orders' = Orders \cup {Order}
  BY <1>1, <1>2, <1>3 DEF Orders, Order, Ordered
<1>5. \A p : Merged(p)' = Merged(p)
  BY <1>1 DEF Merged, Lookup, Leaves, Dicts
<1> DEFINE here == Order.to
<1>6. /\ here \in Path /\ here \in Leaves(DEFAULT_CONFIG)
      /\ \A a \in Orders : a.to # here
      /\ \A p \in DOMAIN DEFAULT_CONFIG : IsPrefix(here, p) => here = p
      /\ Order.be # Missing /\ Target \in Dicts(DEFAULT_CONFIG) /\ Target = Front(here)
  BY <1>1, OrderIsNew DEF Target
<1>7. /\ DOMAIN cfg' \subseteq Path
      /\ \A p \in DOMAIN cfg' : cfg'[p] # Missing
      /\ Lookup(cfg', here) = Order.be
      /\ \A p \in Path \ {here} :
           Lookup(cfg', p) = IF IsPrefix(here, p) THEN Missing ELSE Lookup(cfg, p)
  <2>1. DOMAIN cfg \subseteq Path /\ \A p \in DOMAIN cfg : cfg[p] # Missing
    BY <1>1 DEF CfgFits
  <2> QED
    BY <1>1, <1>6, <2>1, PutHolds
<1> HIDE DEF here
<1>8. \A s \in Dicts(DEFAULT_CONFIG) : s \in Dicts(cfg) => s \in Dicts(cfg')
  <2>1. ASSUME NEW s \in Dicts(DEFAULT_CONFIG), s \in Dicts(cfg) PROVE s \in Dicts(cfg')
    <3>1. s \in Path /\ s \in DOMAIN DEFAULT_CONFIG /\ s # here
      BY <1>6, DefaultTree, TreeNodes
    <3>2. ~IsPrefix(here, s)
      BY <1>6, <3>1
    <3>3. Lookup(cfg', s) = Lookup(cfg, s)
      BY <1>7, <3>1, <3>2
    <3>4. cfg[s].dict /\ s \in DOMAIN cfg /\ ~Missing.dict
      BY <2>1 DEF Dicts, Missing, Leaf
    <3> QED
      BY <3>3, <3>4 DEF Lookup, Dicts
  <2> QED
    BY <2>1
<1>9. CfgFits'
  <2>1. \A a \in Orders : Front(a.to) \in Dicts(cfg') /\ Lookup(cfg', a.to) = a.be
    <3>1. \A a \in Orders : /\ Front(a.to) \in Dicts(DEFAULT_CONFIG) /\ Front(a.to) \in Dicts(cfg)
                            /\ Lookup(cfg, a.to) = a.be
                            /\ a.to \in Path /\ a.to # here /\ a.to \in DOMAIN DEFAULT_CONFIG
      BY <1>1, <1>6, OrdersFit, DefaultTree, TreeNodes DEF CfgFits
    <3> QED
      BY <1>6, <1>7, <1>8, <3>1
  <2>2. Front(here) \in Dicts(cfg')
    BY <1>1, <1>6, <1>8
  <2>3. ASSUME NEW p \in Path, \A a \in Orders : a.to # p, p # here
        PROVE  Lookup(cfg', p) =
                 IF IsPrefix(here, p) \/ \E a \in Orders : IsPrefix(a.to, p)
                 THEN Missing ELSE Merged(p)
    BY <1>1, <1>7, <2>3 DEF CfgFits
  <2> QED
    BY <1>4, <1>5, <1>7, <2>1, <2>2, <2>3 DEF CfgFits, Lookup, Dicts, here
<1>10. DefaultsKept'
  <2>1. CASE defaults' = defaults
    BY <1>1, <1>4, <2>1 DEF DefaultsKept, Lookup
  <2>2. CASE cfg[Target] = Dict("default") /\ defaults' = Put(defaults, here, Order.be)
    <3>1. Target \notin DOMAIN file /\ Target # <<>>
      <4>1. Merged(Target) = Dict("default")
        BY <1>1, <1>6, <2>2, Unordered DEF Lookup, Dicts
      <4>2. Dict("default") # Dict("copy") /\ Dict("default") # Dict("file")
            /\ \A x : ~x.dict => Dict("default") # x
        BY DEF Dict
      <4>3. Target \notin DOMAIN file
        BY <1>1, <1>6, <4>1, <4>2, TreeNodes DEF Merged, Sane, Leaves
      <4> QED
        BY <1>1, <4>3, TreeNodes DEF Sane
    <3>2. ASSUME NEW p \in DOMAIN DEFAULT_CONFIG, p # here
          PROVE  Lookup(defaults', p) = Lookup(defaults, p)
      <4>1. p \in Path /\ ~IsPrefix(here, p)
        BY <1>6, <3>2, DefaultTree, TreeNodes
      <4>2. p \in DOMAIN defaults' <=> p \in DOMAIN defaults
        BY <2>2, <3>2, <4>1 DEF Put, Over, Single, Without
      <4>3. p \in DOMAIN defaults => defaults'[p] = defaults[p]
        BY <2>2, <3>2, <4>1 DEF Put, Over, Single, Without
      <4> QED
        BY <4>2, <4>3 DEF Lookup
    <3> QED
      BY <1>1, <1>4, <1>6, <3>1, <3>2 DEF DefaultsKept, here, Lookup
  <2> QED
    BY <1>1, <2>1, <2>2 DEF here
<1>11. ReadSoFar'
  BY <1>1 DEF ReadSoFar
<1> QED
  BY <1>1, <1>3, <1>9, <1>10, <1>11 DEF BootIInv

\* What is neither loaded nor assigned to stays as it is read.
LEMMA BootKeeps ==
  ASSUME BootIInv, [BootNext \/ Forget]_bootVars
  PROVE  BootIInv'
<1>1. CASE LoadConfig
  BY <1>1, LoadFits
<1>2. CASE Assign
  BY <1>2, AssignFits
<1>3. CASE Forget
  BY <1>3 DEF Forget, BootIInv
<1>4. CASE UNCHANGED bootVars
  <2>1. UNCHANGED <<boot, program, file, flags, applied, cfg, defaults>>
    BY <1>4 DEF bootVars
  <2>2. (Sane <=> Sane') /\ (CfgFits <=> CfgFits') /\ (DefaultsKept <=> DefaultsKept')
    BY <2>1 DEF Sane, CfgFits, Orders, Assignments, Merged, DefaultsKept
  <2>3. (FileMalformed <=> FileMalformed') /\ \A s : Malformed(s, cfg) <=> Malformed(s, cfg)'
    BY <2>1 DEF FileMalformed, IsEnabled, Expected, Orders, Assignments, Malformed
  <2>4. ReadSoFar <=> ReadSoFar'
    BY <2>1, <2>3 DEF ReadSoFar
  <2> QED
    BY <2>1, <2>2, <2>4 DEF BootIInv
<1>5. CASE NotOrdered
  <2>1. /\ boot = "assign" /\ boot' = "assign" /\ UNCHANGED <<program, file, flags, cfg, defaults>>
        /\ applied' = applied + 1 /\ applied < Len(Assignments) /\ ~Ordered
        /\ Sane /\ CfgFits /\ DefaultsKept
        /\ program = "demo" \/ program = "cli"
        /\ program = "demo" => file = Empty("file")
    BY <1>5 DEF BootIInv, NotOrdered, BootGoes, given
  <2>2. Assignments' = Assignments
    BY <2>1 DEF Assignments
  <2>3. Sane' /\ applied \in Nat
    BY <2>1, <2>2, AssignmentsFit DEF Sane, TreeOf, Dicts
  <2>4. Orders' = Orders
    BY <2>1, <2>2, <2>3 DEF Orders, Order, Ordered
  <2>5. CfgFits'
    <3>1. \A p : Merged(p)' = Merged(p)
      BY <2>1 DEF Merged, Lookup, Leaves, Dicts
    <3> QED
      BY <2>1, <2>4, <3>1 DEF CfgFits, Lookup, Dicts
  <2>6. DefaultsKept' /\ ReadSoFar'
    BY <2>1, <2>4 DEF DefaultsKept, ReadSoFar, Lookup
  <2> QED
    BY <2>1, <2>3, <2>5, <2>6 DEF BootIInv
<1>6. CASE LoadRaises \/ Unreadable \/ AssignRaises \/ Assigned \/ Build
  <2>1. UNCHANGED <<program, file, flags, applied, cfg, defaults>>
    BY <1>6 DEF LoadRaises, Unreadable, AssignRaises, Assigned, Build, BootGoes, given
  <2>2. boot # "over" /\ boot' # "over" /\ boot' # "load"
    <3>1. boot # "over"
      BY <1>6 DEF LoadRaises, Unreadable, AssignRaises, Assigned, Build, BootGoes, Stages
    <3>2. program = "demo" \/ program = "cli"
      BY <3>1 DEF BootIInv
    <3>3. ASSUME NEW stage \in Stages PROVE After(stage) \in {"dashboard", "detectors", "web", "done"}
      BY <3>2 DEF After, Stages
    <3>4. boot' \in {"failed", "alerts", "lacking"} \/ \E stage \in Stages : boot' = After(stage)
      BY <1>6 DEF LoadRaises, Unreadable, AssignRaises, Assigned, Build, BootGoes
    <3> QED
      BY <3>1, <3>3, <3>4
  <2>3. /\ Sane /\ DefaultsKept /\ ReadSoFar /\ (cfg = NotLoaded \/ CfgFits)
        /\ program = "demo" \/ program = "cli"
        /\ program = "demo" => file = Empty("file")
        /\ boot \in {"load", "failed", "lacking"} \/ CfgFits
    BY <2>2 DEF BootIInv
  <2>4. Sane' /\ DefaultsKept' /\ (CfgFits <=> CfgFits')
    BY <2>1, <2>3 DEF Sane, TreeOf, Dicts, CfgFits, Orders, Assignments, Lookup, Merged, Leaves, DefaultsKept
  <2>5. boot' \in {"load", "failed", "lacking"} \/ CfgFits
    BY <1>6, <2>3 DEF LoadRaises, Unreadable, AssignRaises, Assigned, Build, BootGoes, Stages
  <2>6. (FileMalformed <=> FileMalformed') /\ \A s : Malformed(s, cfg) <=> Malformed(s, cfg)'
    BY <2>1 DEF FileMalformed, IsEnabled, Expected, Orders, Assignments, Malformed
  <2>7. ReadSoFar'
    <3>1. CASE LoadRaises
      <4>1. <<>> \in Leaves(file) /\ <<>> \in Dicts(DEFAULT_CONFIG)
        BY <2>3, <3>1, TreeNodes, DefaultTree DEF LoadRaises, NoDict, Sane, Leaves, DefaultSections
      <4>2. FileMalformed /\ boot' = "failed"
        BY <3>1, <4>1 DEF FileMalformed, LoadRaises, BootGoes
      <4> QED
        BY <2>6, <4>2 DEF ReadSoFar
    <3>2. CASE AssignRaises
      <4>1. boot = "assign" /\ boot' = "failed" /\ Ordered /\ NoDict(cfg, Target)
        BY <3>2 DEF AssignRaises, BootGoes
      <4>2. CfgFits /\ Target \in Dicts(DEFAULT_CONFIG)
        BY <2>3, <4>1, OrderIsNew
      <4>3. FileMalformed
        BY <2>3, <4>1, <4>2, SectionPlaces DEF FileMalformed
      <4> QED
        BY <2>6, <4>1, <4>3 DEF ReadSoFar
    <3>3. CASE Assigned
      BY <3>3 DEF Assigned, BootGoes, ReadSoFar
    <3>4. ASSUME NEW stage \in Stages, boot = stage, Malformed(stage, cfg), boot' = "failed"
          PROVE  ReadSoFar'
      <4>1. CfgFits
        BY <2>3, <3>4 DEF Stages
      <4> QED
        BY <2>3, <2>6, <3>4, <4>1, ReadersFail DEF ReadSoFar
    <3>5. ASSUME NEW stage \in Stages, boot = stage, ~Malformed(stage, cfg), boot' = After(stage)
          PROVE  ReadSoFar'
      <4>1. \A s : Malformed(s, cfg') <=> Malformed(s, cfg)
        BY <2>1
      <4>2. file' = file
        BY <2>1
      <4>3. CASE stage = "alerts"
        BY <2>3, <3>5, <4>1, <4>2, <4>3 DEF ReadSoFar, After
      <4>4. CASE stage = "dashboard"
        BY <2>3, <3>5, <4>1, <4>2, <4>4 DEF ReadSoFar, After
      <4>5. CASE stage = "detectors"
        BY <2>3, <3>5, <4>1, <4>2, <4>5 DEF ReadSoFar, After
      <4>6. CASE stage = "web"
        BY <2>3, <3>5, <4>1, <4>2, <4>6 DEF ReadSoFar, After
      <4> QED
        BY <4>3, <4>4, <4>5, <4>6 DEF Stages
    <3>6. ASSUME boot' = "lacking" PROVE ReadSoFar'
      BY <3>6 DEF ReadSoFar
    <3> QED
      BY <1>6, <3>1, <3>2, <3>3, <3>4, <3>5, <3>6 DEF Build, Unreadable, BootGoes
  <2> QED
    BY <2>1, <2>2, <2>3, <2>4, <2>5, <2>7 DEF BootIInv
<1> QED
  BY <1>1, <1>2, <1>3, <1>4, <1>5, <1>6 DEF BootNext

\* Nothing is loaded or assigned at first.
LEMMA BootBegins == BootInit => BootIInv
<1> SUFFICES ASSUME BootInit PROVE BootIInv
  OBVIOUS
<1>1. TreeOf("file", Empty("file"))
  <2>1. Empty("file") = [p \in {<<>>} |-> Dict("file")]
    BY DEF Empty, Single
  <2>2. <<>> \in Seq(Keys) /\ Len(<<>>) = 0
    BY EmptySeq
  <2>3. \A n \in 0 .. 0 - 1 : FALSE
    OBVIOUS
  <2> QED
    BY <2>1, <2>2, <2>3 DEF TreeOf
<1>2. Sane
  <2>1. \A f \in Files : TreeOf("file", OrEmpty(f))
    BY <1>1, BootAssumption DEF OrEmpty
  <2> QED
    BY <1>1, <2>1, AssignmentsFit DEF BootInit, Sane
<1>3. DefaultsKept /\ ReadSoFar
  BY DEF BootInit, DefaultsKept, ReadSoFar, Lookup
<1> QED
  BY <1>2, <1>3 DEF BootInit, BootIInv

\* What the invariant says of the properties.
LEMMA BootIInvSays ==
  BootIInv => ConfigIsLayered /\ DefaultsKeptWhereOverridden /\ MalformedFilesEndTheProcess
<1> SUFFICES ASSUME BootIInv
             PROVE  ConfigIsLayered /\ DefaultsKeptWhereOverridden /\ MalformedFilesEndTheProcess
  OBVIOUS
<1>1. CASE boot = "over"
  BY <1>1 DEF BootIInv, ConfigIsLayered, DefaultsKeptWhereOverridden, MalformedFilesEndTheProcess
<1>2. CASE boot # "over"
  <2>1. ConfigIsLayered
    BY <1>2, SettingsExpected DEF BootIInv, ConfigIsLayered
  <2>2. DefaultsKeptWhereOverridden
    BY <1>2 DEF BootIInv, DefaultsKept, DefaultsKeptWhereOverridden
  <2>3. MalformedFilesEndTheProcess
    BY <1>2, ReadersDoWell DEF BootIInv, ReadSoFar, MalformedFilesEndTheProcess
  <2> QED
    BY <2>1, <2>2, <2>3
<1> QED
  BY <1>1, <1>2

-----------------------------------------------------------------------------
(* The theorems *)

\* Only the process that comes up touches its configuration.
LEMMA BootSteps == [DeployNext]_deployVars => [BootNext \/ Forget]_bootVars
<1> SUFFICES ASSUME [DeployNext]_deployVars PROVE BootNext \/ Forget \/ UNCHANGED bootVars
  OBVIOUS
<1>1. CASE DriverStart \/ ServeIdle \/ Interrupt
  BY <1>1 DEF DriverStart, DriverCalls, ServeIdle, Interrupt, DriverMoves
<1>2. CASE Boots \/ Booted \/ BootAborted
  BY <1>2 DEF Boots, Booted, BootAborted, BootEnds
<1>3. CASE DriverClears \/ DriverStarted \/ DriverStartRaises
  BY <1>3 DEF DriverClears, DriverStarted, DriverStartRaises, DriverMoves
<1>4. CASE DemoSeesIdle \/ DemoPaused \/ ScriptSeesIdle
  BY <1>4 DEF DemoSeesIdle, DemoPaused, ScriptSeesIdle, DriverMoves
<1>5. CASE DriverStopBegins \/ DriverStops \/ DriverStopped \/ ServerCloses
  BY <1>5 DEF DriverStopBegins, DriverStops, DriverStopped, ServerCloses, DriverMoves
<1>6. ASSUME NEW v \in Visitors, VisitorCalls(v) \/ VisitorServed(v) PROVE UNCHANGED bootVars
  BY <1>6 DEF VisitorCalls, VisitorServed, Elsewhere
<1>7. ASSUME NEW n \in Scans, ScanRuns(n) \/ SnifferRuns(n) PROVE UNCHANGED bootVars
  BY <1>7 DEF ScanRuns, SnifferRuns, Elsewhere
<1>8. CASE UNCHANGED deployVars
  BY <1>8 DEF deployVars
<1> QED
  BY <1>1, <1>2, <1>3, <1>4, <1>5, <1>6, <1>7, <1>8 DEF DeployNext, DriverGoesOn

\* The invariant of a process that comes up.
LEMMA BootInvariant == DeploySpec => []BootIInv
<1>1. DeployInit => BootIInv
  BY BootBegins DEF DeployInit
<1>2. BootIInv /\ [DeployNext]_deployVars => BootIInv'
  BY BootKeeps, BootSteps
<1> QED
  BY <1>1, <1>2, PTL DEF DeploySpec

\* ConfigIsLayered: whatever a user's file holds and whichever options are given,
\* every setting is the command line's, else the file's, else the built-in one.
THEOREM SettingsAreLayered == DeploySpec => []ConfigIsLayered
<1>1. BootIInv => ConfigIsLayered
  BY BootIInvSays
<1> QED
  BY <1>1, BootInvariant, PTL

\* DefaultsKeptWhereOverridden: an assignment reaches the module's own defaults
\* only through a section that the file says nothing of.
THEOREM DefaultsSurvive == DeploySpec => []DefaultsKeptWhereOverridden
<1>1. BootIInv => DefaultsKeptWhereOverridden
  BY BootIInvSays
<1> QED
  BY <1>1, BootInvariant, PTL

\* MalformedFilesEndTheProcess: no process comes up with a malformed file, and of
\* itself the program stops for no other reason.
THEOREM MalformedNeverComesUp == DeploySpec => []MalformedFilesEndTheProcess
<1>1. BootIInv => MalformedFilesEndTheProcess
  BY BootIInvSays
<1> QED
  BY <1>1, BootInvariant, PTL

=============================================================================
