-------------------------------- MODULE Config --------------------------------
(***************************************************************************)
(* sentrynet/config.py: the built-in defaults, the user's file merged over   *)
(* them, and what the programs assign into the result.  A configuration is a *)
(* tree of dictionaries, held as a function from paths, the keys that lead   *)
(* to a place, to what is there.  The merge copies the dictionaries it       *)
(* descends into and hands on every other one as it is, so each remembers    *)
(* whose it is.                                                              *)
(***************************************************************************)
EXTENDS SequencesExt

CONSTANTS
  Keys,   \* what may be a key of a dictionary
  Falsy,  \* the leaves that Python takes for false
  Takes   \* for each use of a leaf, those that do not make its reader raise

OwnKeys ==
  {"detectors", "port_scan", "arp_spoof", "ml_anomaly", "alerting", "dashboard", "web",
   "interface", "gateway_ips", "enabled", "port_threshold", "buffer_size", "warmup", "console",
   "syslog", "host", "port"}

ASSUME KeysAssumption == OwnKeys \subseteq Keys

Uses == {"host", "port", "log_host", "log_port", "addresses", "maxlen"}

\* Every reader can do with the built-in settings and with the default it has
\* itself, and with what the programs assign; set() gets [] for what is false.
ASSUME LeavesAssumption ==
  /\ {"null", "false", "missing"} \subseteq Falsy /\ "true" \notin Falsy
  /\ DOMAIN Takes = Uses
  /\ \A use \in Uses : {"built-in", "missing"} \subseteq Takes[use]
  /\ "9000" \in Takes["port"]
  /\ Falsy \cup {"192.168.1.1"} \subseteq Takes["addresses"]

Leaf(x) == [dict |-> FALSE, is |-> x]
Dict(home) == [dict |-> TRUE, is |-> home]
None == Leaf("null")
Missing == Leaf("missing")
On == Leaf("true")
Off == Leaf("false")

Dicts(t) == {p \in DOMAIN t : t[p].dict}
Leaves(t) == DOMAIN t \ Dicts(t)
Lookup(t, path) == IF path \in DOMAIN t THEN t[path] ELSE Missing
Entries(t, path) == {p \in DOMAIN t : p # <<>> /\ Front(p) = path}

\* x alone, at a path, and one tree where it is defined, else another.
Single(path, x) == [p \in {path} |-> x]
Over(t, u) == [p \in DOMAIN t \cup DOMAIN u |-> IF p \in DOMAIN t THEN t[p] ELSE u[p]]

Empty(home) == Single(<<>>, Dict(home))

\* What is in the tree lies in a dictionary of it, all of which are one owner's.
TreeOf(home, t) ==
  /\ <<>> \in DOMAIN t
  /\ \A p \in DOMAIN t :
       /\ p \in Seq(Keys)
       /\ t[p] = Dict(home) \/ (t[p] = Leaf(t[p].is) /\ t[p] # Missing)
       /\ \A n \in 0 .. Len(p) - 1 : SubSeq(p, 1, n) \in Dicts(t)

DefaultSections ==
  {<<>>, <<"detectors">>, <<"detectors", "port_scan">>, <<"detectors", "arp_spoof">>,
   <<"detectors", "ml_anomaly">>, <<"alerting">>, <<"dashboard">>, <<"web">>}

\* Of the leaves of a section, one each that the programs read, assign or check
\* in its own way.  traffic_spike is treated as port_scan is, but takes a key_fn
\* too, and new_host overlooks what else its section holds.
DEFAULT_CONFIG ==
  LET on == {<<"detectors", "port_scan", "enabled">>, <<"detectors", "arp_spoof", "enabled">>,
             <<"alerting", "console">>}
      off == {<<"detectors", "ml_anomaly", "enabled">>, <<"dashboard", "enabled">>,
              <<"web", "enabled">>}
      null == {<<"interface">>, <<"alerting", "syslog">>}
      built_in == {<<"gateway_ips">>, <<"detectors", "port_scan", "port_threshold">>,
                   <<"detectors", "ml_anomaly", "buffer_size">>,
                   <<"detectors", "ml_anomaly", "warmup">>, <<"web", "host">>, <<"web", "port">>}
  IN [p \in DefaultSections \cup on \cup off \cup null \cup built_in |->
        CASE p \in DefaultSections -> Dict("default")
          [] p \in on -> On
          [] p \in off -> Off
          [] p \in null -> None
          [] p \in built_in -> Leaf("built-in")]

\* The tree without these places and what lies under them.
Without(t, places) ==
  [p \in {p \in DOMAIN t : \A q \in places : ~IsPrefix(q, p)} |-> t[p]]

\* Defect: an assignment keeps what is there, as setdefault() does.
DefectKeep(t, path, x) == Over(t, Single(path, x))

\* cfg[k1]...[kn] = x
Put(t, path, x) == Over(Single(path, x), Without(t, {path}))

\* Defect: a dictionary is merged into without being copied.
DefectInPlace(node) == node

\* dict(base)
CopyOf(node) == Dict("copy")

\* The dictionaries in merged are copies that hold what is in either tree; from
\* there on down the upper tree's entries take the place of the lower one's.
Layered(upper, lower, merged) ==
  Over([p \in merged |-> CopyOf(lower[p])], Over(upper, Without(lower, DOMAIN upper \ merged)))

\* _deep_merge() descends into the dictionaries that are in both trees.
DeepMerge(base, override) == Layered(override, base, Dicts(base) \cap Dicts(override))

-----------------------------------------------------------------------------
(* What is assigned into the merged configuration, in this order. *)

\* The options of the command line that main() writes into it.
Flags ==
  << [flag |-> "interface", to |-> <<"interface">>, be |-> Leaf("eth0")],
     [flag |-> "dashboard", to |-> <<"dashboard", "enabled">>, be |-> On],
     [flag |-> "web", to |-> <<"web", "enabled">>, be |-> On],
     [flag |-> "web_port", to |-> <<"web", "port">>, be |-> Leaf("9000")] >>

\* render_demo.py turns ml_anomaly on with a short warm-up.
DemoAssignments ==
  << [flag |-> "demo", to |-> <<"gateway_ips">>, be |-> Leaf("192.168.1.1")],
     [flag |-> "demo", to |-> <<"detectors", "ml_anomaly", "enabled">>, be |-> On],
     [flag |-> "demo", to |-> <<"detectors", "ml_anomaly", "warmup">>, be |-> Leaf("40")] >>

-----------------------------------------------------------------------------
(* What the readers of a configuration c cannot take, and what they need. *)

Stages == {"alerts", "dashboard", "detectors", "web"}

NoDict(c, path) == path \notin Dicts(c)

\* Python's truth of x, a dictionary with these entries or a leaf.
IsTrue(x, entries) == IF x.dict THEN entries # {} ELSE x.is \notin Falsy
TrueAt(c, path) == IsTrue(Lookup(c, path), Entries(c, path))

Enabled(c, section) == TrueAt(c, Append(section, "enabled"))
Detectors == Entries(DEFAULT_CONFIG, <<"detectors">>)
UnknownArguments(c, detector) == Entries(c, detector) \ Entries(DEFAULT_CONFIG, detector)

\* A reader raises on x; only set() can do with a dictionary.
Refused(x, use) == IF x.dict THEN use # "addresses" ELSE x.is \notin Takes[use]

\* What the stages do with single settings of the sections that are enabled: the
\* arguments of set(), of deque() and of the web server.
Demands ==
  {[stage |-> "detectors", section |-> <<"detectors", "arp_spoof">>,
    at |-> <<"gateway_ips">>, use |-> "addresses"],
   [stage |-> "detectors", section |-> <<"detectors", "ml_anomaly">>,
    at |-> <<"detectors", "ml_anomaly", "buffer_size">>, use |-> "maxlen"],
   [stage |-> "web", section |-> <<"web">>, at |-> <<"web", "host">>, use |-> "host"],
   [stage |-> "web", section |-> <<"web">>, at |-> <<"web", "port">>, use |-> "port"]}

\* A log server without a host, or one that no socket can be made for.
Syslog == <<"alerting", "syslog">>
NoServer(c) ==
  LET host == Lookup(c, Append(Syslog, "host"))
      port == Lookup(c, Append(Syslog, "port"))
  IN /\ TrueAt(c, Syslog)
     /\ \/ host = Missing
        \/ host = None /\ port = None
        \/ Refused(host, "log_host") \/ Refused(port, "log_port")

\* Defect: a detector is built before it is known to be enabled.
DefectBuildFirst(c, d) == Append(d, "enabled") \notin DOMAIN c \/ UnknownArguments(c, d) # {}

\* d_cfg[d]["enabled"], and the other keys as arguments of the constructor.
DetectorRaises(c, d) ==
  \/ Append(d, "enabled") \notin DOMAIN c
  \/ Enabled(c, d) /\ UnknownArguments(c, d) # {}

Malformed(stage, c) ==
  \/ stage = "alerts" /\ (NoDict(c, <<"alerting">>) \/ NoServer(c))
  \/ stage \in {"dashboard", "web"} /\ NoDict(c, <<stage>>)
  \/ stage = "detectors" /\ (\/ NoDict(c, <<"detectors">>)
                             \/ \E d \in Detectors : DetectorRaises(c, d))
  \/ \E d \in Demands : d.stage = stage /\ Enabled(c, d.section) /\ Refused(Lookup(c, d.at), d.use)

\* The log server's address, rich, scikit-learn, and a free port.
NeedsOutside(stage, c) ==
  \/ stage = "alerts" /\ TrueAt(c, Syslog)
  \/ stage \in {"dashboard", "web"} /\ Enabled(c, <<stage>>)
  \/ stage = "detectors" /\ Enabled(c, <<"detectors", "ml_anomaly">>)
=============================================================================
