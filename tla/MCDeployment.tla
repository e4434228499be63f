---------------------------- MODULE MCDeployment ----------------------------
(***************************************************************************)
(* Instances of Deployment for TLC: a driver and one visitor in each kind   *)
(* of process, and the merge as the recursion it is in the code.            *)
(***************************************************************************)
EXTENDS Deployment

CONSTANTS main, visitor

DriverAndVisitor == {main, visitor}

\* The faults a process meets beyond its engine's control, but for a sniffer
\* that comes up late.
Untolerated == {"spawn", "long_gap"}

Texts == STRING

-----------------------------------------------------------------------------
(* Dictionaries as functions from their keys, and the trees they stand for. *)

Of(keys) == [keys |-> keys]
Nested(v) == "keys" \in DOMAIN v
NoKeys == [k \in {} |-> None]

RECURSIVE TreeFrom(_, _, _)
TreeFrom(home, path, v) ==
  IF Nested(v)
  THEN FoldFunction(Over, Single(path, Dict(home)),
                    [k \in DOMAIN v.keys |-> TreeFrom(home, Append(path, k), v.keys[k])])
  ELSE Single(path, v)

RECURSIVE ValueAt(_, _)
ValueAt(path, t) ==
  IF t[path].dict
  THEN Of([k \in {Last(p) : p \in Entries(t, path)} |-> ValueAt(Append(path, k), t)])
  ELSE t[path]

\* _deep_merge(): keys of one dictionary after the other, in no order that
\* matters.
RECURSIVE MergedKeys(_, _)
MergedKeys(base, override) ==
  [k \in DOMAIN base \cup DOMAIN override |->
     IF k \notin DOMAIN override THEN base[k]
     ELSE IF k \in DOMAIN base /\ Nested(override[k]) /\ Nested(base[k])
          THEN Of(MergedKeys(base[k].keys, override[k].keys))
          ELSE override[k]]

-----------------------------------------------------------------------------
(* The files *)

\* What a file may say of one section: nothing in it, a part of it, something
\* wrong in it, or something else in its place.
SectionChoices ==
  [interface |-> {Leaf("wlan0"), Of([name |-> Leaf("wlan0")])},
   detectors |-> {None, Of(NoKeys),
                  Of([port_scan |-> None]),
                  Of([port_scan |-> Of([port_threshold |-> Leaf("3")])]),
                  Of([port_scan |-> Of([threshold |-> Leaf("3")])]),
                  Of([ml_anomaly |-> Of([enabled |-> On])]),
                  Of([ml_anomaly |-> Of([warm_up |-> Leaf("9")])]),
                  Of([ml_anomaly |-> Of([enabled |-> On, buffer_size |-> Leaf("-1")])]),
                  Of([arp_spoof |-> Of([enabled |-> Off])])},
   gateway_ips |-> {None, Leaf("7")},
   alerting |-> {None, Of([console |-> Off, syslog |-> Off]), Of([syslog |-> Leaf("localhost")]),
                 Of([syslog |-> Of([host |-> Leaf("localhost")])]),
                 Of([syslog |-> Of([port |-> Leaf("514")])]),
                 Of([syslog |-> Of([host |-> Leaf("localhost"), port |-> Of(NoKeys)])]),
                 Of([syslog |-> Of([host |-> None, port |-> None])]),
                 Of([syslog |-> Of(NoKeys)])},
   dashboard |-> {None, Of([enabled |-> On])},
   web |-> {None, Of(NoKeys), Of([enabled |-> Leaf("yes")]), Of([port |-> Leaf("80")]),
            Of([port |-> Of([number |-> Leaf("80")])]), Of([port |-> None]), Of([host |-> None])}]

\* Of these, what bool(), set(), deque() and the two servers' sockets can do with.
FalseLeaves == {"null", "false", "missing"}
LeafUses ==
  LET own == {"built-in", "missing"} IN
  [host |-> own \cup {"localhost"},
   port |-> own \cup {"80", "9000", "false", "true"},
   log_host |-> own \cup {"localhost", "null"},
   log_port |-> own \cup {"514", "null"},
   addresses |-> own \cup FalseLeaves \cup {"192.168.1.1"},
   maxlen |-> own \cup {"9", "null"}]

\* Files that speak of one section, alone or beside the gateways or the dashboard,
\* and two that are no mapping, of which the program takes one for an empty file.
TwoSectionFiles ==
  {TreeFrom("file", <<>>, v) : v \in {Leaf("text"), None, Of(NoKeys)} \cup
     UNION {{Of([s \in {a, b} |-> IF s = a THEN x ELSE y]) : x \in SectionChoices[a], y \in SectionChoices[b]}
            : a \in DOMAIN SectionChoices, b \in {"gateway_ips", "dashboard"}}
     \cup UNION {{Of([s \in {a} |-> x]) : x \in SectionChoices[a]} : a \in DOMAIN SectionChoices}}

\* _deep_merge() of config.py:61-68 is the recursion; what the model merges over
\* the defaults, all at once, is its result for each of these files.
ASSUME MergeIsRecursive ==
  \A f \in TwoSectionFiles : <<>> \in Dicts(f) =>
    ValueAt(<<>>, DeepMerge(DEFAULT_CONFIG, f))
      = Of(MergedKeys(ValueAt(<<>>, DEFAULT_CONFIG).keys, ValueAt(<<>>, f).keys))

\* The web server's options one after the other, those that are not, and all.
SomeFlags ==
  {{}, {"web"}, {"web", "web_port"}, {"interface", "dashboard"},
   {"interface", "dashboard", "web", "web_port"}}
=============================================================================
