--------------------------------- MODULE Boot ---------------------------------
(***************************************************************************)
(* How a process comes up: main() of sentrynet/cli.py and render_demo.py     *)
(* load the configuration, assign into it, and build from it the alert       *)
(* manager, the terminal dashboard, the detectors and the web server.  An    *)
(* exception at any place ends the process before there is a scan.           *)
(***************************************************************************)
EXTENDS Config

CONSTANTS
  Files,    \* what a user's YAML file may hold, a set of values
  FlagSets  \* which options may be on the command line, a set of sets

ASSUME BootAssumption ==
  /\ \A f \in Files : TreeOf("file", f)
  /\ \A w \in FlagSets : w \subseteq {Flags[i].flag : i \in DOMAIN Flags}

VARIABLES
  boot,      \* the stage main() is in
  program,   \* "cli" or "demo"
  file,      \* user_config: what the user's file holds
  flags,     \* the options on the command line
  applied,   \* how many assignments are made or passed over
  cfg,       \* cfg
  defaults   \* the module's DEFAULT_CONFIG

bootVars == <<boot, program, file, flags, applied, cfg, defaults>>
given == <<program, file, flags>>

\* Before cfg is loaded, and once nobody looks at either tree any more.
NotLoaded == <<>>

\* yaml.safe_load(f) or {}: a file that holds nothing, or just a null or a false,
\* is taken for an empty mapping, as no file at all is.
OrEmpty(f) == IF IsTrue(f[<<>>], Entries(f, <<>>)) THEN f ELSE Empty("file")

BootInit ==
  /\ boot = "load" /\ applied = 0
  /\ cfg = NotLoaded /\ defaults = DEFAULT_CONFIG
  /\ \/ program = "demo" /\ file = Empty("file") /\ flags = {"demo"}
     \/ program = "cli" /\ file \in {OrEmpty(f) : f \in Files} /\ flags \in FlagSets

BootGoes(from, to) == boot = from /\ boot' = to /\ UNCHANGED given

LoadConfig ==
  /\ BootGoes("load", "assign")
  /\ <<>> \in Dicts(file)
  /\ cfg' = DeepMerge(defaults, file)
  /\ UNCHANGED <<applied, defaults>>

LoadRaises ==
  /\ BootGoes("load", "failed")
  /\ NoDict(file, <<>>)
  /\ UNCHANGED <<applied, cfg, defaults>>

\* The file cannot be opened or is no YAML.
Unreadable ==
  /\ BootGoes("load", "lacking")
  /\ program = "cli"
  /\ UNCHANGED <<applied, cfg, defaults>>

Assignments == IF program = "demo" THEN DemoAssignments ELSE Flags
Order == Assignments[applied + 1]
Ordered == applied < Len(Assignments) /\ Order.flag \in flags
Target == Front(Order.to)

\* The dictionary written to may be DEFAULT_CONFIG's own.  setdefault() finds
\* every section: the merge drops none of the defaults'.
Assign ==
  /\ BootGoes("assign", "assign")
  /\ Ordered /\ Target \in Dicts(cfg)
  /\ applied' = applied + 1
  /\ cfg' = Put(cfg, Order.to, Order.be)
  /\ defaults' = IF cfg[Target] = Dict("default") THEN Put(defaults, Order.to, Order.be)
                                                  ELSE defaults

AssignRaises ==
  /\ BootGoes("assign", "failed")
  /\ Ordered /\ NoDict(cfg, Target)
  /\ UNCHANGED <<applied, cfg, defaults>>

NotOrdered ==
  /\ BootGoes("assign", "assign")
  /\ applied < Len(Assignments) /\ ~Ordered
  /\ applied' = applied + 1
  /\ UNCHANGED <<cfg, defaults>>

Assigned ==
  /\ BootGoes("assign", "alerts")
  /\ applied = Len(Assignments)
  /\ UNCHANGED <<applied, cfg, defaults>>

\* The demo has no terminal dashboard.
After(stage) ==
  CASE stage = "alerts" /\ program = "cli" -> "dashboard"
    [] stage = "alerts" /\ program = "demo" -> "detectors"
    [] stage = "dashboard" -> "detectors"
    [] stage = "detectors" -> "web"
    [] stage = "web" -> "done"

\* The demo opens its server on a port of its own whatever cfg says.
MayLack(stage) == NeedsOutside(stage, cfg) \/ (program = "demo" /\ stage = "web")

Build ==
  \E stage \in Stages :
    /\ \/ ~Malformed(stage, cfg) /\ BootGoes(stage, After(stage))
       \/ Malformed(stage, cfg) /\ BootGoes(stage, "failed")
       \/ ~Malformed(stage, cfg) /\ MayLack(stage) /\ BootGoes(stage, "lacking")
    /\ UNCHANGED <<applied, cfg, defaults>>

BootNext ==
  \/ LoadConfig \/ LoadRaises \/ Unreadable
  \/ Assign \/ AssignRaises \/ NotOrdered \/ Assigned \/ Build

\* The process goes on without looking at its configuration again, but for the
\* detector factory, which did well with it once.
Forget ==
  /\ boot' = "over" /\ applied' = 0 /\ flags' = {}
  /\ program' = "none" /\ file' = NotLoaded /\ cfg' = NotLoaded /\ defaults' = NotLoaded

-----------------------------------------------------------------------------
(* Properties *)

Orders == {Assignments[i] : i \in {i \in 1 .. applied : Assignments[i].flag \in flags}}

\* What is found at a place: what is ordered there, else what the file has there,
\* and nothing if either puts something in the place of a section around it; else
\* the default.
Expected(path) ==
  IF \E a \in Orders : a.to = path THEN (CHOOSE a \in Orders : a.to = path).be
  ELSE IF \E a \in Orders : IsPrefix(a.to, path) THEN Missing
  ELSE IF path \in DOMAIN file THEN file[path]
  ELSE IF \E q \in Leaves(file) : IsPrefix(q, path) THEN Missing
  ELSE Lookup(DEFAULT_CONFIG, path)

Settings == Leaves(DEFAULT_CONFIG) \cup Leaves(file)

\* README.md:229-235: whichever sections a file gives in part, every setting is
\* the command line's, else the file's, else the built-in one; no partial
\* section loses the defaults beside it.
ConfigIsLayered ==
  cfg # NotLoaded => \A path \in Settings : Lookup(cfg, path) = Expected(path)

\* The defaults that a later load_config() of the process would start from are
\* changed by assignments only, and only in sub-dictionaries that the file says
\* nothing of: those the merge shares instead of copying.
DefaultsKeptWhereOverridden ==
  boot # "over" => \A path \in DOMAIN DEFAULT_CONFIG :
    Lookup(defaults, path) # DEFAULT_CONFIG[path] =>
      /\ \E a \in Orders : a.to = path
      /\ Front(path) # <<>> /\ Front(path) \notin DOMAIN file

\* A file that its readers cannot do with: it is no mapping, puts something else
\* in the place of a section, names a log server that is none, or gives an enabled
\* part of the program an argument it does not have or cannot use.
IsEnabled(section) ==
  LET switch == Append(section, "enabled") IN IsTrue(Expected(switch), Entries(file, switch))

FileMalformed ==
  \/ \E s \in Dicts(DEFAULT_CONFIG) : s \in Leaves(file)
  \/ NoServer(file)
  \/ \E d \in Detectors : IsEnabled(d) /\ UnknownArguments(file, d) # {}
  \/ \E d \in Demands : IsEnabled(d.section) /\ Refused(Expected(d.at), d.use)

\* A process that comes up has a configuration that every reader and the
\* detector factory can do with, and only a malformed file or something missing
\* outside the program keeps it from coming up, whatever the command line says.
MalformedFilesEndTheProcess ==
  /\ boot = "failed" => FileMalformed
  /\ boot = "done" => ~FileMalformed
=============================================================================
