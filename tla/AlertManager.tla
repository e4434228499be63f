----------------------------- MODULE AlertManager -----------------------------
(***************************************************************************)
(* sentrynet/alerting.py: emit() appends an alert to the ring of recent      *)
(* alerts under the lock and then writes it, outside the lock, to one        *)
(* configured sink after the other.  A sink that raises ends the emit().     *)
(* Alerts are named by the order in which they enter the history.            *)
(***************************************************************************)
EXTENDS Naturals, Sequences, FiniteSets, Functions

CONSTANTS
  Emitters,     \* the scan threads that may be inside emit()
  HistorySize,  \* history_size
  Configured,   \* the configured sinks, in the order emit() serves them
  Failing,      \* the sinks that may raise
  MaxAlerts     \* bound on the alerts emitted

\* logging's handler swallows its own errors: a syslog write does not raise.
ASSUME AlertAssumption ==
  /\ HistorySize \in Nat /\ MaxAlerts \in Nat
  /\ Configured \in Seq({"console", "json", "syslog"})
  /\ \A i, j \in 1 .. Len(Configured) : Configured[i] = Configured[j] => i = j
  /\ Failing \subseteq {"console", "json"}

VARIABLES
  recorded,  \* number of alerts that entered the history so far
  history,   \* self._history
  outputs,   \* what each configured sink was given
  at,        \* the sink each emitter is about to serve; 0 outside emit()
  carried,   \* the alert each emitter is emitting
  failures   \* history: the pairs of a sink and an alert it raised on

alertVars == <<recorded, history, outputs, at, carried, failures>>

Sinks == 1 .. Len(Configured)
Outside == 0

AlertInit ==
  /\ recorded = 0 /\ history = <<>>
  /\ outputs = [s \in Sinks |-> <<>>]
  /\ at = [e \in Emitters |-> Outside]
  /\ carried = [e \in Emitters |-> 0]
  /\ failures = {}

\* Defect: the ring drops its newest entry.
DefectDropNewest(ring, a) ==
  IF Len(ring) >= HistorySize THEN ring ELSE Append(ring, a)

Push(ring, a) ==
  LET longer == Append(ring, a) IN
  IF Len(longer) > HistorySize THEN Tail(longer) ELSE longer

NextSink(s) == IF s < Len(Configured) THEN s + 1 ELSE Outside

\* emit(): the block under the lock.
Record(e) ==
  /\ at[e] = Outside
  /\ recorded < MaxAlerts
  /\ recorded' = recorded + 1
  /\ history' = Push(history, recorded')
  /\ carried' = [carried EXCEPT ![e] = recorded']
  /\ at' = [at EXCEPT ![e] = NextSink(Outside)]
  /\ UNCHANGED <<outputs, failures>>

\* Defect: all alerts are written, but not to the sink that is next.
DefectSkipSink(e) ==
  /\ at[e] # Outside
  /\ outputs' = [outputs EXCEPT ![Len(Configured)] = Append(@, carried[e])]
  /\ at' = [at EXCEPT ![e] = Outside]
  /\ UNCHANGED <<recorded, history, carried, failures>>
\* Defect: the alert written is the latest recorded, not the one being emitted.
DefectWriteLatest(e) ==
  /\ at[e] # Outside
  /\ outputs' = [outputs EXCEPT ![at[e]] = Append(@, recorded)]
  /\ at' = [at EXCEPT ![e] = NextSink(at[e])]
  /\ UNCHANGED <<recorded, history, carried, failures>>

Write(e) ==
  /\ at[e] # Outside
  /\ outputs' = [outputs EXCEPT ![at[e]] = Append(@, carried[e])]
  /\ at' = [at EXCEPT ![e] = NextSink(at[e])]
  /\ UNCHANGED <<recorded, history, carried, failures>>

\* The exception leaves emit(): the sinks after this one get nothing.
SinkRaises(e) ==
  /\ at[e] # Outside
  /\ Configured[at[e]] \in Failing
  /\ failures' = failures \cup {<<at[e], carried[e]>>}
  /\ at' = [at EXCEPT ![e] = Outside]
  /\ UNCHANGED <<recorded, history, outputs, carried>>

AlertNext == \E e \in Emitters : Record(e) \/ Write(e) \/ SinkRaises(e)

AlertSpec == AlertInit /\ [][AlertNext]_alertVars

\* recent(n): the slice [-n:], which is everything for n = 0.
Recent(n) ==
  IF n = 0 \/ n >= Len(history) THEN history
  ELSE SubSeq(history, Len(history) - n + 1, Len(history))

-----------------------------------------------------------------------------
(* Properties *)

\* The values of every variable.
AlertTypeOK ==
  /\ recorded \in Nat
  /\ history \in Seq(Nat) /\ Len(history) <= HistorySize
  /\ outputs \in [Sinks -> Seq(Nat)]
  /\ at \in [Emitters -> Sinks \cup {Outside}]
  /\ carried \in [Emitters -> Nat]
  /\ failures \subseteq Sinks \X Nat

Smaller(m, n) == IF m <= n THEN m ELSE n

\* A dashboard that asks for n alerts gets exactly the latest ones, oldest first
\* and none missing, as many as n, the ring and the past allow, whatever the
\* sinks and other emitters do.
HistoryIsLatest ==
  \A n \in 1 .. HistorySize + 1 :
    LET k == Smaller(n, Smaller(recorded, HistorySize)) IN
    Recent(n) = [i \in 1 .. k |-> recorded - k + i]

Pending(s, a) == \E e \in Emitters : carried[e] = a /\ at[e] # Outside /\ at[e] <= s

\* An alert that a sink does not have is still on its way there, or this sink
\* or one before it raised on it.
MissingHasCause ==
  \A s \in Sinks, a \in 1 .. recorded :
    a \in Range(outputs[s]) \/ Pending(s, a) \/ \E t \in 1 .. s : <<t, a>> \in failures

\* No sink is given an alert twice, one it raised on, or one the history never
\* had.
NoSpuriousOutput ==
  \A s \in Sinks :
    /\ IsInjective(outputs[s])
    /\ \A a \in Range(outputs[s]) :
         a \in 1 .. recorded /\ \A t \in 1 .. s : <<t, a>> \notin failures

\* A sink has nothing that one configured before it does not have.
EarlierSinksHaveMore ==
  \A s, t \in Sinks : s <= t => Range(outputs[t]) \subseteq Range(outputs[s])
=============================================================================
