---------------------------- MODULE PipelineProofs ----------------------------
(***************************************************************************)
(* Theorems about AlertManager, for any number of emitting threads, sinks   *)
(* and alerts and any size of the history, and about Pipeline, which emits  *)
(* through it, for any detectors, sinks, addresses and packets: the alerts  *)
(* fan out as AlertManager promises, no exception keeps a packet from a      *)
(* detector, and an address is reported once or lost to a failed sink.      *)
(***************************************************************************)
EXTENDS Pipeline, FiniteSetTheorems, SequenceTheorems, TLAPS

-----------------------------------------------------------------------------
(* The alert manager by itself *)

Has(s, a) == a \in Range(outputs[s])

\* An alert inside emit() has reached the sinks before the next one and no other,
\* and has failed nowhere.
InFlight ==
  \A e \in Emitters : at[e] # Outside =>
    /\ carried[e] \in 1 .. recorded
    /\ \A s \in Sinks : Has(s, carried[e]) <=> s < at[e]
    /\ \A t \in Sinks : <<t, carried[e]>> \notin failures

\* Two threads never carry the same alert.
CarriedDistinct ==
  \A e, f \in Emitters :
    at[e] # Outside /\ at[f] # Outside /\ carried[e] = carried[f] => e = f

\* What failed was recorded, and what was written too.
PastOnly ==
  /\ \A t \in Sinks, a \in Nat : <<t, a>> \in failures => a \in 1 .. recorded
  /\ \A s \in Sinks, a \in Nat : Has(s, a) => a \in 1 .. recorded

Kept == Smaller(recorded, HistorySize)

\* The ring, entry by entry.
Ring ==
  /\ AlertTypeOK
  /\ Len(history) = Kept
  /\ \A i \in 1 .. Kept : history[i] = recorded - Kept + i

\* The inductive invariant for what the sinks have.
FanOutInv ==
  AlertTypeOK /\ InFlight /\ CarriedDistinct /\ PastOnly
  /\ MissingHasCause /\ NoSpuriousOutput /\ EarlierSinksHaveMore

-----------------------------------------------------------------------------
(* Lemmas about the operators *)

\* Appending adds one element to what a sequence contains ...
LEMMA RangeAppend ==
  ASSUME NEW s \in Seq(Nat), NEW x \in Nat
  PROVE  Range(Append(s, x)) = Range(s) \cup {x}
<1>1. Len(s) \in Nat /\ DOMAIN s = 1 .. Len(s)
  OBVIOUS
<1>2. /\ DOMAIN Append(s, x) = 1 .. Len(s) + 1
      /\ \A i \in 1 .. Len(s) : Append(s, x)[i] = s[i]
      /\ Append(s, x)[Len(s) + 1] = x
  OBVIOUS
<1>3. \A i \in 1 .. Len(s) + 1 : i \in 1 .. Len(s) \/ i = Len(s) + 1
  BY <1>1
<1>4. 1 .. Len(s) \subseteq 1 .. Len(s) + 1 /\ Len(s) + 1 \in 1 .. Len(s) + 1
  BY <1>1
<1> QED
  BY <1>1, <1>2, <1>3, <1>4, Zenon DEF Range

\* ... and keeps a sequence without repetitions so if the element is new.
LEMMA InjectiveAppend ==
  ASSUME NEW s \in Seq(Nat), NEW x \in Nat, IsInjective(s), x \notin Range(s)
  PROVE  IsInjective(Append(s, x))
<1>1. Len(s) \in Nat /\ DOMAIN s = 1 .. Len(s)
  OBVIOUS
<1>2. /\ DOMAIN Append(s, x) = 1 .. Len(s) + 1
      /\ \A i \in 1 .. Len(s) : Append(s, x)[i] = s[i]
      /\ Append(s, x)[Len(s) + 1] = x
  OBVIOUS
<1>3. \A i \in 1 .. Len(s) : s[i] # x
  BY <1>1 DEF Range
<1>4. SUFFICES ASSUME NEW i \in 1 .. Len(s) + 1, NEW j \in 1 .. Len(s) + 1,
                      Append(s, x)[i] = Append(s, x)[j]
               PROVE  i = j
  BY <1>2 DEF IsInjective
<1>5. CASE i \in 1 .. Len(s) /\ j \in 1 .. Len(s)
  BY <1>1, <1>2, <1>4, <1>5 DEF IsInjective
<1>6. CASE i = Len(s) + 1 /\ j \in 1 .. Len(s)
  BY <1>2, <1>3, <1>4, <1>6
<1>7. CASE j = Len(s) + 1 /\ i \in 1 .. Len(s)
  BY <1>2, <1>3, <1>4, <1>7
<1>8. CASE i = Len(s) + 1 /\ j = Len(s) + 1
  BY <1>8
<1> QED
  BY <1>1, <1>4, <1>5, <1>6, <1>7, <1>8

\* The ring's bound: Push never leaves more than HistorySize entries.
LEMMA PushBound ==
  ASSUME NEW ring \in Seq(Nat), Len(ring) <= HistorySize, NEW a \in Nat
  PROVE  Push(ring, a) \in Seq(Nat) /\ Len(Push(ring, a)) <= HistorySize
<1> DEFINE longer == Append(ring, a)
<1>1. longer \in Seq(Nat) /\ Len(longer) = Len(ring) + 1
  OBVIOUS
<1>2. longer # <<>> /\ Tail(longer) \in Seq(Nat) /\ Len(Tail(longer)) = Len(ring)
  BY <1>1
<1>3. HistorySize \in Nat /\ Len(ring) \in Nat
  BY AlertAssumption
<1> QED
  BY <1>1, <1>2, <1>3 DEF Push

\* The next sink is a later one or none.
LEMMA NextSinkLater ==
  ASSUME NEW s \in Sinks \cup {Outside}
  PROVE  /\ NextSink(s) \in Sinks \cup {Outside}
         /\ NextSink(s) # Outside => NextSink(s) = s + 1
         /\ NextSink(s) = Outside => s = Len(Configured)
<1>1. Len(Configured) \in Nat
  BY AlertAssumption
<1> QED
  BY <1>1 DEF NextSink, Sinks, Outside

-----------------------------------------------------------------------------
(* Types *)

\* emit() keeps every variable in its type and the ring in its bound.
THEOREM AlertTypeCorrect == AlertSpec => []AlertTypeOK
<1>1. AlertInit => AlertTypeOK
  <2> SUFFICES ASSUME AlertInit PROVE AlertTypeOK
    OBVIOUS
  <2>1. <<>> \in Seq(Nat) /\ Len(<<>>) = 0 /\ HistorySize \in Nat
    BY AlertAssumption
  <2> QED
    BY <2>1 DEF AlertInit, AlertTypeOK
<1>2. AlertTypeOK /\ [AlertNext]_alertVars => AlertTypeOK'
  <2> SUFFICES ASSUME AlertTypeOK, [AlertNext]_alertVars PROVE AlertTypeOK'
    OBVIOUS
  <2>1. ASSUME NEW e \in Emitters, Record(e) PROVE AlertTypeOK'
    <3>1. recorded' \in Nat
      BY <2>1 DEF AlertTypeOK, Record
    <3>2. history' \in Seq(Nat) /\ Len(history') <= HistorySize
      BY <2>1, <3>1, PushBound DEF AlertTypeOK, Record
    <3>3. NextSink(Outside) \in Sinks \cup {Outside}
      BY NextSinkLater
    <3> QED
      BY <2>1, <3>1, <3>2, <3>3 DEF AlertTypeOK, Record
  <2>2. ASSUME NEW e \in Emitters, Write(e) PROVE AlertTypeOK'
    <3>1. at[e] \in Sinks /\ carried[e] \in Nat
      BY <2>2 DEF AlertTypeOK, Write
    <3>2. Append(outputs[at[e]], carried[e]) \in Seq(Nat)
      BY <3>1 DEF AlertTypeOK
    <3>3. NextSink(at[e]) \in Sinks \cup {Outside}
      BY <3>1, NextSinkLater
    <3> QED
      BY <2>2, <3>1, <3>2, <3>3 DEF AlertTypeOK, Write
  <2>3. ASSUME NEW e \in Emitters, SinkRaises(e) PROVE AlertTypeOK'
    BY <2>3 DEF AlertTypeOK, SinkRaises
  <2>4. CASE UNCHANGED alertVars
    BY <2>4 DEF AlertTypeOK, alertVars
  <2> QED
    BY <2>1, <2>2, <2>3, <2>4 DEF AlertNext
<1> QED
  BY <1>1, <1>2, PTL DEF AlertSpec

-----------------------------------------------------------------------------
(* The history *)

\* Pushing keeps the latest entries and their order.
LEMMA RecordKeepsRing ==
  ASSUME Ring, NEW e \in Emitters, Record(e), AlertTypeOK'
  PROVE  Ring'
<1> DEFINE longer == Append(history, recorded')
<1>1. /\ recorded \in Nat /\ HistorySize \in Nat /\ recorded' = recorded + 1
      /\ history \in Seq(Nat) /\ Len(history) = Kept
  BY AlertAssumption DEF Ring, AlertTypeOK, Record
<1>2. /\ Len(longer) = Kept + 1
      /\ \A i \in 1 .. Kept : longer[i] = recorded - Kept + i
      /\ longer[Kept + 1] = recorded + 1
  BY <1>1 DEF Ring
<1>3. Kept \in Nat
  BY <1>1 DEF Kept, Smaller
<1>4. CASE recorded < HistorySize
  <2>1. Kept = recorded /\ Kept' = recorded + 1
    BY <1>1, <1>4 DEF Kept, Smaller
  <2>2. history' = longer
    BY <1>1, <1>2, <1>4, <2>1 DEF Record, Push
  <2>3. \A i \in 1 .. recorded + 1 : i \in 1 .. recorded \/ i = recorded + 1
    BY <1>1
  <2> QED
    BY <1>1, <1>2, <2>1, <2>2, <2>3 DEF Ring
<1>5. CASE ~(recorded < HistorySize)
  <2>1. Kept = HistorySize /\ Kept' = HistorySize
    BY <1>1, <1>5 DEF Kept, Smaller
  <2>2. history' = Tail(longer)
    BY <1>1, <1>2, <2>1 DEF Record, Push
  <2>3. longer \in Seq(Nat) /\ longer # <<>>
    <3>1. recorded' \in Nat
      BY <1>1
    <3> QED
      BY <1>1, <3>1, AppendProperties
  <2>4. /\ Len(history') = Kept
        /\ \A i \in 1 .. Kept : history'[i] = longer[i + 1]
    BY <1>2, <1>3, <2>2, <2>3, HeadTailProperties
  <2>5. \A i \in 1 .. Kept : longer[i + 1] = recorded + 1 - Kept + i
    <3> SUFFICES ASSUME NEW i \in 1 .. Kept
                 PROVE  longer[i + 1] = recorded + 1 - Kept + i
      OBVIOUS
    <3>1. CASE i = Kept
      BY <1>1, <1>2, <1>3, <3>1
    <3>2. CASE i < Kept
      <4>1. i + 1 \in 1 .. Kept
        BY <1>3, <3>2
      <4> QED
        BY <1>1, <1>2, <1>3, <4>1
    <3>3. i = Kept \/ i < Kept
      BY <1>3
    <3> QED
      BY <3>1, <3>2, <3>3
  <2>6. Kept' = Kept /\ recorded' = recorded + 1
    BY <1>1, <2>1
  <2>7. \A i \in 1 .. Kept : history'[i] = recorded + 1 - Kept + i
    BY <2>4, <2>5
  <2>8. \A i \in 1 .. Kept' : history'[i] = recorded' - Kept' + i
    <3> SUFFICES ASSUME NEW i \in 1 .. Kept'
                 PROVE  history'[i] = recorded' - Kept' + i
      OBVIOUS
    <3>1. i \in 1 .. Kept
      BY <2>6
    <3>2. history'[i] = recorded + 1 - Kept + i
      BY <2>7, <3>1
    <3> QED
      BY <1>1, <1>3, <2>6, <3>2
  <2> QED
    BY <2>4, <2>6, <2>8 DEF Ring
<1> QED
  BY <1>4, <1>5

\* What recent(n) returns, for a ring of any content.
LEMMA RecentEntries ==
  ASSUME NEW n \in Nat \ {0}, history \in Seq(Nat)
  PROVE  LET k == Smaller(n, Len(history)) IN
         Recent(n) = [i \in 1 .. k |-> history[Len(history) - k + i]]
<1>1. Len(history) \in Nat
  OBVIOUS
<1>2. CASE n >= Len(history)
  <2>1. Smaller(n, Len(history)) = Len(history) /\ Recent(n) = history
    BY <1>1, <1>2 DEF Smaller, Recent
  <2>2. history = [i \in 1 .. Len(history) |-> history[i]]
    OBVIOUS
  <2>3. \A i \in 1 .. Len(history) : Len(history) - Len(history) + i = i
    BY <1>1
  <2> QED
    BY <2>1, <2>2, <2>3
<1>3. CASE n < Len(history)
  <2> DEFINE from == Len(history) - n + 1
  <2>1. Smaller(n, Len(history)) = n
    BY <1>1, <1>3 DEF Smaller
  <2>2. Recent(n) = SubSeq(history, from, Len(history))
    BY <1>1, <1>3 DEF Recent
  <2>3. from \in 1 .. Len(history) + 1 /\ Len(history) - from + 1 = n
    BY <1>1, <1>3
  <2>4. SubSeq(history, from, Len(history))
          = [i \in 1 .. n |-> history[from + i - 1]]
    BY <1>1, <2>3
  <2>5. \A i \in 1 .. n : from + i - 1 = Len(history) - n + i
    BY <1>1
  <2> QED
    BY <2>1, <2>2, <2>4, <2>5
<1> QED
  BY <1>1, <1>2, <1>3

\* The dashboards get the latest alerts, all and in order.
THEOREM HistoryCurrent == AlertSpec => []HistoryIsLatest
<1>1. AlertInit /\ AlertTypeOK => Ring
  BY AlertAssumption DEF AlertInit, Ring, Kept, Smaller
<1>2. Ring /\ AlertTypeOK' /\ [AlertNext]_alertVars => Ring'
  <2> SUFFICES ASSUME Ring, AlertTypeOK', [AlertNext]_alertVars PROVE Ring'
    OBVIOUS
  <2>1. ASSUME NEW e \in Emitters, Record(e) PROVE Ring'
    BY <2>1, RecordKeepsRing
  <2>2. ASSUME NEW e \in Emitters, Write(e) PROVE Ring'
    BY <2>2 DEF Ring, Kept, Write
  <2>3. ASSUME NEW e \in Emitters, SinkRaises(e) PROVE Ring'
    BY <2>3 DEF Ring, Kept, SinkRaises
  <2>4. CASE UNCHANGED alertVars
    BY <2>4 DEF Ring, Kept, alertVars
  <2> QED
    BY <2>1, <2>2, <2>3, <2>4 DEF AlertNext
<1>3. Ring => HistoryIsLatest
  <2> SUFFICES ASSUME Ring, NEW n \in 1 .. HistorySize + 1
               PROVE  LET k == Smaller(n, Smaller(recorded, HistorySize)) IN
                      Recent(n) = [i \in 1 .. k |-> recorded - k + i]
    BY DEF HistoryIsLatest
  <2> DEFINE k == Smaller(n, Kept)
  <2>1. /\ n \in Nat \ {0} /\ recorded \in Nat /\ HistorySize \in Nat
        /\ history \in Seq(Nat) /\ Len(history) = Kept
    BY AlertAssumption DEF Ring, AlertTypeOK
  <2>2. Kept \in Nat /\ k \in Nat /\ k <= Kept
    BY <2>1 DEF Kept, Smaller
  <2>3. Recent(n) = [i \in 1 .. k |-> history[Kept - k + i]]
    BY <2>1, RecentEntries
  <2>4. \A i \in 1 .. k : history[Kept - k + i] = recorded - k + i
    <3> SUFFICES ASSUME NEW i \in 1 .. k
                 PROVE  history[Kept - k + i] = recorded - k + i
      OBVIOUS
    <3>1. Kept - k + i \in 1 .. Kept
      BY <2>2
    <3>2. history[Kept - k + i] = recorded - Kept + (Kept - k + i)
      BY <3>1 DEF Ring
    <3> QED
      BY <2>1, <2>2, <3>2
  <2> QED
    BY <2>3, <2>4 DEF Kept
<1> QED
  BY <1>1, <1>2, <1>3, AlertTypeCorrect, PTL DEF AlertSpec

-----------------------------------------------------------------------------
(* The sinks *)

\* What one write changes.
LEMMA WriteEffect ==
  ASSUME AlertTypeOK, NEW e \in Emitters, Write(e)
  PROVE  /\ at[e] \in Sinks /\ carried[e] \in Nat
         /\ \A s \in Sinks, a \in Nat :
              Has(s, a)' <=> (Has(s, a) \/ (s = at[e] /\ a = carried[e]))
         /\ \A f \in Emitters \ {e} : at'[f] = at[f]
         /\ at'[e] = NextSink(at[e])
         /\ carried' = carried /\ recorded' = recorded /\ failures' = failures
<1>1. at[e] \in Sinks /\ carried[e] \in Nat
  BY DEF AlertTypeOK, Write
<1>2. \A s \in Sinks : outputs'[s] = IF s = at[e] THEN Append(outputs[s], carried[e])
                                                  ELSE outputs[s]
  BY <1>1 DEF AlertTypeOK, Write
<1>3. \A s \in Sinks : outputs[s] \in Seq(Nat)
  BY DEF AlertTypeOK
<1>4. Range(Append(outputs[at[e]], carried[e])) = Range(outputs[at[e]]) \cup {carried[e]}
  BY <1>1, <1>3, RangeAppend
<1>5. \A s \in Sinks, a \in Nat :
        Has(s, a)' <=> (Has(s, a) \/ (s = at[e] /\ a = carried[e]))
  BY <1>2, <1>4 DEF Has
<1>6. /\ \A f \in Emitters \ {e} : at'[f] = at[f]
      /\ at'[e] = NextSink(at[e])
      /\ carried' = carried /\ recorded' = recorded /\ failures' = failures
  BY DEF AlertTypeOK, Write
<1> QED
  BY <1>1, <1>5, <1>6

\* What an exception of a sink changes.
LEMMA RaiseEffect ==
  ASSUME AlertTypeOK, NEW e \in Emitters, SinkRaises(e)
  PROVE  /\ at[e] \in Sinks /\ carried[e] \in Nat
         /\ \A f \in Emitters \ {e} : at'[f] = at[f]
         /\ at'[e] = Outside
         /\ carried' = carried /\ recorded' = recorded /\ outputs' = outputs
         /\ failures' = failures \cup {<<at[e], carried[e]>>}
BY DEF AlertTypeOK, SinkRaises

\* What entering emit() changes.
LEMMA RecordEffect ==
  ASSUME AlertTypeOK, NEW e \in Emitters, Record(e)
  PROVE  /\ at[e] = Outside /\ recorded \in Nat
         /\ \A f \in Emitters \ {e} : at'[f] = at[f] /\ carried'[f] = carried[f]
         /\ at'[e] = NextSink(Outside) /\ carried'[e] = recorded + 1
         /\ recorded' = recorded + 1 /\ outputs' = outputs /\ failures' = failures
BY DEF AlertTypeOK, Record

LEMMA RecordKeepsFanOut ==
  ASSUME FanOutInv, NEW e \in Emitters, Record(e), AlertTypeOK'
  PROVE  FanOutInv'
<1>1. /\ AlertTypeOK /\ InFlight /\ CarriedDistinct /\ PastOnly
      /\ MissingHasCause /\ NoSpuriousOutput /\ EarlierSinksHaveMore
  BY DEF FanOutInv
<1>2. /\ at[e] = Outside /\ recorded \in Nat
      /\ \A f \in Emitters \ {e} : at'[f] = at[f] /\ carried'[f] = carried[f]
      /\ at'[e] = NextSink(Outside) /\ carried'[e] = recorded + 1
      /\ recorded' = recorded + 1 /\ outputs' = outputs /\ failures' = failures
  BY <1>1, RecordEffect
<1>3. at'[e] # Outside => at'[e] = 1
  BY <1>2, NextSinkLater DEF Outside
<1>4. \A s \in Sinks : at'[e] = 1 /\ s \in Nat /\ s >= 1
  <2>1. Len(Configured) \in Nat
    BY AlertAssumption
  <2> QED
    BY <1>2, <1>3, <2>1, NextSinkLater DEF Sinks, Outside
<1>5. \A s \in Sinks, a \in Nat : Has(s, a)' <=> Has(s, a)
  BY <1>2 DEF Has
<1>6. InFlight'
  <2> SUFFICES ASSUME NEW f \in Emitters, at'[f] # Outside
               PROVE  /\ carried'[f] \in 1 .. recorded'
                      /\ \A s \in Sinks : Has(s, carried[f])' <=> s < at'[f]
                      /\ \A t \in Sinks : <<t, carried'[f]>> \notin failures'
    BY DEF InFlight
  <2>1. CASE f = e
    <3>1. carried'[e] \in Nat /\ carried'[e] \notin 1 .. recorded
      BY <1>2
    <3>2. \A s \in Sinks : ~Has(s, carried[e])'
      BY <1>1, <1>2, <3>1 DEF PastOnly, Has
    <3>3. \A t \in Sinks : <<t, carried'[e]>> \notin failures'
      BY <1>1, <1>2, <3>1 DEF PastOnly
    <3>4. carried'[e] \in 1 .. recorded'
      BY <1>2
    <3>5. \A s \in Sinks : ~(s < at'[e])
      BY <1>4
    <3> QED
      BY <2>1, <3>2, <3>3, <3>4, <3>5
  <2>2. CASE f # e
    <3>1. at[f] # Outside /\ at'[f] = at[f] /\ carried'[f] = carried[f]
      BY <1>2, <2>2
    <3>2. carried'[f] \in 1 .. recorded'
      BY <1>1, <1>2, <3>1 DEF InFlight
    <3>3. \A s \in Sinks : Has(s, carried[f])' <=> s < at'[f]
      BY <1>1, <1>2, <3>1 DEF InFlight, Has
    <3> QED
      BY <1>1, <1>2, <3>1, <3>2, <3>3 DEF InFlight
  <2> QED
    BY <2>1, <2>2
<1>7. CarriedDistinct'
  <2>1. \A f \in Emitters \ {e} : at'[f] # Outside => carried'[f] # carried'[e]
    BY <1>1, <1>2 DEF InFlight
  <2> QED
    BY <1>1, <1>2, <2>1 DEF CarriedDistinct
<1>8. PastOnly'
  <2>1. 1 .. recorded \subseteq 1 .. recorded'
    BY <1>2
  <2> QED
    BY <1>1, <1>2, <1>5, <2>1 DEF PastOnly
<1>9. MissingHasCause'
  <2> SUFFICES ASSUME NEW s \in Sinks, NEW a \in 1 .. recorded'
               PROVE  \/ a \in Range(outputs'[s]) \/ Pending(s, a)'
                      \/ \E t \in 1 .. s : <<t, a>> \in failures'
    BY DEF MissingHasCause
  <2>1. CASE a = recorded'
    BY <1>2, <1>4, <2>1 DEF Pending, Outside
  <2>2. CASE a \in 1 .. recorded
    <3>1. Pending(s, a) => Pending(s, a)'
      BY <1>2 DEF Pending
    <3> QED
      BY <1>1, <1>2, <2>2, <3>1 DEF MissingHasCause
  <2> QED
    BY <1>2, <2>1, <2>2
<1>10. NoSpuriousOutput'
  <2>1. 1 .. recorded \subseteq 1 .. recorded'
    BY <1>2
  <2> QED
    BY <1>1, <1>2, <2>1 DEF NoSpuriousOutput
<1>11. EarlierSinksHaveMore'
  BY <1>1, <1>2 DEF EarlierSinksHaveMore
<1> QED
  BY <1>6, <1>7, <1>8, <1>9, <1>10, <1>11 DEF FanOutInv

LEMMA WriteKeepsFanOut ==
  ASSUME FanOutInv, NEW e \in Emitters, Write(e), AlertTypeOK'
  PROVE  FanOutInv'
<1>1. /\ AlertTypeOK /\ InFlight /\ CarriedDistinct /\ PastOnly
      /\ MissingHasCause /\ NoSpuriousOutput /\ EarlierSinksHaveMore
  BY DEF FanOutInv
<1>2. /\ at[e] \in Sinks /\ carried[e] \in Nat
      /\ \A s \in Sinks, a \in Nat :
           Has(s, a)' <=> (Has(s, a) \/ (s = at[e] /\ a = carried[e]))
      /\ \A f \in Emitters \ {e} : at'[f] = at[f]
      /\ at'[e] = NextSink(at[e])
      /\ carried' = carried /\ recorded' = recorded /\ failures' = failures
  BY <1>1, WriteEffect
<1>3. Len(Configured) \in Nat /\ recorded \in Nat
  BY <1>1, AlertAssumption DEF AlertTypeOK
<1>4. at[e] # Outside
  BY <1>2, <1>3 DEF Sinks, Outside
<1>5. /\ at'[e] # Outside => at'[e] = at[e] + 1
      /\ at'[e] = Outside => at[e] = Len(Configured)
  BY <1>2, NextSinkLater
<1>6. /\ carried[e] \in 1 .. recorded
      /\ \A s \in Sinks : Has(s, carried[e]) <=> s < at[e]
      /\ \A t \in Sinks : <<t, carried[e]>> \notin failures
  BY <1>1, <1>4 DEF InFlight
<1>7. \A f \in Emitters \ {e} : at[f] # Outside => carried[f] # carried[e]
  BY <1>1, <1>4 DEF CarriedDistinct
<1>8. InFlight'
  <2> SUFFICES ASSUME NEW f \in Emitters, at'[f] # Outside
               PROVE  /\ carried'[f] \in 1 .. recorded'
                      /\ \A s \in Sinks : Has(s, carried[f])' <=> s < at'[f]
                      /\ \A t \in Sinks : <<t, carried'[f]>> \notin failures'
    BY DEF InFlight
  <2>1. CASE f = e
    <3>1. \A s \in Sinks : Has(s, carried[e])' <=> (s < at[e] \/ s = at[e])
      BY <1>2, <1>6 DEF Has
    <3>2. \A s \in Sinks : (s < at[e] \/ s = at[e]) <=> s < at'[e]
      BY <1>2, <1>3, <1>5, <2>1 DEF Sinks
    <3> QED
      BY <1>2, <1>6, <2>1, <3>1, <3>2
  <2>2. CASE f # e
    <3>1. at[f] # Outside /\ at'[f] = at[f] /\ carried'[f] = carried[f]
      BY <1>2, <2>2
    <3>2. /\ carried[f] \in 1 .. recorded /\ carried[f] # carried[e]
          /\ \A s \in Sinks : Has(s, carried[f]) <=> s < at[f]
          /\ \A t \in Sinks : <<t, carried[f]>> \notin failures
      BY <1>1, <1>7, <2>2, <3>1 DEF InFlight
    <3>3. \A s \in Sinks : Has(s, carried[f])' <=> Has(s, carried[f])
      BY <1>2, <1>3, <3>2 DEF Has
    <3> QED
      BY <1>2, <3>1, <3>2, <3>3
  <2> QED
    BY <2>1, <2>2
<1>9. CarriedDistinct'
  BY <1>1, <1>2, <1>4 DEF CarriedDistinct
<1>10. PastOnly'
  BY <1>1, <1>2, <1>6 DEF PastOnly
<1>11. MissingHasCause'
  <2> SUFFICES ASSUME NEW s \in Sinks, NEW a \in 1 .. recorded
               PROVE  \/ a \in Range(outputs'[s]) \/ Pending(s, a)'
                      \/ \E t \in 1 .. s : <<t, a>> \in failures'
    BY <1>2 DEF MissingHasCause
  <2>1. a \in Nat
    BY <1>3
  <2>2. CASE Has(s, a)
    BY <1>2, <2>1, <2>2 DEF Has
  <2>3. CASE \E t \in 1 .. s : <<t, a>> \in failures
    BY <1>2, <2>3
  <2>4. CASE Pending(s, a)
    <3>1. PICK f \in Emitters : carried[f] = a /\ at[f] # Outside /\ at[f] <= s
      BY <2>4 DEF Pending
    <3>2. CASE f # e
      BY <1>2, <3>1, <3>2 DEF Pending
    <3>3. CASE f = e /\ at[e] = s
      BY <1>2, <2>1, <3>1, <3>3 DEF Has
    <3>4. CASE f = e /\ at[e] # s
      <4>1. at'[e] # Outside /\ at'[e] <= s
        BY <1>2, <1>3, <1>5, <3>1, <3>4 DEF Sinks
      <4> QED
        BY <1>2, <3>1, <3>4, <4>1 DEF Pending
    <3> QED
      BY <3>2, <3>3, <3>4
  <2> QED
    BY <1>1, <2>2, <2>3, <2>4 DEF MissingHasCause, Has
<1>12. NoSpuriousOutput'
  <2> SUFFICES ASSUME NEW s \in Sinks
               PROVE  /\ IsInjective(outputs'[s])
                      /\ \A a \in Range(outputs'[s]) :
                           a \in 1 .. recorded /\ \A t \in 1 .. s : <<t, a>> \notin failures
    BY <1>2 DEF NoSpuriousOutput
  <2>1. outputs[s] \in Seq(Nat) /\ IsInjective(outputs[s])
    BY <1>1 DEF AlertTypeOK, NoSpuriousOutput
  <2>2. CASE s # at[e]
    <3>1. outputs'[s] = outputs[s]
      BY <1>1, <2>2 DEF AlertTypeOK, Write
    <3> QED
      BY <1>1, <3>1 DEF NoSpuriousOutput
  <2>3. CASE s = at[e]
    <3>1. outputs'[s] = Append(outputs[s], carried[e])
      BY <1>1, <1>2, <2>3 DEF AlertTypeOK, Write
    <3>2. carried[e] \notin Range(outputs[s])
      BY <1>2, <1>3, <1>6, <2>3 DEF Has, Sinks
    <3>3. IsInjective(outputs'[s])
      BY <1>2, <2>1, <3>1, <3>2, InjectiveAppend
    <3>4. Range(outputs'[s]) = Range(outputs[s]) \cup {carried[e]}
      BY <1>2, <2>1, <3>1, RangeAppend
    <3>5. 1 .. s \subseteq Sinks
      BY <1>3 DEF Sinks
    <3> QED
      BY <1>1, <1>6, <3>3, <3>4, <3>5 DEF NoSpuriousOutput
  <2> QED
    BY <2>2, <2>3
<1>13. EarlierSinksHaveMore'
  <2> SUFFICES ASSUME NEW s \in Sinks, NEW t \in Sinks, s <= t,
                      NEW a \in Range(outputs'[t])
               PROVE  a \in Range(outputs'[s])
    BY DEF EarlierSinksHaveMore
  <2>1. a \in 1 .. recorded /\ a \in Nat
    BY <1>2, <1>3, <1>12 DEF NoSpuriousOutput
  <2>2. CASE Has(t, a)
    BY <1>1, <1>2, <2>1, <2>2 DEF EarlierSinksHaveMore, Has
  <2>3. CASE ~Has(t, a)
    <3>1. t = at[e] /\ a = carried[e]
      BY <1>2, <2>1, <2>3 DEF Has
    <3>2. Has(s, a) \/ s = at[e]
      BY <1>2, <1>3, <1>6, <3>1 DEF Sinks
    <3> QED
      BY <1>2, <2>1, <3>1, <3>2 DEF Has
  <2> QED
    BY <2>2, <2>3
<1> QED
  BY <1>8, <1>9, <1>10, <1>11, <1>12, <1>13 DEF FanOutInv

LEMMA RaiseKeepsFanOut ==
  ASSUME FanOutInv, NEW e \in Emitters, SinkRaises(e), AlertTypeOK'
  PROVE  FanOutInv'
<1>1. /\ AlertTypeOK /\ InFlight /\ CarriedDistinct /\ PastOnly
      /\ MissingHasCause /\ NoSpuriousOutput /\ EarlierSinksHaveMore
  BY DEF FanOutInv
<1>2. /\ at[e] \in Sinks /\ carried[e] \in Nat
      /\ \A f \in Emitters \ {e} : at'[f] = at[f]
      /\ at'[e] = Outside
      /\ carried' = carried /\ recorded' = recorded /\ outputs' = outputs
      /\ failures' = failures \cup {<<at[e], carried[e]>>}
  BY <1>1, RaiseEffect
<1>3. Len(Configured) \in Nat /\ recorded \in Nat
  BY <1>1, AlertAssumption DEF AlertTypeOK
<1>4. at[e] # Outside
  BY <1>2, <1>3 DEF Sinks, Outside
<1>5. /\ carried[e] \in 1 .. recorded
      /\ \A s \in Sinks : Has(s, carried[e]) <=> s < at[e]
  BY <1>1, <1>4 DEF InFlight
<1>6. InFlight'
  <2> SUFFICES ASSUME NEW f \in Emitters, at'[f] # Outside
               PROVE  /\ carried'[f] \in 1 .. recorded'
                      /\ \A s \in Sinks : Has(s, carried[f])' <=> s < at'[f]
                      /\ \A t \in Sinks : <<t, carried'[f]>> \notin failures'
    BY DEF InFlight
  <2>1. f # e /\ at'[f] = at[f] /\ at[f] # Outside
    BY <1>2
  <2>2. carried[f] # carried[e]
    BY <1>1, <1>4, <2>1 DEF CarriedDistinct
  <2>3. \A t \in Sinks : <<t, carried[f]>> \notin failures'
    BY <1>1, <1>2, <2>1, <2>2 DEF InFlight
  <2> QED
    BY <1>1, <1>2, <2>1, <2>3 DEF InFlight, Has
<1>7. CarriedDistinct'
  BY <1>1, <1>2 DEF CarriedDistinct
<1>8. PastOnly'
  BY <1>1, <1>2, <1>5 DEF PastOnly, Has
<1>9. MissingHasCause'
  <2> SUFFICES ASSUME NEW s \in Sinks, NEW a \in 1 .. recorded
               PROVE  \/ a \in Range(outputs[s]) \/ Pending(s, a)'
                      \/ \E t \in 1 .. s : <<t, a>> \in failures'
    BY <1>2 DEF MissingHasCause
  <2>1. CASE Pending(s, a)
    <3>1. PICK f \in Emitters : carried[f] = a /\ at[f] # Outside /\ at[f] <= s
      BY <2>1 DEF Pending
    <3>2. CASE f # e
      BY <1>2, <3>1, <3>2 DEF Pending
    <3>3. CASE f = e
      <4>1. at[e] \in 1 .. s
        BY <1>2, <1>3, <3>1, <3>3 DEF Sinks
      <4> QED
        BY <1>2, <3>1, <3>3, <4>1
    <3> QED
      BY <3>2, <3>3
  <2> QED
    BY <1>1, <1>2, <2>1 DEF MissingHasCause
<1>10. NoSpuriousOutput'
  <2> SUFFICES ASSUME NEW s \in Sinks, NEW a \in Range(outputs[s]), NEW t \in 1 .. s
               PROVE  <<t, a>> \notin failures'
    BY <1>1, <1>2 DEF NoSpuriousOutput
  <2>1. <<t, a>> \notin failures
    BY <1>1 DEF NoSpuriousOutput
  <2>2. t = at[e] => a # carried[e]
    <3>1. t = at[e] => ~(s < at[e])
      BY <1>2, <1>3 DEF Sinks
    <3> QED
      BY <1>5, <3>1 DEF Has
  <2> QED
    BY <1>2, <2>1, <2>2
<1>11. EarlierSinksHaveMore'
  BY <1>1, <1>2 DEF EarlierSinksHaveMore
<1> QED
  BY <1>6, <1>7, <1>8, <1>9, <1>10, <1>11 DEF FanOutInv

LEMMA FanOutInductive == AlertSpec => []FanOutInv
<1>1. AlertInit /\ AlertTypeOK => FanOutInv
  <2> SUFFICES ASSUME AlertInit, AlertTypeOK PROVE FanOutInv
    OBVIOUS
  <2>1. \A s \in Sinks : outputs[s] = <<>> /\ Range(outputs[s]) = {}
    BY DEF AlertInit, Range
  <2>2. InFlight /\ CarriedDistinct
    BY DEF AlertInit, InFlight, CarriedDistinct
  <2>3. PastOnly
    BY <2>1 DEF AlertInit, PastOnly, Has
  <2>4. MissingHasCause
    BY DEF AlertInit, MissingHasCause
  <2>5. NoSpuriousOutput
    BY <2>1 DEF NoSpuriousOutput, IsInjective
  <2>6. EarlierSinksHaveMore
    BY <2>1 DEF EarlierSinksHaveMore
  <2> QED
    BY <2>2, <2>3, <2>4, <2>5, <2>6 DEF FanOutInv
<1>2. FanOutInv /\ AlertTypeOK' /\ [AlertNext]_alertVars => FanOutInv'
  <2> SUFFICES ASSUME FanOutInv, AlertTypeOK', [AlertNext]_alertVars PROVE FanOutInv'
    OBVIOUS
  <2>1. CASE UNCHANGED alertVars
    BY <2>1 DEF FanOutInv, InFlight, CarriedDistinct, PastOnly, Has, MissingHasCause,
                Pending, NoSpuriousOutput, EarlierSinksHaveMore, alertVars
  <2> QED
    BY <2>1, RecordKeepsFanOut, WriteKeepsFanOut, RaiseKeepsFanOut DEF AlertNext
<1> QED
  BY <1>1, <1>2, AlertTypeCorrect, PTL DEF AlertSpec

\* Every gap in what a sink was given has an explanation.
THEOREM GapsExplained == AlertSpec => []MissingHasCause
<1>1. FanOutInv => MissingHasCause
  BY DEF FanOutInv
<1> QED
  BY <1>1, FanOutInductive, PTL

\* No sink is given an alert twice or after an exception.
THEOREM NothingSpurious == AlertSpec => []NoSpuriousOutput
<1>1. FanOutInv => NoSpuriousOutput
  BY DEF FanOutInv
<1> QED
  BY <1>1, FanOutInductive, PTL

\* A sink has nothing that an earlier one lacks.
THEOREM EarlierHaveMore == AlertSpec => []EarlierSinksHaveMore
<1>1. FanOutInv => EarlierSinksHaveMore
  BY DEF FanOutInv
<1> QED
  BY <1>1, FanOutInductive, PTL

-----------------------------------------------------------------------------
(* The pipeline *)

Turns == 1 .. Len(Detectors)

-----------------------------------------------------------------------------
(* The pipeline emits as AlertManager specifies *)

\* Whatever the scan thread and the left-over ones do is a step of AlertManager
\* or none of its business.
THEOREM PipelineFansOut == Spec => AlertSpec
<1>1. Init => AlertInit
  BY DEF Init
<1>2. [Next]_vars => [AlertNext]_alertVars
  <2> SUFFICES ASSUME [Next]_vars PROVE AlertNext \/ UNCHANGED alertVars
    BY DEF alertVars
  <2>1. CASE EmitNext \/ EmitWrites \/ EmitRaises
    BY <2>1, PipelineAssumption DEF EmitNext, EmitWrites, EmitRaises, AlertNext
  <2>2. CASE \E e \in Emitters \ {Scan} : LateEmits(e) \/ LateGoesOn(e)
    BY <2>2 DEF LateEmits, LateGoesOn, AlertNext
  <2>3. CASE (\E p \in HostPackets : TakePacket(p)) \/ NewScan \/ Detect \/ DetectorRaises \/ EndTurn
    BY <2>3 DEF TakePacket, NewScan, Detect, DetectorRaises, EndTurn
  <2>4. CASE UNCHANGED vars
    BY <2>4 DEF vars
  <2> QED
    BY <2>1, <2>2, <2>3, <2>4 DEF Next
<1> QED
  BY <1>1, <1>2, PTL DEF Spec, AlertSpec

\* In the pipeline too the dashboards get the latest alerts, and what a sink has
\* or lacks is as it should be.
THEOREM PipelineAlerts == Spec => [](HistoryIsLatest /\ MissingHasCause /\ NoSpuriousOutput)
  BY PipelineFansOut, HistoryCurrent, GapsExplained, NothingSpurious, PTL

\* What the proofs below know of AlertManager.
LEMMA PipelineFanOut == Spec => []FanOutInv
  BY PipelineFansOut, FanOutInductive, PTL

-----------------------------------------------------------------------------
(* Every detector is given every packet *)

TurnTypes ==
  /\ step \in {"take", "detect", "emit"} /\ turn \in 0 .. Len(Detectors)
  /\ packets \in Nat /\ given \in [Turns -> Int]

\* The detectors up to the one whose turn it is have the packet, the others have
\* all packets but this one; the scan thread is inside emit() only in "emit".
TurnInv ==
  /\ TurnTypes
  /\ step = "take" => turn = 0 /\ \A d \in Turns : given[d] = packets
  /\ step # "take" =>
       /\ turn \in Turns
       /\ \A d \in Turns : d < turn => given[d] = packets
       /\ \A d \in Turns : d > turn => given[d] = packets - 1
       /\ given[turn] = IF step = "emit" THEN packets ELSE packets - 1
  /\ Busy => step = "emit"

\* Whoever passes the turn on has given the packet to the detector.
LEMMA PassTurnKeepsTurns ==
  ASSUME TurnTypes, turn \in Turns, PassTurn, packets' = packets,
         given' \in [Turns -> Int],
         \A d \in Turns : d <= turn => given'[d] = packets,
         \A d \in Turns : d > turn => given'[d] = packets - 1,
         ~Busy'
  PROVE  TurnInv'
<1> Len(Detectors) \in Nat
  BY PipelineAssumption
<1>1. CASE turn < Len(Detectors)
  <2>1. step' = "detect" /\ turn' = turn + 1
    BY <1>1 DEF PassTurn
  <2>2. turn' \in Turns /\ packets \in Nat /\ turn \in Nat
    BY <2>1, <1>1 DEF Turns, TurnTypes
  <2>3. /\ \A d \in Turns : d < turn' => given'[d] = packets
        /\ \A d \in Turns : d > turn' => given'[d] = packets - 1
        /\ given'[turn'] = packets - 1
    BY <2>1, <2>2 DEF Turns
  <2>4. TurnTypes'
    BY <2>1, <2>2 DEF TurnTypes, Turns
  <2> QED
    BY <2>1, <2>2, <2>3, <2>4 DEF TurnInv
<1>2. CASE turn = Len(Detectors)
  <2>1. step' = "take" /\ turn' = 0
    BY <1>2 DEF PassTurn
  <2> QED
    BY <2>1, <1>2 DEF TurnInv, TurnTypes, Turns
<1> QED
  BY <1>1, <1>2 DEF Turns

\* Giving the packet to the detector whose turn it is.
LEMMA GivenToThis ==
  ASSUME TurnInv, step = "detect", Given
  PROVE  /\ turn \in Turns /\ given' \in [Turns -> Int]
         /\ \A d \in Turns : d <= turn => given'[d] = packets
         /\ \A d \in Turns : d > turn => given'[d] = packets - 1
<1>1. /\ turn \in Turns /\ packets \in Nat /\ given \in [Turns -> Int]
      /\ given' = [given EXCEPT ![turn] = @ + 1]
  BY DEF TurnInv, TurnTypes, Given
<1>2. /\ \A d \in Turns : d < turn => given[d] = packets
      /\ \A d \in Turns : d > turn => given[d] = packets - 1
      /\ given[turn] = packets - 1
  BY DEF TurnInv
<1>3. Turns \subseteq Int
  BY PipelineAssumption DEF Turns
<1>4. \A d \in Turns : given'[d] = IF d = turn THEN given[d] + 1 ELSE given[d]
  BY <1>1
<1> QED
  BY <1>1, <1>2, <1>3, <1>4

\* No step, an exception's included, skips a detector's turn.
LEMMA TurnStep == TurnInv /\ FanOutInv /\ [Next]_vars => TurnInv'
<1> SUFFICES ASSUME TurnInv, FanOutInv, [Next]_vars PROVE TurnInv'
  OBVIOUS
<1> Len(Detectors) \in Nat /\ Scan \in Emitters
  BY PipelineAssumption
<1>0. AlertTypeOK
  BY DEF FanOutInv
<1>1. ASSUME NEW p \in HostPackets, TakePacket(p) PROVE TurnInv'
  <2>1. /\ step = "take" /\ turn = 0 /\ packets' = packets + 1 /\ given' = given
        /\ at' = at /\ ~Busy /\ PassTurn
    BY <1>1 DEF TakePacket, TurnInv, alertVars
  <2>2. /\ packets \in Nat /\ given \in [Turns -> Int] /\ \A d \in Turns : given[d] = packets
    BY <2>1 DEF TurnInv, TurnTypes
  <2>3. ~Busy'
    BY <2>1 DEF Busy
  <2>4. CASE 0 < Len(Detectors)
    <3>1. step' = "detect" /\ turn' = 1
      BY <2>1, <2>4 DEF PassTurn
    <3> QED
      BY <3>1, <2>1, <2>2, <2>3, <2>4 DEF TurnInv, TurnTypes, Turns
  <2>5. CASE 0 = Len(Detectors)
    <3>1. step' = "take" /\ turn' = 0
      BY <2>1, <2>5 DEF PassTurn
    <3> QED
      BY <3>1, <2>1, <2>2, <2>3, <2>5 DEF TurnInv, TurnTypes, Turns
  <2> QED
    BY <2>4, <2>5
<1>2. CASE NewScan
  <2>1. /\ step = "take" /\ step' = step /\ turn' = turn /\ turn = 0 /\ packets' = 0
        /\ given' = [d \in Turns |-> 0] /\ at' = at /\ ~Busy
    BY <1>2 DEF NewScan, TurnInv, alertVars, Turns
  <2> QED
    BY <2>1 DEF TurnInv, TurnTypes, Busy
<1>3. CASE Detect
  <2>1. /\ step = "detect" /\ step' = "emit" /\ turn' = turn /\ packets' = packets /\ at' = at
        /\ Given
    BY <1>3 DEF Detect, alertVars
  <2>2. Turns \subseteq Int
    BY DEF Turns
  <2> QED
    BY <2>1, <2>2, GivenToThis DEF TurnInv, TurnTypes, Busy
<1>4. CASE DetectorRaises
  <2>1. step = "detect" /\ PassTurn /\ packets' = packets /\ at' = at /\ Given /\ ~Busy
    BY <1>4 DEF DetectorRaises, alertVars, TurnInv
  <2>2. ~Busy'
    BY <2>1 DEF Busy
  <2>3. TurnTypes
    BY DEF TurnInv
  <2> QED
    BY <2>1, <2>2, <2>3, GivenToThis, PassTurnKeepsTurns
<1>5. CASE EmitNext
  BY <1>5 DEF EmitNext, TurnInv, TurnTypes, Busy
<1>6. CASE EmitWrites
  <2>1. Busy
    BY <1>6 DEF EmitWrites, Write, Busy
  <2> QED
    BY <1>6, <2>1 DEF EmitWrites, turnVars, TurnInv, TurnTypes, Busy
<1>7. ASSUME step = "emit", PassTurn, UNCHANGED <<packets, given>>, ~Busy' PROVE TurnInv'
  <2>1. /\ turn \in Turns /\ TurnTypes /\ given \in [Turns -> Int]
        /\ \A d \in Turns : d < turn => given[d] = packets
        /\ \A d \in Turns : d > turn => given[d] = packets - 1
        /\ given[turn] = packets
    BY <1>7 DEF TurnInv, TurnTypes
  <2>2. \A d \in Turns : d <= turn => d < turn \/ d = turn
    BY <2>1 DEF Turns
  <2> QED
    BY <1>7, <2>1, <2>2, PassTurnKeepsTurns
<1>8. CASE EmitRaises
  <2>1. Busy /\ PassTurn /\ packets' = packets /\ given' = given
    BY <1>8 DEF EmitRaises, SinkRaises, Busy
  <2>2. ~Busy'
    BY <1>0, <1>8, RaiseEffect DEF EmitRaises, Busy
  <2> QED
    BY <1>7, <2>1, <2>2 DEF TurnInv
<1>9. CASE EndTurn
  <2>1. step = "emit" /\ PassTurn /\ packets' = packets /\ given' = given /\ ~Busy /\ at' = at
    BY <1>9 DEF EndTurn, alertVars
  <2>2. ~Busy'
    BY <2>1 DEF Busy
  <2> QED
    BY <1>7, <2>1, <2>2
<1>10. ASSUME NEW e \in Emitters \ {Scan}, LateEmits(e) \/ LateGoesOn(e) PROVE TurnInv'
  <2>1. UNCHANGED turnVars /\ at'[Scan] = at[Scan]
    BY <1>0, <1>10, RecordEffect, WriteEffect, RaiseEffect DEF LateEmits, LateGoesOn
  <2> QED
    BY <2>1 DEF turnVars, TurnInv, TurnTypes, Busy
<1>11. CASE UNCHANGED vars
  BY <1>11 DEF vars, turnVars, alertVars, TurnInv, TurnTypes, Busy
<1> QED
  BY <1>1, <1>2, <1>3, <1>4, <1>5, <1>6, <1>8, <1>9, <1>10, <1>11 DEF Next

\* The turns go round in every state of the pipeline.
LEMMA TurnsInductive == Spec => []TurnInv
<1>1. Init => TurnInv
  BY PipelineAssumption DEF Init, AlertInit, TurnInv, TurnTypes, Turns, Busy
<1> QED
  BY <1>1, TurnStep, PipelineFanOut, PTL DEF Spec

\* EveryDetectorEveryPacket: whatever raised, every detector is given every packet.
THEOREM NoneSkipped == Spec => []EveryDetectorEveryPacket
<1>1. TurnInv => EveryDetectorEveryPacket
  BY DEF TurnInv, EveryDetectorEveryPacket, Turns
<1> QED
  BY <1>1, TurnsInductive, PTL

-----------------------------------------------------------------------------
(* Every address is reported once, or lost to a sink that raised *)

Said == Nat \X (Addresses \cup {"rule"})
Unsaid(s, ip) == \A i \in 1 .. Len(reports) : reports[i] # <<s, ip>>
HostReport(a) == reports[a][1] = scan /\ reports[a][2] \in Addresses

\* What a detector may return: nothing, a rule's alert, or one or two addresses.
Returned(q) ==
  \/ q = <<>> \/ q = <<"rule">>
  \/ \E a \in Addresses : q = <<a>>
  \/ \E a, b \in Addresses : a # b /\ q = <<a, b>>

HostTypes ==
  /\ scan \in Nat \ {0} /\ pkt \in HostPackets /\ Returned(todo)
  /\ seen \subseteq Addresses /\ IsFiniteSet(seen)
  /\ reports \in Seq(Said) /\ Len(reports) = recorded

\* No two reports of an address are of the same scan, and none is of a scan to come.
SaidOnce ==
  /\ \A i, j \in 1 .. Len(reports) :
       reports[i] = reports[j] /\ reports[i][2] \in Addresses => i = j
  /\ \A i \in 1 .. Len(reports) : reports[i][1] <= scan

\* What this scan has reported it has seen; what it is about to report it has
\* seen and not reported.
SaidSeen ==
  /\ \A a \in 1 .. Len(reports) : HostReport(a) => reports[a][2] \in seen
  /\ \A ip \in Range(todo) \cap Addresses : ip \in seen /\ Unsaid(scan, ip)
  /\ step # "emit" => todo = <<>>

\* While a sink is served, at most one alert waits, and then the one in hand
\* reports an address in this scan.
InHand ==
  Busy /\ todo # <<>> =>
    /\ \E b \in Addresses : todo = <<b>>
    /\ carried[Scan] \in 1 .. Len(reports) /\ HostReport(carried[Scan])

\* The addresses seen that nobody will report: no more than reports that failed.
Lost == {ip \in seen : Unsaid(scan, ip) /\ ip \notin Range(todo)}
LossPaid == Cardinality(Lost) <= Cardinality(FailedReports)

HostInv == HostTypes /\ SaidOnce /\ SaidSeen /\ InHand /\ LossPaid

\* Taking the first of the alerts that a detector returned.
LEMMA TakeFirst ==
  ASSUME NEW q, Returned(q), q # <<>>
  PROVE  /\ Head(q) \in Addresses \cup {"rule"} /\ Returned(Tail(q))
         /\ Range(q) = {Head(q)} \cup Range(Tail(q)) /\ Head(q) \notin Range(Tail(q))
         /\ Tail(q) # <<>> => Head(q) \in Addresses /\ \E b \in Addresses : Tail(q) = <<b>>
<1>1. \A x : /\ Head(<<x>>) = x /\ Tail(<<x>>) = <<>> /\ Range(<<x>>) = {x}
             /\ Range(<<>>) = {}
  BY DEF Range
<1>2. \A x, y : /\ Head(<<x, y>>) = x /\ Tail(<<x, y>>) = <<y>> /\ Range(<<x, y>>) = {x, y}
  BY DEF Range
<1>3. CASE q = <<"rule">>
  BY <1>1, <1>3 DEF Returned
<1>4. CASE \E a \in Addresses : q = <<a>>
  BY <1>1, <1>4 DEF Returned
<1>5. CASE \E a, b \in Addresses : a # b /\ q = <<a, b>>
  <2>1. PICK a \in Addresses, b \in Addresses : a # b /\ q = <<a, b>>
    BY <1>5
  <2>2. Head(q) = a /\ Tail(q) = <<b>> /\ Range(q) = {a, b} /\ Range(Tail(q)) = {b}
    BY <2>1, <1>1, <1>2
  <2> QED
    BY <2>1, <2>2 DEF Returned
<1> QED
  BY <1>3, <1>4, <1>5 DEF Returned

\* What NewHost returns: the addresses of the packet not seen before, each once.
LEMMA NewHostsReturned ==
  ASSUME NEW S, NEW p \in HostPackets
  PROVE  /\ Returned(NewHosts(S, p))
         /\ Range(NewHosts(S, p)) = Introduced(p) \ S
         /\ Introduced(p) \subseteq Addresses /\ IsFiniteSet(Introduced(p))
<1> DEFINE fresh == Introduced(p) \ S
<1>1. p.src \in Addresses /\ p.dst \in Addresses /\ p.kind \in PacketKinds
  BY DEF HostPackets
<1>2. Introduced(p) \subseteq {p.src, p.dst}
  BY <1>1 DEF Introduced, PacketKinds
<1>3. IsFiniteSet({p.src, p.dst})
  <2>1. IsFiniteSet({p.src}) /\ {p.src, p.dst} = {p.src} \cup {p.dst}
    BY FS_Singleton
  <2> QED
    BY <2>1, FS_AddElement
<1>4. IsFiniteSet(Introduced(p))
  BY <1>2, <1>3, FS_Subset
<1>5. NewHosts(S, p) = (IF p.src \in fresh THEN <<p.src>> ELSE <<>>)
                         \o (IF p.dst \in fresh \ {p.src} THEN <<p.dst>> ELSE <<>>)
  BY DEF NewHosts
<1> HIDE DEF fresh
<1>6. /\ <<p.src>> \o <<>> = <<p.src>> /\ <<>> \o <<p.dst>> = <<p.dst>>
      /\ <<p.src>> \o <<p.dst>> = <<p.src, p.dst>> /\ <<>> \o <<>> = <<>>
  <2>1. /\ \A x \in Addresses : <<x>> \in Seq(Addresses)
        /\ <<>> \in Seq(Addresses)
    OBVIOUS
  <2>2. ASSUME NEW x \in Addresses, NEW y \in Addresses PROVE Append(<<x>>, y) = <<x, y>>
    <3> DEFINE s == Append(<<x>>, y)
               t == <<x, y>>
    <3>1. t \in Seq(Addresses) /\ Len(t) = 2 /\ t[1] = x /\ t[2] = y
      OBVIOUS
    <3>2. s \in Seq(Addresses) /\ Len(s) = 2 /\ s[1] = x /\ s[2] = y
      <4>1. <<x>> \in Seq(Addresses) /\ Len(<<x>>) = 1 /\ <<x>>[1] = x
        OBVIOUS
      <4> QED
        BY <4>1, AppendProperties
    <3> HIDE DEF s, t
    <3>3. s = t
      BY <3>1, <3>2, SeqEqual
    <3> QED
      BY <3>3 DEF s, t
  <2> QED
    BY <1>1, <2>1, <2>2, ConcatEmptySeq, AppendIsConcat
<1>7. \A x, y : Range(<<x>>) = {x} /\ Range(<<x, y>>) = {x, y} /\ Range(<<>>) = {}
  BY DEF Range
<1>8. Returned(NewHosts(S, p)) /\ Range(NewHosts(S, p)) = fresh
  <2>1. fresh \subseteq {p.src, p.dst}
    BY <1>2 DEF fresh
  <2>2. CASE p.src \in fresh /\ p.dst \in fresh \ {p.src}
    <3>1. NewHosts(S, p) = <<p.src, p.dst>> /\ fresh = {p.src, p.dst} /\ p.src # p.dst
      BY <1>5, <1>6, <2>1, <2>2
    <3> QED
      BY <1>1, <1>7, <3>1 DEF Returned
  <2>3. CASE p.src \in fresh /\ p.dst \notin fresh \ {p.src}
    <3>1. NewHosts(S, p) = <<p.src>> /\ fresh = {p.src}
      BY <1>5, <1>6, <2>1, <2>3
    <3> QED
      BY <1>1, <1>7, <3>1 DEF Returned
  <2>4. CASE p.src \notin fresh /\ p.dst \in fresh \ {p.src}
    <3>1. NewHosts(S, p) = <<p.dst>> /\ fresh = {p.dst}
      BY <1>5, <1>6, <2>1, <2>4
    <3> QED
      BY <1>1, <1>7, <3>1 DEF Returned
  <2>5. CASE p.src \notin fresh /\ p.dst \notin fresh \ {p.src}
    <3>1. NewHosts(S, p) = <<>> /\ fresh = {}
      BY <1>5, <1>6, <2>1, <2>5
    <3> QED
      BY <1>7, <3>1 DEF Returned
  <2> QED
    BY <2>2, <2>3, <2>4, <2>5
<1> QED
  BY <1>1, <1>2, <1>4, <1>8 DEF fresh

\* The reports that failed: recorded ones of this scan's addresses, finitely many.
FailedFinite ==
  /\ FailedReports = {a \in 1 .. recorded : HostReport(a) /\ \E t \in Sinks : <<t, a>> \in failures}
  /\ IsFiniteSet(FailedReports) /\ Cardinality(FailedReports) \in Nat

\* ... which is what FailedReports is, as only recorded alerts have failed.
LEMMA FailedAreFinite == FanOutInv => FailedFinite
<1> SUFFICES ASSUME FanOutInv PROVE FailedFinite
  OBVIOUS
<1> DEFINE F == {a \in 1 .. recorded : HostReport(a) /\ \E t \in Sinks : <<t, a>> \in failures}
<1>1. /\ failures \subseteq Sinks \X Nat /\ recorded \in Nat
      /\ \A t \in Sinks, a \in Nat : <<t, a>> \in failures => a \in 1 .. recorded
  BY DEF FanOutInv, AlertTypeOK, PastOnly
<1>2. ASSUME NEW f \in failures, HostReport(f[2]) PROVE f[2] \in F
  BY <1>1, <1>2
<1>3. ASSUME NEW a \in F PROVE \E f \in failures : HostReport(f[2]) /\ a = f[2]
  <2>1. PICK t \in Sinks : <<t, a>> \in failures
    OBVIOUS
  <2> QED
    BY <2>1
<1>4. FailedReports = F
  BY <1>2, <1>3 DEF FailedReports, HostReport
<1>5. IsFiniteSet(F)
  <2>1. IsFiniteSet(1 .. recorded) /\ F \in SUBSET (1 .. recorded)
    BY <1>1, FS_Interval
  <2> HIDE DEF F
  <2> QED
    BY <2>1, FS_Subset
<1> QED
  BY <1>4, <1>5, FS_CardinalityType DEF FailedFinite

\* The account still holds when nothing more is lost and no failure forgotten.
LEMMA LossStillPaid ==
  ASSUME HostInv, FanOutInv, FanOutInv', scan' = scan, failures \subseteq failures',
         recorded' >= recorded,
         \A a \in 1 .. recorded : reports'[a] = reports[a],
         Lost' \subseteq Lost
  PROVE  LossPaid'
<1>1. FailedFinite /\ FailedFinite' /\ recorded \in Nat /\ recorded' \in Nat
  <2>1. FailedFinite /\ FailedFinite'
    BY FailedAreFinite, PTL
  <2> QED
    BY <2>1 DEF FanOutInv, AlertTypeOK
<1>2. FailedReports \subseteq FailedReports'
  <2> SUFFICES ASSUME NEW a \in FailedReports PROVE a \in FailedReports'
    OBVIOUS
  <2>1. a \in 1 .. recorded /\ HostReport(a) /\ \E t \in Sinks : <<t, a>> \in failures
    BY <1>1 DEF FailedFinite
  <2>2. a \in 1 .. recorded' /\ HostReport(a)' /\ \E t \in Sinks : <<t, a>> \in failures'
    BY <1>1, <2>1 DEF HostReport
  <2> QED
    BY <1>1, <2>2 DEF FailedFinite
<1>3. Cardinality(FailedReports) <= Cardinality(FailedReports')
  BY <1>1, <1>2, FS_Subset DEF FailedFinite
<1>4. IsFiniteSet(Lost) /\ Cardinality(Lost) \in Nat /\ Cardinality(Lost') \in Nat
      /\ Cardinality(Lost') <= Cardinality(Lost)
  <2>1. IsFiniteSet(Lost)
    BY FS_Subset DEF HostInv, HostTypes, Lost
  <2> QED
    BY <2>1, FS_Subset, FS_CardinalityType
<1>5. Cardinality(Lost) <= Cardinality(FailedReports)
  BY DEF HostInv, LossPaid
<1>6. Cardinality(FailedReports) \in Nat /\ Cardinality(FailedReports') \in Nat
  BY <1>1 DEF FailedFinite
<1> QED
  BY <1>3, <1>4, <1>5, <1>6 DEF LossPaid

\* A step that neither reports nor sees an address keeps everything.
LEMMA QuietStep ==
  ASSUME HostInv, FanOutInv, FanOutInv', UNCHANGED <<scan, seen, todo, reports, recorded>>,
         pkt' \in HostPackets, failures \subseteq failures',
         step' # "emit" => todo = <<>>,
         Busy' => Busy /\ carried'[Scan] = carried[Scan]
  PROVE  HostInv'
<1>1. HostTypes' /\ SaidOnce'
  BY DEF HostInv, HostTypes, SaidOnce
<1>2. \A a : HostReport(a)' = HostReport(a)
  BY DEF HostReport
<1>3. \A ip : Unsaid(scan, ip)' = Unsaid(scan, ip)
  BY DEF Unsaid
<1>4. SaidSeen' /\ InHand'
  BY <1>2, <1>3 DEF HostInv, SaidSeen, InHand
<1>5. Lost' = Lost
  BY <1>3 DEF Lost
<1>6. recorded' >= recorded
  BY DEF FanOutInv, AlertTypeOK
<1> QED
  BY <1>1, <1>4, <1>5, <1>6, LossStillPaid DEF HostInv

\* What recording an alert adds to the reports.
LEMMA ReportAdded ==
  ASSUME HostTypes, NEW r \in Said, reports' = Append(reports, r), recorded' = recorded + 1
  PROVE  /\ reports' \in Seq(Said) /\ Len(reports') = recorded' /\ Len(reports) \in Nat
         /\ Len(reports') = Len(reports) + 1
         /\ \A i \in 1 .. Len(reports) : reports'[i] = reports[i]
         /\ reports'[Len(reports) + 1] = r
         /\ \A i \in 1 .. Len(reports') : i \in 1 .. Len(reports) \/ i = Len(reports) + 1
<1>1. reports \in Seq(Said) /\ Len(reports) = recorded
  BY DEF HostTypes
<1> QED
  BY <1>1, AppendProperties

\* A new report keeps reports single if it is of no address yet reported.
LEMMA ReportOnce ==
  ASSUME HostTypes, SaidOnce, NEW r \in Said, reports' = Append(reports, r),
         recorded' = recorded + 1, scan' = scan, r[1] <= scan,
         r[2] \in Addresses => \A i \in 1 .. Len(reports) : reports[i] # r
  PROVE  SaidOnce'
<1>1. /\ Len(reports) \in Nat
      /\ \A i \in 1 .. Len(reports) : reports'[i] = reports[i]
      /\ reports'[Len(reports) + 1] = r
      /\ \A i \in 1 .. Len(reports') : i \in 1 .. Len(reports) \/ i = Len(reports) + 1
  BY ReportAdded
<1>2. /\ \A i, j \in 1 .. Len(reports) :
           reports[i] = reports[j] /\ reports[i][2] \in Addresses => i = j
      /\ \A i \in 1 .. Len(reports) : reports[i][1] <= scan
  BY DEF SaidOnce
<1>3. ASSUME NEW i \in 1 .. Len(reports'), NEW j \in 1 .. Len(reports'),
             reports'[i] = reports'[j], reports'[i][2] \in Addresses
      PROVE  i = j
  <2>1. CASE i \in 1 .. Len(reports) /\ j \in 1 .. Len(reports)
    BY <1>1, <1>2, <1>3, <2>1
  <2>2. CASE i \in 1 .. Len(reports) /\ j = Len(reports) + 1
    BY <1>1, <1>3, <2>2
  <2>3. CASE i = Len(reports) + 1 /\ j \in 1 .. Len(reports)
    BY <1>1, <1>3, <2>3
  <2> QED
    BY <1>1, <2>1, <2>2, <2>3
<1>4. \A i \in 1 .. Len(reports') : reports'[i][1] <= scan'
  BY <1>1, <1>2
<1> QED
  BY <1>3, <1>4 DEF SaidOnce

\* What emit() does to the account: the address leaves those to be reported and
\* joins the reported ones; the others wait.
LEMMA EmitKeepsHosts ==
  ASSUME HostInv, TurnInv, FanOutInv, FanOutInv', EmitNext
  PROVE  HostInv'
<1> PICK r : r = <<scan, Head(todo)>>
  OBVIOUS
<1>1. /\ todo # <<>> /\ todo' = Tail(todo) /\ Record(Scan) /\ step = "emit" /\ step' = step
      /\ reports' = Append(reports, r) /\ UNCHANGED <<scan, pkt, seen>>
  BY DEF EmitNext
<1>2. HostTypes /\ SaidOnce /\ SaidSeen /\ scan \in Nat \ {0}
  BY DEF HostInv, HostTypes
<1>3. /\ Head(todo) \in Addresses \cup {"rule"} /\ Returned(todo')
      /\ Range(todo) = {Head(todo)} \cup Range(todo') /\ Head(todo) \notin Range(todo')
      /\ todo' # <<>> => Head(todo) \in Addresses /\ \E b \in Addresses : todo' = <<b>>
  BY <1>1, <1>2, TakeFirst DEF HostTypes
<1>4. r \in Said /\ r[1] = scan /\ r[2] = Head(todo)
  BY <1>2, <1>3 DEF Said
<1>5. /\ recorded \in Nat /\ recorded' = recorded + 1 /\ carried'[Scan] = recorded + 1
      /\ failures' = failures
  BY <1>1, PipelineAssumption, RecordEffect DEF FanOutInv
<1>6. /\ reports' \in Seq(Said) /\ Len(reports') = recorded' /\ Len(reports) \in Nat
      /\ Len(reports') = Len(reports) + 1
      /\ \A i \in 1 .. Len(reports) : reports'[i] = reports[i]
      /\ reports'[Len(reports) + 1] = r
      /\ \A i \in 1 .. Len(reports') : i \in 1 .. Len(reports) \/ i = Len(reports) + 1
  BY <1>1, <1>2, <1>4, <1>5, ReportAdded
<1>7. HostTypes'
  BY <1>1, <1>2, <1>3, <1>6 DEF HostTypes
<1>8. ASSUME Head(todo) \in Addresses
      PROVE  Head(todo) \in seen /\ \A i \in 1 .. Len(reports) : reports[i] # r
  BY <1>2, <1>3, <1>8 DEF SaidSeen, Unsaid
<1>9. SaidOnce'
  <2>1. r[1] <= scan /\ (r[2] \in Addresses => \A i \in 1 .. Len(reports) : reports[i] # r)
    BY <1>2, <1>4, <1>8
  <2> QED
    BY <1>1, <1>2, <1>4, <1>5, <2>1, ReportOnce
<1>10. \A ip : Unsaid(scan, ip)' <=> Unsaid(scan, ip) /\ ip # Head(todo)
  <2> SUFFICES ASSUME NEW ip PROVE Unsaid(scan, ip)' <=> Unsaid(scan, ip) /\ ip # Head(todo)
    OBVIOUS
  <2>1. r # <<scan, ip>> <=> ip # Head(todo)
    OBVIOUS
  <2>2. Unsaid(scan, ip)' <=> \A i \in 1 .. Len(reports') : reports'[i] # <<scan, ip>>
    BY <1>1 DEF Unsaid
  <2>3. /\ \A i \in 1 .. Len(reports) : i \in 1 .. Len(reports')
        /\ Len(reports) + 1 \in 1 .. Len(reports')
    BY <1>6
  <2> QED
    BY <1>6, <2>1, <2>2, <2>3 DEF Unsaid
<1>11. SaidSeen'
  <2>1. \A a \in 1 .. Len(reports') : HostReport(a)' => reports'[a][2] \in seen'
    <3> SUFFICES ASSUME NEW a \in 1 .. Len(reports'), HostReport(a)'
                 PROVE  reports'[a][2] \in seen
      BY <1>1
    <3>1. CASE a \in 1 .. Len(reports)
      BY <1>1, <1>2, <1>6, <3>1 DEF HostReport, SaidSeen
    <3>2. CASE a = Len(reports) + 1
      BY <1>4, <1>6, <1>8, <3>2 DEF HostReport
    <3> QED
      BY <1>6, <3>1, <3>2
  <2>2. \A ip \in Range(todo') \cap Addresses : ip \in seen' /\ Unsaid(scan, ip)'
    BY <1>1, <1>2, <1>3, <1>10 DEF SaidSeen
  <2> QED
    BY <1>1, <2>1, <2>2 DEF SaidSeen
<1>12. InHand'
  <2> SUFFICES ASSUME todo' # <<>>
               PROVE  /\ \E b \in Addresses : todo' = <<b>>
                      /\ carried'[Scan] \in 1 .. Len(reports') /\ HostReport(carried[Scan])'
    BY DEF InHand
  <2>1. carried'[Scan] = Len(reports) + 1
    BY <1>2, <1>5 DEF HostTypes
  <2> QED
    BY <1>1, <1>3, <1>4, <1>6, <2>1 DEF HostReport
<1>13. Lost' \subseteq Lost
  <2> SUFFICES ASSUME NEW ip \in seen, Unsaid(scan, ip)', ip \notin Range(todo')
               PROVE  Unsaid(scan, ip) /\ ip \notin Range(todo)
    BY <1>1 DEF Lost
  <2> QED
    BY <1>3, <1>10
<1>14. LossPaid'
  <2>1. /\ scan' = scan /\ failures \subseteq failures' /\ recorded' >= recorded
        /\ \A a \in 1 .. recorded : reports'[a] = reports[a]
    BY <1>1, <1>2, <1>5, <1>6 DEF HostTypes
  <2> QED
    BY <2>1, <1>13, LossStillPaid
<1> QED
  BY <1>7, <1>9, <1>11, <1>12, <1>14 DEF HostInv

\* An exception of a sink costs at most one address its report, and is counted.
LEMMA RaiseKeepsHosts ==
  ASSUME HostInv, TurnInv, FanOutInv, FanOutInv', EmitRaises
  PROVE  HostInv'
<1> PICK c : c = carried[Scan]
  OBVIOUS
<1>1. /\ Busy /\ SinkRaises(Scan) /\ todo' = <<>>
      /\ UNCHANGED <<scan, pkt, seen, reports>>
  BY DEF EmitRaises, SinkRaises, Busy
<1>2. /\ at[Scan] \in Sinks /\ at'[Scan] = Outside
      /\ carried' = carried /\ recorded' = recorded
      /\ failures' = failures \cup {<<at[Scan], c>>}
  BY <1>1, PipelineAssumption, RaiseEffect DEF FanOutInv
<1>3. HostTypes /\ SaidOnce /\ SaidSeen /\ InHand /\ LossPaid
  BY DEF HostInv
<1>4. \A x : /\ HostReport(x)' = HostReport(x) /\ Unsaid(scan, x)' = Unsaid(scan, x)
             /\ Range(todo') = {}
  BY <1>1 DEF HostReport, Unsaid, Range
<1>5. HostTypes' /\ SaidOnce'
  BY <1>1, <1>2, <1>3 DEF HostTypes, SaidOnce, Returned
<1>6. SaidSeen' /\ InHand'
  BY <1>1, <1>3, <1>4 DEF SaidSeen, InHand
<1>7. LossPaid'
  <2>1. CASE todo = <<>> \/ todo = <<"rule">>
    <3>1. Lost' \subseteq Lost
      <4>1. Range(todo) \cap Addresses = {}
        BY <2>1, PipelineAssumption DEF Range
      <4>2. seen \subseteq Addresses
        BY <1>3 DEF HostTypes
      <4> QED
        BY <1>1, <1>4, <4>1, <4>2 DEF Lost
    <3>2. recorded' >= recorded
      BY <1>2 DEF FanOutInv, AlertTypeOK
    <3> QED
      BY <1>1, <1>2, <3>1, <3>2, LossStillPaid
  <2>2. CASE todo # <<>>
    <3>1. PICK b \in Addresses : todo = <<b>>
      BY <1>1, <1>3, <2>2 DEF InHand
    <3>2. c \in 1 .. Len(reports) /\ HostReport(c)
      BY <1>1, <1>3, <2>2 DEF InHand
    <3>3. FailedFinite /\ FailedFinite'
      BY FailedAreFinite, PTL
    <3>4. c \notin FailedReports
      <4>1. \A t \in Sinks : <<t, c>> \notin failures
        BY <1>1, PipelineAssumption DEF FanOutInv, InFlight, Busy
      <4> QED
        BY <3>3, <4>1 DEF FailedFinite
    <3>5. FailedReports' = FailedReports \cup {c}
      <4>1. \A a : (\E t \in Sinks : <<t, a>> \in failures')
                     <=> (\E t \in Sinks : <<t, a>> \in failures) \/ a = c
        BY <1>2
      <4>2. c \in 1 .. recorded
        BY <1>3, <3>2 DEF HostTypes
      <4> QED
        BY <1>2, <1>4, <3>2, <3>3, <4>1, <4>2 DEF FailedFinite
    <3>6. Cardinality(FailedReports') = Cardinality(FailedReports) + 1
      BY <3>3, <3>4, <3>5, FS_AddElement DEF FailedFinite
    <3>7. Lost' \subseteq Lost \cup {b}
      <4>1. Range(todo) = {b}
        BY <3>1 DEF Range
      <4> QED
        BY <1>1, <1>4, <4>1 DEF Lost
    <3>8. Cardinality(Lost') <= Cardinality(Lost) + 1
      <4>1. IsFiniteSet(Lost)
        BY <1>3, FS_Subset DEF HostTypes, Lost
      <4>2. /\ IsFiniteSet(Lost \cup {b}) /\ Cardinality(Lost) \in Nat
            /\ Cardinality(Lost \cup {b}) <= Cardinality(Lost) + 1
        BY <4>1, FS_AddElement, FS_CardinalityType
      <4>3. Cardinality(Lost') <= Cardinality(Lost \cup {b}) /\ Cardinality(Lost') \in Nat
            /\ Cardinality(Lost \cup {b}) \in Nat
        BY <3>7, <4>2, FS_Subset, FS_CardinalityType
      <4> QED
        BY <4>2, <4>3
    <3>9. /\ Cardinality(Lost) \in Nat /\ Cardinality(Lost') \in Nat
          /\ Cardinality(FailedReports) \in Nat
      <4>1. IsFiniteSet(Lost) /\ IsFiniteSet(Lost')
        BY <1>3, <1>5, FS_Subset DEF HostTypes, Lost
      <4> QED
        BY <3>3, <4>1, FS_CardinalityType DEF FailedFinite
    <3> QED
      BY <1>3, <3>6, <3>8, <3>9 DEF LossPaid
  <2> QED
    BY <2>1, <2>2
<1> QED
  BY <1>5, <1>6, <1>7 DEF HostInv

\* A detector's alerts are of addresses that were not seen, so not reported.
LEMMA DetectKeepsHosts ==
  ASSUME HostInv, TurnInv, FanOutInv, FanOutInv', Detect
  PROVE  HostInv'
<1>1. /\ step = "detect" /\ step' = "emit" /\ UNCHANGED <<alertVars, scan, pkt, reports>>
      /\ todo = <<>> /\ pkt \in HostPackets /\ ~Busy
  BY DEF Detect, HostInv, HostTypes, SaidSeen, TurnInv
<1>2. HostTypes /\ SaidOnce /\ SaidSeen
  BY DEF HostInv
<1>3. /\ Returned(todo') /\ seen \subseteq seen' /\ seen' \subseteq Addresses /\ IsFiniteSet(seen')
      /\ seen' \ seen = Range(todo') \cap Addresses /\ seen \cap Range(todo') = {}
  <2>1. CASE Detectors[turn] = "new_host"
    <3>1. todo' = NewHosts(seen, pkt) /\ seen' = seen \cup Introduced(pkt)
      BY <2>1 DEF Detect
    <3>2. /\ Returned(todo') /\ Range(todo') = Introduced(pkt) \ seen
          /\ Introduced(pkt) \subseteq Addresses /\ IsFiniteSet(Introduced(pkt))
      BY <1>1, <3>1, NewHostsReturned
    <3>3. IsFiniteSet(seen')
      BY <1>2, <3>1, <3>2, FS_Union DEF HostTypes
    <3> QED
      BY <1>2, <3>1, <3>2, <3>3 DEF HostTypes
  <2>2. CASE Detectors[turn] # "new_host"
    <3>1. todo' \in {<<>>, <<"rule">>} /\ seen' = seen
      BY <2>2 DEF Detect
    <3>2. Returned(todo') /\ Range(todo') \subseteq {"rule"}
      BY <3>1 DEF Returned, Range
    <3> QED
      BY <1>2, <3>1, <3>2, PipelineAssumption DEF HostTypes
  <2> QED
    BY <2>1, <2>2
<1>4. \A x : HostReport(x)' = HostReport(x) /\ Unsaid(scan, x)' = Unsaid(scan, x)
  BY <1>1 DEF HostReport, Unsaid
<1>5. HostTypes' /\ SaidOnce'
  BY <1>1, <1>2, <1>3 DEF HostTypes, SaidOnce, alertVars
<1>6. SaidSeen'
  <2>1. ASSUME NEW ip \in Addresses, ip \notin seen PROVE Unsaid(scan, ip)
    <3>1. \A i \in 1 .. Len(reports) : reports[i] = <<scan, ip>> => HostReport(i) /\ reports[i][2] = ip
      BY <2>1 DEF HostReport
    <3> QED
      BY <1>2, <2>1, <3>1 DEF SaidSeen, Unsaid
  <2>2. \A ip \in Range(todo') \cap Addresses : ip \in seen' /\ Unsaid(scan, ip)'
    BY <1>3, <1>4, <2>1
  <2>3. \A a \in 1 .. Len(reports') : HostReport(a)' => reports'[a][2] \in seen'
    BY <1>1, <1>2, <1>3, <1>4 DEF SaidSeen
  <2> QED
    BY <1>1, <2>2, <2>3 DEF SaidSeen
<1>7. InHand'
  BY <1>1 DEF InHand, Busy, alertVars
<1>8. LossPaid'
  <2>1. Range(todo) = {}
    BY <1>1 DEF Range
  <2>2. Lost' \subseteq Lost
    BY <1>3, <1>4, <2>1 DEF Lost
  <2>3. /\ scan' = scan /\ failures \subseteq failures' /\ recorded' >= recorded
        /\ \A a \in 1 .. recorded : reports'[a] = reports[a]
    BY <1>1 DEF alertVars, FanOutInv, AlertTypeOK
  <2> QED
    BY <2>2, <2>3, LossStillPaid
<1> QED
  BY <1>5, <1>6, <1>7, <1>8 DEF HostInv

\* A new scan has seen nothing and reported nothing.
LEMMA NewScanKeepsHosts ==
  ASSUME HostInv, TurnInv, FanOutInv, FanOutInv', NewScan
  PROVE  HostInv'
<1>1. /\ scan' = scan + 1 /\ seen' = {} /\ step = "take" /\ ~Busy
      /\ UNCHANGED <<alertVars, step, pkt, todo, reports>>
  BY DEF NewScan, TurnInv
<1>2. HostTypes /\ SaidOnce /\ SaidSeen /\ scan \in Nat \ {0} /\ todo = <<>>
  BY <1>1 DEF HostInv, HostTypes, SaidSeen
<1>3. HostTypes'
  BY <1>1, <1>2, FS_EmptySet DEF HostTypes, alertVars
<1>4. \A i \in 1 .. Len(reports) : reports[i][1] \in Nat /\ reports[i][1] <= scan
  BY <1>2, ElementOfSeq DEF HostTypes, SaidOnce, Said
<1>5. SaidOnce'
  BY <1>1, <1>2, <1>4 DEF SaidOnce
<1>6. SaidSeen'
  <2>1. \A a \in 1 .. Len(reports) : ~HostReport(a)'
    BY <1>1, <1>2, <1>4 DEF HostReport
  <2>2. Range(todo') = {}
    BY <1>1, <1>2 DEF Range
  <2> QED
    BY <1>1, <1>2, <2>1, <2>2 DEF SaidSeen
<1>7. InHand'
  BY <1>1 DEF InHand, Busy, alertVars
<1>8. LossPaid'
  <2>1. FailedFinite'
    BY FailedAreFinite, PTL
  <2>2. Lost' = {}
    BY <1>1 DEF Lost
  <2>3. Cardinality(Lost') = 0
    BY <2>2, FS_EmptySet
  <2> QED
    BY <2>1, <2>3 DEF FailedFinite, LossPaid
<1> QED
  BY <1>3, <1>5, <1>6, <1>7, <1>8 DEF HostInv

\* A left-over thread's alert is nothing of this scan's.
LEMMA LateKeepsHosts ==
  ASSUME HostInv, TurnInv, FanOutInv, FanOutInv', NEW e \in Emitters \ {Scan}, LateEmits(e)
  PROVE  HostInv'
<1>1. Record(e) /\ reports' = Append(reports, Late) /\ UNCHANGED <<scan, step, pkt, todo, seen>>
  BY DEF LateEmits, turnVars
<1>2. HostTypes /\ SaidOnce /\ SaidSeen /\ InHand /\ scan \in Nat \ {0}
  BY DEF HostInv, HostTypes
<1>3. Late \in Said /\ Late[1] = 0 /\ Late[2] = "rule" /\ "rule" \notin Addresses
  BY PipelineAssumption DEF Late, Said
<1>4. /\ recorded \in Nat /\ recorded' = recorded + 1 /\ failures' = failures
      /\ at'[Scan] = at[Scan] /\ carried'[Scan] = carried[Scan]
  BY <1>1, PipelineAssumption, RecordEffect DEF FanOutInv
<1>5. /\ reports' \in Seq(Said) /\ Len(reports') = recorded' /\ Len(reports) \in Nat
      /\ Len(reports') = Len(reports) + 1
      /\ \A i \in 1 .. Len(reports) : reports'[i] = reports[i]
      /\ reports'[Len(reports) + 1] = Late
      /\ \A i \in 1 .. Len(reports') : i \in 1 .. Len(reports) \/ i = Len(reports) + 1
  BY <1>1, <1>2, <1>3, <1>4, ReportAdded
<1>6. HostTypes'
  BY <1>1, <1>2, <1>5 DEF HostTypes
<1>7. SaidOnce'
  <2>1. Late[1] <= scan
    BY <1>2, <1>3
  <2> QED
    BY <1>1, <1>2, <1>3, <1>4, <2>1, ReportOnce
<1>8. \A a \in 1 .. Len(reports') :
        HostReport(a)' => a \in 1 .. Len(reports) /\ HostReport(a) /\ reports'[a] = reports[a]
  BY <1>1, <1>3, <1>5 DEF HostReport
<1>9. \A ip : Unsaid(scan, ip)' <=> Unsaid(scan, ip)
  <2> SUFFICES ASSUME NEW ip PROVE Unsaid(scan, ip)' <=> Unsaid(scan, ip)
    OBVIOUS
  <2>1. Unsaid(scan, ip)' <=> \A i \in 1 .. Len(reports') : reports'[i] # <<scan, ip>>
    BY <1>1 DEF Unsaid
  <2>2. Late # <<scan, ip>>
    BY <1>2 DEF Late
  <2>3. \A i \in 1 .. Len(reports) : i \in 1 .. Len(reports')
    BY <1>5
  <2> QED
    BY <1>5, <2>1, <2>2, <2>3 DEF Unsaid
<1>10. SaidSeen'
  BY <1>1, <1>2, <1>8, <1>9 DEF SaidSeen
<1>11. InHand'
  <2> SUFFICES ASSUME Busy', todo' # <<>>
               PROVE  /\ \E b \in Addresses : todo' = <<b>>
                      /\ carried'[Scan] \in 1 .. Len(reports') /\ HostReport(carried[Scan])'
    BY DEF InHand
  <2>1. /\ \E b \in Addresses : todo = <<b>>
        /\ carried[Scan] \in 1 .. Len(reports) /\ HostReport(carried[Scan])
    BY <1>1, <1>2, <1>4 DEF InHand, Busy
  <2>2. carried[Scan] \in 1 .. Len(reports') /\ reports'[carried[Scan]] = reports[carried[Scan]]
    BY <1>5, <2>1
  <2> QED
    BY <1>1, <1>4, <2>1, <2>2 DEF HostReport
<1>12. LossPaid'
  <2>1. Lost' \subseteq Lost
    BY <1>1, <1>9 DEF Lost
  <2>2. /\ scan' = scan /\ failures \subseteq failures' /\ recorded' >= recorded
        /\ \A a \in 1 .. recorded : reports'[a] = reports[a]
    BY <1>1, <1>2, <1>4, <1>5 DEF HostTypes
  <2> QED
    BY <2>1, <2>2, LossStillPaid
<1> QED
  BY <1>6, <1>7, <1>10, <1>11, <1>12 DEF HostInv

\* Every step keeps the account of the addresses.
LEMMA HostStep == HostInv /\ TurnInv /\ FanOutInv /\ FanOutInv' /\ [Next]_vars => HostInv'
<1> SUFFICES ASSUME HostInv, TurnInv, FanOutInv, FanOutInv', [Next]_vars PROVE HostInv'
  OBVIOUS
<1>1. AlertTypeOK /\ pkt \in HostPackets /\ (step # "emit" => todo = <<>>)
  BY DEF FanOutInv, HostInv, HostTypes, SaidSeen
<1>2. ASSUME NEW p \in HostPackets, TakePacket(p) PROVE HostInv'
  <2>1. /\ UNCHANGED <<scan, seen, todo, reports, recorded, at, carried, failures>>
        /\ pkt' = p /\ todo = <<>>
    BY <1>1, <1>2 DEF TakePacket, alertVars
  <2> QED
    BY <2>1, QuietStep DEF Busy
<1>3. CASE NewScan
  BY <1>3, NewScanKeepsHosts
<1>4. CASE Detect
  BY <1>4, DetectKeepsHosts
<1>5. CASE DetectorRaises
  <2>1. /\ UNCHANGED <<scan, seen, todo, reports, pkt, recorded, at, carried, failures>>
        /\ todo = <<>>
    BY <1>1, <1>5 DEF DetectorRaises, alertVars
  <2> QED
    BY <1>1, <2>1, QuietStep DEF Busy
<1>6. CASE EmitNext
  BY <1>6, EmitKeepsHosts
<1>7. CASE EmitWrites
  <2>1. /\ UNCHANGED <<scan, seen, todo, reports, pkt, step, recorded, carried, failures>> /\ Busy
    BY <1>7 DEF EmitWrites, Write, turnVars, Busy
  <2> QED
    BY <1>1, <2>1, QuietStep
<1>8. CASE EmitRaises
  BY <1>8, RaiseKeepsHosts
<1>9. CASE EndTurn
  <2>1. /\ UNCHANGED <<scan, seen, todo, reports, pkt, recorded, at, carried, failures>>
        /\ todo = <<>>
    BY <1>9 DEF EndTurn, alertVars
  <2> QED
    BY <1>1, <2>1, QuietStep DEF Busy
<1>10. ASSUME NEW e \in Emitters \ {Scan}, LateEmits(e) PROVE HostInv'
  BY <1>10, LateKeepsHosts
<1>11. ASSUME NEW e \in Emitters \ {Scan}, LateGoesOn(e) PROVE HostInv'
  <2>1. /\ UNCHANGED <<scan, seen, todo, reports, pkt, step, recorded, carried>>
        /\ at'[Scan] = at[Scan] /\ failures \subseteq failures'
    BY <1>1, <1>11, PipelineAssumption, WriteEffect, RaiseEffect DEF LateGoesOn, turnVars
  <2> QED
    BY <1>1, <2>1, QuietStep DEF Busy
<1>12. CASE UNCHANGED vars
  <2>1. UNCHANGED <<scan, seen, todo, reports, pkt, step, recorded, at, carried, failures>>
    BY <1>12 DEF vars, turnVars, alertVars
  <2> QED
    BY <1>1, <2>1, QuietStep DEF Busy
<1> QED
  BY <1>2, <1>3, <1>4, <1>5, <1>6, <1>7, <1>8, <1>9, <1>10, <1>11, <1>12 DEF Next

\* Before the first packet nothing is seen, reported or lost.
LEMMA HostInit == Init /\ FanOutInv => HostInv
<1> SUFFICES ASSUME Init, FanOutInv PROVE HostInv
  OBVIOUS
<1>1. /\ scan = 1 /\ todo = <<>> /\ seen = {} /\ reports = <<>> /\ recorded = 0
      /\ pkt = [kind |-> "other", src |-> Null, dst |-> Null] /\ Len(reports) = 0
      /\ at = [e \in Emitters |-> Outside]
  BY EmptySeq DEF Init, AlertInit
<1>2. pkt \in HostPackets
  BY <1>1 DEF HostPackets, PacketKinds, Addresses
<1>3. HostTypes
  BY <1>1, <1>2, FS_EmptySet, EmptySeq DEF HostTypes, Returned
<1>4. SaidOnce /\ SaidSeen
  BY <1>1 DEF SaidOnce, SaidSeen, Range
<1>5. InHand
  BY <1>1 DEF InHand
<1>6. LossPaid
  <2>1. FailedFinite
    BY FailedAreFinite
  <2>2. Lost = {} /\ Cardinality(Lost) = 0
    BY <1>1, FS_EmptySet DEF Lost
  <2> QED
    BY <2>1, <2>2 DEF FailedFinite, LossPaid
<1> QED
  BY <1>3, <1>4, <1>5, <1>6 DEF HostInv

\* HostsReportedOnce: an address is never reported twice in a scan, and those that
\* are seen and never reported are no more than the reports that a sink raised on.
THEOREM HostsOnce == Spec => []HostsReportedOnce
<1>1. HostInv /\ TurnInv => HostsReportedOnce
  <2> SUFFICES ASSUME HostInv, TurnInv PROVE HostsReportedOnce
    OBVIOUS
  <2>1. ASSUME NEW s \in 1 .. MaxScans, NEW ip \in Addresses
        PROVE  Cardinality(Reported(s, ip)) <= 1
    <3>1. \A i, j \in Reported(s, ip) : i = j
      <4>1. \A i \in Reported(s, ip) : i \in 1 .. Len(reports) /\ reports[i] = <<s, ip>>
        BY DEF Reported
      <4>2. \A i \in Reported(s, ip) : reports[i][2] \in Addresses
        BY <4>1
      <4> QED
        BY <4>1, <4>2 DEF HostInv, SaidOnce
    <3>2. CASE Reported(s, ip) = {}
      BY <3>2, FS_EmptySet
    <3>3. CASE \E i : Reported(s, ip) = {i}
      BY <3>3, FS_Singleton
    <3> QED
      BY <3>1, <3>2, <3>3
  <2>2. ASSUME step = "take" PROVE Cardinality(Unreported) <= Cardinality(FailedReports)
    <3>1. todo = <<>>
      BY <2>2 DEF HostInv, SaidSeen
    <3>2. \A ip : Reported(scan, ip) = {} <=> Unsaid(scan, ip)
      BY DEF Reported, Unsaid
    <3>3. Unreported = Lost
      BY <3>1, <3>2 DEF Unreported, Lost, Range
    <3> QED
      BY <3>3 DEF HostInv, LossPaid
  <2> QED
    BY <2>1, <2>2 DEF HostsReportedOnce
<1> QED
  BY <1>1, HostInit, HostStep, PipelineFanOut, TurnsInductive, PTL DEF Spec
=============================================================================
