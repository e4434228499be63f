------------------------------ MODULE TrafficSpike ------------------------------
(***************************************************************************)
(* detectors/traffic_spike.py: packets are counted per key; the first packet *)
(* after the interval's end closes it: the count of every key seen in it is  *)
(* scored against the key's own baseline, which then takes it in.            *)
(* Rates are in packets per interval, which changes no score.                *)
(***************************************************************************)
EXTENDS RollingRate, Sequences, Functions

CONSTANTS
  Keys,
  Interval,           \* interval_seconds
  Den,                \* the threshold and the floors are fractions over Den
  Threshold,          \* zscore_threshold
  MinPackets,         \* min_packets
  Floors,             \* what min_stddev may be, in packets per interval
  MaxTime, MaxPackets, MaxUpdates   \* bounds

ASSUME SpikeAssumption ==
  /\ Interval \in Nat \ {0} /\ Den \in Nat \ {0} /\ Threshold \in Nat \ {0}
  /\ MinPackets \in Nat /\ Floors \subseteq Nat
  /\ MaxTime \in Nat /\ MaxPackets \in Nat /\ MaxUpdates \in Nat
  /\ Scale = AlphaDen ^ MaxUpdates

VARIABLES
  min_stddev,    \* self.min_stddev, over Den, never changed
  now,           \* time.time()
  counts,        \* self._counts; 0 for a key that is not in it
  window_start,  \* self._window_start
  rates,         \* self._rates
  closed,        \* history: the counts of a key's closed intervals
  pending,       \* history: when the packets in counts came, per key
  seen,          \* history: number of packets of a key
  ends,          \* history: the number of the last packet of its closed intervals
  alerts         \* history: the key and the number of closed intervals

vars == <<min_stddev, now, counts, window_start, rates, closed, pending, seen, ends, alerts>>

Init ==
  /\ min_stddev \in Floors
  /\ now = 0 /\ window_start = 0
  /\ counts = [k \in Keys |-> 0]
  /\ rates = [k \in Keys |-> Fresh]
  /\ closed = [k \in Keys |-> <<>>]
  /\ pending = [k \in Keys |-> <<>>]
  /\ seen = [k \in Keys |-> 0]
  /\ ends = [k \in Keys |-> <<>>]
  /\ alerts = {}

Tick ==
  /\ now < MaxTime
  /\ now' = now + 1
  /\ UNCHANGED <<min_stddev, counts, window_start, rates, closed, pending, seen, ends, alerts>>

Larger(m, n) == IF m >= n THEN m ELSE n

\* Defect: a deviation of zero is guarded against by a score of zero.
DefectGuardZero(rate, count) ==
  /\ rate.var > 0 /\ count * Scale >= PrevMean(rate, count)
  /\ Square((count * Scale - PrevMean(rate, count)) * Den) >= Square(Threshold) * rate.var

\* (rate - mean) / max(stddev, min_stddev) >= zscore_threshold, without a root:
\* both sides in units of 1/Scale, times Den for each of the two fractions.
Anomalous(rate, count) ==
  LET above == count * Scale - PrevMean(rate, count) IN
  /\ above >= 0
  /\ Square(above * Den * Den)
       >= Square(Threshold) * Larger(rate.var * Square(Den), Square(min_stddev * Scale))

Spike(k, count) == count >= MinPackets /\ Anomalous(rates[k], count)

IntervalOver == now - window_start >= Interval

Arrive(k) ==
  /\ \A j \in Keys : rates[j].fed < MaxUpdates
  /\ seen[k] < MaxPackets
  /\ seen' = [seen EXCEPT ![k] = @ + 1]
  /\ UNCHANGED <<min_stddev, now>>

Count(k) ==
  /\ Arrive(k) /\ ~IntervalOver
  /\ counts' = [counts EXCEPT ![k] = @ + 1]
  /\ pending' = [pending EXCEPT ![k] = Append(@, now)]
  /\ UNCHANGED <<window_start, rates, closed, ends, alerts>>

\* Defect: the packet that closes the interval is not counted.
DefectLoseLast(k) == counts

CountsWith(k) == [counts EXCEPT ![k] = @ + 1]

Present(k) == {j \in Keys : CountsWith(k)[j] > 0}

UpdateAll(done, k) ==
  rates' = [j \in Keys |-> IF j \in done THEN Update(rates[j], CountsWith(k)[j]) ELSE rates[j]]

\* Without a floor the score of a flat or new baseline is a division by zero.
Unscorable(k, j) ==
  CountsWith(k)[j] >= MinPackets /\ min_stddev = 0 /\ rates[j].var = 0

\* process() and _flush() for the packet that closes the interval.
Flush(k) ==
  /\ Arrive(k) /\ IntervalOver
  /\ \A j \in Present(k) : ~Unscorable(k, j)
  /\ UpdateAll(Present(k), k)
  /\ closed' = [j \in Keys |-> IF j \in Present(k) THEN Append(closed[j], CountsWith(k)[j])
                                                 ELSE closed[j]]
  /\ ends' = [j \in Keys |-> IF j \in Present(k) THEN Append(ends[j], seen'[j]) ELSE ends[j]]
  /\ alerts' = alerts \cup
       {<<j, Len(closed[j]) + 1>> : j \in {i \in Present(k) : Spike(i, CountsWith(k)[i])}}
  /\ counts' = [j \in Keys |-> 0]
  /\ pending' = [j \in Keys |-> <<>>]
  /\ window_start' = now

\* The division by zero leaves _flush() when the keys before it, in any order,
\* and its own have been fed; the interval stays open.
FlushRaises(k) ==
  /\ Arrive(k) /\ IntervalOver
  /\ \E bad \in Present(k) :
       /\ Unscorable(k, bad)
       /\ \E before \in SUBSET {j \in Present(k) : ~Unscorable(k, j)} :
            UpdateAll(before \cup {bad}, k)
  /\ counts' = CountsWith(k)
  /\ pending' = [pending EXCEPT ![k] = Append(@, now)]
  /\ UNCHANGED <<window_start, closed, ends, alerts>>

Next == Tick \/ \E k \in Keys : Count(k) \/ Flush(k) \/ FlushRaises(k)

Spec == Init /\ [][Next]_vars

-----------------------------------------------------------------------------
(* Properties *)

\* Scoring never divides by zero.
HasFloor == min_stddev > 0

\* The number of the last packet of a key's n-th interval.
EndOf(k, n) == IF n = 0 THEN 0 ELSE ends[k][n]

\* The open interval holds only packets that came within its length.
OpenInTime(k) ==
  \A i \in 1 .. Len(pending[k]) :
    window_start <= pending[k][i] /\ pending[k][i] < window_start + Interval

\* Every packet is counted in exactly one interval, the one that is open or one
\* that was closed, the packet that closes an interval included: each interval
\* holds the packets from the end of the one before it to its own.  With a floor
\* nothing keeps an interval open past its end, so what is counted as one
\* interval came within its length, but for the packet that closes it, and the
\* key's baseline is fed it once.
IntervalsPartitionPackets ==
  \A k \in Keys :
    /\ \A n \in 1 .. Len(closed[k]) : closed[k][n] = EndOf(k, n) - EndOf(k, n - 1)
    /\ counts[k] = seen[k] - EndOf(k, Len(closed[k]))
    /\ counts[k] = Len(pending[k])
    /\ HasFloor => OpenInTime(k) /\ rates[k].fed = Len(closed[k])

\* With a floor the baseline stays between the smallest and the largest rate the
\* key has shown, and its deviation never exceeds their distance.
BaselineWithinHistory ==
  \A k \in Keys :
    HasFloor /\ closed[k] # <<>> =>
      \E low, high \in Range(closed[k]) :
        /\ rates[k].mean \in low * Scale .. high * Scale
        /\ rates[k].var <= Square((high - low) * Scale)

Before(k, n) == {closed[k][i] : i \in 1 .. n - 1}

\* The n-th interval has enough packets, and more than some interval before it.
Rises(k, n) ==
  /\ n \in 2 .. Len(closed[k]) /\ closed[k][n] >= MinPackets
  /\ \E b \in Before(k, n) : b < closed[k][n]

\* The key had kept one rate until the n-th interval exceeds it by the threshold.
JumpsFromFlat(k, n) ==
  /\ closed[k][n] >= MinPackets
  /\ \E b \in Before(k, n) :
       Before(k, n) = {b} /\ (closed[k][n] - b) * Den * Den >= Threshold * min_stddev

\* With a floor, a key that has always kept one rate and then exceeds it by the
\* threshold is reported, and nothing is reported of a key's first interval, of
\* one with too few packets, or of one that no earlier interval stayed under.
JumpsReported ==
  HasFloor =>
    /\ \A k \in Keys : \A n \in 2 .. Len(closed[k]) :
         JumpsFromFlat(k, n) => <<k, n>> \in alerts
    /\ \A a \in alerts : Rises(a[1], a[2])
=============================================================================
