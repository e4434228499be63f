------------------------------ MODULE ExpiringSet ------------------------------
(***************************************************************************)
(* state.py, ExpiringSet: for one key, a deque of time-stamped values from   *)
(* which the entries older than the window are evicted on access, from the   *)
(* front and only as far as the first one that is not too old.               *)
(***************************************************************************)
EXTENDS Naturals, Sequences

CONSTANT Window   \* window_seconds

ASSUME WindowAssumption == Window \in Nat

\* dq[0][0] < now - window_seconds, without a negative number.
Expired(entry, now) == entry.time + Window < now

\* Defect: only one entry is evicted at a time.
DefectEvictOne(dq, now) == IF dq # <<>> /\ Expired(Head(dq), now) THEN Tail(dq) ELSE dq

\* The popleft() loop: the first entry that stays, or none.
FirstKept(dq, now) ==
  CHOOSE i \in 1 .. Len(dq) + 1 :
    /\ \A j \in 1 .. i - 1 : Expired(dq[j], now)
    /\ i <= Len(dq) => ~Expired(dq[i], now)

Evict(dq, now) == SubSeq(dq, FirstKept(dq, now), Len(dq))

Add(dq, now, value) == Evict(Append(dq, [time |-> now, value |-> value]), now)

DistinctValues(dq, now) ==
  LET kept == Evict(dq, now) IN {kept[i].value : i \in 1 .. Len(kept)}
=============================================================================
