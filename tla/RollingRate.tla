------------------------------ MODULE RollingRate ------------------------------
(***************************************************************************)
(* state.py, RollingRate: the exponentially weighted mean and variance of    *)
(* the values fed for one key.  The code's floats are exact fractions here:  *)
(* a mean is counted in units of 1/Scale, a variance in units of 1/Scale^2,  *)
(* and Scale is large enough for the number of updates made.                 *)
(***************************************************************************)
EXTENDS Integers

CONSTANTS
  AlphaNum, AlphaDen,  \* alpha
  Scale                \* AlphaDen to the power of the number of updates

ASSUME RateAssumption ==
  /\ AlphaNum \in Nat /\ AlphaDen \in Nat \ {0} /\ AlphaNum <= AlphaDen
  /\ Scale \in Nat \ {0}

\* A key not fed yet: _mean.get(key, value) and _var.get(key, 0.0).
Fresh == [fed |-> 0, mean |-> 0, var |-> 0]

PrevMean(rate, value) == IF rate.fed > 0 THEN rate.mean ELSE value * Scale

Square(x) == x * x

\* Defect: the weight falls on the old mean instead of the new value.
DefectGrow(rate, value) ==
  LET prev == PrevMean(rate, value) IN
  [fed |-> rate.fed + 1, mean |-> prev + (value * Scale - prev) * AlphaDen, var |-> rate.var]

Update(rate, value) ==
  LET prev == PrevMean(rate, value)
      diff == value * Scale - prev
  IN [fed  |-> rate.fed + 1,
      mean |-> prev + (AlphaNum * diff) \div AlphaDen,
      var  |-> ((AlphaDen - AlphaNum) * (AlphaDen * rate.var + AlphaNum * Square(diff)))
                 \div Square(AlphaDen)]
=============================================================================
