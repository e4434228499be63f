------------------------------ MODULE MlAnomaly ------------------------------
(***************************************************************************)
(* detectors/ml_anomaly.py: when the detector trains its model and when it   *)
(* scores with it.  Packets are counted, feature vectors and the Isolation   *)
(* Forest left open; fit() may raise, and so does predict() of a model that   *)
(* was never fitted.  Packets without an IP layer change nothing.            *)
(***************************************************************************)
EXTENDS Naturals

CONSTANTS
  BufferSize, RetrainEvery, Warmup,   \* the constructor's arguments
  FitMayRaise,                        \* whether fit() may raise
  MaxMlPackets                          \* bound

ASSUME MlAssumption ==
  /\ BufferSize \in Nat \ {0} /\ RetrainEvery \in Nat /\ Warmup \in Nat
  /\ FitMayRaise \in BOOLEAN /\ MaxMlPackets \in Nat

VARIABLES
  packets,        \* IP packets so far
  buffered,       \* len(self._buffer)
  since_retrain,  \* self._since_retrain
  model,          \* self._model: "none", "unfitted" or "fitted"
  trained_at,     \* history: the packet at which the last fit() succeeded
  trained_on,     \* history: the number of vectors it was given
  failed_at,      \* history: the packet at which fit() last raised
  flagged         \* history: packets reported, with the age of the model

mlVars == <<packets, buffered, since_retrain, model, trained_at, trained_on, failed_at, flagged>>

MlInit ==
  /\ packets = 0 /\ buffered = 0 /\ since_retrain = 0 /\ model = "none"
  /\ trained_at = 0 /\ trained_on = 0 /\ failed_at = 0 /\ flagged = {}

\* The rolling buffer: deque(maxlen=buffer_size).
Take ==
  /\ packets < MaxMlPackets
  /\ packets' = packets + 1
  /\ buffered' = IF buffered < BufferSize THEN buffered + 1 ELSE buffered

Collect ==
  /\ Take /\ buffered' < Warmup
  /\ since_retrain' = since_retrain + 1
  /\ UNCHANGED <<model, trained_at, trained_on, failed_at, flagged>>

\* Defects: the counter is compared before this packet, or never.
DefectDueLate == model = "none" \/ since_retrain >= RetrainEvery
DefectDueOnce == model = "none"

Due == model = "none" \/ since_retrain + 1 >= RetrainEvery

Train ==
  /\ Take /\ buffered' >= Warmup /\ Due
  /\ model' = "fitted" /\ since_retrain' = 0
  /\ trained_at' = packets' /\ trained_on' = buffered'
  /\ UNCHANGED <<failed_at, flagged>>

\* The new model is in place before fit() raises; the counter is not reset.
TrainRaises ==
  /\ FitMayRaise
  /\ Take /\ buffered' >= Warmup /\ Due
  /\ model' = "unfitted" /\ since_retrain' = since_retrain + 1
  /\ failed_at' = packets'
  /\ UNCHANGED <<trained_at, trained_on, flagged>>

Score ==
  /\ Take /\ buffered' >= Warmup /\ ~Due /\ model = "fitted"
  /\ since_retrain' = since_retrain + 1
  /\ \/ UNCHANGED flagged
     \/ flagged' = flagged \cup {[packet |-> packets', age |-> packets' - trained_at,
                                  on |-> trained_on]}
  /\ UNCHANGED <<model, trained_at, trained_on, failed_at>>

ScoreRaises ==
  /\ Take /\ buffered' >= Warmup /\ ~Due /\ model = "unfitted"
  /\ since_retrain' = since_retrain + 1
  /\ UNCHANGED <<model, trained_at, trained_on, failed_at, flagged>>

MlNext == Collect \/ Train \/ TrainRaises \/ Score \/ ScoreRaises

MlSpec == MlInit /\ [][MlNext]_mlVars

-----------------------------------------------------------------------------
(* Properties *)

\* No packet is reported on the word of a model that is older than retrain_every
\* packets or was fitted to fewer vectors than the warm-up asks for.
FlaggedByFreshModel ==
  \A f \in flagged : f.age \in 1 .. RetrainEvery - 1 /\ f.on >= Warmup

\* Once the warm-up is over there is a fitted model, but for the time between a
\* fit() that raised and the next attempt, which comes before retrain_every
\* packets have passed.
ReadyAfterWarmup ==
  packets >= Warmup /\ packets > 0 /\ Warmup <= BufferSize =>
    \/ model = "fitted"
    \/ model = "unfitted" /\ (packets - failed_at < RetrainEvery \/ packets = failed_at)
=============================================================================
