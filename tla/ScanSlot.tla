------------------------------- MODULE ScanSlot -------------------------------
(***************************************************************************)
(* What a ScanEngine promises its callers (the class comment of             *)
(* sentrynet/engine.py): one slot that holds at most one scan, a status     *)
(* that says "running" exactly while the slot is taken, and a stop request  *)
(* after which the scan ends.                                               *)
(***************************************************************************)
EXTENDS Naturals

CONSTANT MaxScans   \* bound: the number of scans ever begun

VARIABLES
  begun,     \* number of scans begun so far; the latest one's name
  workers,   \* the scans whose thread is alive
  running,   \* what the status tells a reader
  stopping   \* a stop has been requested

slotVars == <<begun, workers, running, stopping>>

Init ==
  /\ begun = 0
  /\ workers = {}
  /\ running = FALSE
  /\ stopping = FALSE

\* A start withdraws earlier stop requests; it may still fail afterwards.
Withdraw ==
  /\ workers = {}
  /\ stopping' = FALSE
  /\ UNCHANGED <<begun, workers, running>>

Begin ==
  /\ workers = {} /\ ~stopping
  /\ begun < MaxScans
  /\ begun' = begun + 1
  /\ workers' = {begun'}
  /\ running' = TRUE
  /\ UNCHANGED stopping

RequestStop ==
  /\ stopping' = TRUE
  /\ UNCHANGED <<begun, workers, running>>

End ==
  /\ workers # {}
  /\ workers' = {}
  /\ running' = FALSE
  /\ UNCHANGED <<begun, stopping>>

Next == Withdraw \/ Begin \/ RequestStop \/ End

Safety == Init /\ [][Next]_slotVars

\* A scan may end by itself; one that was told to stop must end.
Spec == Safety /\ WF_slotVars(stopping /\ End)
=============================================================================
