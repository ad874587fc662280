--------------------------- MODULE MCSchedulerTime ---------------------------
(* The instance of Scheduler on which TLC checks the time properties; it   *)
(* satisfies the hypothesis of the theorems of SchedulerTime.              *)
EXTENDS MCScheduler, SchedulerTime

ASSUME RegimeAssumption == Regime
=============================================================================
