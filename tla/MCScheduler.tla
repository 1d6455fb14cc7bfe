----------------------------- MODULE MCScheduler -----------------------------
(***************************************************************************)
(* Instances of Scheduler: one schedule that recurs, one that does not.    *)
(***************************************************************************)
EXTENDS Scheduler, TLC

CONSTANTS once, again

EverySecondTick == again :> 2
=============================================================================
