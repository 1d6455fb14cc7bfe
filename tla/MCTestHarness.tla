---------------------------- MODULE MCTestHarness ----------------------------
(***************************************************************************)
(* Instances of TestHarness.  Tasks meet only in the bounds they share, so *)
(* one task with deeper bounds shows more than two with shallow ones.      *)
(***************************************************************************)
EXTENDS TestHarness

CONSTANTS t1, t2
=============================================================================
