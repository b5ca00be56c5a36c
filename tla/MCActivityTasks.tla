-------------------------- MODULE MCActivityTasks --------------------------
(***************************************************************************)
(* Instances of ActivityTasks for TLC.  Tasks share nothing but counters,  *)
(* so one task with many heartbeats and cancels is the instance to check.  *)
(***************************************************************************)
EXTENDS ActivityTasks
=============================================================================
