----------------------------- MODULE MCWorkflowCache -----------------------------
(* An instance of WorkflowCache for TLC: two runs, two threads, one of which may   *)
(* die, and enough activations for a run to be created, evicted and created anew.  *)
EXTENDS WorkflowCache

CONSTANTS r1, r2

TwoRuns == {r1, r2}
TwoThreads == 1..2
=====================================================================================
