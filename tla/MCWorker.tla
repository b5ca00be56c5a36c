-------------------------------- MODULE MCWorker --------------------------------
(* Instances of Worker for TLC: w1 runs activities on a connection of its own and  *)
(* has no force time, w2 runs workflows and activities on the application's        *)
(* connection and has a force time.                                                *)
EXTENDS Worker

CONSTANTS w1, w2

TwoWorkers == {w1, w2}
TwoRuntimes == 1..2
WorkflowsAndActivities == {"workflow", "activity"}
RegisteredKinds(w) == IF w = w1 THEN {"activity"} ELSE WorkflowsAndActivities
JustW1 == {w1}
JustW2 == {w2}
=====================================================================================
