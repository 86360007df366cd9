---------------------------- MODULE MCWorkerRun ----------------------------
(* An instance of WorkerRun for TLC: a gate of two steps.                  *)
EXTENDS WorkerRun

CONSTANTS build, test
GateSteps == {build, test}
============================================================================
