---------------------------- MODULE MCEngineRun ----------------------------
(* Small instances of EngineRun for TLC.                                   *)
EXTENDS EngineRun

(* Limits that Run has to correct, and every order of the two.             *)
MCStepConfigs == 0 .. 3
MCRetryConfigs == -1 .. 2
=============================================================================
