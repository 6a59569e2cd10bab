---------------------------- MODULE MCTrialLedger ----------------------------
(* TrialLedger for TLC: two cases, controls files that differ in a required *)
(* control ("cache") and, for some, in one that is not ("driver").          *)
EXTENDS TrialLedger

MCCases == <<"tool-call", "json">>

MCControls == {"cache", "quant", "driver"}

settings(cache, driver, telemetry) ==
  [controls |-> [cache |-> cache, quant |-> "q4", driver |-> driver], telemetry |-> telemetry]

\* One controls file per arm.
MCFixed == [A |-> {settings("fp16", "v1", FALSE)}, B |-> {settings("q8", "v1", FALSE)}]

\* The baseline's file may be edited, or telemetry switched on, between runs.
MCEdited == [A |-> {settings("fp16", "v1", FALSE), settings("q8", "v1", FALSE),
                    settings("fp16", "v1", TRUE)},
             B |-> {settings("q8", "v1", FALSE)}]

\* The arms differ in a control that REQUIRED_CONTROL does not name.
MCDrivers == [A |-> {settings("fp16", "v1", FALSE)}, B |-> {settings("q8", "v2", FALSE)}]
===============================================================================
