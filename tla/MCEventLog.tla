---------------------------- MODULE MCEventLog ----------------------------
(* EventLog for TLC: two emitters, small buffer, mutants of the code.      *)
EXTENDS EventLog
=============================================================================
