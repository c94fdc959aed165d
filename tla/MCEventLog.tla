------------------------------ MODULE MCEventLog ------------------------------
(* EventLog for TLC.                                                         *)
EXTENDS EventLog
=============================================================================
