----------------------------- MODULE MCEventLog -----------------------------
(* An instance of EventLog: three writers of two records each, two of      *)
(* whose appends may be cut short.  It stops when every record is written, *)
(* which is no deadlock.                                                   *)
EXTENDS EventLog

=============================================================================
