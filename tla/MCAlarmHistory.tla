--------------------------- MODULE MCAlarmHistory ---------------------------
(* Two windows over an answer and a table of two rows, so that three alarms   *)
(* cut an answer short and push rows off the table.                           *)
EXTENDS AlarmHistory
=============================================================================
