--------------------------- MODULE MCCoreCommands ---------------------------
(* Three identifiers over a memory of two, so that one is forgotten and comes *)
(* back, and a call of each kind: thresholds one and both, in quotation marks *)
(* or not, out of range or no number, and an update.                          *)
EXTENDS CoreCommands

CONSTANTS n1, n2, id1, id2, id3, address

Args(t, h) == [k \in Keys |-> IF k = "temp_max" THEN t ELSE h]
Call(method, id, args, quoted) ==
  [method |-> method, id |-> id, args |-> args, quoted |-> quoted, url |-> address]
Nothing == Args(NoValue, NoValue)

SetCalls ==
  {Call("set_alarm_threshold", id1, Args(n1, n2), TRUE),
   Call("set_alarm_threshold", NoId, Args(n2, Outside), TRUE),
   Call("set_alarm_threshold", NoId, Args(NoValue, n2), TRUE)}

ConfigCalls ==
  {Call("config_update", id2, Args(n1, n1), FALSE),
   Call("config_update", NoId, Args(Word, n2), TRUE),
   Call("config_update", NoId, Args(Outside, NoValue), FALSE)}

OtherCalls ==
  {Call("get_temp", id3, Nothing, FALSE), Call("ota_update_model", NoId, Nothing, TRUE)}

\* 方案设计.md:494
DocumentedCall == Call("set_alarm_threshold", NoId, Args(n2, NoValue), FALSE)

MCCalls == SetCalls \cup ConfigCalls \cup OtherCalls
MCServedCalls == OtherCalls \cup {DocumentedCall}
=============================================================================
