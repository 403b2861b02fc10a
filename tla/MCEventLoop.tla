----------------------------- MODULE MCEventLoop -----------------------------
(* An engine and two monitors, one after the other, in any order with it.     *)
(* Three connections are what it takes for a stale event to find a live peer: *)
(* a monitor that died is closed by a write while its own event is still in   *)
(* the batch, and an event of the batch between the two gives its number to   *)
(* the third.                                                                 *)
EXTENDS EventLoop, TLC

CONSTANTS e1, m1, m2

\* The messages of the engine are those that reach a dead monitor.
SendsOf == [c \in Conns |-> CASE c = e1 -> 2 [] c = m1 -> 1 [] c = m2 -> 0]

=============================================================================
