----------------------------- MODULE MCWatchdog -----------------------------
(* The core and one process that needs it.  The window is long enough for a   *)
(* process that dies at once to use up its restarts, the cooldown outlasts    *)
(* the window.                                                                *)
EXTENDS Watchdog

Boot == <<0, 1>>

=============================================================================
