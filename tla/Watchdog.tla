------------------------------ MODULE Watchdog ------------------------------
(***************************************************************************)
(* The watchdog process: it starts the other processes in order, waits for *)
(* the ready file of each, reaps those that die and starts them again,     *)
(* with a growing delay and, when a process dies too often, after a        *)
(* cooldown (gateway_watchdog/main.cpp).                                   *)
(*                                                                         *)
(* The watchdog is one thread; children live, write their ready file and   *)
(* die while it sleeps or polls, and a signal may ask it to stop at any    *)
(* time.  A dead child is a zombie, for which kill(pid, 0) still succeeds, *)
(* until waitpid() reaps it: the early return of wait_ready (105-108) is   *)
(* never taken, and only the ready file or the timeout ends the wait.      *)
(*                                                                         *)
(* Time passes while the watchdog sleeps, one unit for each turn of a      *)
(* polling loop.  Nothing depends on the date, so there is no clock:       *)
(* `ages' holds how long ago the last attempts were, `retry' how long a    *)
(* cooldown still lasts.  An attempt older than the window is forgotten,   *)
(* as should_restart() does not count it.                                  *)
(***************************************************************************)
EXTENDS Integers, Sequences, SequencesExt, FiniteSets

CONSTANTS BootOrder,    \* the slots in the order in which main() starts them
          MaxRestarts,  \* kMaxRestarts
          Window,       \* kWindowSec
          ReadyTimeout, \* kReadyTimeoutSec
          Cooldown,     \* kCooldownSec
          ForkMayFail   \* may fork() fail

Core == 0

Procs == ToSet(BootOrder)

ASSUME BootAssumption ==
  /\ BootOrder \in Seq(Nat) /\ IsInjective(BootOrder)
  /\ Procs = 0 .. Len(BootOrder) - 1
  /\ BootOrder # <<>> /\ Head(BootOrder) = Core
ASSUME TimeAssumption == {Window, ReadyTimeout, Cooldown} \subseteq Nat \ {0}
ASSUME CooldownAssumption == Window < Cooldown
ASSUME RestartAssumption == MaxRestarts \in Nat \ {0, 1}
ASSUME ForkAssumption == ForkMayFail \in BOOLEAN

VARIABLES
  os,       \* what the kernel knows of each program's process
  family,   \* the children that are not reaped, oldest first
  ready,    \* does the ready file exist
  slot,     \* g_children: no pid (0), a pid, or -1
  alive,    \* g_child_alive
  ages,     \* g_restart_times: ages of the attempts in the window
  retry,    \* g_retry_at: what is left of the cooldown, NoRetry for 0
  running,  \* g_running
  main,     \* where main() is
  forks     \* history: ages of the starts in the window

children == <<os, family, ready>>
table == <<slot, alive>>
timers == <<ages, retry, forks>>
dogVars == <<children, table, timers, running, main>>

NoRetry == -1

\* main() at `at'; for wait_ready() and start_child(), on behalf of slot `proc'
\* and called from `why'; `left' of its sleep; `then' the dependent whose core
\* comes first; `due' the slots whose cooldown is over in this turn.
At(place) == [at |-> place, proc |-> Core, why |-> "none", left |-> 0, then |-> Core, due |-> {}]

Starting(i, why) == [At("fork") EXCEPT !.proc = i, !.why = why]

DogInit ==
  /\ os = [i \in Procs |-> "none"]
  /\ family = <<>>
  /\ ready \in [Procs -> BOOLEAN]
  /\ slot = [i \in Procs |-> "none"]
  /\ alive = [i \in Procs |-> FALSE]
  /\ ages = [i \in Procs |-> <<>>]
  /\ retry = [i \in Procs |-> NoRetry]
  /\ running = TRUE
  /\ main = Starting(Core, "boot")
  /\ forks = [i \in Procs |-> <<>>]

\* One unit of time.  The oldest come first: those that fall out of the window
\* are a prefix.
Expired(list) ==
  CHOOSE n \in 0 .. Len(list) : \A k \in 1 .. Len(list) : list[k] < Window <=> k > n

Older(list) == [k \in 1 .. Len(list) - Expired(list) |-> list[Expired(list) + k] + 1]

Elapse ==
  /\ ages' = [i \in Procs |-> Older(ages[i])]
  /\ forks' = [i \in Procs |-> Older(forks[i])]
  /\ retry' = [i \in Procs |-> IF retry[i] > 0 THEN retry[i] - 1 ELSE retry[i]]

-----------------------------------------------------------------------------
(* The children *)

\* A child writes its ready file once, when it is set up.
Ready(i) ==
  /\ os[i] = "starting"
  /\ os' = [os EXCEPT ![i] = "up"]
  /\ ready' = [ready EXCEPT ![i] = TRUE]
  /\ UNCHANGED <<family, table, timers, running, main>>

\* A child crashes, exits, or obeys a signal.
Die(i) ==
  /\ os[i] \in {"starting", "up"}
  /\ os' = [os EXCEPT ![i] = "zombie"]
  /\ UNCHANGED <<family, ready, table, timers, running, main>>

-----------------------------------------------------------------------------
(* start_child() and wait_ready() *)

\* What comes after the start of main.proc, successful or not.
Onward ==
  CASE main.why = "boot" ->
         IF main.proc = Last(BootOrder) THEN At("top")
         ELSE Starting(BootOrder[1 + CHOOSE k \in DOMAIN BootOrder : BootOrder[k] = main.proc], "boot")
    [] main.why = "retry" -> [At("scan") EXCEPT !.due = main.due]
    [] main.why = "core" -> [At("backoff") EXCEPT !.proc = main.then]
    [] OTHER -> At("nap")

Fork ==
  /\ main.at = "fork"
  /\ os' = [os EXCEPT ![main.proc] = "starting"]
  /\ family' = Append(family, main.proc)
  /\ slot' = [slot EXCEPT ![main.proc] = "pid"]
  /\ alive' = [alive EXCEPT ![main.proc] = TRUE]
  /\ forks' = [forks EXCEPT ![main.proc] = Append(@, 0)]
  /\ main' = [main EXCEPT !.at = "unlink"]
  /\ UNCHANGED <<ready, ages, retry, running>>

\* Only the retry after a cooldown looks at the failure again, and the cooldown
\* it asks for is of no use: the slot is -1 and not 0.
ForkFails ==
  /\ main.at = "fork"
  /\ ForkMayFail
  /\ slot' = [slot EXCEPT ![main.proc] = "failed"]
  /\ retry' = IF main.why = "retry" THEN [retry EXCEPT ![main.proc] = Cooldown] ELSE retry
  /\ main' = IF main.why = "boot" THEN At("term") ELSE Onward
  /\ UNCHANGED <<children, alive, ages, forks, running>>

Unlink ==
  /\ main.at = "unlink"
  /\ ready' = [ready EXCEPT ![main.proc] = FALSE]
  /\ main' = [main EXCEPT !.at = "poll", !.left = ReadyTimeout]
  /\ UNCHANGED <<os, family, table, timers, running>>

PollReady ==
  /\ main.at = "poll" /\ main.left > 0
  /\ ready[main.proc]
  /\ main' = Onward
  /\ UNCHANGED <<children, table, timers, running>>

\* Variant with a bug: the wait reaps a child that died, so that the loop never
\* hears of it.
PollReaps ==
  /\ main.at = "poll" /\ main.left > 0
  /\ ~ready[main.proc]
  /\ IF os[main.proc] = "zombie"
     THEN /\ os' = [os EXCEPT ![main.proc] = "none"]
          /\ \E k \in DOMAIN family : family[k] = main.proc /\ family' = RemoveAt(family, k)
          /\ slot' = [slot EXCEPT ![main.proc] = "none"]
          /\ main' = Onward
          /\ UNCHANGED timers
     ELSE /\ main' = [main EXCEPT !.left = @ - 1]
          /\ Elapse
          /\ UNCHANGED <<os, family, slot>>
  /\ UNCHANGED <<ready, alive, running>>

PollAgain ==
  /\ main.at = "poll" /\ main.left > 0
  /\ ~ready[main.proc]
  /\ main' = [main EXCEPT !.left = @ - 1]
  /\ Elapse
  /\ UNCHANGED <<children, table, running>>

\* The file is not looked at again after the last sleep.
PollTimeout ==
  /\ main.at = "poll" /\ main.left = 0
  /\ os' = [os EXCEPT ![main.proc] = "zombie"]
  /\ main' = Onward
  /\ UNCHANGED <<family, ready, table, timers, running>>

-----------------------------------------------------------------------------
(* The loop of main() *)

\* Variant with a bug: the loop does not look at g_running.
TopRestless ==
  /\ main.at = "top"
  /\ main' = [At("scan") EXCEPT !.due = {i \in Procs : retry[i] = 0}]
  /\ UNCHANGED <<children, table, timers, running>>

Top ==
  /\ main.at = "top"
  /\ main' = IF running THEN [At("scan") EXCEPT !.due = {i \in Procs : retry[i] = 0}]
             ELSE At("term")
  /\ UNCHANGED <<children, table, timers, running>>

\* The slots whose cooldown was over when the turn began, one after the other.
Idle == {i \in main.due : slot[i] = "none"}

ScanRetry ==
  /\ main.at = "scan"
  /\ \E i \in Idle :
       /\ \A j \in Idle : i <= j
       /\ ages' = [ages EXCEPT ![i] = <<>>]
       /\ retry' = [retry EXCEPT ![i] = NoRetry]
       /\ main' = [Starting(i, "retry") EXCEPT !.due = {j \in main.due : j > i}]
  /\ UNCHANGED <<children, table, forks, running>>

ScanDone ==
  /\ main.at = "scan" /\ Idle = {}
  /\ main' = At("reap")
  /\ UNCHANGED <<children, table, timers, running>>

\* waitpid() gives the oldest child that is dead.
OldestDead(k) ==
  /\ os[family[k]] = "zombie"
  /\ \A j \in 1 .. k - 1 : os[family[j]] # "zombie"

Bury(k) ==
  /\ os' = [os EXCEPT ![family[k]] = "none"]
  /\ family' = RemoveAt(family, k)
  /\ alive' = [alive EXCEPT ![family[k]] = FALSE]

\* should_restart() notes the attempt in a ring of kMaxRestarts times and counts
\* those in the window; the ring never overwrites one that still counts.
Noted(i) == Append(ages[i], 0)

Reap(k) ==
  /\ main.at = "reap"
  /\ OldestDead(k)
  /\ Bury(k)
  /\ ages' = [ages EXCEPT ![family[k]] = Noted(family[k])]

CoreKnownDead == ~alive[Core] /\ slot[Core] = "pid"

\* Variant with a bug: the core is started again for each process that needs it.
ReapRestartsCore ==
  /\ \E k \in DOMAIN family : LET i == family[k] IN
       /\ Reap(k)
       /\ Len(Noted(i)) < MaxRestarts
       /\ main' = IF i # Core
                  THEN [Starting(Core, "core") EXCEPT !.then = i]
                  ELSE [At("backoff") EXCEPT !.proc = i]
  /\ UNCHANGED <<ready, slot, retry, forks, running>>

\* Variant with a bug: one attempt too many.
ReapOneMore ==
  /\ \E k \in DOMAIN family : LET i == family[k] IN
       /\ Reap(k)
       /\ Len(Noted(i)) <= MaxRestarts
       /\ main' = [At("backoff") EXCEPT !.proc = i]
  /\ UNCHANGED <<ready, slot, retry, forks, running>>

ReapRestart ==
  /\ \E k \in DOMAIN family : LET i == family[k] IN
       /\ Reap(k)
       /\ Len(Noted(i)) < MaxRestarts
       /\ main' = IF i # Core /\ CoreKnownDead
                  THEN [Starting(Core, "core") EXCEPT !.then = i]
                  ELSE [At("backoff") EXCEPT !.proc = i]
  /\ UNCHANGED <<ready, slot, retry, forks, running>>

ReapCooldown ==
  /\ \E k \in DOMAIN family : LET i == family[k] IN
       /\ Reap(k)
       /\ Len(Noted(i)) >= MaxRestarts
       /\ retry' = [retry EXCEPT ![i] = Cooldown]
       /\ slot' = [slot EXCEPT ![i] = "none"]
  /\ main' = At("nap")
  /\ UNCHANGED <<ready, forks, running>>

ReapNone ==
  /\ main.at = "reap" /\ \A k \in DOMAIN family : os[family[k]] # "zombie"
  /\ main' = At("nap")
  /\ UNCHANGED <<children, table, timers, running>>

\* 1, 2, 4, 8, 16 seconds for the first, second ... attempt in the window.
Delays == <<1, 2, 4, 8, 16>>

Delay(count) ==
  CASE count = 0 -> 1
    [] count \in 1 .. 5 -> Delays[count]
    [] OTHER -> Delays[5]

Backoff ==
  /\ main.at = "backoff"
  /\ main' = [main EXCEPT !.at = "sleep", !.left = Delay(Len(ages[main.proc]))]
  /\ UNCHANGED <<children, table, timers, running>>

Sleep ==
  /\ main.at = "sleep" /\ main.left > 0
  /\ main' = [main EXCEPT !.left = @ - 1]
  /\ Elapse
  /\ UNCHANGED <<children, table, running>>

Wake ==
  /\ main.at = "sleep" /\ main.left = 0
  /\ main' = Starting(main.proc, "restart")
  /\ UNCHANGED <<children, table, timers, running>>

Nap ==
  /\ main.at = "nap"
  /\ main' = At("top")
  /\ Elapse
  /\ UNCHANGED <<children, table, running>>

\* SIGTERM or SIGINT: the handler passes it on to the children, which die when
\* they like, and a sleep() ends early.
Signal ==
  /\ running
  /\ main.at \notin {"term", "exited"}
  /\ running' = FALSE
  /\ main' = IF main.at = "sleep" THEN [main EXCEPT !.left = 0] ELSE main
  /\ UNCHANGED <<children, table, timers>>

\* kill_and_reap_all_children(): each child that does not end in time is killed.
TermReap ==
  /\ main.at = "term"
  /\ \E k \in DOMAIN family :
       /\ slot[family[k]] = "pid"
       /\ \A j \in 0 .. family[k] - 1 : slot[j] = "pid" => os[j] = "none"
       /\ Bury(k)
  /\ UNCHANGED <<ready, slot, timers, running, main>>

TermDone ==
  /\ main.at = "term"
  /\ \A i \in Procs : slot[i] = "pid" => os[i] = "none"
  /\ main' = At("exited")
  /\ UNCHANGED <<children, table, timers, running>>

Main ==
  \/ Fork \/ ForkFails \/ Unlink \/ PollReady \/ PollAgain \/ PollTimeout
  \/ Top \/ ScanRetry \/ ScanDone
  \/ ReapRestart \/ ReapCooldown \/ ReapNone
  \/ Backoff \/ Sleep \/ Wake \/ Nap \/ TermReap \/ TermDone

DogNext == Main \/ Signal \/ \E i \in Procs : Ready(i) \/ Die(i)

DogSpec == DogInit /\ [][DogNext]_dogVars

\* The watchdog goes on, whatever its children do.
DogFairSpec == DogSpec /\ WF_dogVars(Main)

-----------------------------------------------------------------------------
(* Properties *)

Places == {"fork", "unlink", "poll", "top", "scan", "reap", "backoff", "sleep", "nap",
           "term", "exited"}

DogTypeOK ==
  /\ os \in [Procs -> {"none", "starting", "up", "zombie"}]
  /\ family \in Seq(Procs)
  /\ ready \in [Procs -> BOOLEAN]
  /\ slot \in [Procs -> {"none", "pid", "failed"}]
  /\ alive \in [Procs -> BOOLEAN]
  /\ ages \in [Procs -> Seq(0 .. Window)]
  /\ \A i \in Procs : Len(ages[i]) <= MaxRestarts
  /\ forks \in [Procs -> Seq(0 .. Window)]
  /\ retry \in [Procs -> 0 .. Cooldown \cup {NoRetry}]
  /\ running \in BOOLEAN
  /\ main \in [at : Places, proc : Procs, why : {"none", "boot", "retry", "core", "restart"},
               left : 0 .. ReadyTimeout + 16, then : Procs, due : SUBSET Procs]

\* g_children holds the children that are not reaped and nothing else, so that no
\* program runs twice, no child is orphaned and no signal goes to a stranger with
\* a reused pid (43-51, 121, 150-170).  The exception is the slot whose child
\* was reaped and is about to be started again (226-252).
TableIsExact ==
  /\ main.at \notin {"term", "exited"} =>
       \A i \in Procs :
         /\ os[i] # "none" => slot[i] = "pid"
         /\ slot[i] = "pid" /\ os[i] = "none" =>
              main.proc = i /\ main.at \in {"backoff", "sleep", "fork"}
  /\ main.at = "fork" => os[main.proc] = "none"
  /\ IsInjective(family)

\* No program is started more than kMaxRestarts times within the window: the
\* cooldown, the reset after it and the growing delay together see to that
\* (66-90, 205-218, 235-259).
RestartLimit == \A i \in Procs : Len(forks[i]) <= MaxRestarts

\* A child that died is started again, at once or after a cooldown, unless its
\* fork() failed or the watchdog ends: wait_ready() must not take its death
\* away from the loop (102-104, 183, 257), and no other child's keeps it waiting.
EventuallyStarted ==
  \A i \in Procs :
    (os[i] = "zombie") ~>
      (os[i] = "starting" \/ slot[i] = "failed" \/ ~running \/ main.at = "exited")

\* Asked to stop, wherever it is in its loop or its start, the watchdog ends and
\* leaves no child behind, not even a zombie (270-272).
ShutdownCompletes ==
  (~running) ~> (main.at = "exited" /\ \A i \in Procs : os[i] = "none")
=============================================================================
