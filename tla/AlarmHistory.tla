---------------------------- MODULE AlarmHistory ----------------------------
(***************************************************************************)
(* How alarms reach the screen: every monitor window asks gateway_core for *)
(* the rows of alarm_log after the last one it knows, and gateway_core     *)
(* sends what it finds to all of them (gateway_core/main.cpp and           *)
(* EventLoop.cpp; gateway_monitor/MonitorWindow.cpp and                    *)
(* AlarmTableWidget.cpp).                                                  *)
(*                                                                         *)
(* A monitor is one life of the process.  Rows are numbered by alarm_log,  *)
(* which DbWriter fills in order and in transactions and which outlives    *)
(* gateway_core.  Sockets keep messages whole and in order; the snapshots  *)
(* of the camera, which share the buffer towards a monitor, are left out:  *)
(* the buffer is small enough to be full without them.                     *)
(***************************************************************************)
EXTENDS Integers, Sequences, SequencesExt

CONSTANTS Monitors,   \* processes of gateway_monitor
          Limit,      \* rows in one answer: LIMIT 500
          TableRows,  \* rows the table keeps: 500
          Room,       \* answers that fit the buffer of a socket
          MaxAsked,   \* TLC bound: questions of a monitor that wait
          MaxAlarms,  \* TLC bound: alarms
          MaxCommit   \* TLC bound: alarms in one transaction

ASSUME RowsAssumption == Limit \in Nat \ {0} /\ TableRows \in Nat /\ Limit <= TableRows
ASSUME RoomAssumption == Room \in Nat \ {0}
ASSUME BoundsAssumption ==
  /\ {MaxAlarms, MaxCommit} \subseteq Nat
  /\ MaxAsked \in Nat \ {0}

VARIABLES
  alarms,   \* rows of alarm_log that are committed
  core,     \* is gateway_core running
  conn,     \* of a monitor: "new", "up", "over"
  asked,    \* questions gateway_core has not read
  inbox,    \* answers a monitor has not read
  last,     \* last_alarm_id_
  table,    \* ids in the table, from the top
  shown,    \* history: ids that a monitor has put on its table
  mayMiss,  \* history: monitors that read an answer to another one's question or one
            \* with more rows than fit
  mayRepeat \* history: monitors that read an answer to another one's question or
            \* asked while a question of theirs was open

window == <<last, table>>
history == <<shown, mayMiss, mayRepeat>>
vars == <<alarms, core, conn, asked, inbox, window, history>>

Init ==
  /\ alarms = 0
  /\ core = TRUE
  /\ conn = [m \in Monitors |-> "new"]
  /\ asked = [m \in Monitors |-> <<>>]
  /\ inbox = [m \in Monitors |-> <<>>]
  /\ last = [m \in Monitors |-> 0]
  /\ table = [m \in Monitors |-> <<>>]
  /\ shown = [m \in Monitors |-> {}]
  /\ mayMiss = {} /\ mayRepeat = {}

Up == {m \in Monitors : conn[m] = "up"}

-----------------------------------------------------------------------------
(* gateway_core *)

\* DbWriter::flush_batch()
Commit ==
  /\ core
  /\ \E k \in 1 .. MaxCommit : alarms + k <= MaxAlarms /\ alarms' = alarms + k
  /\ UNCHANGED <<core, conn, asked, inbox, window, history>>

\* The newest of so many rows found, from the newest down.
Newest(found) == [ids |-> [i \in 1 .. (IF found < Limit THEN found ELSE Limit) |-> alarms + 1 - i],
                  cut |-> found > Limit]

\* Variant with a bug: the row that is known once more.
RowsFrom(after) == Newest(IF after = 0 THEN alarms ELSE alarms - after + 1)

\* Variant with a bug: a row too far.
RowsTooFar(after) == Newest(alarms - after - 1)

\* WHERE id > ? ORDER BY id DESC LIMIT 500
Rows(after) == Newest(alarms - after)

HasRoom(m) == m \in Up /\ Len(inbox[m]) < Room

\* send_to_monitor() writes to all and drops what does not fit.
Answer(m) ==
  /\ core
  /\ asked[m] # <<>>
  /\ LET rows == Rows(Head(asked[m]))
         answer == [to |-> m, ids |-> rows.ids, cut |-> rows.cut]
     IN inbox' = [u \in Monitors |-> IF HasRoom(u) THEN Append(inbox[u], answer) ELSE inbox[u]]
  /\ asked' = [asked EXCEPT ![m] = Tail(@)]
  /\ UNCHANGED <<alarms, core, conn, window, history>>

\* What a window does when its connection is over: nothing, for it makes no other
\* attempt to connect.  It shows what it showed, and the model forgets it.
Over(gone) ==
  /\ conn' = [m \in Monitors |-> IF m \in gone THEN "over" ELSE conn[m]]
  /\ inbox' = [m \in Monitors |-> IF m \in gone THEN <<>> ELSE inbox[m]]
  /\ last' = [m \in Monitors |-> IF m \in gone THEN 0 ELSE last[m]]
  /\ table' = [m \in Monitors |-> IF m \in gone THEN <<>> ELSE table[m]]
  /\ shown' = [m \in Monitors |-> IF m \in gone THEN {} ELSE shown[m]]
  /\ mayMiss' = mayMiss \ gone
  /\ mayRepeat' = mayRepeat \ gone

CoreDies ==
  /\ core
  /\ core' = FALSE
  /\ Over(Up)
  /\ asked' = [m \in Monitors |-> <<>>]
  /\ UNCHANGED alarms

CoreStarts ==
  /\ ~core
  /\ core' = TRUE
  /\ UNCHANGED <<alarms, conn, asked, inbox, window, history>>

-----------------------------------------------------------------------------
(* The monitor: one attempt to connect, in the constructor of its window *)

Start(m) ==
  /\ conn[m] = "new"
  /\ conn' = [conn EXCEPT ![m] = IF core THEN "up" ELSE "over"]
  /\ UNCHANGED <<alarms, core, asked, inbox, window, history>>

\* What it has asked is answered all the same, to the others.
Exit(m) ==
  /\ conn[m] = "up"
  /\ Over({m})
  /\ UNCHANGED <<alarms, core, asked>>

OpenQuestion(m) == asked[m] # <<>> \/ \E i \in DOMAIN inbox[m] : inbox[m][i].to = m

\* Variant with a bug: the rows of the table are counted.
SendRowCount(m) ==
  /\ conn[m] = "up"
  /\ Len(asked[m]) < MaxAsked
  /\ asked' = [asked EXCEPT ![m] = Append(@, Len(table[m]))]
  /\ mayRepeat' = IF OpenQuestion(m) THEN mayRepeat \cup {m} ELSE mayRepeat
  /\ UNCHANGED <<alarms, core, conn, inbox, window, shown, mayMiss>>

\* The timer, every two seconds, whether or not an answer has come.
SendAlarmQuery(m) ==
  /\ conn[m] = "up"
  /\ Len(asked[m]) < MaxAsked
  /\ asked' = [asked EXCEPT ![m] = Append(@, last[m])]
  /\ mayRepeat' = IF OpenQuestion(m) THEN mayRepeat \cup {m} ELSE mayRepeat
  /\ UNCHANGED <<alarms, core, conn, inbox, window, shown, mayMiss>>

\* Variant with a bug: rows are removed from the top.
TrimTop(rows) == IF Len(rows) <= TableRows THEN rows ELSE SubSeq(rows, Len(rows) - TableRows + 1, Len(rows))

\* removeRow() from the bottom
Trim(rows) == IF Len(rows) <= TableRows THEN rows ELSE SubSeq(rows, 1, TableRows)

\* appendAlarms(): above all others, and the rows of an answer, which come from the
\* newest down, in the order in which they turn the oldest up.
AppendAlarms(rows, ids) == Trim(Reverse(ids) \o rows)

NewLast(known, ids) == IF ids[1] > known THEN ids[1] ELSE known

\* onUdsData() and handleAlarmResponse()
ReadAnswer(m) ==
  /\ conn[m] = "up"
  /\ inbox[m] # <<>>
  /\ inbox' = [inbox EXCEPT ![m] = Tail(@)]
  /\ LET answer == Head(inbox[m])
         ids == answer.ids
     IN IF ids = <<>>
        THEN UNCHANGED <<window, history>>
        ELSE /\ last' = [last EXCEPT ![m] = NewLast(@, ids)]
             /\ table' = [table EXCEPT ![m] = AppendAlarms(@, ids)]
             /\ shown' = [shown EXCEPT ![m] = @ \cup ToSet(ids)]
             /\ mayMiss' = IF answer.to # m \/ answer.cut THEN mayMiss \cup {m} ELSE mayMiss
             /\ mayRepeat' = IF answer.to # m THEN mayRepeat \cup {m} ELSE mayRepeat
  /\ UNCHANGED <<alarms, core, conn, asked>>

Next ==
  \/ Commit \/ CoreDies \/ CoreStarts
  \/ \E m \in Monitors :
       Answer(m) \/ Start(m) \/ Exit(m) \/ SendAlarmQuery(m) \/ ReadAnswer(m)

Spec == Init /\ [][Next]_vars

\* A socket that loses what finds its buffer full is a link with fair loss: of the
\* answers that are sent again and again some arrive.
FairLoss(m) == []<><<Answer(m)>>_vars => []<><<HasRoom(m) /\ Answer(m)>>_vars

\* The timer of every window fires, its event loop reads what there is, and
\* gateway_core answers.
FairSpec ==
  /\ Spec
  /\ \A m \in Monitors : /\ WF_vars(SendAlarmQuery(m))
                         /\ WF_vars(ReadAnswer(m))
                         /\ WF_vars(Answer(m))
                         /\ FairLoss(m)

-----------------------------------------------------------------------------
(* Properties *)

\* A monitor that read only answers to its own questions, none with more rows than
\* fit, has shown every alarm up to the last one it knows, whatever answers were
\* lost, came late or were asked for twice (MonitorWindow.cpp 256-314, main.cpp
\* 484-537).
OwnAnswersLeaveNoGap ==
  \A m \in Monitors \ mayMiss : shown[m] = 1 .. last[m]

\* An alarm is on a table twice only if the monitor read an answer to another
\* monitor's question or asked again while a question of its own was open.
DuplicatesHaveCause == \A m \in Monitors \ mayRepeat : IsInjective(table[m])

\* The newest alarm that a monitor knows is on its table, however many rows late,
\* repeated or foreign answers have put on it (AlarmTableWidget.cpp 101-155).
LatestIsShown == \A m \in Monitors : last[m] > 0 => last[m] \in ToSet(table[m])

\* A monitor whose connection lasts catches up with alarm_log again and again.
AlarmsArrive == \A m \in Monitors : []<>(last[m] = alarms \/ conn[m] # "up")

\* Everything is of its kind.
TypeOK ==
  /\ alarms \in 0 .. MaxAlarms
  /\ \A m \in Monitors :
       /\ conn[m] \in {"new", "up", "over"}
       /\ last[m] \in 0 .. alarms
       /\ Len(asked[m]) <= MaxAsked /\ Len(inbox[m]) <= Room /\ Len(table[m]) <= TableRows
       /\ ToSet(table[m]) \subseteq shown[m] /\ shown[m] \subseteq 1 .. last[m]
=============================================================================
