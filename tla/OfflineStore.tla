---------------------------- MODULE OfflineStore ----------------------------
(***************************************************************************)
(* Store and forward in gateway_core: records that cannot be published are *)
(* kept in the offline_cache table and sent by a detached thread when the  *)
(* broker is reached or a remote call asks for it (OfflineStore.cpp,       *)
(* MqttClient.cpp and their use in main.cpp).                              *)
(*                                                                         *)
(* The MQTT library and SQLite are external.  The library completes the    *)
(* connect token before it runs the connected callback, and runs callbacks *)
(* one at a time; it is not told to reconnect, so a process has one        *)
(* session at most.  All statements share one SQLite connection: while a   *)
(* SELECT of a flush is open so is the connection's read transaction.  A   *)
(* write in it fails at once, whatever the busy timeout: with SQLITE_BUSY  *)
(* while the other connection (DbWriter) has a transaction open, which it  *)
(* may have at any time, and with SQLITE_BUSY_SNAPSHOT once that one has   *)
(* committed.  Outside a SELECT a write waits for DbWriter.  Disk errors   *)
(* and the text of messages are left out; a row is its record.             *)
(***************************************************************************)
EXTENDS Integers, Sequences, SequencesExt, FiniteSets

CONSTANTS Records,   \* what the event loop publishes or stores
          Alarms,    \* those inserted with priority 1
          NoRecord,  \* none of them
          Flushers,  \* threads that may run OfflineStore::flush() at a time
          MaxSync,   \* TLC bound: trigger_offline_sync calls
          MaxCrash   \* TLC bound: ends of the process

ASSUME RecordsAssumption == NoRecord \notin Records /\ Alarms \subseteq Records /\ IsFiniteSet(Records)
ASSUME BoundsAssumption == MaxSync \in Nat /\ MaxCrash \in Nat
\* A process starts a flush for its session and one for each call.
ASSUME FlushersAssumption == IsFiniteSet(Flushers) /\ Cardinality(Flushers) > MaxSync

VARIABLES
  mqtt,       \* the MqttClient and its session with the broker
  needFlush,  \* need_flush
  loop,       \* where the main thread is
  current,    \* the record it is handling
  cache,      \* offline_cache, in the order of its ids
  flush,      \* the flush threads
  stale,      \* the open read transaction is behind another commit
  copies,     \* how often the broker got each record
  refused,    \* history: records insert() has failed to store
  unsent,     \* history: records publish() failed to send, or a crash found in hand
  excused,    \* history: records with a reason to be sent again
  offered, syncs, crashes  \* bounds

table == <<cache, refused>>
bounds == <<offered, syncs, crashes>>
vars == <<mqtt, needFlush, loop, current, flush, stale, table, copies, unsent, excused, bounds>>

\* link, and whether the broker sends this session commands (subscribed), are
\* the library's; callback is what its thread still has to do, ready an edge of
\* event_fd_ that epoll has not reported, topics whether subscriptions_ holds
\* the command topic.
NewClient ==
  [link |-> "none", connected |-> FALSE, birthPending |-> FALSE, needsResub |-> FALSE,
   callback |-> "idle", ready |-> FALSE, rpcs |-> 0, topics |-> FALSE, subscribed |-> FALSE]

\* rows are those the SELECT has not stepped over; urgent is a history: the
\* alarms it found.
NoFlush == [at |-> "idle", rows |-> <<>>, urgent |-> {}]

\* The SELECT of a flush is open, from its first sqlite3_step() on.
Reading(f) == flush[f].at \in {"publish", "delete"}

Init ==
  /\ mqtt = NewClient
  /\ needFlush = FALSE
  /\ loop = "connect"
  /\ current = NoRecord
  /\ cache = <<>>
  /\ flush = [f \in Flushers |-> NoFlush]
  /\ stale = FALSE
  /\ copies = [r \in Records |-> 0]
  /\ unsent = {}
  /\ refused = {}
  /\ excused = {}
  /\ offered = {}
  /\ syncs = 0
  /\ crashes = 0

-----------------------------------------------------------------------------
(* MqttClient::publish(): what the caller gets and what the broker got *)

PublishTrue(r) ==
  /\ mqtt.connected
  /\ mqtt.link = "up"
  /\ copies' = [copies EXCEPT ![r] = @ + 1]
  /\ UNCHANGED mqtt

PublishFalse ==
  /\ ~mqtt.connected \/ mqtt.link # "up"
  /\ UNCHANGED <<mqtt, copies>>

\* The session ends while publish() waits: the broker may have the message.
PublishThrows(r, got) ==
  /\ mqtt.connected
  /\ mqtt.link = "up"
  /\ mqtt' = [mqtt EXCEPT !.link = "down"]
  /\ copies' = [copies EXCEPT ![r] = IF got THEN @ + 1 ELSE @]

-----------------------------------------------------------------------------
(* The library's thread *)

LibraryStep == UNCHANGED <<loop, current, flush, stale, table, copies, unsent, excused, offered, crashes>>

LinkBreaks ==
  /\ mqtt.link = "up"
  /\ mqtt' = [mqtt EXCEPT !.link = "down"]
  /\ UNCHANGED <<needFlush, syncs>>
  /\ LibraryStep

Connected ==
  /\ mqtt.callback = "connected"
  /\ mqtt' = [mqtt EXCEPT !.connected = TRUE, !.birthPending = TRUE, !.needsResub = TRUE,
                          !.callback = "status"]
  /\ UNCHANGED <<needFlush, syncs>>
  /\ LibraryStep

StatusCallback ==
  /\ mqtt.callback = "status"
  /\ needFlush' = TRUE
  /\ mqtt' = [mqtt EXCEPT !.callback = "notify"]
  /\ UNCHANGED syncs
  /\ LibraryStep

\* Variant with a bug: the connection is not reported to the main thread.
NotifyForgotten ==
  /\ mqtt.callback = "notify"
  /\ mqtt' = [mqtt EXCEPT !.callback = "idle"]
  /\ UNCHANGED <<needFlush, syncs>>
  /\ LibraryStep

NotifyMainThread ==
  /\ mqtt.callback = "notify"
  /\ mqtt' = [mqtt EXCEPT !.ready = TRUE, !.callback = "idle"]
  /\ UNCHANGED <<needFlush, syncs>>
  /\ LibraryStep

ConnectionLost ==
  /\ mqtt.callback = "idle"
  /\ mqtt.connected
  /\ mqtt.link = "down"
  /\ mqtt' = [mqtt EXCEPT !.connected = FALSE, !.ready = TRUE]
  /\ UNCHANGED <<needFlush, syncs>>
  /\ LibraryStep

\* A trigger_offline_sync command; the other methods are not of this module.
MessageArrived ==
  /\ mqtt.callback = "idle"
  /\ mqtt.link = "up"
  /\ mqtt.subscribed
  /\ syncs < MaxSync
  /\ syncs' = syncs + 1
  /\ mqtt' = [mqtt EXCEPT !.rpcs = @ + 1, !.ready = TRUE]
  /\ UNCHANGED needFlush
  /\ LibraryStep

Library == Connected \/ StatusCallback \/ NotifyMainThread \/ ConnectionLost

-----------------------------------------------------------------------------
(* The main thread: connect once, subscribe, then the event loop *)

MainStep == UNCHANGED <<stale, excused, syncs, crashes>>

\* The connect token is complete; the connected callback may not have run yet.
ConnectDone ==
  /\ loop = "connect"
  /\ loop' = "subscribe"
  /\ mqtt' = [mqtt EXCEPT !.link = "up", !.callback = "connected"]
  /\ UNCHANGED <<needFlush, current, flush, table, copies, unsent, offered>>
  /\ MainStep

\* The broker cannot be reached: main() does not look and nobody tries again.
ConnectFails ==
  /\ loop = "connect"
  /\ loop' = "subscribe"
  /\ UNCHANGED <<mqtt, needFlush, current, flush, table, copies, unsent, offered>>
  /\ MainStep

\* Without a connection subscribe() records nothing; if it fails, neither.
Subscribe ==
  /\ loop = "subscribe"
  /\ loop' = "wait"
  /\ mqtt' = IF mqtt.connected /\ mqtt.link = "up"
             THEN [mqtt EXCEPT !.topics = TRUE, !.subscribed = TRUE]
             ELSE mqtt
  /\ UNCHANGED <<needFlush, current, flush, table, copies, unsent, offered>>
  /\ MainStep

\* The tail of the data callback, and the places that report an alarm, look at
\* is_connected() ...
RecordArrives(r) ==
  /\ loop = "wait"
  /\ r \notin offered
  /\ offered' = offered \cup {r}
  /\ current' = r
  /\ loop' = IF mqtt.connected THEN "publish" ELSE "insert"
  /\ UNCHANGED <<mqtt, needFlush, flush, table, copies, unsent>>
  /\ MainStep

\* ... and then publish, whatever comes of it, or ...
PublishRecord ==
  /\ loop = "publish"
  /\ \/ PublishTrue(current) /\ UNCHANGED unsent
     \/ PublishFalse /\ unsent' = unsent \cup {current}
     \/ \E got \in BOOLEAN : PublishThrows(current, got) /\ unsent' = unsent \cup {current}
  /\ loop' = "wait"
  /\ current' = NoRecord
  /\ UNCHANGED <<needFlush, flush, table, offered>>
  /\ MainStep

\* ... insert, whose result nobody looks at either.
InsertRecord ==
  /\ loop = "insert"
  /\ ~stale
  /\ cache' = Append(cache, current)
  /\ loop' = "wait"
  /\ current' = NoRecord
  /\ UNCHANGED <<mqtt, needFlush, flush, refused, copies, unsent, offered>>
  /\ MainStep

\* SQLite refuses it while a flush has its SELECT open.
InsertBusy ==
  /\ loop = "insert"
  /\ \E f \in Flushers : Reading(f)
  /\ refused' = refused \cup {current}
  /\ loop' = "wait"
  /\ current' = NoRecord
  /\ UNCHANGED <<mqtt, needFlush, flush, cache, copies, unsent, offered>>
  /\ MainStep

\* The callback of event_fd_: birth message, subscriptions, commands, flush.
Wake ==
  /\ loop = "wait"
  /\ mqtt.ready
  /\ mqtt' = [mqtt EXCEPT !.ready = FALSE]
  /\ loop' = "birth"
  /\ UNCHANGED <<needFlush, current, flush, table, copies, unsent, offered>>
  /\ MainStep

PublishBirth ==
  /\ loop = "birth"
  /\ \/ mqtt' = [mqtt EXCEPT !.birthPending = FALSE]
     \/ /\ mqtt.birthPending /\ mqtt.connected /\ mqtt.link = "up"
        /\ mqtt' = [mqtt EXCEPT !.birthPending = FALSE, !.link = "down"]
  /\ loop' = "resubscribe"
  /\ UNCHANGED <<needFlush, current, flush, table, copies, unsent, offered>>
  /\ MainStep

ResubscribeAll ==
  /\ loop = "resubscribe"
  /\ mqtt' = [mqtt EXCEPT !.needsResub = FALSE,
                !.subscribed = @ \/ /\ mqtt.needsResub /\ mqtt.connected
                                    /\ mqtt.topics /\ mqtt.link = "up"]
  /\ loop' = "commands"
  /\ UNCHANGED <<needFlush, current, flush, table, copies, unsent, offered>>
  /\ MainStep

PopCommand ==
  /\ loop = "commands"
  /\ mqtt.rpcs > 0
  /\ mqtt' = [mqtt EXCEPT !.rpcs = @ - 1]
  /\ needFlush' = TRUE
  /\ UNCHANGED <<loop, current, flush, table, copies, unsent, offered>>
  /\ MainStep

NoCommand ==
  /\ loop = "commands"
  /\ mqtt.rpcs = 0
  /\ loop' = "check"
  /\ UNCHANGED <<mqtt, needFlush, current, flush, table, copies, unsent, offered>>
  /\ MainStep

StartFlush(f) ==
  /\ loop = "check"
  /\ needFlush
  /\ mqtt.connected
  /\ flush[f].at = "idle"
  /\ needFlush' = FALSE
  /\ flush' = [flush EXCEPT ![f].at = "select"]
  /\ loop' = "wait"
  /\ UNCHANGED <<mqtt, current, table, copies, unsent, offered>>
  /\ MainStep

SkipFlush ==
  /\ loop = "check"
  /\ ~(needFlush /\ mqtt.connected)
  /\ loop' = "wait"
  /\ UNCHANGED <<mqtt, needFlush, current, flush, table, copies, unsent, offered>>
  /\ MainStep

Main ==
  \/ ConnectDone \/ ConnectFails \/ Subscribe
  \/ PublishRecord \/ InsertRecord \/ InsertBusy
  \/ Wake \/ PublishBirth \/ ResubscribeAll \/ PopCommand \/ NoCommand \/ SkipFlush
  \/ \E f \in Flushers : StartFlush(f)

-----------------------------------------------------------------------------
(* OfflineStore::flush(), on a thread of its own *)

FlushStep == UNCHANGED <<needFlush, loop, current, refused, unsent, bounds>>

IsAlarm(r) == r \in Alarms

\* Variant with a bug: the rows come in the order of their ids.
ById(i, j) == i < j

\* ORDER BY priority DESC, id ASC, for two places of the table.
ByPriority(i, j) ==
  \/ IsAlarm(cache[i]) /\ ~IsAlarm(cache[j])
  \/ (IsAlarm(cache[i]) <=> IsAlarm(cache[j])) /\ i < j

\* sqlite3_finalize(), which ends the read transaction if no other flush reads.
Finish(f) ==
  /\ flush' = [flush EXCEPT ![f] = NoFlush]
  /\ stale' = (stale /\ \E g \in Flushers \ {f} : Reading(g))

\* Without a row the first sqlite3_step() also ends the statement.
SelectNone(f) ==
  /\ flush[f].at = "select"
  /\ cache = <<>>
  /\ Finish(f)
  /\ UNCHANGED <<mqtt, cache, copies, excused>>
  /\ FlushStep

\* The first sqlite3_step() sorts all rows; the loop then walks through them,
\* whatever happens to the table.
Select(f) ==
  /\ flush[f].at = "select"
  /\ cache # <<>>
  /\ \E order \in Bijection(DOMAIN cache, DOMAIN cache) :
       /\ \A i, j \in DOMAIN cache : i < j => ByPriority(order[i], order[j])
       /\ flush' = [flush EXCEPT ![f] =
            [at |-> "publish", rows |-> [i \in DOMAIN cache |-> cache[order[i]]],
             urgent |-> Alarms \cap ToSet(cache)]]
  /\ excused' = excused \cup
       (ToSet(cache) \cap UNION {ToSet(flush[g].rows) : g \in Flushers \ {f}})
  /\ UNCHANGED <<mqtt, cache, stale, copies>>
  /\ FlushStep

LastRow(f) ==
  /\ flush[f].at = "publish"
  /\ flush[f].rows = <<>>
  /\ Finish(f)
  /\ UNCHANGED <<mqtt, cache, copies, excused>>
  /\ FlushStep

RowSent(f) ==
  /\ flush[f].at = "publish"
  /\ flush[f].rows # <<>>
  /\ PublishTrue(Head(flush[f].rows))
  /\ flush' = [flush EXCEPT ![f].at = "delete"]
  /\ UNCHANGED <<cache, stale, excused>>
  /\ FlushStep

\* Variant with a bug: the result of publish() is ignored here as well.
RowNotChecked(f) ==
  /\ flush[f].at = "publish"
  /\ flush[f].rows # <<>>
  /\ PublishFalse
  /\ flush' = [flush EXCEPT ![f].at = "delete"]
  /\ UNCHANGED <<cache, stale, excused>>
  /\ FlushStep

\* The first publish() that fails ends the flush.
RowNotSent(f) ==
  /\ flush[f].at = "publish"
  /\ flush[f].rows # <<>>
  /\ LET r == Head(flush[f].rows)
     IN \/ PublishFalse /\ UNCHANGED excused
        \/ PublishThrows(r, FALSE) /\ UNCHANGED excused
        \/ PublishThrows(r, TRUE) /\ excused' = excused \cup {r}
  /\ Finish(f)
  /\ UNCHANGED cache
  /\ FlushStep

NextRow(f) == [flush EXCEPT ![f].at = "publish", ![f].rows = Tail(@)]

\* Variant with a bug: the DELETE is prepared and not stepped.
DeleteNotStepped(f) ==
  /\ flush[f].at = "delete"
  /\ ~stale
  /\ flush' = NextRow(f)
  /\ UNCHANGED <<mqtt, cache, stale, copies, excused>>
  /\ FlushStep

\* Another flush may have deleted the row already.
DeleteRow(f) ==
  /\ flush[f].at = "delete"
  /\ ~stale
  /\ \/ \E i \in DOMAIN cache :
          cache[i] = Head(flush[f].rows) /\ cache' = RemoveAt(cache, i)
     \/ Head(flush[f].rows) \notin ToSet(cache) /\ UNCHANGED cache
  /\ flush' = NextRow(f)
  /\ UNCHANGED <<mqtt, stale, copies, excused>>
  /\ FlushStep

\* SQLite refuses it, under this thread's own SELECT.  The row stays, is counted
\* as flushed, and the loop goes on.
DeleteBusy(f) ==
  /\ flush[f].at = "delete"
  /\ excused' = excused \cup {Head(flush[f].rows)}
  /\ flush' = NextRow(f)
  /\ UNCHANGED <<mqtt, cache, stale, copies>>
  /\ FlushStep

Flush(f) ==
  \/ SelectNone(f) \/ Select(f) \/ LastRow(f)
  \/ RowSent(f) \/ RowNotSent(f) \/ DeleteRow(f) \/ DeleteBusy(f)

-----------------------------------------------------------------------------
(* The rest of the process *)

\* DbWriter commits a batch on its own connection.
OtherCommit ==
  /\ \E f \in Flushers : Reading(f)
  /\ ~stale
  /\ stale' = TRUE
  /\ UNCHANGED <<mqtt, needFlush, loop, current, flush, table, copies, unsent, excused, bounds>>

\* The process dies and the watchdog starts it again.  An orderly stop does not
\* wait for the flush threads either.
Crash ==
  /\ crashes < MaxCrash
  /\ crashes' = crashes + 1
  /\ mqtt' = NewClient
  /\ needFlush' = FALSE
  /\ loop' = "connect"
  /\ current' = NoRecord
  /\ flush' = [f \in Flushers |-> NoFlush]
  /\ stale' = FALSE
  /\ unsent' = unsent \cup ({current} \ {NoRecord})
  /\ excused' = excused \cup
       {Head(flush[f].rows) : f \in {g \in Flushers : flush[g].at = "delete"}}
  /\ UNCHANGED <<table, copies, offered, syncs>>

Next ==
  \/ Main \/ Library
  \/ LinkBreaks \/ MessageArrived \/ OtherCommit \/ Crash
  \/ \E r \in Records : RecordArrives(r)
  \/ \E f \in Flushers : Flush(f)

Spec == Init /\ [][Next]_vars

-----------------------------------------------------------------------------
(* Properties *)

\* Everything is of its kind; the cache holds a record once.
TypeOK ==
  /\ mqtt \in [link : {"none", "up", "down"}, connected : BOOLEAN, birthPending : BOOLEAN,
               needsResub : BOOLEAN,
               callback : {"idle", "connected", "status", "notify"},
               ready : BOOLEAN, rpcs : 0 .. MaxSync, topics : BOOLEAN, subscribed : BOOLEAN]
  /\ needFlush \in BOOLEAN
  /\ loop \in {"connect", "subscribe", "wait", "publish", "insert", "birth", "resubscribe",
               "commands", "check"}
  /\ current \in Records \cup {NoRecord}
  /\ cache \in Seq(Records) /\ IsInjective(cache)
  /\ \A f \in Flushers : /\ flush[f].at \in {"idle", "select", "publish", "delete"}
                         /\ flush[f].rows \in Seq(Records)
                         /\ flush[f].urgent \subseteq Alarms
  /\ stale \in BOOLEAN
  /\ copies \in [Records -> Nat]
  /\ refused \cup unsent \cup excused \subseteq Records

\* A record is in hand, in the table or at the broker, unless publish() failed after
\* is_connected() had said yes, insert() was refused, or the process died with it in
\* hand: once insert() has stored it no failing publish, overlapping flush or crash
\* loses it, because publish() comes before DELETE in flush().
LossHasCause ==
  offered \subseteq {current} \cup ToSet(cache) \cup {r \in Records : copies[r] > 0}
                   \cup refused \cup unsent

\* When a flush has sent a periodic record, the broker has every alarm the
\* flush found: rows come by priority and the first failure ends the flush.
AlarmsFirst ==
  \A f \in Flushers :
    flush[f].at = "delete" /\ ~IsAlarm(Head(flush[f].rows))
      => \A a \in flush[f].urgent : copies[a] > 0

\* The broker gets a record twice only if its row was selected while another
\* flush still had it, could not be deleted, or was cut off from its DELETE by
\* a lost acknowledgement or a crash.
DuplicatesHaveCause == \A r \in Records : copies[r] > 1 => r \in excused

Quiet ==
  /\ loop = "wait"
  /\ mqtt.connected
  /\ mqtt.link = "up"
  /\ mqtt.callback = "idle"
  /\ ~mqtt.ready
  /\ \A f \in Flushers : flush[f].at = "idle"

\* While the session lives and nothing is under way, nothing is left in the
\* table but rows already sent: the record that is_connected() sent there just
\* before the connection came is in time for the flush.
BacklogDrains == Quiet => ToSet(cache) \subseteq excused

\* What OfflineStore.cpp:12 says of WAL mode and the busy timeout: no record is
\* dropped because DbWriter writes at the same time.  It is false of the code.
NoneRefused == refused = {}

=============================================================================
