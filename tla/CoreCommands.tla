---------------------------- MODULE CoreCommands ----------------------------
(***************************************************************************)
(* Remote calls that gateway_core serves itself: the memory of request     *)
(* identifiers (RpcHandler.cpp), alarm thresholds set directly (main.cpp)  *)
(* or through the persisted configuration (ConfigManager.cpp), and the     *)
(* download that a model update begins (OtaManager.cpp).                   *)
(*                                                                         *)
(* Calls come from MqttClient one at a time on the main thread; a download *)
(* has a detached thread.  A call is a record of what the parsers can tell *)
(* apart: its method, its identifier (which follows the parameters, as in  *)
(* tools/pressure_test.py), the two thresholds and whether they stand in   *)
(* quotation marks.  The copy in gateway.hot.json.bak is never read, only  *)
(* its failure matters.  The file system is external: without fsync, what  *)
(* was written last may be lost or cut short when the power goes.          *)
(***************************************************************************)
EXTENDS Integers, Sequences, SequencesExt, FiniteSets

CONSTANTS Calls,      \* what the cloud may send
          NoId,       \* the identifier of a call without one
          Window,     \* kMaxSeenIds
          Numbers,    \* thresholds that set_alarm_threshold takes
          Outside,    \* a number outside its ranges
          Word,       \* a text that is no number
          NoValue,    \* a threshold that is not named
          Default,    \* the threshold a process starts with
          Served,     \* addresses at which there is a model
          Separator,  \* what stands between a key and the next quotation mark
          Downloads,  \* download threads
          NoFile, Torn,        \* no configuration file; one that is cut short
          MaxCalls, MaxCrash   \* TLC bounds: calls; ends of the process

Keys == {"temp_max", "hum_max"}
Values == Numbers \cup {Outside, Word, NoValue}

ASSUME WindowAssumption == Window \in Nat \ {0}
ASSUME ValuesAssumption ==
  /\ Default \in Numbers
  /\ Outside \notin Numbers /\ Word \notin Numbers /\ NoValue \notin Numbers
  /\ Cardinality({Outside, Word, NoValue}) = 3
ASSUME CallsAssumption ==
  \A c \in Calls : c.method \in {"config_update", "set_alarm_threshold", "ota_update_model", "get_temp"}
                   /\ c.args \in [Keys -> Values] /\ c.quoted \in BOOLEAN
ASSUME FilesAssumption == NoFile # Torn /\ {NoFile, Torn} \cap [Keys -> Values] = {}
\* JSON puts a colon there; no address begins with one.
ASSUME SeparatorAssumption == Separator \notin Served
ASSUME BoundsAssumption == MaxCalls \in Nat /\ MaxCrash \in Nat

VARIABLES
  seen, order,  \* seen_ids_ and id_order_
  thresholds,   \* temp_max and hum_max
  job,          \* the call the main thread is serving
  file,         \* gateway.hot.json as processes see it
  durable,      \* what of it is sure to survive the power
  tmp,          \* gateway.hot.json.tmp
  download,     \* the download threads
  answer,       \* history: the last call and its answer
  admitted,     \* history: identifiers this process let through, in order
  volatile,     \* history: thresholds last given by something that is not kept
  calls, crashes, cuts  \* bounds, and how often the power went

memory == <<seen, order, admitted>>
disk == <<file, durable, tmp>>
bounds == <<calls, crashes, cuts>>
vars == <<memory, thresholds, job, disk, download, answer, volatile, bounds>>

None == [at |-> "idle"]
NoDownload == [at |-> "idle"]

Init ==
  /\ seen = {}
  /\ order = <<>>
  /\ thresholds = [k \in Keys |-> Default]
  /\ job = None
  /\ file = NoFile
  /\ durable = NoFile
  /\ tmp = NoFile
  /\ download = [d \in Downloads |-> NoDownload]
  /\ answer = None
  /\ admitted = <<>>
  /\ volatile = {}
  /\ calls = 0
  /\ crashes = 0
  /\ cuts = 0

-----------------------------------------------------------------------------
(* RpcHandler::dispatch() *)

Duplicate(c) ==
  /\ job = None
  /\ calls < MaxCalls
  /\ c.id \in seen
  /\ answer' = [at |-> "NACK", call |-> c]
  /\ calls' = calls + 1
  /\ UNCHANGED <<memory, thresholds, job, disk, download, volatile, crashes, cuts>>

\* Variant with a bug: the whole memory is cleared when it is full.
ForgetAll(id) ==
  IF Len(order) >= Window
  THEN seen' = {id} /\ order' = <<id>>
  ELSE seen' = seen \cup {id} /\ order' = Append(order, id)

\* The oldest identifier makes room.
Remember(id) ==
  IF Len(order) >= Window
  THEN seen' = (seen \ {Head(order)}) \cup {id} /\ order' = Append(Tail(order), id)
  ELSE seen' = seen \cup {id} /\ order' = Append(order, id)

\* Before the handler runs, whatever comes of it.
Admit(c) ==
  /\ job = None
  /\ calls < MaxCalls
  /\ c.id \notin seen
  /\ IF c.id = NoId
     THEN UNCHANGED memory
     ELSE Remember(c.id) /\ admitted' = Append(admitted, c.id)
  /\ job' = [at |-> c.method, call |-> c]
  /\ calls' = calls + 1
  /\ UNCHANGED <<thresholds, disk, download, answer, volatile, crashes, cuts>>

Done(reply) == answer' = [at |-> reply, call |-> job.call] /\ job' = None

\* Methods that change nothing here.
Query ==
  /\ job.at = "get_temp"
  /\ Done("ACK")
  /\ UNCHANGED <<memory, thresholds, disk, download, volatile, bounds>>

-----------------------------------------------------------------------------
(* set_alarm_threshold *)

\* extract_json_str() takes what stands between the next two quotation marks.  A
\* number has none: it finds the name of the next key, or nothing.
Text(c, k) ==
  IF c.args[k] = NoValue \/ c.quoted THEN c.args[k]
  ELSE IF c.id # NoId \/ (k = "temp_max" /\ c.args["hum_max"] # NoValue) THEN Word
  ELSE NoValue

\* The first text that is not fit ends the call; what came before it stays.
Applied(c) ==
  {k \in Keys : /\ Text(c, k) \in Numbers
                /\ k = "hum_max" => Text(c, "temp_max") \in Numbers \cup {NoValue}}

SetAlarmThreshold ==
  /\ job.at = "set_alarm_threshold"
  /\ LET c == job.call
     IN /\ thresholds' = [k \in Keys |-> IF k \in Applied(c) THEN Text(c, k) ELSE thresholds[k]]
        /\ volatile' = volatile \cup Applied(c)
        /\ Done(IF \A k \in Keys : Text(c, k) \in Numbers \cup {NoValue} THEN "ACK" ELSE "NACK")
  /\ UNCHANGED <<memory, disk, download, bounds>>

-----------------------------------------------------------------------------
(* ConfigManager::handle_config_update() *)

\* What the watchers store: std::stof() takes any number.
IsNumber(v) == v \in Numbers \cup {Outside}

After(config, now) == [k \in Keys |-> IF IsNumber(config[k]) THEN config[k] ELSE now[k]]

BackupFails ==
  /\ job.at = "config_update"
  /\ Done("NACK")
  /\ UNCHANGED <<memory, thresholds, disk, download, volatile, bounds>>

Backup ==
  /\ job.at = "config_update"
  /\ job' = [job EXCEPT !.at = "write"]
  /\ UNCHANGED <<memory, thresholds, disk, download, answer, volatile, bounds>>

WriteTmp ==
  /\ job.at = "write"
  /\ tmp' = job.call.args
  /\ job' = [job EXCEPT !.at = "rename"]
  /\ UNCHANGED <<memory, thresholds, file, durable, download, answer, volatile, bounds>>

\* Variant with a bug: the state of the stream is not looked at.
WriteUnchecked ==
  /\ job.at = "write"
  /\ tmp' = Torn
  /\ job' = [job EXCEPT !.at = "rename"]
  /\ UNCHANGED <<memory, thresholds, file, durable, download, answer, volatile, bounds>>

WriteTmpFails ==
  /\ job.at = "write"
  /\ tmp' = Torn
  /\ Done("NACK")
  /\ UNCHANGED <<memory, thresholds, file, durable, download, volatile, bounds>>

\* A threshold the new file does not name keeps its value until the next start.
Rename ==
  /\ job.at = "rename"
  /\ file' = tmp
  /\ tmp' = NoFile
  /\ job' = [job EXCEPT !.at = "notify"]
  /\ UNCHANGED <<memory, thresholds, durable, download, answer, volatile, bounds>>

RenameFails ==
  /\ job.at = "rename"
  /\ Done("NACK")
  /\ UNCHANGED <<memory, thresholds, disk, download, volatile, bounds>>

\* Variant with a bug: the first watcher that refuses ends the round.
NotifyUntilError ==
  /\ job.at = "notify"
  /\ LET config == job.call.args
     IN thresholds' = IF config["temp_max"] = Word THEN thresholds ELSE After(config, thresholds)
  /\ volatile' = {k \in Keys : ~IsNumber(job.call.args[k])}
  /\ Done(IF \E k \in Keys : job.call.args[k] = Word THEN "NACK" ELSE "ACK")
  /\ UNCHANGED <<memory, disk, download, bounds>>

\* notify_all() asks every watcher; a refusal is in the answer, the file stays.
Notify ==
  /\ job.at = "notify"
  /\ thresholds' = After(job.call.args, thresholds)
  /\ volatile' = {k \in Keys : ~IsNumber(job.call.args[k])}
  /\ Done(IF \E k \in Keys : job.call.args[k] = Word THEN "NACK" ELSE "ACK")
  /\ UNCHANGED <<memory, disk, download, bounds>>

ConfigUpdate == BackupFails \/ Backup \/ WriteTmp \/ WriteTmpFails \/ Rename \/ RenameFails \/ Notify

-----------------------------------------------------------------------------
(* OtaManager::handle_ota_update() and its thread *)

\* extract_str() looks for a quotation mark after the key, takes that as the start
\* of the value and the next as its end.
ExtractStr(c) == Separator

StartDownload(d) ==
  /\ job.at = "ota_update_model"
  /\ download[d].at = "idle"
  /\ download' = [download EXCEPT ![d] =
       [at |-> "perform", url |-> ExtractStr(job.call), wanted |-> job.call.url]]
  /\ Done("ACK")
  /\ UNCHANGED <<memory, thresholds, disk, volatile, bounds>>

\* curl_easy_perform() fails.  What follows a success is not reached.
DownloadFails(d) ==
  /\ download[d].at = "perform"
  /\ download[d].url \notin Served
  /\ download' = [download EXCEPT ![d].at = "report"]
  /\ UNCHANGED <<memory, thresholds, job, disk, answer, volatile, bounds>>

Report(d) ==
  /\ download[d].at = "report"
  /\ download' = [download EXCEPT ![d] = NoDownload]
  /\ UNCHANGED <<memory, thresholds, job, disk, answer, volatile, bounds>>

-----------------------------------------------------------------------------
(* Ends of the process, and the next one *)

IsConfig(f) == f \in [Keys -> Values]

\* load_persisted(): what does not pass validate_json() is left alone.
LoadPersisted(f) ==
  IF IsConfig(f) THEN After(f, [k \in Keys |-> Default]) ELSE [k \in Keys |-> Default]

Boot(f) ==
  /\ crashes < MaxCrash
  /\ crashes' = crashes + 1
  /\ seen' = {}
  /\ order' = <<>>
  /\ admitted' = <<>>
  /\ job' = None
  /\ answer' = None
  /\ download' = [d \in Downloads |-> NoDownload]
  /\ file' = f
  /\ thresholds' = LoadPersisted(f)
  /\ volatile' = {}
  /\ UNCHANGED calls

Crash ==
  /\ Boot(file)
  /\ UNCHANGED <<durable, tmp, cuts>>

\* rename() may reach the disk before the data does, or not at all.
PowerCut ==
  /\ \E f \in {file, durable} \cup (IF file = durable THEN {} ELSE {Torn}) :
       Boot(f) /\ durable' = f
  /\ tmp' = NoFile
  /\ cuts' = cuts + 1

WriteBack ==
  /\ durable # file
  /\ durable' = file
  /\ UNCHANGED <<memory, thresholds, job, file, tmp, download, answer, volatile, bounds>>

Next ==
  \/ \E c \in Calls : Duplicate(c) \/ Admit(c)
  \/ Query \/ SetAlarmThreshold \/ ConfigUpdate
  \/ \E d \in Downloads : StartDownload(d) \/ DownloadFails(d) \/ Report(d)
  \/ Crash \/ PowerCut \/ WriteBack

Spec == Init /\ [][Next]_vars

-----------------------------------------------------------------------------
(* Properties *)

\* Everything is of its kind.
TypeOK ==
  /\ seen = ToSet(order) /\ Len(order) <= Window
  /\ thresholds \in [Keys -> Numbers \cup {Outside}]
  /\ job.at \in {"idle", "get_temp", "set_alarm_threshold", "config_update", "ota_update_model",
                 "write", "rename", "notify"}
  /\ {file, durable, tmp} \subseteq [Keys -> Values] \cup {NoFile, Torn}
  /\ \A d \in Downloads : download[d].at \in {"idle", "perform", "report"}
  /\ volatile \subseteq Keys

\* Within one process a request identifier is let through again only after Window
\* others: full or not, refused or failed, RpcHandler.cpp 37-43 forgets the oldest
\* and nothing else.
NoReplay ==
  \A i, j \in 1 .. Len(admitted) : i < j /\ admitted[i] = admitted[j] => j - i > Window

\* A configuration file is cut short only if the power went: a process that dies,
\* or a write or a rename that fails, leaves the old one or the new one
\* (ConfigManager.cpp 118-138).
FileIsWhole == file = Torn => cuts > 0

\* Between two calls the thresholds in memory are those a restart would give,
\* except one that set_alarm_threshold changed or that the last configuration does
\* not set: also after an update that was refused in part, failed at any step or
\* was cut off (ConfigManager.cpp 142-187, 220-230).
MemoryIsPersisted ==
  job = None =>
    \A k \in Keys \ volatile :
      thresholds[k] = IF IsConfig(file) /\ IsNumber(file[k]) THEN file[k] ELSE Default

\* What an ACK says is done: a threshold that was set applies, and an update that
\* was begun does not fail on a file that the server has.  It is false of the code.
AckedIsDone ==
  /\ answer.at = "ACK" /\ answer.call.method = "set_alarm_threshold" =>
       \A k \in Keys : answer.call.args[k] # NoValue => thresholds[k] = answer.call.args[k]
  /\ \A d \in Downloads : download[d].at = "report" => download[d].wanted \notin Served
=============================================================================
