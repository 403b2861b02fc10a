------------------------- MODULE CoreCommandsProofs -------------------------
(***************************************************************************)
(* What the calls that gateway_core serves itself leave behind, for every  *)
(* set of calls, every size of the memory of identifiers and any number of *)
(* calls, crashes and power cuts.                                          *)
(*                                                                         *)
(* Two invariants that share no variable but the calls: one of the memory  *)
(* (RpcHandler.cpp), one of thresholds and file (ConfigManager.cpp).       *)
(***************************************************************************)
EXTENDS CoreCommands, TLAPS

Methods == {"config_update", "set_alarm_threshold", "ota_update_model", "get_temp"}
Steps == {"write", "rename", "notify"}
Ids == {c.id : c \in Calls}

-----------------------------------------------------------------------------
(* The memory of identifiers *)

\* What is remembered is the end of what was admitted, as long as it fits.
RecentAreSeen ==
  /\ admitted \in Seq(Ids)
  /\ order \in Seq(Ids)
  /\ Len(order) = (IF Len(admitted) < Window THEN Len(admitted) ELSE Window)
  /\ \A k \in 1 .. Len(order) : order[k] = admitted[Len(admitted) - Len(order) + k]
  /\ seen = {order[k] : k \in 1 .. Len(order)}

MemoryInv == RecentAreSeen /\ NoReplay

LEMMA EmptyMemory ==
  ASSUME seen = {}, order = <<>>, admitted = <<>>
  PROVE  MemoryInv
BY WindowAssumption DEF MemoryInv, RecentAreSeen, NoReplay

\* Of the identifiers in a full memory no two are the same.
LEMMA OrderDistinct ==
  ASSUME MemoryInv, NEW i \in 1 .. Len(order), NEW j \in 1 .. Len(order), order[i] = order[j]
  PROVE  i = j
PROOF
<1> DEFINE d == Len(admitted) - Len(order)
<1> USE WindowAssumption
<1>1. /\ Len(order) \in Nat /\ Len(admitted) \in Nat
      /\ Len(order) <= Window /\ Len(order) <= Len(admitted)
  BY DEF MemoryInv, RecentAreSeen
<1>2. admitted[d + i] = admitted[d + j]
  BY DEF MemoryInv, RecentAreSeen
<1>3. d + i \in 1 .. Len(admitted) /\ d + j \in 1 .. Len(admitted)
  BY <1>1
<1>4. ~(i < j)
  <2> SUFFICES ASSUME i < j PROVE FALSE
    OBVIOUS
  <2>1. (d + j) - (d + i) > Window
    BY <1>1, <1>2, <1>3 DEF MemoryInv, NoReplay
  <2> QED BY <1>1, <2>1
<1>5. ~(j < i)
  <2> SUFFICES ASSUME j < i PROVE FALSE
    OBVIOUS
  <2>1. (d + i) - (d + j) > Window
    BY <1>1, <1>2, <1>3, SMTT(20) DEF MemoryInv, NoReplay
  <2> QED BY <1>1, <2>1
<1> QED BY <1>1, <1>4, <1>5

\* An identifier that is not in the memory was not among the last Window.
LEMMA UnseenIsOld ==
  ASSUME MemoryInv, NEW id \in Ids, id \notin seen,
         NEW i \in 1 .. Len(admitted), admitted[i] = id
  PROVE  Len(admitted) + 1 - i > Window
PROOF
<1> DEFINE d == Len(admitted) - Len(order)
<1> USE WindowAssumption
<1>1. /\ Len(order) \in Nat /\ Len(admitted) \in Nat
      /\ Len(order) = (IF Len(admitted) < Window THEN Len(admitted) ELSE Window)
  BY DEF MemoryInv, RecentAreSeen
<1>2. i <= d
  <2> SUFFICES ASSUME i > d PROVE FALSE
    BY <1>1
  <2>1. PICK k \in 1 .. Len(order) : d + k = i
    <3>1. i - d \in 1 .. Len(order) /\ d \in Int /\ i \in Int
      BY <1>1
    <3>2. \A m, n \in Int : m + (n - m) = n
      OBVIOUS
    <3> QED BY <3>1, <3>2
  <2>2. order[k] = admitted[d + k] /\ order[k] \in seen
    BY DEF MemoryInv, RecentAreSeen
  <2> QED BY <2>1, <2>2
<1> QED BY <1>1, <1>2

LEMMA AdmitKeepsNoReplay ==
  ASSUME MemoryInv, NEW id \in Ids, id \notin seen, admitted' = Append(admitted, id)
  PROVE  NoReplay'
PROOF
<1> USE WindowAssumption
<1>1. admitted \in Seq(Ids) /\ Len(admitted) \in Nat
  BY DEF MemoryInv, RecentAreSeen
<1>2. SUFFICES ASSUME NEW i \in 1 .. Len(admitted'), NEW j \in 1 .. Len(admitted'),
                      i < j, admitted'[i] = admitted'[j]
               PROVE  j - i > Window
  BY DEF NoReplay
<1>3. i \in 1 .. Len(admitted) /\ admitted'[i] = admitted[i]
  BY <1>1, <1>2
<1>4. CASE j = Len(admitted) + 1
  <2>1. admitted'[Len(admitted) + 1] = id
    BY <1>1
  <2>2. admitted[i] = id
    BY <1>2, <1>3, <1>4, <2>1
  <2>3. Len(admitted) + 1 - i > Window
    BY <1>3, <2>2, UnseenIsOld
  <2> QED BY <1>4, <2>3
<1>5. CASE j # Len(admitted) + 1
  <2>1. j \in 1 .. Len(admitted) /\ admitted'[j] = admitted[j]
    BY <1>1, <1>5
  <2> QED BY <1>2, <1>3, <2>1 DEF MemoryInv, NoReplay
<1> QED BY <1>4, <1>5

LEMMA RememberKeepsRecent ==
  ASSUME MemoryInv, NEW id \in Ids, id \notin seen, Remember(id), admitted' = Append(admitted, id)
  PROVE  RecentAreSeen'
PROOF
<1> USE WindowAssumption
<1>0. RecentAreSeen
  BY DEF MemoryInv
<1>1. /\ admitted \in Seq(Ids) /\ order \in Seq(Ids)
      /\ Len(admitted) \in Nat /\ Len(order) \in Nat
      /\ Len(order) = (IF Len(admitted) < Window THEN Len(admitted) ELSE Window)
  BY <1>0 DEF RecentAreSeen
<1>3. \A k \in 1 .. Len(order) : order[k] = admitted[Len(admitted) - Len(order) + k]
  BY <1>0 DEF RecentAreSeen
<1>4. seen = {order[k] : k \in 1 .. Len(order)}
  BY <1>0 DEF RecentAreSeen
<1>2. /\ admitted' \in Seq(Ids)
      /\ Len(admitted') = Len(admitted) + 1
      /\ admitted'[Len(admitted) + 1] = id
      /\ \A k \in 1 .. Len(admitted) : admitted'[k] = admitted[k]
  BY <1>1
<1>5. CASE Len(order) >= Window
  <2>1. order # <<>> /\ Len(order) = Window
    BY <1>1, <1>5
  <2>2. order' = Append(Tail(order), id) /\ seen' = (seen \ {Head(order)}) \cup {id}
    BY <1>5 DEF Remember
  <2>3. /\ order' \in Seq(Ids) /\ Len(order') = Window
        /\ order'[Window] = id
        /\ \A k \in 1 .. Window - 1 : order'[k] = order[k + 1]
    BY <1>1, <2>1, <2>2
  <2>4. ASSUME NEW k \in 1 .. Window
        PROVE  order'[k] = admitted'[Len(admitted') - Window + k]
    <3>1. CASE k = Window
      BY <1>1, <1>2, <2>3, <3>1
    <3>2. CASE k # Window
      <4>1. k \in 1 .. Window - 1 /\ k + 1 \in 1 .. Len(order)
        BY <2>1, <3>2
      <4>2. order'[k] = admitted[Len(admitted) - Len(order) + (k + 1)]
        BY <1>3, <2>3, <4>1
      <4>3. Len(admitted) - Len(order) + (k + 1) \in 1 .. Len(admitted)
        BY <1>1, <2>1, <4>1
      <4>4. Len(admitted) - Len(order) + (k + 1) = Len(admitted') - Window + k
        <5>1. \A l \in Nat : l - Window + (k + 1) = (l + 1) - Window + k
          BY <4>1
        <5> QED BY <1>1, <1>2, <2>1, <5>1
      <4> QED BY <1>2, <4>2, <4>3, <4>4
    <3> QED BY <3>1, <3>2
  <2>5. seen \ {Head(order)} = {order[k] : k \in 2 .. Window}
    <3>1. Head(order) = order[1]
      BY <1>1, <2>1
    <3>2. \A k \in 2 .. Window : order[k] # order[1]
      BY <2>1, OrderDistinct
    <3> QED BY <1>4, <2>1, <3>1, <3>2
  <2>6. {order[k] : k \in 2 .. Window} = {order'[k] : k \in 1 .. Window - 1}
    <3>1. ASSUME NEW k \in 2 .. Window PROVE order[k] \in {order'[l] : l \in 1 .. Window - 1}
      <4>1. k - 1 \in 1 .. Window - 1 /\ (k - 1) + 1 = k
        OBVIOUS
      <4>2. order'[k - 1] = order[k]
        BY <2>3, <4>1
      <4> QED BY <4>1, <4>2
    <3>2. ASSUME NEW k \in 1 .. Window - 1 PROVE order'[k] \in {order[l] : l \in 2 .. Window}
      <4>1. k + 1 \in 2 .. Window
        OBVIOUS
      <4> QED BY <2>3, <4>1
    <3> QED BY <3>1, <3>2
  <2>7. seen' = {order'[k] : k \in 1 .. Window}
    <3>1. 1 .. Window = (1 .. Window - 1) \cup {Window}
      OBVIOUS
    <3>2. {order'[k] : k \in 1 .. Window} = {order'[k] : k \in 1 .. Window - 1} \cup {id}
      BY <2>3, <3>1
    <3> QED BY <2>2, <2>5, <2>6, <3>2
  <2>8. Len(order') = (IF Len(admitted') < Window THEN Len(admitted') ELSE Window)
    BY <1>1, <1>2, <2>1, <2>3
  <2> QED BY <1>2, <2>3, <2>4, <2>7, <2>8 DEF RecentAreSeen
<1>6. CASE ~(Len(order) >= Window)
  <2>1. Len(order) = Len(admitted) /\ Len(order) < Window
    BY <1>1, <1>6
  <2>2. order' = Append(order, id) /\ seen' = seen \cup {id}
    BY <1>6 DEF Remember
  <2>3. /\ order' \in Seq(Ids) /\ Len(order') = Len(order) + 1
        /\ order'[Len(order) + 1] = id
        /\ \A k \in 1 .. Len(order) : order'[k] = order[k]
    BY <1>1, <2>2
  <2>4. ASSUME NEW k \in 1 .. Len(order')
        PROVE  order'[k] = admitted'[Len(admitted') - Len(order') + k]
    <3>1. Len(admitted') = Len(order') /\ Len(order') \in Nat
      BY <1>1, <1>2, <2>1, <2>3
    <3>2. Len(admitted') - Len(order') + k = k
      BY <3>1
    <3>3. order'[k] = admitted'[k]
      <4>1. CASE k = Len(order) + 1
        BY <1>2, <2>1, <2>3, <4>1
      <4>2. CASE k # Len(order) + 1
        <5>1. k \in 1 .. Len(order) /\ k \in 1 .. Len(admitted)
          BY <1>1, <2>1, <2>3, <4>2
        <5>2. Len(admitted) - Len(order) + k = k
          BY <1>1, <2>1, <5>1
        <5> QED BY <1>3, <1>2, <2>3, <5>1, <5>2
      <4> QED BY <4>1, <4>2
    <3> QED BY <3>2, <3>3
  <2>5. seen' = {order'[k] : k \in 1 .. Len(order')}
    <3>1. 1 .. Len(order') = (1 .. Len(order)) \cup {Len(order) + 1}
      BY <1>1, <2>3
    <3> QED BY <1>4, <2>2, <2>3, <3>1
  <2>6. Len(order') = (IF Len(admitted') < Window THEN Len(admitted') ELSE Window)
    BY <1>1, <1>2, <2>1, <2>3
  <2> QED BY <1>2, <2>3, <2>4, <2>5, <2>6 DEF RecentAreSeen
<1> QED BY <1>5, <1>6

LEMMA UnchangedMemory ==
  ASSUME MemoryInv, UNCHANGED memory
  PROVE  MemoryInv'
BY DEF MemoryInv, RecentAreSeen, NoReplay, memory

\* Only Admit and a new process touch the memory.
LEMMA NextMemory == MemoryInv /\ [Next]_vars => MemoryInv'
PROOF
<1> SUFFICES ASSUME MemoryInv, [Next]_vars PROVE MemoryInv'
  OBVIOUS
<1>1. ASSUME NEW c \in Calls, Duplicate(c) PROVE MemoryInv'
  BY <1>1, UnchangedMemory DEF Duplicate
<1>2. ASSUME NEW c \in Calls, Admit(c) PROVE MemoryInv'
  <2>1. CASE c.id = NoId
    BY <1>2, <2>1, UnchangedMemory DEF Admit
  <2>2. CASE c.id # NoId
    <3>1. c.id \notin seen /\ Remember(c.id) /\ admitted' = Append(admitted, c.id)
      BY <1>2, <2>2 DEF Admit
    <3>2. c.id \in Ids
      BY DEF Ids
    <3> QED BY <3>1, <3>2, AdmitKeepsNoReplay, RememberKeepsRecent DEF MemoryInv
  <2> QED BY <2>1, <2>2
<1>3. ASSUME NEW f, Boot(f) PROVE MemoryInv'
  <2>1. seen' = {} /\ order' = <<>> /\ admitted' = <<>>
    BY <1>3 DEF Boot
  <2> QED BY <2>1, WindowAssumption DEF MemoryInv, RecentAreSeen, NoReplay
<1>4. ASSUME Crash \/ PowerCut PROVE MemoryInv'
  BY <1>3, <1>4 DEF Crash, PowerCut
<1>5. ASSUME Query \/ SetAlarmThreshold \/ ConfigUpdate \/ WriteBack PROVE MemoryInv'
  BY <1>5, UnchangedMemory
  DEF Query, SetAlarmThreshold, ConfigUpdate, BackupFails, Backup, WriteTmp, WriteTmpFails,
      Rename, RenameFails, Notify, WriteBack
<1>6. ASSUME NEW d \in Downloads, StartDownload(d) \/ DownloadFails(d) \/ Report(d)
      PROVE  MemoryInv'
  BY <1>6, UnchangedMemory DEF StartDownload, DownloadFails, Report
<1>7. CASE UNCHANGED vars
  BY <1>7, UnchangedMemory DEF vars
<1> QED BY <1>1, <1>2, <1>4, <1>5, <1>6, <1>7 DEF Next

\* An identifier comes back only after Window others (RpcHandler.cpp 37-43), for
\* every size of the memory and any number of calls.
THEOREM NoReplayCorrect == Spec => []NoReplay
PROOF
<1>1. Init => MemoryInv
  BY EmptyMemory DEF Init
<1>2. MemoryInv => NoReplay
  BY DEF MemoryInv
<1> QED BY <1>1, <1>2, NextMemory, PTL DEF Spec

-----------------------------------------------------------------------------
(* Thresholds and the configuration file *)

JobOK == job = None \/ job \in [at : Methods \cup Steps, call : Calls]

\* Only a power cut leaves a file that is cut short.
FilesOK ==
  /\ cuts \in Nat
  /\ file = Torn => cuts > 0
  /\ durable = Torn => cuts > 0

\* What the call has written so far.
JobFiles ==
  /\ job.at = "rename" => tmp = job.call.args
  /\ job.at = "notify" => file = job.call.args

Agree ==
  \A k \in Keys \ volatile :
    thresholds[k] = IF IsConfig(file) /\ IsNumber(file[k]) THEN file[k] ELSE Default

\* Between the renaming and the notification memory may differ from the file.
ConfigInv == JobOK /\ FilesOK /\ JobFiles /\ (job.at # "notify" => Agree)

LEMMA CallArgs ==
  ASSUME NEW c \in Calls
  PROVE  /\ c.method \in Methods
         /\ c.args \in [Keys -> Values]
         /\ IsConfig(c.args) /\ c.args # Torn /\ c.args # NoFile
BY CallsAssumption, FilesAssumption DEF Methods, IsConfig

LEMMA JobCall ==
  ASSUME JobOK, job.at # "idle"
  PROVE  job \in [at : Methods \cup Steps, call : Calls] /\ job.call \in Calls
BY DEF JobOK, None

\* A process starts with what the file says, whatever the file is.
LEMMA BootKeeps ==
  ASSUME NEW f, Boot(f), FilesOK', file' = f
  PROVE  ConfigInv'
PROOF
<1>1. job' = None /\ volatile' = {} /\ thresholds' = LoadPersisted(f)
  BY DEF Boot
<1>2. JobOK' /\ JobFiles'
  BY <1>1 DEF JobOK, JobFiles, None
<1>3. ASSUME NEW k \in Keys
      PROVE  thresholds'[k] = IF IsConfig(f) /\ IsNumber(f[k]) THEN f[k] ELSE Default
  BY <1>1 DEF LoadPersisted, After
<1>4. Agree'
  BY <1>1, <1>3 DEF Agree
<1> QED BY <1>2, <1>4 DEF ConfigInv

\* A step that ends the call, or goes on with it, and changes neither memory nor file.
LEMMA QuietStep ==
  ASSUME ConfigInv, job.at # "notify", FilesOK', JobOK', JobFiles',
         UNCHANGED <<thresholds, volatile, file>>
  PROVE  ConfigInv'
BY DEF ConfigInv, Agree

LEMMA NextConfig == ConfigInv /\ [Next]_vars => ConfigInv'
PROOF
<1> SUFFICES ASSUME ConfigInv, [Next]_vars PROVE ConfigInv'
  OBVIOUS
<1> USE DEF disk, bounds, memory
<1>1. ASSUME NEW c \in Calls, Duplicate(c) PROVE ConfigInv'
  BY <1>1 DEF Duplicate, ConfigInv, JobOK, FilesOK, JobFiles, Agree
<1>2. ASSUME NEW c \in Calls, Admit(c) PROVE ConfigInv'
  <2>1. /\ job = None /\ job' = [at |-> c.method, call |-> c]
        /\ UNCHANGED <<thresholds, file, durable, tmp, volatile, cuts>>
    BY <1>2 DEF Admit
  <2>2. JobOK' /\ JobFiles' /\ job.at # "notify"
    BY <2>1, CallArgs DEF JobOK, JobFiles, Methods, None
  <2> QED BY <2>1, <2>2, QuietStep DEF ConfigInv, FilesOK
<1>3. ASSUME Query \/ BackupFails \/ RenameFails PROVE ConfigInv'
  <2>1. /\ job.at # "notify" /\ job' = None
        /\ UNCHANGED <<thresholds, file, durable, tmp, volatile, cuts>>
    BY <1>3 DEF Query, BackupFails, RenameFails, Done
  <2> QED BY <2>1, QuietStep DEF ConfigInv, JobOK, FilesOK, JobFiles, None
<1>4. ASSUME SetAlarmThreshold PROVE ConfigInv'
  <2>1. /\ job.at # "notify" /\ job' = None
        /\ thresholds' = [k \in Keys |-> IF k \in Applied(job.call) THEN Text(job.call, k)
                                         ELSE thresholds[k]]
        /\ volatile' = volatile \cup Applied(job.call)
        /\ UNCHANGED <<file, durable, tmp, cuts>>
    BY <1>4 DEF SetAlarmThreshold, Done
  <2>2. \A k \in Keys \ volatile' : thresholds'[k] = thresholds[k] /\ k \in Keys \ volatile
    BY <2>1
  <2>3. Agree'
    BY <2>1, <2>2 DEF ConfigInv, Agree
  <2> QED BY <2>1, <2>3 DEF ConfigInv, JobOK, FilesOK, JobFiles, None
<1>5. ASSUME Backup PROVE ConfigInv'
  <2>1. /\ job.at = "config_update" /\ job' = [job EXCEPT !.at = "write"]
        /\ UNCHANGED <<thresholds, file, durable, tmp, volatile, cuts>>
    BY <1>5 DEF Backup
  <2>2. JobOK' /\ JobFiles'
    BY <2>1, JobCall DEF ConfigInv, JobOK, JobFiles, Steps
  <2> QED BY <2>1, <2>2, QuietStep DEF ConfigInv, FilesOK
<1>6. ASSUME WriteTmp PROVE ConfigInv'
  <2>1. /\ job.at = "write" /\ job' = [job EXCEPT !.at = "rename"] /\ tmp' = job.call.args
        /\ UNCHANGED <<thresholds, file, durable, volatile, cuts>>
    BY <1>6 DEF WriteTmp
  <2>2. JobOK' /\ JobFiles'
    BY <2>1, JobCall DEF ConfigInv, JobOK, JobFiles, Steps
  <2> QED BY <2>1, <2>2, QuietStep DEF ConfigInv, FilesOK
<1>7. ASSUME WriteTmpFails PROVE ConfigInv'
  <2>1. /\ job.at = "write" /\ job' = None
        /\ UNCHANGED <<thresholds, file, durable, volatile, cuts>>
    BY <1>7 DEF WriteTmpFails, Done
  <2> QED BY <2>1, QuietStep DEF ConfigInv, JobOK, FilesOK, JobFiles, None
<1>8. ASSUME Rename PROVE ConfigInv'
  <2>1. /\ job.at = "rename" /\ job' = [job EXCEPT !.at = "notify"] /\ file' = tmp
        /\ UNCHANGED <<durable, cuts>>
    BY <1>8 DEF Rename
  <2>2. job \in [at : Methods \cup Steps, call : Calls] /\ job.call \in Calls
    BY <2>1, JobCall DEF ConfigInv
  <2>3. JobOK' /\ job'.at = "notify" /\ job'.call = job.call
    BY <2>1, <2>2 DEF JobOK, Steps
  <2>4. file' = job.call.args
    BY <2>1 DEF ConfigInv, JobFiles
  <2>5. file' # Torn
    BY <2>2, <2>4, CallArgs
  <2> QED BY <2>1, <2>3, <2>4, <2>5 DEF ConfigInv, FilesOK, JobFiles
<1>9. ASSUME Notify PROVE ConfigInv'
  <2>1. /\ job.at = "notify" /\ job' = None
        /\ thresholds' = After(job.call.args, thresholds)
        /\ volatile' = {k \in Keys : ~IsNumber(job.call.args[k])}
        /\ UNCHANGED <<file, durable, tmp, cuts>>
    BY <1>9 DEF Notify, Done
  <2>2. file = job.call.args /\ IsConfig(file)
    BY <2>1, JobCall, CallArgs DEF ConfigInv, JobFiles
  <2>3. \A k \in Keys \ volatile' : IsNumber(file[k]) /\ thresholds'[k] = file[k]
    BY <2>1, <2>2 DEF After
  <2>4. Agree'
    BY <2>1, <2>2, <2>3 DEF Agree
  <2> QED BY <2>1, <2>4 DEF ConfigInv, JobOK, FilesOK, JobFiles, None
<1>10. ASSUME NEW d \in Downloads, StartDownload(d) PROVE ConfigInv'
  <2>1. /\ job.at # "notify" /\ job' = None
        /\ UNCHANGED <<thresholds, file, durable, tmp, volatile, cuts>>
    BY <1>10 DEF StartDownload, Done
  <2> QED BY <2>1, QuietStep DEF ConfigInv, JobOK, FilesOK, JobFiles, None
<1>11. ASSUME NEW d \in Downloads, DownloadFails(d) \/ Report(d) PROVE ConfigInv'
  BY <1>11 DEF DownloadFails, Report, ConfigInv, JobOK, FilesOK, JobFiles, Agree
<1>12. ASSUME Crash PROVE ConfigInv'
  <2>1. Boot(file) /\ UNCHANGED <<durable, cuts>> /\ file' = file
    BY <1>12 DEF Crash, Boot
  <2>2. FilesOK'
    BY <2>1 DEF ConfigInv, FilesOK
  <2> QED BY <2>1, <2>2, BootKeeps
<1>13. ASSUME PowerCut PROVE ConfigInv'
  <2>1. cuts' = cuts + 1
    BY <1>13 DEF PowerCut
  <2>2. PICK f : Boot(f) /\ file' = f
    BY <1>13 DEF PowerCut, Boot
  <2>3. FilesOK'
    BY <2>1 DEF ConfigInv, FilesOK
  <2> QED BY <2>2, <2>3, BootKeeps
<1>14. ASSUME WriteBack PROVE ConfigInv'
  BY <1>14 DEF WriteBack, ConfigInv, JobOK, FilesOK, JobFiles, Agree
<1>15. CASE UNCHANGED vars
  BY <1>15 DEF vars, ConfigInv, JobOK, FilesOK, JobFiles, Agree
<1> QED
  BY <1>1, <1>2, <1>3, <1>4, <1>5, <1>6, <1>7, <1>8, <1>9, <1>10, <1>11, <1>12, <1>13,
     <1>14, <1>15 DEF Next, ConfigUpdate

LEMMA InitConfig == Init => ConfigInv
PROOF
<1> SUFFICES ASSUME Init PROVE ConfigInv
  OBVIOUS
<1>1. JobOK /\ FilesOK /\ JobFiles
  BY FilesAssumption DEF Init, JobOK, FilesOK, JobFiles, None
<1>2. ~IsConfig(file)
  BY FilesAssumption DEF Init, IsConfig
<1>3. Agree
  BY <1>2 DEF Init, Agree
<1> QED BY <1>1, <1>3 DEF ConfigInv

\* No crash and no failing step leaves a file that is cut short; the power may
\* (ConfigManager.cpp 118-138).
THEOREM FileIsWholeCorrect == Spec => []FileIsWhole
PROOF
<1>1. ConfigInv => FileIsWhole
  BY DEF ConfigInv, FilesOK, FileIsWhole
<1> QED BY <1>1, InitConfig, NextConfig, PTL DEF Spec

\* Between two calls memory and file agree on every threshold that the last call to
\* touch it keeps, whatever failed (ConfigManager.cpp 142-187, 220-230).
THEOREM MemoryIsPersistedCorrect == Spec => []MemoryIsPersisted
PROOF
<1>1. ConfigInv => MemoryIsPersisted
  BY DEF ConfigInv, Agree, MemoryIsPersisted, None
<1> QED BY <1>1, InitConfig, NextConfig, PTL DEF Spec
=============================================================================
