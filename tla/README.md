# A verification project for aiot-edge-gateway

TLA+ models of the concurrent core of the gateway, the TLC runs that check them on
small instances, and TLAPS proofs of the parts that can be proved for every size.
Paths are relative to `src/`; the design document is `方案设计.md` where a line
of it is quoted. `PROJECT.json` maps every definition to the lines it models.

## 1. The system

Five processes on one board, started and restarted by the watchdog:

| process | what it is | threads that matter here |
|---|---|---|
| `gateway_access` (A) | Modbus drivers; sends sensor records to the core | one per driver, epoll main loop |
| `gateway_core` (B) | the hub: sockets, SQLite, MQTT, OTA, shared memory | event loop, DB writer, HTTP, MQTT callbacks, OTA and flush threads (detached) |
| `gateway_monitor` (C) | Qt window | Qt loop |
| `gateway_watchdog` (D) | starts, reaps, restarts the others | one |
| `gateway_engine` (E) | video inference on the NPU | scheduler, heartbeat, one per pipeline stage |

A, C and E talk to B over `AF_UNIX` `SOCK_SEQPACKET` sockets, one `InternalMessage` per
datagram; B publishes a status block in System V shared memory that C and B's own HTTP
thread read; B talks to the cloud by MQTT.

### 1.1 Inventory

| component | state it keeps | operations | what is hard | what makes it correct |
|---|---|---|---|---|
| `SpscQueue` | ring, two atomic cursors | push, pop, size | plain copies between acquire/release cursors, wrap | FIFO, no slot shared, size exact, refuses only when full |
| `ShmPublisher`, `ShmReader` | two buffers, two sequence numbers, index | publish, read, clearing constructor | lock-free readers in other processes, restart of the writer, store order | a block torn only as store order and clearing can, no old block, fresh in the end |
| `FramePool` | free list, head | get_frame, release | lock-free stack, ABA, release from any thread | one owner per buffer, nothing leaks |
| `Pipeline`, stages, `PipelineQueue` | four threads, three bounded queues and the frames their cells refer to, two mutexes, model context | start, stop, switch_model, run of each stage | blocking pushes, join while holding a mutex, model load failing, cells that keep what was popped | commands return, inference goes on, no stage meets a frame of a destroyed pool |
| `AnalysisScheduler` | connection to the core | start, stop, switch, reconnect | reply fields, end of its thread | obeys the last command |
| `DbWriter` | ring, eventfd, batch, transaction | start, push, stop, loop, flush_batch | lost wake-ups, failed statements, stop against push, crash | each record stored once in order or accounted for |
| `EventLoop` and the callbacks of `main.cpp` | client and monitor descriptors, cached engine and access descriptors | accept, read, hang-up, forward, send command | edge-triggered epoll, descriptor reuse, stale events in a batch | sets match the open descriptors, no lost edge, no wrong peer closed or addressed |
| `OfflineStore`, `MqttClient` | SQLite cache, connection flags, subscriptions | insert, flush, connect, publish, subscribe | concurrent flushes, connection lost between test and use, reconnect | at least once, order within a priority |
| `RpcHandler` | seen identifiers | dispatch | duplicates, eviction | at most once within the window |
| `ConfigManager` | file, backup, listeners | handle_config_update, load_persisted | crash and rejection between steps | file is old or new, never half |
| `OtaManager`, `EngineManager` | pending update, engine table | update thread, ack, nack, heartbeat, timeout | threads of concurrent updates, late answers | an update that is acknowledged can succeed |
| `EventFusion`, `RuleEngine` | windows, cooldowns | feed, match | time windows | one alarm per cooldown |
| watchdog | pids, restart times, cooldowns | start, wait_ready, reap, restart, shut down | zombies, ready files, fork failure, cooldown | every dead child is started again, limits hold |
| access `main`, Modbus drivers | message queue, eventfd, timeouts | poll, bridge, suspend, revive | core gone, slow device | order kept, device revived |
| monitor window, alarm query | `last_alarm_id_`, the rows of the table | query every 2 s, answer to all windows, append, trim | answers to other windows, overlapping questions, full socket buffers, core restarting | every alarm shown, once, the latest not trimmed |
| `InternalMessage`, `RingBuffer`, `Config`, `Logger`, `Sha256`, `DriverLoader`, `HttpDashboard`, other Qt widgets | – | pure or I/O | – | – |

## 2. What is modelled

| module | code | state | actions |
|---|---|---|---|
| `BoundedFifo` | what `SpscQueue` promises | histories of what was accepted and handed out | `Enqueue`, `Dequeue` |
| `SpscQueue` | `common/SpscQueue.h` | ring, cursors, program counters of the two threads, histories | push and pop split at each shared access |
| `ShmSeqlock` | `ShmPublisher.cpp`, `ShmReader.cpp`, `ShmLayout.h` | buffers word by word, sequence numbers, index, local variables of the readers | each store and load; crash, restart and the memset of the constructor |
| `FramePool` | `pipeline/FramePool.cpp` | `free_head_`, `free_list_`, local variables, references, history `chain` | get_frame and release split at each shared access |
| `Pipeline` | `Pipeline.cpp`, `PipelineQueue.h`, `stages/*`, `AnalysisScheduler.cpp` | where each thread is, the frame in its hands, the frames that wait in each queue and those that its cells still refer to, `ctx_`, both mutexes | each step of a stage, of start, stop and switch_model |
| `DbWriter` | `DbWriter.cpp` | the ring (an instance of `BoundedFifo`), eventfd, batch, open transaction, table | push, notify, the rounds of the thread, each SQL statement, failure, crash |
| `Watchdog` | `gateway_watchdog/main.cpp`, the children | what the kernel knows of each child, `g_children` and its companions, timers as time left or passed, where main() is | fork, unlink and polls of the ready file, reaping, backoff, cooldown, signal, shutdown; children get ready and die |
| `OfflineStore` | `OfflineStore.cpp`, `MqttClient.cpp`, their use in `gateway_core/main.cpp` | flags of the client and the library's session, the table, the SELECT each flush thread walks through, whether its snapshot is stale | the library's callbacks, connect, subscribe, wake-up in five steps, the test and the use of the connection for each record, select, publish and delete of each row, commits of `DbWriter`, crash |
| `AccessBridge` | `gateway_access/main.cpp`, `ModbusRtuDriver.cpp`, `ModbusTcpDriver.cpp`, `ModbusRtu.cpp` | where each driver is, its flags, the port and whether it is raw, the receive buffer and what the device has sent, queue, eventfd, batch | each outcome of a poll, suspension, revival, cutting of frames, reconnection, hand-over in two steps, the main loop, commands, stop |
| `EventLoop` | `EventLoop.cpp`, the UDS parts of `gateway_core/main.cpp`, the peers | sockets, descriptor numbers, ready list, the batch epoll_wait returned, cached descriptors | connect, send, close of the peers; each step of the loop; the remote calls |
| `CoreCommands` | `RpcHandler.cpp`, `ConfigManager.cpp`, the start of `OtaManager.cpp`, the thresholds in `gateway_core/main.cpp` | seen identifiers in order, the thresholds in memory, the configuration file and what of it would survive the power, the temporary file, the download threads | admission or refusal of a call, each handler, each step of an update with its failure, start of the process after a crash or a power cut |
| `AlarmHistory` | the alarm query of `gateway_core/main.cpp`, `send_to_monitor()`, `MonitorWindow.cpp`, `AlarmTableWidget.cpp` | rows of `alarm_log`, questions and answers on the sockets, `last_alarm_id_` and the table of each window | commit, question, answer to all, reading of an answer with append and trim, start and end of windows and of the core |

How they fit: `SpscQueue` is shown to implement `BoundedFifo` (refinement, checked and proved),
and `DbWriter` is written over `BoundedFifo`, so that what holds of the thread holds with the
ring under it. `Pipeline` has whole pushes and pops, whose single steps are `SpscQueue`'s, and
takes and returns frames at once, which is `FramePool`'s. `OfflineStore` meets `DbWriter` in
one place, the commits that make its snapshot stale (`OtherCommit`), and so does
`AlarmHistory`, whose rows these commits are (`Commit`) and whose broadcast is the whole of
`ForwardToMonitors` of `EventLoop` without its descriptors; `CoreCommands` holds the calls that
`EventLoop` and `OfflineStore` leave out; `AccessBridge` is the inside of the access peer of
`EventLoop`. Crashes in `ShmSeqlock` and `DbWriter` and lives of a peer in `EventLoop` stand
for what `Watchdog` does.

The `MC` modules hold nothing but the bounds and why. Two of them put components on one bench,
each of which runs on its own (the variable `part` says which, from the first state on):
`MCEngine` has `SpscQueue`, `FramePool` and `Pipeline`, `MCQueues` has `AccessBridge` and
`DbWriter`. The other modules have an `MC` module of their own name; `MCRingCells.cfg` and
`MCStopHangs.cfg` are configurations of `Pipeline` itself. An operator commented "Variant with
a bug" is not used by any action: it is a plausible mistake in the code, which one of the
properties finds when it replaces the definition after it.

### What the steps abstract

* `SpscQueue`: acquire/release on the cursors makes the plain copy visible with the
  cursor, so the copy is a step of its own between the check and the publication of the
  cursor. A push refused and a pop of an empty queue change nothing but the answer.
* `ShmSeqlock`: a block is a few words, a word is the number of the publication that wrote
  it. `seq` is a natural number; the `uint32_t` would have to go round within one read.
  The target is an AArch64 RK3588 (`方案设计.md:575-585`). A release store keeps what is in
  front of it in front, and lets plain stores behind it pass: a word of the block may be
  seen before the odd number (`ShmPublisher.cpp:57-58`). The model lets words and odd number
  come in any order, always; program order, as on x86, is one of the orders it has. The
  release stores of lines 59 and 62 come after all words, and two publications do not
  overlap.
* `FramePool`: the counter `frames` is the reference count of the shared_ptr.
* `Pipeline`: GStreamer, RGA and RKNN calls return, with any outcome. A pull that is
  blocked in `gst_app_sink_pull_sample` for ever (`CaptureStage.cpp:103`) would block
  `stop()`: that a stage which was told to stop gets out of it is an assumption. That samples
  arrive is none: the capture stage may rebuild its pipeline and try again for ever
  (`CaptureStage.cpp:94-98`, `104-112`). No GMainLoop runs, so the handlers of the bus are
  never called: an end of the stream is seen as a pull that returns NULL. A frame is known by
  its rank in age among those in use, for nothing depends on which buffer it is.
* `DbWriter`: SQLite is external. A statement fails or not; a COMMIT that fails leaves the
  transaction open or rolled back, both of which SQLite documents.
* `EventLoop`: the kernel gives the lowest free descriptor, reports a descriptor once
  per edge, those of one `epoll_wait()` in any order, and an event carries hang-up if the
  peer has closed when it is reported. A peer closing with unread data gives ECONNRESET. A write to
  a dead peer fails; that the core survives it is an assumption, for `main.cpp:176`
  ignores SIGPIPE only where `signalfd` failed; that a socket buffer is never full (EAGAIN)
  is another, which `AlarmHistory` does not make. Registration of the listeners is over before the
  first event. The process has a descriptor for every peer (`FdAssumption`): with none left,
  `accept_connection()` returns on EMFILE (`EventLoop.cpp:74-77`) and leaves connections
  waiting for which no edge comes again, so `NoMissedEdge` and `PeersAreReaped` hold below
  that limit only.

* `OfflineStore`: the Paho library is external. It completes the connect token before the
  connected callback, runs callbacks one at a time, fails a pending publish when the session
  ends, and does not reconnect (nothing asks it to). SQLite is external too: one connection for
  all threads of the store, whose read transaction lasts while any SELECT is open. Under it a
  write is refused at once, without the busy timeout: with SQLITE_BUSY while `DbWriter`'s
  transaction is open, with SQLITE_BUSY_SNAPSHOT once that has committed. For the store the two
  are one refusal, which may come whenever a SELECT is open (`DeleteBusy`, `InsertBusy`).
  Topics and payloads are the record.
* `AccessBridge`: a serial poll answers or does not (`decode_response` with its CRC). A
  response over TCP is a head and a tail, which `read()` may cut; what stands where a
  header should be may look like one or not. Waiting times are steps that may come at any
  moment. The UDS write returns, having succeeded or being logged: either way the message
  leaves the batch. A serial port is raw or not (`raw`, any set of them): `open_serial()` sets
  VMIN and VTIME and leaves ICANON as it finds it (`ModbusRtuDriver.cpp:46-55`), and in
  canonical mode, the default of a tty, a `read()` takes no notice of either. Its timeout
  (the comment in line 53) is that of a port something else has made raw, as `socat` does
  in `start_gateway.sh`; on any other, a silent device holds the driver in line 149.
* `Watchdog`: one unit of time is one turn of a polling loop, and the clock is truncated to
  nothing: only how long ago and how long still. The kernel gives `waitpid(-1)` the oldest
  dead child, as Linux does; with any order a child that dies quickly could keep another
  waiting. A second signal only ends one more sleep early and is left out; so is a new
  watchdog that systemd starts, which begins with no children.

* `CoreCommands`: a call is what the parsers can tell apart (`Text`, `ExtractStr` and
  `extract_value` are modelled by what they find, not as the value that was meant).
  Registration of the methods is over before the first call. The file system is external:
  a process that dies loses nothing it wrote, a power cut leaves the last file known to be
  durable, the new one, or one cut short, because the code calls no `fsync`. Numbers are
  members of a set, of which `set_alarm_threshold` takes some and `std::stof` all.
* `AlarmHistory`: an `int` does not run out of alarms. A window is one life of the
  monitor; each starts with an empty table. The rows of an answer are read by SQLite in one
  statement, hence at once. A question is never lost: it is a few bytes. An answer that does
  not fit is dropped for that window only. `MaxAsked` bounds the questions in flight.

## 3. The runs

| run | instance | properties |
|---|---|---|
| `engine` | the ring: 3 slots, 2 items, 5 pushes, so that the cursors wrap and the ring fills | `NoSlotRace`; `ImplementsFifo` (refinement) |
| | the pool: 3 slots, 1 allocator, 2 releasers | `OnePlace`; `ListIsChain`; `NothingLeaks` |
| | the pipeline: queues of 1, 5 frames (one more than two rings keep), loads may fail, any sequence of commands | `NoDanglingFrame`; `CommandsReturn`; `StreamMeansInference` |
| `shm_seqlock` | 1 reader, 2 words stored in any order, 4 publications, or 3 and a crash, 2 attempts | `TornByNextOnly`; `NotStale`; `GoesBackByOneAtMost`; `EventuallyFresh` |
| `queues` | the writer: ring of 3, batches of 2, 5 records, 1 crash, failing SQL | `InOrderOnce`; `NoneForgotten`; `StopDrains`; `EventuallyStored` |
| | the bridge: a serial driver on a raw port or another, a TCP driver that is added, 2 timeouts, 2 answers each | `SerialConsistent`; `MixedNeedsLeftover`; `QueueDrains`; `StopCompletes` |
| `event_loop` | an engine and two monitors, 3 descriptors, 2, 1 and no messages, every call | `FdsTracked`; `NoMissedEdge`; `StaleEventsNeedMonitors`; `MisdirectionNeedsDrop`; `PeersAreReaped` |
| `watchdog` | the core and one dependent, 3 restarts in 6 units, cooldown of 7, ready within 2, fork may fail | `TableIsExact`; `RestartLimit`; `EventuallyStarted`; `ShutdownCompletes` |
| `offline_store` | an alarm and two periodic records, 2 flush threads, 1 remote call, 2 crashes | `LossHasCause`; `AlarmsFirst`; `DuplicatesHaveCause`; `BacklogDrains` |
| `core_commands` | 3 identifiers over a memory of 2, 8 calls (thresholds one, both, out of range, no number; an update), 5 calls in a behaviour, 2 ends of the process | `NoReplay`; `FileIsWhole`; `MemoryIsPersisted` |
| `alarm_history` | 2 windows, 3 alarms in transactions of up to 3, answers and tables of 2 rows, room for 1 answer, any number of ends of the core | `OwnAnswersLeaveNoGap`; `DuplicatesHaveCause`; `LatestIsShown`; `AlarmsArrive` |
| `acked_calls` | `CoreCommands`, the calls of the documents | `AckedIsDone`, violated |
| `shm_torn` | as `shm_seqlock`, no crash | `NeverTorn`, violated |
| `ring_cells` | `Pipeline`, queues of 1 | `NoDanglingCell`, violated |
| `stop_hangs` | `Pipeline`, queues of 1, a first load that fails | `StopReturns`, violated |

`TypeOK` of every module holds on the same instances. It is no property of a run, for a
run should ask what could be wrong; for the ring, the status block, the pool, the pipeline,
the watchdog, the loop, the store and the bridge it is proved (section 4).

What they show is said at each property. The bounds are small because each hazard needs
few actors: a torn read one reader and two words, ABA three slots, a full chain of queues
one item each, a duplicate two flushes, a mixed frame two answers. A stale event that meets
a live peer takes three connections: a monitor that died is closed by a write while its own
event waits in the batch, and an event between the two gives its number to another. The run
reaches that (an invariant that nothing is cut off is violated in it); with two connections
`StaleEventsNeedMonitors` would say nothing. One reader is enough for the
shared block because readers change nothing that anyone else sees.

`RestartLimit` was also checked, outside the runs, with one process and the numbers of the
code (5 in 30, ready within 10, cooldown 60): it holds and is tight.

Four runs find disagreements between the code and what its documents and comments say; the
five are the findings of `PROJECT.json`. Two are of `acked_calls`:

* the call of the acceptance test (`方案设计.md:494`) has a number without quotation marks,
  which `extract_json_str` cannot find: it answers ACK and changes nothing
  (`main.cpp:222`). With an identifier behind it, as `tools/pressure_test.py:74` sends it,
  the parser finds the word `id` instead and the answer is NACK;
* `extract_str` takes the colon between key and value for the value: every model update is
  acknowledged and fails (`OtaManager.cpp:126`). TLC finds it with the threshold calls
  taken out of `MCServedCalls`.

The other three have a run each:

* `shm_torn`: a reader looks at the number, copies, and looks again; both times it sees the
  old even number, because the core's odd one is still on its way, and the copy has words of
  the new block that overtook it (`ShmPublisher.cpp:57`). The design promises the opposite
  (`方案设计.md:411`, `474`). A fence behind the odd store would hold the words back. How far
  the damage goes is the property of the passing run: `TornByNextOnly` says that what is
  accepted mixes the block it should be with words of the next publication of that buffer
  only, or meets a clearing.
* `ring_cells`: `pop()` leaves a reference to the frame in its cell (`SpscQueue.h:38`).
  Emptying the queues in `stop()` and `start()` (`Pipeline.cpp:31-41`, `70`) hence releases no
  frame that was popped: the cells refer to frames of the pool that `start()` then destroys,
  and the push that comes round to such a cell runs the frame's deleter on it. No stage ever
  works on one (`NoDanglingFrame`, proved). The same cells keep frames from the pool while the
  stream runs: up to 16 in the two rings of frames, of 18 in the pool (`pipeline/types.h:50`); in the
  run 4 of 5. That is enough for `StreamMeansInference`. A pool no larger than the 8 cells of
  one ring would run dry, as the 6 of `tests/test_PipelineFps.cpp:10` would if that test
  streamed.
* `stop_hangs`: after a failed first load the inference thread sleeps until it is told to stop,
  the queues before it fill up, and `stop()` waits for ever for a stage that waits for room
  (`PipelineQueue.h:25`), with `stage_mutex_` held, so that the heartbeat's `set_throttle()`
  waits too. `CommandsReturn` says that nothing else keeps a start or a stop from returning
  (`StuckBehindSleep` is that state exactly).

One more configuration is kept beside the runs, which TLC finds violated:

* `MCOfflineStoreBusy.cfg`, `NoneRefused`: a record offered to `insert()` while a flush reads
  and `DbWriter` writes or has committed is refused and gone (`OfflineStore.cpp:46`, against
  the comment in line 12); a row whose DELETE meets the same is sent again by the next flush
  (`DeleteBusy`, one of the causes in `DuplicatesHaveCause`).

Seven more points are stated as what is left of the promise, each found by TLC when the condition
is taken away:

* a stale hang-up event closes the connection of a new client (`EventLoop.cpp:297`):
  `StaleEventsNeedMonitors` says that it needs a monitor that went;
* a message delivered after its connection was closed inside `handle_client_data()`, or
  the branch that closes without the disconnect callback, leaves a dead descriptor
  remembered, and a monitor gets the next command, against `main.cpp:40`
  (`EventLoop.cpp:157`, `169`): `MisdirectionNeedsDrop` says that nothing else does it;
* two responses are joined to one message with values of both when `write()` fails with
  part of a frame in `recv_buf_` (`ModbusTcpDriver.cpp:100`, the only reconnection that
  does not clear it): `MixedNeedsLeftover`;
* a record is lost when the session ends between `is_connected()` and `publish()`, when
  `insert()` is refused, or with the process (`main.cpp:791`, `OfflineStore.cpp:46`):
  `LossHasCause` says that nothing else loses one;
* an answer to another window's question makes a window skip every alarm before it for
  good, for example the first answer a new window reads while another is open
  (`EventLoop.cpp:289`, `MonitorWindow.cpp:310`); and of more than 500 alarms since the last
  question the oldest are never shown: `OwnAnswersLeaveNoGap` says that nothing else does;
* an alarm is shown twice when such an answer or two questions in flight bring it twice
  (`MonitorWindow.cpp:256`): `DuplicatesHaveCause` of `AlarmHistory`;
* the branch that starts a dead core before its dependent cannot be taken
  (`gateway_watchdog/main.cpp:240`): its flag is false only between the reaping of the core
  and the end of the same turn, by when the slot holds 0, -1 or a new pid
  (`CoreKnownDead` of `Watchdog` is the condition as it stands; `CoreIsStartedForItself`
  proves that it is never true there).

Met while modelling, visible in the models, but not kept as runs: after a failed first load a
successful switch loads a model that nobody runs (`InferenceStage.cpp:203`, the exception in
`StreamMeansInference`), though the comment in line 202 has the loop wait for it; a connection
that ends with ECONNRESET is closed without the disconnect callback, so an engine that comes
back under the same descriptor number is not told to resume (`EventLoop.cpp:169`,
`main.cpp:602`); a restart or a retry whose `fork()` fails leaves -1 in its slot and is never
tried again, although `gateway_watchdog/main.cpp:214` says another cooldown follows and line
257 that the process is not given up (the exception in `EventuallyStarted`); a publisher that
is quicker than a reader four times in a row starves it for that call (`ShmReader.cpp:46`,
`EventuallyFresh` speaks of a publisher that pauses); the signal handler may signal a pid that
was reaped, during a backoff (the exception in `TableIsExact`); the memset of a restarted core
makes half-cleared blocks readable, and a core that dies in it leaves them so until the next
one (`ShmPublisher.cpp:30`, an exception in `TornByNextOnly`); a reader may get a block just
before its index switch (the one step of `GoesBackByOneAtMost`); `has_new_data()` misses an
even number of publications (`ShmReader.cpp:74`, no caller outside its test); two allocating
threads make `FramePool` lose slots by ABA (`Allocators = {a1, a2}` breaks `NothingLeaks`; the
pipeline has one allocator, `tests/test_FramePool.cpp:77` has four); `init_rknn` of the first
load runs without `model_mutex_` (`InferenceStage.cpp:200`); `stop()` throws away what is
queued where `方案设计.md:183` says the stages finish it; one read of the eventfd takes the
wake-ups of several full batches (`DbWriter.cpp:117`), so a full batch can wait 100 ms; the
reply to a model switch has an uninitialized `source_type` (`AnalysisScheduler.cpp:81`), and if
that reads as the access process's the core remembers the engine's connection for commands to
it, which no property forbids; the hang-up branch closes without reading what the peer sent
last (`EventLoop.cpp:206`); when a COMMIT fails and leaves its transaction open, every later
BEGIN fails and the tables get nothing more until a restart (`DbWriter.cpp:207`, the last case
of `EventuallyStored`); `main.cpp:327` connects to the broker once and never again, so a
session that ends or never began stays ended, where `方案设计.md:317` has it reconnect
(`ConnectFails`, `LinkBreaks`); the connect token may complete before the connected callback
has run, and then `subscribe()` records nothing and the session never gets a command
(`MqttClient.cpp:140`, `main.cpp:329`: `Subscribe` before `Connected`); a record tested with
`is_connected()` and published just after the session ended is neither sent nor stored
(`main.cpp:791`).

The same for the parts of this core that carry calls and alarms: a configuration whose
watchers refuse a value is on disk nevertheless and applies, as far as it can, at the next
start (`ConfigManager.cpp:223-230`); its values are not checked against the ranges of
`set_alarm_threshold` (`main.cpp:191-198`); a threshold it no longer names stays in memory
until then, and one set by `set_alarm_threshold` is gone then (`volatile` in
`MemoryIsPersisted`); a power cut after `rename()` may leave a file that `load_persisted()`
skips, which no one restores from the backup (`FileIsWhole`); the retry of a call that
failed is refused as a duplicate (`RpcHandler.cpp:33-43`), and a restart forgets all
identifiers; answers to remote calls are only logged (`main.cpp:337`). Within one answer the
oldest alarm comes to stand at the top, against the comments `最新在前`
(`AlarmTableWidget.cpp:112`, `121`), so that the table, when it is trimmed, loses newer rows
of an older answer first; a window does not connect again after the core has restarted
(`MonitorWindow.cpp:316-325`).

### Fairness

* `SpscQueue`: none; only safety is checked.
* `ShmSeqlock`: weak fairness of publish and constructor once entered (they do not block;
  nothing makes the core publish or crash) and of the readers, which read on a timer.
* `Pipeline`: weak fairness of every stage thread and of the scheduler within a command; none
  of the commands. What is fair of a stage is what it does without waiting for a sample
  (`Advance`). That samples arrive is the premise of `StreamMeansInference`
  (`WF_pipeVars(CapturePull)`), which is where the camera comes in, and no other property has
  it. `std::mutex` promises no fairness: of `switch_model()` `CommandsReturn` says only that
  the mutex it waits for comes free again and again, so it may be overtaken and is never in a
  deadlock.
* `DbWriter`: weak fairness of the thread; `poll()` returns after 100 ms at the latest,
  so a wake-up does not depend on the eventfd. Nothing makes the loop push or stop.
* `Watchdog`: weak fairness of its one thread, whose sleeps end. Children need not get
  ready, die or obey a signal.
* `OfflineStore`: none. `BacklogDrains` is an invariant of the states in which nothing is
  under way, which says the same without any.
* `CoreCommands`: none.
* `AlarmHistory`: weak fairness of the timer of each window, of its reading and of the
  core's answers; and a link with fair loss (`FairLoss`): of the answers that are sent again
  and again some find room. An answer beyond the size of the socket's buffer (some 200 KiB,
  at 500 rows of more than 400 bytes) would never fit; alarms are shorter. Commits, the ends
  of windows and of the core and its restart are not fair.
* `AccessBridge`: weak fairness of the main thread and of what a driver does without its
  device, including the end of `reconnect()` once it is told to stop. No device answers,
  no port opens and no connection succeeds by fairness, and the `read()` of a silent device
  ends on a raw port only. On any other, `stop()` may wait in its join for ever
  (`ModbusRtuDriver.cpp:88-92`): `StopCompletes` names that as the one case.
* `EventLoop`: weak fairness of the loop. Peers and remote calls are not fair.

## 4. What is proved

Every safety invariant the runs check, the action property of the status block and the
refinement of the ring are proved by TLAPS for every value of the constants. The proofs are
in `SpscQueueProofs`, `FramePoolProofs`, `ShmSeqlockProofs`, `DbWriterProofs`,
`EventLoopProofs`, `OfflineStoreProofs`, `CoreCommandsProofs` and `AlarmHistoryProofs`. Three
of them extend the module of a second component too and hold the proofs about both:
`FramePoolProofs` those of `Pipeline`, `SpscQueueProofs` those of `AccessBridge`,
`ShmSeqlockProofs` those of `Watchdog`; so these three modules, and `FramePool`, which is
checked with two others, name their specifications `PipeSpec`, `BridgeSpec`, `DogSpec` and
`PoolSpec`, and their other common definitions alike. The
theorems rest on the named ASSUMEs of the modules; where one needs more it says so in its
statement (one allocator for the pool).

* Ring, any capacity of at least two (`CapacityAssumption`) and any items: types, FIFO,
  exclusive slots, exact size, refusal only when full, refinement of `BoundedFifo`. The
  cursors alone say nothing about what the slots hold, so the inductive invariant `IInv`
  adds that the distance of the cursors, by cases on the wrap, is the number of waiting
  items (`CursorsAgree`), that the k-th slot after `readPos` holds the k-th of them
  (`SlotsAgree`), and what each thread holds between two steps (`ThreadsAgree`). A lemma
  removes the remainder operator once; each action has a lemma that it keeps `IInv`.
* Pool, any size, any number of releasing threads, one allocator (`OneAllocator`): types,
  `OnePlace`, `ListIsChain`, `NoLinkRace`, `NothingLeaks`. ABA is excluded because only the
  allocator takes slots off the stack: the slot it looks at stays there and its link does not
  change until its own compare-and-swap (`AllocHolds`); releasers hold different slots and the
  link one wrote stays (`RelHolds`). `NothingLeaks` follows the links by recursion: the stack
  read from its top is a fixed point of that recursion, and the smallest place at which the
  walk differed from it could not exist (`WalkIsStack`); the stack is no higher than the pool
  because no slot is on it twice.
* Pipeline, queues and pool of any size (`QueueMaxAssumption`, `PoolFramesAssumption`): types
  and `NoDanglingFrame`, whatever the cells of the rings refer to. The pool is replaced while
  no stage thread runs and the queues are empty, which is a matter of where the scheduler is in
  its row of locks, joins, drains and launches: `StagesFollow` says for each place which stages
  are off already or still.
* Status block, any number of readers, words, attempts, publications and crashes: types;
  `NotStale`, and `TornByNextOnly`, with the words of a block and the odd number stored in any
  order (`RetriesAssumption` is all that is assumed). What a reader compares is a number, so
  the invariant says what the number stands for. For `NotStale`: what a reader copied under a
  number that has not moved is no older than its attempt (`CopyAgrees`), and the block the
  index names is as new as the last publication (`CurrentIsFresh`). For `TornByNextOnly` a
  second invariant: publications take the buffers in turn (`Turns`), so that index, number and
  place of the publisher tell which publications the words under an even number can be of: one
  or two that follow one another (`Found`, `Contents`), and what a reader copied is among them
  (`CopyFound`). None of it holds while a restarted core clears, or after one died in its
  clearing: `Attempting` leaves out the readers that met this, and `ClearAgrees` says that what
  the memset has passed is zero, which restores the rest at its end. `GoesBackByOneAtMost`
  needs what holds in the life of the first core only (`FirstLife`): at most one publication is
  under way, nothing anywhere is ahead of it, and what a reader returned last is at most one
  ahead of what was current when its attempt took the index.
* Watchdog, any number of programs and any limits with a cooldown that outlasts the window
  (`kCooldownSec`, `kWindowSec`: `CooldownAssumption`): types, `TableIsExact`, `RestartLimit`,
  and that the branch of line 240 is not reachable (`CoreIsStartedForItself`). `Control` says
  what main() relies on at each place: a process it waits for is there, one it is about to
  start is not, the ones that come later in the start of the system are not there yet, the
  slots whose cooldown was over still wait for their retry, and what runs or may be started
  has attempts left. The limit is one of starts, but the code counts deaths: the invariant
  pairs the two from the last ones on (`PairHolds`, one start more while the process
  runs), a death being no older than the start it ends, so that whatever leaves the window
  leaves the pairing whole (`PairedElapse`). The reset after a cooldown forgets the deaths:
  by then no start is left in the window (`CoolHolds`), which is where the assumption is used.
* Writer, any size of ring and batch (`QueueMaxAssumption`, `BatchAssumption`), any number of
  offers, crashes, restarts and failing statements: `InOrderOnce`, `NoneForgotten`,
  `StopDrains`. Table, transaction, batch and ring are one sequence: a step moves the head of
  one part to the end of the one before it or takes a piece out, which is then in `dropped`.
  For `StopDrains` the invariant follows the thread: once loop() has seen `running_` false
  nothing more is accepted, and it ends only with everything taken (`ThreadOK`).
* Loop, any connections, messages and remote calls, events in any order: types, `FdsTracked`,
  `NoMissedEdge`, `StaleEventsNeedMonitors`, `MisdirectionNeedsDrop`, and that accept() finds
  a number for every connection that waits (`DescriptorIsFree`, from `FdAssumption`). Open
  descriptors belong to one connection each (`SocketsOK`); what there is to close, to read or
  to accept is on the ready list or will be an event (`EdgesOK`); until a monitor is closed out
  of turn each event of the batch is of the connection that has its number now
  (`HangUpsAreCurrent`); the addresses of monitors and calls are of open connections until one
  is dropped with messages to deliver (`AddressOK`).
* Store, any records, alarms, flush threads, power cuts and losses of the link
  (`RecordsAssumption`, `BoundsAssumption`): types, `LossHasCause`, `AlarmsFirst`,
  `DuplicatesHaveCause`, `BacklogDrains`. A row is in the table, in the SELECT of a flush and
  at the broker at once, so the invariant says of each flush what its cursor still holds
  (`FlushOK`), that a row that was sent and not deleted belongs to the flush between its
  publish and its DELETE or is excused (`OnceOK`), what the library and the session have in
  hand (`HandOK`, `SessionOK`), and that in a living session a flush is asked for or under way
  for every row that is not sent (`DrainOK`).
* Bridge, any drivers, answers and devices (`DriversAssumption`, `BoundsAssumption`): types,
  `SerialConsistent`, `MixedNeedsLeftover`. What a TCP driver has in `recv_buf_` and what the
  wire still holds is one stream: it consists of whole responses until a driver takes a
  leftover to a new connection (`Aligned`, `StreamHolds`), and read() may cut it anywhere.
* Calls, any set of calls (`CallsAssumption`), any size of the memory of identifiers
  (`WindowAssumption`), any number of calls, deaths and power cuts: `NoReplay`,
  `FileIsWhole`, `MemoryIsPersisted`. `NoReplay` speaks of what was ever admitted, which the
  code does not keep: the invariant says that the memory is the end of it, in order, and the
  set that is asked its elements (`RecentAreSeen`), which needs that no two in it are the
  same, so that forgetting the oldest forgets no other. For the thresholds the invariant
  follows a call through its steps: what the temporary file holds before the renaming and
  the file after it (`JobFiles`); memory and file agree at every other step (`Agree`).
* Alarms, any number of monitors and alarms, any room in the sockets, any limits with an
  answer no longer than the table (`RowsAssumption`): `OwnAnswersLeaveNoGap`,
  `LatestIsShown`, `DuplicatesHaveCause`. The code looks only at the first row of an answer
  and at the number in a question, so the invariant says what they stand for: an answer is
  an interval of ids (`IsInterval`); on one socket the ends of the answers only go up and
  start at `last_alarm_id_` or above (`AnswersOK`); a question never holds more than its
  monitor knows (`QuestionsOK`), hence an answer to it that is not cut starts at the next row
  or before. The newest row comes to stand at the place that is the length of its answer,
  which trimming leaves alone. For `DuplicatesHaveCause` a second invariant (`Once`): a monitor that
  waits for its answers has one question or one answer to it at a time, whose rows are all
  above its table.

Only model-checked: all liveness (`EventuallyFresh`, `CommandsReturn`,
`StreamMeansInference`, `EventuallyStored`, `PeersAreReaped`, `EventuallyStarted`,
`ShutdownCompletes`, `QueueDrains`, `StopCompletes`, `AlarmsArrive`), since TLAPS proves no
fairness properties here.

## 5. Not modelled, and the plan

The project keeps a dozen runs; what could still become a module is small and depends on
nothing that runs in parallel.

* `OtaManager` after the download: not reached by any JSON payload, because no address is
  cut out correctly (finding 2). Once that is repaired, this is the module to write first:
  two updates overwrite the one `pending_` record, the answer to a manual switch resolves
  it (`OtaManager.cpp:161`, `175`), a resumed download appends to a file of another version
  (`OtaManager.cpp:39`), and a file that is complete makes the server refuse the range.
* `EngineManager`: a table of last heartbeats. `check_timeout()` is called on a heartbeat or
  every hundredth record only (`main.cpp:618`, `800`), so a silent engine may never be
  reported, where `方案设计.md:222` has it restarted; its result is logged and nothing else,
  hence no state of any other component depends on it.
* `EventFusion` and `RuleEngine`: sequential functions over one message and a window. As
  wired, Modbus records come under the node 1 to 247 of their device and detections under 0,
  so a rule that wants both finds none; the payload of a Modbus record never holds the text
  `temp=` that `RuleEngine` looks for; an offline rule speaks only when its sensor comes
  back. A model would check conditions that no input reaches.
* The history query: `main.cpp:556` selects a column `data` that `sensor_data` does not have
  (`DbWriter.cpp:52-58`), so every answer is empty, goes to every window and clears its panel
  (`方案设计.md:394` promises the rows). There is one state to model.

No safety property of a passing run is left without a proof. What could still be proved of what is
modelled: that the messages of one driver reach the core in the order of its answers
(`AccessBridge`), and who holds `model_mutex_` and `stage_mutex_` at each place (`Pipeline`).

Left out for good: `InternalMessage` (a pure encoding of one datagram), `RingBuffer` (used
only by its test), `Config`, `Logger`, `Sha256`, `DriverLoader` (sequential helpers), the
HTTP text and the Qt widgets (presentation), the policy DropOldest of `PipelineQueue`
(not used by the pipeline), the numbers of the detection post-processing.
