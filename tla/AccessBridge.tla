---------------------------- MODULE AccessBridge ----------------------------
(***************************************************************************)
(* gateway_access: one thread for each Modbus driver polls its device,     *)
(* queues what it reads and writes to an eventfd; the main thread takes    *)
(* the queue, forwards it to gateway_core over a Unix socket, adds devices *)
(* when asked to, and stops the drivers in the end (main.cpp,              *)
(* ModbusRtuDriver.cpp, ModbusTcpDriver.cpp).                              *)
(*                                                                         *)
(* A serial poll answers or does not.  open_serial() sets the rate, the    *)
(* frame, VMIN and VTIME of its port and leaves ICANON as it finds it      *)
(* (ModbusRtuDriver.cpp 40-55): VTIME ends a read() only on a port that    *)
(* something else has made raw, as socat does for the pair of              *)
(* start_gateway.sh.  Which ports are raw is the machine's choice.         *)
(*                                                                         *)
(* A TCP response reaches the driver as a stream of bytes that read() may  *)
(* cut anywhere: it is two parts, a head and a tail, with the number of    *)
(* its request.  Intervals, backoff and the 30 s before a revival are time *)
(* that may pass at any step; the registers themselves and the CRC are     *)
(* data.                                                                   *)
(***************************************************************************)
EXTENDS Integers, Sequences, SequencesExt, FiniteSets

CONSTANTS Rtu, Tcp,     \* the drivers
          Added,        \* those that come by add_modbus_device
          MaxTimeouts,  \* kMaxTimeouts
          MaxReadings   \* TLC bound: answers of a device

ASSUME DriversAssumption ==
  IsFiniteSet(Rtu \cup Tcp) /\ Rtu \cap Tcp = {} /\ Added \subseteq Rtu \cup Tcp
ASSUME BoundsAssumption == MaxTimeouts \in Nat \ {0} /\ MaxReadings \in Nat

Drivers == Rtu \cup Tcp

VARIABLES
  at,        \* where poll_loop() of each driver is
  running,   \* running_ of each driver
  timeouts,  \* consecutive_timeouts_
  suspended, \* suspended_
  raw,       \* serial drivers whose port is not in canonical mode
  port,      \* serial drivers whose serial_fd_ is open
  wire,      \* what a TCP device has answered and read() has not taken
  recvBuf,   \* recv_buf_
  readings,  \* answers so far
  message,   \* the message a driver is handing over
  queue,     \* g_msg_queue
  wakeup,    \* g_wakeup_efd is readable
  main,      \* where the main thread is
  batch,     \* what it took from the queue and has not forwarded
  core,      \* the other end of the socket is open
  kept       \* history: drivers that took part of a frame to a new connection

serial == <<timeouts, suspended, port>>
stream == <<wire, recvBuf, kept>>
bridge == <<queue, wakeup>>
mainVars == <<main, batch, core>>
bridgeVars == <<at, running, raw, serial, stream, readings, message, bridge, mainVars>>

NoMessage == [from |-> "none", mixed |-> FALSE]

BridgeInit ==
  /\ at = [d \in Drivers |-> "off"]
  /\ running = [d \in Drivers |-> FALSE]
  /\ raw \in SUBSET Rtu
  /\ timeouts = [d \in Rtu |-> 0]
  /\ suspended = [d \in Rtu |-> FALSE]
  /\ port = {}
  /\ wire = [d \in Tcp |-> <<>>]
  /\ recvBuf = [d \in Tcp |-> <<>>]
  /\ readings = [d \in Drivers |-> 0]
  /\ message = [d \in Drivers |-> NoMessage]
  /\ queue = <<>>
  /\ wakeup = FALSE
  /\ main = "boot"
  /\ batch = <<>>
  /\ core = TRUE
  /\ kept = {}

-----------------------------------------------------------------------------
(* What both kinds of driver do *)

Goto(d, place) == at' = [at EXCEPT ![d] = place]

\* The callback that make_data_callback() builds: the queue, then the eventfd.
PushMessage(d) ==
  /\ at[d] = "push"
  /\ queue' = Append(queue, message[d])
  /\ message' = [message EXCEPT ![d] = NoMessage]
  /\ Goto(d, "notify")
  /\ UNCHANGED <<running, raw, serial, stream, readings, wakeup, mainVars>>

WriteWakeup(d) ==
  /\ at[d] = "notify"
  /\ wakeup' = TRUE
  /\ Goto(d, IF d \in Tcp THEN "frames" ELSE "top")
  /\ UNCHANGED <<running, raw, serial, stream, readings, message, queue, mainVars>>

LoopEnds(d) ==
  /\ at[d] = "top"
  /\ ~running[d]
  /\ Goto(d, "done")
  /\ UNCHANGED <<running, raw, serial, stream, readings, message, bridge, mainVars>>

-----------------------------------------------------------------------------
(* ModbusRtuDriver::poll_loop() *)

RtuStep == UNCHANGED <<running, raw, stream, bridge, mainVars>>

RtuPoll(d) ==
  /\ at[d] = "top"
  /\ running[d]
  /\ ~suspended[d]
  /\ Goto(d, "poll")
  /\ UNCHANGED <<serial, readings, message>>
  /\ RtuStep

RtuAnswer(d) ==
  /\ at[d] = "poll"
  /\ readings[d] < MaxReadings
  /\ readings' = [readings EXCEPT ![d] = @ + 1]
  /\ timeouts' = [timeouts EXCEPT ![d] = 0]
  /\ message' = [message EXCEPT ![d] = [from |-> d, mixed |-> FALSE]]
  /\ Goto(d, "push")
  /\ UNCHANGED <<suspended, port>>
  /\ RtuStep

\* Nothing within half a second, or bytes that do not decode, which in canonical
\* mode is a line of them; the last one tolerated suspends.
RtuTimeout(d) ==
  /\ at[d] = "poll"
  /\ timeouts' = [timeouts EXCEPT ![d] = @ + 1]
  /\ IF timeouts[d] + 1 >= MaxTimeouts
     THEN /\ suspended' = [suspended EXCEPT ![d] = TRUE]
          /\ port' = port \ {d}
     ELSE UNCHANGED <<suspended, port>>
  /\ Goto(d, "top")
  /\ UNCHANGED <<readings, message>>
  /\ RtuStep

\* Variant with a bug: the count goes on where it was.
RtuRevivesUncounted(d) ==
  /\ at[d] = "top"
  /\ running[d]
  /\ suspended[d]
  /\ suspended' = [suspended EXCEPT ![d] = FALSE]
  /\ port' = port \cup {d}
  /\ Goto(d, "poll")
  /\ UNCHANGED <<timeouts, readings, message>>
  /\ RtuStep

\* The port opens again, and is polled at once.  If it does not open, or the 30 s
\* are not over, the loop comes back here with nothing changed.
RtuRevives(d) ==
  /\ at[d] = "top"
  /\ running[d]
  /\ suspended[d]
  /\ suspended' = [suspended EXCEPT ![d] = FALSE]
  /\ timeouts' = [timeouts EXCEPT ![d] = 0]
  /\ port' = port \cup {d}
  /\ Goto(d, "poll")
  /\ UNCHANGED <<readings, message>>
  /\ RtuStep

-----------------------------------------------------------------------------
(* ModbusTcpDriver::poll_loop() *)

TcpStep == UNCHANGED <<running, raw, serial, bridge, mainVars>>

Answer(n) == <<[part |-> "head", of |-> n], [part |-> "tail", of |-> n]>>

\* The request is written; the device answers it or does not.
TcpRequest(d) ==
  /\ at[d] = "top"
  /\ running[d]
  /\ \/ /\ readings[d] < MaxReadings
        /\ readings' = [readings EXCEPT ![d] = @ + 1]
        /\ wire' = [wire EXCEPT ![d] = @ \o Answer(readings[d] + 1)]
     \/ UNCHANGED <<readings, wire>>
  /\ Goto(d, "read")
  /\ UNCHANGED <<recvBuf, kept, message>>
  /\ TcpStep

\* write() fails: reconnect() without a look at recv_buf_.
TcpWriteFails(d) ==
  /\ at[d] = "top"
  /\ running[d]
  /\ kept' = IF recvBuf[d] = <<>> THEN kept ELSE kept \cup {d}
  /\ Goto(d, "reconnect")
  /\ UNCHANGED <<wire, recvBuf, readings, message>>
  /\ TcpStep

TcpRead(d) ==
  /\ at[d] = "read"
  /\ \E n \in 1 .. Len(wire[d]) :
       /\ recvBuf' = [recvBuf EXCEPT ![d] = @ \o SubSeq(wire[d], 1, n)]
       /\ wire' = [wire EXCEPT ![d] = SubSeq(@, n + 1, Len(@))]
  /\ Goto(d, "frames")
  /\ UNCHANGED <<kept, readings, message>>
  /\ TcpStep

\* Variant with a bug: the buffer is not cleared.
TcpReadFailsKeeping(d) ==
  /\ at[d] = "read"
  /\ Goto(d, "reconnect")
  /\ UNCHANGED <<stream, readings, message>>
  /\ TcpStep

\* Timeout, end of stream, error, or more than kMaxRecvBuf bytes.
TcpReadFails(d) ==
  /\ at[d] = "read"
  /\ recvBuf' = [recvBuf EXCEPT ![d] = <<>>]
  /\ Goto(d, "reconnect")
  /\ UNCHANGED <<wire, kept, readings, message>>
  /\ TcpStep

FrameAhead(d) == Len(recvBuf[d]) >= 2 /\ Head(recvBuf[d]).part = "head"

\* Less than a header, or than the length that stands there.
TcpIncomplete(d) ==
  /\ at[d] = "frames"
  /\ ~FrameAhead(d)
  /\ Goto(d, "top")
  /\ UNCHANGED <<stream, readings, message>>
  /\ TcpStep

\* What stands where the header should be states an impossible length.
TcpBadLength(d) ==
  /\ at[d] = "frames"
  /\ recvBuf[d] # <<>>
  /\ Head(recvBuf[d]).part # "head"
  /\ recvBuf' = [recvBuf EXCEPT ![d] = <<>>]
  /\ Goto(d, "reconnect")
  /\ UNCHANGED <<wire, kept, readings, message>>
  /\ TcpStep

Whole(a, b) == a.part = "head" /\ b.part = "tail" /\ a.of = b.of

\* A frame is taken off the buffer; it decodes, or is dropped as an exception
\* or for its length.  The number of the transaction is not compared.
TcpFrame(d) ==
  /\ at[d] = "frames"
  /\ Len(recvBuf[d]) >= 2
  /\ recvBuf' = [recvBuf EXCEPT ![d] = SubSeq(@, 3, Len(@))]
  /\ \/ /\ message' = [message EXCEPT ![d] =
             [from |-> d, mixed |-> ~Whole(recvBuf[d][1], recvBuf[d][2])]]
        /\ Goto(d, "push")
     \/ UNCHANGED <<message, at>>
  /\ UNCHANGED <<wire, kept, readings>>
  /\ TcpStep

\* Variant with a bug: only a connection ends the loop.
TcpReconnectsForever(d) ==
  /\ at[d] = "reconnect"
  /\ wire' = [wire EXCEPT ![d] = <<>>]
  /\ running[d]
  /\ Goto(d, "top")
  /\ UNCHANGED <<recvBuf, kept, readings, message>>
  /\ TcpStep

\* A new connection, or running_ is false: either way back to the head of the
\* loop.  Attempts that fail change nothing.
TcpReconnects(d) ==
  /\ at[d] = "reconnect"
  /\ wire' = [wire EXCEPT ![d] = <<>>]
  /\ Goto(d, "top")
  /\ UNCHANGED <<recvBuf, kept, readings, message>>
  /\ TcpStep

\* The ends of a serial read().
RtuRead(d) == d \in Rtu /\ (RtuAnswer(d) \/ RtuTimeout(d))

\* What a driver does without the help of its device: the wait for a socket
\* ends by select(), a read() of a raw port by VTIME.
Poll(d) ==
  \/ PushMessage(d) \/ WriteWakeup(d) \/ LoopEnds(d)
  \/ d \in Rtu /\ RtuPoll(d)
  \/ d \in raw /\ RtuRead(d)
  \/ d \in Tcp /\ \/ TcpRequest(d) \/ TcpWriteFails(d)
                  \/ TcpRead(d) \/ TcpReadFails(d)
                  \/ TcpIncomplete(d) \/ TcpBadLength(d) \/ TcpFrame(d)

\* The end of reconnect() that needs no device.
GivesUp(d) == d \in Tcp /\ ~running[d] /\ TcpReconnects(d)

Driver(d) ==
  \/ Poll(d)
  \/ RtuRead(d)
  \/ d \in Rtu /\ RtuRevives(d)
  \/ d \in Tcp /\ TcpReconnects(d)

-----------------------------------------------------------------------------
(* main(): start the drivers, then the epoll loop, then stop the drivers *)

MainStep == UNCHANGED <<raw, timeouts, suspended, stream, readings, message, core>>

\* start(): the port or the connection opens and the thread runs, or the driver
\* stays as it is for good.
StartDriver(d) ==
  /\ at[d] = "off"
  /\ \/ /\ running' = [running EXCEPT ![d] = TRUE]
        /\ port' = IF d \in Rtu THEN port \cup {d} ELSE port
        /\ Goto(d, "top")
     \/ /\ Goto(d, "failed")
        /\ UNCHANGED <<running, port>>

Boot(d) ==
  /\ main = "boot"
  /\ d \notin Added
  /\ StartDriver(d)
  /\ UNCHANGED <<bridge, main, batch>>
  /\ MainStep

BootDone ==
  /\ main = "boot"
  /\ \A d \in Drivers \ Added : at[d] # "off"
  /\ main' = "wait"
  /\ UNCHANGED <<at, running, port, bridge, batch>>
  /\ MainStep

\* An add_modbus_device command of the core.
AddDevice(d) ==
  /\ main = "wait"
  /\ core
  /\ d \in Added
  /\ StartDriver(d)
  /\ UNCHANGED <<bridge, main, batch>>
  /\ MainStep

ReadWakeup ==
  /\ main = "wait"
  /\ wakeup
  /\ wakeup' = FALSE
  /\ main' = "take"
  /\ UNCHANGED <<at, running, port, queue, batch>>
  /\ MainStep

TakeQueue ==
  /\ main = "take"
  /\ batch' = queue
  /\ queue' = <<>>
  /\ main' = "send"
  /\ UNCHANGED <<at, running, port, wakeup>>
  /\ MainStep

\* The message is written, or the write fails and is only logged.
Forward ==
  /\ main = "send"
  /\ batch # <<>>
  /\ batch' = Tail(batch)
  /\ UNCHANGED <<at, running, port, bridge, main>>
  /\ MainStep

\* Variant with a bug: the eventfd is read after the batch.
ForwardedThenRead ==
  /\ main = "send"
  /\ batch = <<>>
  /\ main' = "wait"
  /\ wakeup' = FALSE
  /\ UNCHANGED <<at, running, port, queue, batch>>
  /\ MainStep

Forwarded ==
  /\ main = "send"
  /\ batch = <<>>
  /\ main' = "wait"
  /\ UNCHANGED <<at, running, port, bridge, batch>>
  /\ MainStep

\* A signal; whatever is queued is left there.
Signal ==
  /\ main = "wait"
  /\ main' = "stop"
  /\ UNCHANGED <<at, running, port, bridge, batch>>
  /\ MainStep

\* read() returns 0 or a reset: the watchdog shall start the process again.
CoreGone ==
  /\ main = "wait"
  /\ ~core
  /\ main' = "stop"
  /\ UNCHANGED <<at, running, port, bridge, batch>>
  /\ MainStep

Ended(d) == at[d] \in {"off", "failed", "done"}

\* stop() joins one thread before the next is asked to end.
StopDriver(d) ==
  /\ main = "stop"
  /\ running[d]
  /\ \A e \in Drivers : running[e] \/ Ended(e)
  /\ running' = [running EXCEPT ![d] = FALSE]
  /\ UNCHANGED <<at, port, bridge, main, batch>>
  /\ MainStep

\* All threads are joined and all descriptors closed.
Exit ==
  /\ main = "stop"
  /\ \A d \in Drivers : ~running[d] /\ Ended(d)
  /\ port' = {}
  /\ main' = "exited"
  /\ UNCHANGED <<at, running, bridge, batch>>
  /\ MainStep

Main ==
  \/ BootDone \/ ReadWakeup \/ TakeQueue \/ Forward \/ Forwarded \/ CoreGone \/ Exit
  \/ \E d \in Drivers : Boot(d) \/ StopDriver(d)

\* The core ends; the watchdog sees to that.
CoreEnds ==
  /\ core
  /\ core' = FALSE
  /\ UNCHANGED <<at, running, raw, serial, stream, readings, message, bridge, main, batch>>

BridgeNext ==
  \/ Main \/ Signal \/ CoreEnds
  \/ \E d \in Drivers : AddDevice(d) \/ Driver(d)

BridgeSpec == BridgeInit /\ [][BridgeNext]_bridgeVars

\* The threads run; no device is ever obliged to answer, and a connection or a
\* port need not come back.  The main thread's write to the core's socket is
\* assumed to return: it blocks as long as the core reads nothing.
BridgeFairSpec ==
  /\ BridgeSpec
  /\ WF_bridgeVars(Main)
  /\ \A d \in Drivers : WF_bridgeVars(Poll(d)) /\ WF_bridgeVars(GivesUp(d))

-----------------------------------------------------------------------------
(* Properties *)

Part == [part : {"head", "tail"}, of : 1 .. MaxReadings]
Message == [from : Drivers, mixed : BOOLEAN]

\* Everything is of its kind.
BridgeTypeOK ==
  /\ at \in [Drivers -> {"off", "failed", "top", "poll", "push", "notify", "read",
                         "frames", "reconnect", "done"}]
  /\ running \in [Drivers -> BOOLEAN]
  /\ timeouts \in [Rtu -> 0 .. MaxTimeouts]
  /\ suspended \in [Rtu -> BOOLEAN]
  /\ raw \subseteq Rtu /\ port \subseteq Rtu
  /\ wire \in [Tcp -> Seq(Part)] /\ recvBuf \in [Tcp -> Seq(Part)]
  /\ readings \in [Drivers -> 0 .. MaxReadings]
  /\ message \in [Drivers -> Message \cup {NoMessage}]
  /\ queue \in Seq(Message) /\ batch \in Seq(Message)
  /\ wakeup \in BOOLEAN /\ core \in BOOLEAN
  /\ main \in {"boot", "wait", "take", "send", "stop", "exited"}
  /\ kept \subseteq Tcp

\* A serial driver polls an open port and has not used up its timeouts, or is
\* suspended with its port closed: the two reach each other only together.
SerialConsistent ==
  \A d \in Rtu : running[d] =>
    IF suspended[d] THEN d \notin port ELSE d \in port /\ timeouts[d] < MaxTimeouts

\* A message made of two responses comes only from a driver that has taken part
\* of a frame to a new connection, which only a failed write() does: every other
\* way to reconnect() clears recv_buf_.
MixedNeedsLeftover ==
  \A m \in ToSet(queue) \cup ToSet(batch) \cup {message[d] : d \in Drivers} :
    m.mixed => m.from \in kept

\* What a driver has queued the main thread takes, unless it stops: the eventfd
\* is read before the queue.
QueueDrains == (queue # <<>> /\ main # "stop") ~> (queue = <<>> \/ main \in {"stop", "exited"})

\* A process told to stop ends, whatever its devices do, with one exception: it
\* may wait for ever for a serial driver in the read() of a port that is not raw
\* and whose device is silent.  No other loop of a driver goes on with running_
\* false, and that one does on no raw port (ModbusRtuDriver.cpp 88-92, 118-187;
\* ModbusTcpDriver.cpp 89-251).
StopCompletes ==
  <>[](main = "stop") => <>[](\E d \in Rtu \ raw : at[d] = "poll" /\ ~running[d])

=============================================================================
