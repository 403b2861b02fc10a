------------------------------ MODULE EventLoop ------------------------------
(***************************************************************************)
(* The event loop of gateway_core and the peers that connect to it:        *)
(* gateway_core/EventLoop.cpp (edge-triggered epoll over descriptors that  *)
(* the kernel numbers anew after each close) together with the callbacks   *)
(* of main.cpp that keep the descriptors of the engine and of the access   *)
(* process and send commands through them.                                 *)
(*                                                                         *)
(* A connection is one life of a peer process.  The loop is one thread,    *)
(* but the peers run on between its steps: between epoll_wait() and the    *)
(* handling of an event, and between two reads of one event.  The order in *)
(* which epoll_wait() reports what is ready is left open: the loop relies  *)
(* on none.                                                                *)
(***************************************************************************)
EXTENDS Integers, Sequences, FiniteSets, Functions

CONSTANTS Engines, Accesses, Monitors,   \* connections, by who is at the other end
          MaxFd,    \* descriptors 1 .. MaxFd: the kernel gives the lowest free one
          Commands, \* TLC bound: the remote calls that come
          MaxSend   \* TLC bound: messages each connection sends

Conns == Engines \cup Accesses \cup Monitors
Fds == 1 .. MaxFd
NoFd == 0

ASSUME FdAssumption == IsFiniteSet(Conns) /\ MaxFd \in Nat /\ MaxFd >= Cardinality(Conns)
ASSUME SendAssumption == MaxSend \in [Conns -> Nat]
ASSUME CommandAssumption == Commands \subseteq {"start", "stop", "engine", "access"}
ASSUME ConnAssumption ==
  /\ 0 \notin Conns
  /\ Engines \cap Accesses = {} /\ Engines \cap Monitors = {} /\ Accesses \cap Monitors = {}

NoConn == 0

Kinds == {"engine", "access", "monitor"}

Kind(c) == CASE c \in Engines -> "engine" [] c \in Accesses -> "access" [] c \in Monitors -> "monitor"

\* The listening sockets, one for each path.
Listener == [engine |-> MaxFd + 1, access |-> MaxFd + 2, monitor |-> MaxFd + 3]

\* What a peer sends, as far as the callbacks tell it apart.  The reply to a
\* model switch is sent with source_type uninitialized (AnalysisScheduler.cpp
\* 81-84): either of the two replies.
Messages(k) ==
  CASE k = "engine"  -> {"report", "snapshot", "replyAsEngine", "replyAsOther"}
    [] k = "access"  -> {"data"}
    [] k = "monitor" -> {"query"}

FromEngine == {"report", "snapshot", "replyAsEngine"}   \* source_type = 3
ToMonitors == {"snapshot", "query"}                     \* forwarded or answered

VARIABLES
  stage,     \* of a connection: "new", "pending" in a backlog, "served", "over";
             \* "dropped" when its last messages are delivered after its close
  closed,    \* connections whose peer has closed its end
  sends,     \* messages each connection has sent
  inbox,     \* messages sent and not read, of each connection
  backlog,   \* connections to accept, of each listening socket
  owner,     \* connection behind each descriptor
  clients,   \* client_fds_
  monitors,  \* monitor_client_fds_
  ready,     \* descriptors on epoll's ready list
  batch,     \* events of this epoll_wait() still to handle
  core,      \* where the loop is, and the messages it has read
  engineFd,  \* engine_cmd_fd
  accessFd,  \* access_cmd_fd
  wanted,    \* last_analysis_payload is not empty
  told,      \* commands written to each connection
  cut        \* connections closed while their peer had them open

peers == <<stage, closed, sends, inbox, backlog>>
fdSets == <<owner, clients, monitors>>
cmd == <<engineFd, accessFd, wanted, told>>
vars == <<peers, fdSets, ready, batch, core, cmd, cut>>

Opened == {f \in Fds : owner[f] # NoConn}

FdOf(c) == {f \in Fds : owner[f] = c}

Init ==
  /\ stage = [c \in Conns |-> "new"]
  /\ closed = {}
  /\ sends = [c \in Conns |-> 0]
  /\ inbox = [c \in Conns |-> <<>>]
  /\ backlog = [k \in Kinds |-> <<>>]
  /\ owner = [f \in Fds |-> NoConn]
  /\ clients = {} /\ monitors = {}
  /\ ready = {} /\ batch = <<>>
  /\ core = [at |-> "wait", msgs |-> <<>>]
  /\ engineFd = NoFd /\ accessFd = NoFd
  /\ wanted = FALSE
  /\ told = [c \in Conns |-> {}]
  /\ cut = {}

-----------------------------------------------------------------------------
(* The peers *)

\* A process is started again after its predecessor has died.
Connect(c) ==
  /\ stage[c] = "new"
  /\ \A d \in Conns : Kind(d) = Kind(c) /\ stage[d] # "new" => d \in closed
  /\ stage' = [stage EXCEPT ![c] = "pending"]
  /\ backlog' = [backlog EXCEPT ![Kind(c)] = Append(@, c)]
  /\ ready' = ready \cup {Listener[Kind(c)]}
  /\ UNCHANGED <<closed, sends, inbox, fdSets, batch, core, cmd, cut>>

Send(c, m) ==
  /\ stage[c] \in {"pending", "served"}
  /\ c \notin closed
  /\ sends[c] < MaxSend[c]
  /\ m \in Messages(Kind(c))
  /\ m \in {"replyAsEngine", "replyAsOther"} => "engine" \in told[c]
  /\ sends' = [sends EXCEPT ![c] = @ + 1]
  /\ inbox' = [inbox EXCEPT ![c] = Append(@, m)]
  /\ ready' = ready \cup FdOf(c)
  /\ UNCHANGED <<stage, closed, backlog, fdSets, batch, core, cmd, cut>>

\* It exits or is killed.
Close(c) ==
  /\ stage[c] # "new"
  /\ c \notin closed
  /\ closed' = closed \cup {c}
  /\ ready' = ready \cup FdOf(c)
  /\ UNCHANGED <<stage, sends, inbox, backlog, fdSets, batch, core, cmd, cut>>

-----------------------------------------------------------------------------
(* Closing descriptors, and writing commands *)

Readable(f) ==
  \/ \E k \in Kinds : f = Listener[k] /\ backlog[k] # <<>>
  \/ f \in Opened /\ (inbox[owner[f]] # <<>> \/ owner[f] \in closed)

\* close() of descriptors, which leave epoll; of those that are not open nothing
\* comes.
CloseFds(fs, how) ==
  LET gone == {owner[f] : f \in fs \cap Opened}
  IN /\ owner' = [f \in Fds |-> IF f \in fs THEN NoConn ELSE owner[f]]
     /\ stage' = [c \in Conns |-> IF c \in gone THEN how ELSE stage[c]]
     /\ inbox' = [c \in Conns |-> IF c \in gone THEN <<>> ELSE inbox[c]]
     /\ ready' = ready \ fs
     /\ cut' = cut \cup (gone \ closed)

\* The disconnect callback of main.cpp.
Forget(f) ==
  /\ engineFd' = IF engineFd = f THEN NoFd ELSE engineFd
  /\ accessFd' = IF accessFd = f THEN NoFd ELSE accessFd

\* write() finds a connection, and its peer has not closed it.
Writable(f) == f \in Opened /\ owner[f] \notin closed

Tell(f, what) == [told EXCEPT ![owner[f]] = @ \cup {what}]

\* send_uds_cmd(): a write that finds no connection clears the descriptor.
SendEngine(what) ==
  IF Writable(engineFd)
  THEN told' = Tell(engineFd, what) /\ UNCHANGED engineFd
  ELSE engineFd' = NoFd /\ UNCHANGED told

SendAccess ==
  IF Writable(accessFd)
  THEN told' = Tell(accessFd, "access") /\ UNCHANGED accessFd
  ELSE accessFd' = NoFd /\ UNCHANGED told

-----------------------------------------------------------------------------
(* start(): epoll_wait(), then one event after the other *)

\* What epoll reports of a descriptor.
EventOf(f) == [fd |-> f, hup |-> f \in Opened /\ owner[f] \in closed]

EpollWait ==
  /\ core.at = "wait"
  /\ ready # {}
  /\ LET events == {EventOf(f) : f \in {g \in ready : Readable(g)}}
     IN batch' \in Bijection(1 .. Cardinality(events), events)
  /\ ready' = {}
  /\ core' = [core EXCEPT !.at = "next"]
  /\ UNCHANGED <<peers, fdSets, cmd, cut>>

BatchDone ==
  /\ core.at = "next"
  /\ batch = <<>>
  /\ core' = [core EXCEPT !.at = "wait"]
  /\ UNCHANGED <<peers, fdSets, ready, batch, cmd, cut>>

Event(k) == core.at = "next" /\ batch # <<>> /\ Head(batch).fd = Listener[k]

\* One accept() of accept_connection().  epoll_ctl(ADD) reports what is there.
Accept(k) ==
  /\ Event(k)
  /\ backlog[k] # <<>>
  /\ LET c == Head(backlog[k])
     IN /\ stage' = [stage EXCEPT ![c] = "served"]
        /\ \E f \in Fds \ Opened :
             /\ \A g \in Fds \ Opened : f <= g
             /\ owner' = [owner EXCEPT ![f] = c]
             /\ IF k = "monitor"
                THEN monitors' = monitors \cup {f} /\ UNCHANGED clients
                ELSE clients' = clients \cup {f} /\ UNCHANGED monitors
             /\ ready' = IF inbox[c] # <<>> \/ c \in closed
                         THEN ready \cup {f} ELSE ready
  /\ backlog' = [backlog EXCEPT ![k] = Tail(@)]
  /\ UNCHANGED <<closed, sends, inbox, batch, core, cmd, cut>>

\* EAGAIN.  The other return (EventLoop.cpp 74-77), on an accept() that fails for
\* want of a descriptor, would leave the rest of the backlog without an edge: it is
\* not modelled, FdAssumption gives the process descriptors enough.
AcceptDone(k) ==
  /\ Event(k)
  /\ backlog[k] = <<>>
  /\ batch' = Tail(batch)
  /\ UNCHANGED <<peers, fdSets, ready, core, cmd, cut>>

ClientEvent == core.at = "next" /\ batch # <<>> /\ Head(batch).fd \in Fds

\* Variant with a bug: the descriptor is forgotten and not closed.
HangUpUnclosed ==
  /\ ClientEvent
  /\ Head(batch).hup
  /\ Forget(Head(batch).fd)
  /\ clients' = clients \ {Head(batch).fd}
  /\ monitors' = monitors \ {Head(batch).fd}
  /\ batch' = Tail(batch)
  /\ UNCHANGED <<peers, owner, ready, core, wanted, told, cut>>

\* Variant with a bug: the disconnect callback is not called.
HangUpUnheard ==
  /\ ClientEvent
  /\ Head(batch).hup
  /\ LET f == Head(batch).fd
     IN /\ CloseFds({f}, "over")
        /\ clients' = clients \ {f}
        /\ monitors' = monitors \ {f}
  /\ batch' = Tail(batch)
  /\ UNCHANGED <<closed, sends, backlog, core, cmd>>

\* EPOLLHUP was set when epoll_wait() returned.
HangUp ==
  /\ ClientEvent
  /\ Head(batch).hup
  /\ LET f == Head(batch).fd
     IN /\ Forget(f)
        /\ CloseFds({f}, "over")
        /\ IF f \in monitors
           THEN monitors' = monitors \ {f} /\ UNCHANGED clients
           ELSE clients' = clients \ {f} /\ UNCHANGED monitors
  /\ batch' = Tail(batch)
  /\ UNCHANGED <<closed, sends, backlog, core, wanted, told>>

StartRead ==
  /\ ClientEvent
  /\ ~Head(batch).hup
  /\ core' = [at |-> "read", msgs |-> <<>>]
  /\ UNCHANGED <<peers, fdSets, ready, batch, cmd, cut>>

-----------------------------------------------------------------------------
(* handle_client_data(), and the messages it returns *)

Current == Head(batch).fd

\* Variant with a bug: one message is read for each edge.
ReadOnlyOne ==
  /\ core.at = "read"
  /\ Current \in Opened
  /\ inbox[owner[Current]] # <<>>
  /\ core' = [at |-> "deliver", msgs |-> <<Head(inbox[owner[Current]])>>]
  /\ inbox' = [inbox EXCEPT ![owner[Current]] = Tail(@)]
  /\ UNCHANGED <<stage, closed, sends, backlog, fdSets, ready, batch, cmd, cut>>

ReadOne ==
  /\ core.at = "read"
  /\ Current \in Opened
  /\ inbox[owner[Current]] # <<>>
  /\ core' = [core EXCEPT !.msgs = Append(@, Head(inbox[owner[Current]]))]
  /\ inbox' = [inbox EXCEPT ![owner[Current]] = Tail(@)]
  /\ UNCHANGED <<stage, closed, sends, backlog, fdSets, ready, batch, cmd, cut>>

\* EAGAIN; or the other end of a monitor's connection is closed, which the next
\* epoll_wait() reports; or a descriptor closed earlier in this batch (EBADF).
ReadDone ==
  /\ core.at = "read"
  /\ Current \in Opened =>
       /\ inbox[owner[Current]] = <<>>
       /\ Current \in monitors \/ owner[Current] \notin closed
  /\ core' = [core EXCEPT !.at = "deliver"]
  /\ UNCHANGED <<peers, fdSets, ready, batch, cmd, cut>>

\* Variant with a bug: EAGAIN is taken for the end of the connection.
ReadEagainCloses ==
  /\ core.at = "read"
  /\ Current \in Opened \ monitors
  /\ inbox[owner[Current]] = <<>>
  /\ Forget(Current)
  /\ CloseFds({Current}, "dropped")
  /\ clients' = clients \ {Current}
  /\ core' = [core EXCEPT !.at = "deliver"]
  /\ UNCHANGED <<closed, sends, backlog, monitors, batch, wanted, told>>

\* read() returned 0: the peer closed after epoll_wait().
ReadEof ==
  /\ core.at = "read"
  /\ Current \in Opened \ monitors
  /\ inbox[owner[Current]] = <<>>
  /\ owner[Current] \in closed
  /\ Forget(Current)
  /\ CloseFds({Current}, "dropped")
  /\ clients' = clients \ {Current}
  /\ core' = [core EXCEPT !.at = "deliver"]
  /\ UNCHANGED <<closed, sends, backlog, monitors, batch, wanted, told>>

\* A peer that goes with commands of the core unread makes read() fail with
\* ECONNRESET, whatever it sent before: a client is closed, and no callback
\* hears of it; a monitor is left to the next epoll_wait().
ReadReset ==
  /\ core.at = "read"
  /\ Current \in Opened
  /\ owner[Current] \in closed
  /\ Current \in monitors \/ told[owner[Current]] # {}
  /\ CloseFds({Current} \ monitors, "dropped")
  /\ clients' = clients \ {Current}
  /\ core' = [core EXCEPT !.at = "deliver"]
  /\ UNCHANGED <<closed, sends, backlog, monitors, batch, cmd>>

Message == Head(core.msgs)

\* The data callback keeps the descriptor its message came from, and starts the
\* analysis again on a connection of the engine that it takes for a new one.
NoteSender ==
  CASE Message \in FromEngine ->
         /\ IF engineFd # Current /\ wanted
            THEN IF Writable(Current)
                 THEN engineFd' = Current /\ told' = Tell(Current, "start")
                 ELSE engineFd' = NoFd /\ UNCHANGED told
            ELSE engineFd' = Current /\ UNCHANGED told
         /\ UNCHANGED accessFd
    [] Message \in {"data", "replyAsOther"} ->
         accessFd' = Current /\ UNCHANGED <<engineFd, told>>
    [] OTHER -> UNCHANGED <<engineFd, accessFd, told>>

\* Variant with a bug: the closed descriptors stay in the set.
ForwardKeepsDead ==
  LET dead == IF Message \in ToMonitors THEN {f \in monitors : ~Writable(f)} ELSE {}
  IN CloseFds(dead, "over") /\ UNCHANGED monitors

\* send_to_monitor() closes the connections it cannot write to.
ForwardToMonitors ==
  LET dead == IF Message \in ToMonitors THEN {f \in monitors : ~Writable(f)} ELSE {}
  IN CloseFds(dead, "over") /\ monitors' = monitors \ dead

Deliver ==
  /\ core.at = "deliver"
  /\ core.msgs # <<>>
  /\ NoteSender
  /\ ForwardToMonitors
  /\ core' = [core EXCEPT !.msgs = Tail(@)]
  /\ UNCHANGED <<closed, sends, backlog, clients, batch, wanted>>

Delivered ==
  /\ core.at = "deliver"
  /\ core.msgs = <<>>
  /\ core' = [core EXCEPT !.at = "next"]
  /\ batch' = Tail(batch)
  /\ UNCHANGED <<peers, fdSets, ready, cmd, cut>>

-----------------------------------------------------------------------------
(* A remote call is dispatched by another event of the loop, between two of *)
(* the events modelled here.                                                *)

Between == core.at \in {"wait", "next"}

\* What is remembered is empty when the call names no camera and no model.
StartAnalysis ==
  /\ Between
  /\ "start" \in Commands
  /\ wanted' \in BOOLEAN
  /\ SendEngine("start")
  /\ UNCHANGED <<peers, fdSets, ready, batch, core, accessFd, cut>>

StopAnalysis ==
  /\ Between
  /\ "stop" \in Commands
  /\ SendEngine("engine")
  /\ wanted' = (wanted /\ ~Writable(engineFd))
  /\ UNCHANGED <<peers, fdSets, ready, batch, core, accessFd, cut>>

\* switch_model, or a start by a rule: nothing is remembered.  An OTA sends its
\* switch from a thread of its own, at any time.
EngineCommand ==
  /\ "engine" \in Commands
  /\ SendEngine("engine")
  /\ UNCHANGED <<peers, fdSets, ready, batch, core, accessFd, wanted, cut>>

AccessCommand ==
  /\ Between
  /\ "access" \in Commands
  /\ SendAccess
  /\ UNCHANGED <<peers, fdSets, ready, batch, core, engineFd, wanted, cut>>

Peer == \E c \in Conns : Connect(c) \/ Close(c) \/ \E m \in Messages(Kind(c)) : Send(c, m)

Loop ==
  \/ EpollWait \/ BatchDone \/ HangUp \/ StartRead
  \/ ReadOne \/ ReadDone \/ ReadEof \/ ReadReset \/ Deliver \/ Delivered
  \/ \E k \in Kinds : Accept(k) \/ AcceptDone(k)

Calls == StartAnalysis \/ StopAnalysis \/ EngineCommand \/ AccessCommand

Next == Peer \/ Loop \/ Calls

Spec == Init /\ [][Next]_vars

\* The loop thread goes on as long as it has something to do.
FairSpec == Spec /\ WF_vars(Loop)

-----------------------------------------------------------------------------
(* Properties *)

TypeOK ==
  /\ stage \in [Conns -> {"new", "pending", "served", "over", "dropped"}]
  /\ closed \subseteq Conns
  /\ sends \in [Conns -> Nat] /\ \A c \in Conns : sends[c] <= MaxSend[c]
  /\ \A c \in Conns : inbox[c] \in Seq(Messages(Kind(c)))
  /\ \A k \in Kinds : backlog[k] \in Seq({c \in Conns : Kind(c) = k})
  /\ owner \in [Fds -> Conns \cup {NoConn}]
  /\ clients \subseteq Fds /\ monitors \subseteq Fds
  /\ ready \subseteq 1 .. MaxFd + 3
  /\ batch \in Seq([fd : 1 .. MaxFd + 3, hup : BOOLEAN])
  /\ core.at \in {"wait", "next", "read", "deliver"}
  /\ core.msgs \in Seq(UNION {Messages(k) : k \in Kinds})
  /\ engineFd \in Fds \cup {NoFd} /\ accessFd \in Fds \cup {NoFd}
  /\ wanted \in BOOLEAN
  /\ told \in [Conns -> SUBSET {"start", "engine", "access"}]
  /\ cut \subseteq Conns

\* The two sets of descriptors are exactly the open ones, each in the set of its
\* kind: no descriptor leaks and none stays in a set after its number went to
\* another connection (EventLoop.cpp 79-83, 160-174, 206-217, 295-299).
FdsTracked ==
  /\ clients \cap monitors = {}
  /\ clients \cup monitors = Opened
  /\ \A f \in Opened : f \in monitors <=> owner[f] \in Monitors

\* No edge is lost: when the loop goes to sleep, whatever there is to accept, to
\* read or to close is on the ready list (the read loops end at EAGAIN, 140-175).
NoMissedEdge ==
  core.at = "wait" =>
    \A f \in 1 .. MaxFd + 3 : Readable(f) => f \in ready

\* A connection whose peer is gone is closed in the end: again and again none is
\* left, and a peer that is gone stays gone, as a connection that is closed stays
\* closed.
PeersAreReaped == []<>(\A c \in closed : stage[c] \in {"over", "dropped"})

\* The loop closes a connection that its peer still has open only if a monitor's
\* was closed before: an event reported for one connection is otherwise never
\* handled for the next one with its number, so that one process that dies does
\* not disturb the others, as the design says (EventLoop.cpp 183-227).
StaleEventsNeedMonitors ==
  (\A c \in Monitors : stage[c] # "over") => cut = {}

\* A cleared descriptor keeps commands from going to an unrelated client such as
\* the monitor (main.cpp 40-41, 477-480): that holds as long as no connection was
\* closed inside handle_client_data(), before its last messages were delivered.
MisdirectionNeedsDrop ==
  (\A c \in Conns : stage[c] # "dropped") => \A c \in Monitors : told[c] = {}
=============================================================================
