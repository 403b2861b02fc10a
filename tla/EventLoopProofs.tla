-------------------------- MODULE EventLoopProofs --------------------------
(***************************************************************************)
(* What the event loop keeps of its descriptors, its edges and the ends it *)
(* writes to, for any connections, any number of messages and calls, and   *)
(* events reported in any order.                                           *)
(*                                                                         *)
(* Between epoll_wait() and the handling of an event the descriptor may be *)
(* closed and numbered anew.  The invariant says what an event that waits  *)
(* still stands for: an edge that is not on the ready list any more, and,  *)
(* until a monitor was closed out of turn, a connection that is the same.  *)
(***************************************************************************)
EXTENDS EventLoop, FiniteSetTheorems, FunctionTheorems, SequenceTheorems, TLAPS

AllMessages == {"report", "snapshot", "replyAsEngine", "replyAsOther", "data", "query"}

Names == 1 .. MaxFd + 3

Types ==
  /\ TypeOK
  /\ inbox \in [Conns -> Seq(AllMessages)]
  /\ backlog \in [Kinds -> Seq(Conns)]
  /\ core \in [at : {"wait", "next", "read", "deliver"}, msgs : Seq(AllMessages)]

\* A connection is in a backlog, or behind one descriptor, or in neither.
SocketsOK ==
  /\ FdsTracked
  /\ \A f, g \in Opened : owner[f] = owner[g] => f = g
  /\ \A f \in Opened : stage[owner[f]] = "served"
  /\ \A k \in Kinds : \A i \in 1 .. Len(backlog[k]) : stage[backlog[k][i]] = "pending"
  /\ \A k \in Kinds : \A i, j \in 1 .. Len(backlog[k]) :
       backlog[k][i] = backlog[k][j] => i = j

Handling == core.at \in {"read", "deliver"}

\* What is being read is an event of a client without hang-up, and a descriptor
\* is reported once.
BatchOK ==
  /\ core.at = "wait" => batch = <<>>
  /\ Handling => batch # <<>> /\ batch[1].fd \in Fds /\ ~batch[1].hup
  /\ \A i, j \in 1 .. Len(batch) : batch[i].fd = batch[j].fd => i = j

\* What there is to close, to read or to accept is on the ready list or among
\* the events to come; one that has been read to its end stands for nothing.
HangUpKnown ==
  \A f \in Opened : owner[f] \in closed =>
    f \in ready \/ \E i \in 1 .. Len(batch) : batch[i].fd = f /\ batch[i].hup

InputKnown ==
  \A f \in Opened : inbox[owner[f]] # <<>> =>
    f \in ready \/ \E i \in 1 .. Len(batch) :
                     batch[i].fd = f /\ (i = 1 => core.at # "deliver")

BacklogKnown ==
  \A k \in Kinds : backlog[k] # <<>> =>
    Listener[k] \in ready \/ \E i \in 1 .. Len(batch) : batch[i].fd = Listener[k]

EdgesOK == HangUpKnown /\ InputKnown /\ BacklogKnown

\* An event with hang-up is of a connection that still has the descriptor.
HangUpsAreCurrent ==
  \A i \in 1 .. Len(batch) :
    batch[i].hup => batch[i].fd \in Opened /\ owner[batch[i].fd] \in closed

StaleOK ==
  (\A c \in Monitors : stage[c] # "over") => cut = {} /\ HangUpsAreCurrent

\* The descriptors that commands go to are open and no monitor's, and a message
\* read from a descriptor is one its kind of peer sends.
SenderKnown ==
  Handling =>
    \A i \in 1 .. Len(core.msgs) :
      \/ core.msgs[i] = "query"
      \/ /\ batch[1].fd \in Opened
         /\ core.msgs[i] \in Messages(Kind(owner[batch[1].fd]))

Addressed(f) == f # NoFd => f \in Opened /\ owner[f] \in Engines \cup Accesses

AddressOK ==
  (\A c \in Conns : stage[c] # "dropped") =>
    /\ Addressed(engineFd) /\ Addressed(accessFd)
    /\ \A c \in Monitors : told[c] = {}
    /\ SenderKnown

IInv == Types /\ SocketsOK /\ BatchOK /\ EdgesOK /\ StaleOK /\ AddressOK

-----------------------------------------------------------------------------
(* Kinds, sequences and the batch *)

EventType == [fd : Names, hup : BOOLEAN]

LEMMA KindFacts ==
  /\ \A c \in Conns : /\ Kind(c) \in Kinds
                      /\ Kind(c) = "engine" <=> c \in Engines
                      /\ Kind(c) = "access" <=> c \in Accesses
                      /\ Kind(c) = "monitor" <=> c \in Monitors
  /\ \A k \in Kinds : Messages(k) \subseteq AllMessages
  /\ UNION {Messages(k) : k \in Kinds} = AllMessages
  /\ NoConn \notin Conns
BY ConnAssumption DEF Conns, Kind, Kinds, Messages, AllMessages, NoConn

LEMMA NameFacts ==
  /\ MaxFd \in Nat
  /\ Fds \subseteq Names /\ NoFd \notin Fds
  /\ \A k \in Kinds : Listener[k] \in Names /\ Listener[k] \notin Fds
  /\ \A k, l \in Kinds : Listener[k] = Listener[l] => k = l
BY FdAssumption DEF Fds, Names, NoFd, Kinds, Listener

LEMMA TypesAre ==
  ASSUME Types
  PROVE  /\ owner \in [Fds -> Conns \cup {NoConn}] /\ stage \in [Conns -> {"new", "pending", "served", "over", "dropped"}]
         /\ inbox \in [Conns -> Seq(AllMessages)] /\ backlog \in [Kinds -> Seq(Conns)]
         /\ batch \in Seq(EventType) /\ core.msgs \in Seq(AllMessages)
         /\ \A f \in Opened : f \in Fds /\ owner[f] \in Conns
BY DEF Types, TypeOK, EventType, Names, Opened

LEMMA OpenedIs ==
  ASSUME Types, SocketsOK
  PROVE  /\ monitors \subseteq Opened /\ clients \subseteq Opened
         /\ Opened \subseteq Fds
         /\ \A f \in monitors : owner[f] \in Monitors
         /\ \A f \in Opened \ monitors : owner[f] \in Engines \cup Accesses
PROOF
<1>1. \A f \in Opened : f \in Fds /\ owner[f] \in Conns
  BY TypesAre
<1> QED BY <1>1 DEF SocketsOK, FdsTracked, Opened, Conns

\* The events that remain when the first one is done with.
LEMMA RestOfBatch ==
  ASSUME NEW b \in Seq(EventType), b # <<>>, NEW t, t = Tail(b)
  PROVE  /\ Head(b) = b[1] /\ 1 \in 1 .. Len(b) /\ b[1] \in EventType
         /\ t \in Seq(EventType)
         /\ \A i \in 1 .. Len(t) : i + 1 \in 1 .. Len(b) /\ i + 1 # 1 /\ t[i] = b[i + 1]
         /\ \A i \in 1 .. Len(b) : i # 1 => i - 1 \in 1 .. Len(t) /\ t[i - 1] = b[i]
PROOF
<1>1. Len(b) \in Nat \ {0} /\ Head(b) = b[1] /\ Head(b) \in EventType
  BY EmptySeq, HeadTailProperties
<1>2. /\ t \in Seq(EventType) /\ Len(t) = Len(b) - 1
      /\ \A i \in 1 .. Len(t) : t[i] = b[i + 1]
  BY HeadTailProperties
<1> DEFINE n == Len(b)  m == Len(t)
<1>3. n \in Nat /\ m \in Nat /\ n = m + 1
  BY <1>1, <1>2
<1>4. \A i \in 1 .. m : t[i] = b[i + 1]
  BY <1>2
<1> HIDE DEF n, m
<1>5. ASSUME NEW i \in 1 .. m PROVE i + 1 \in 1 .. n /\ i + 1 # 1 /\ t[i] = b[i + 1]
  <2>1. i + 1 \in 1 .. n /\ i + 1 # 1
    BY <1>3
  <2> QED BY <1>4, <2>1
<1>6. ASSUME NEW i \in 1 .. n, i # 1 PROVE i - 1 \in 1 .. m /\ t[i - 1] = b[i]
  <2>1. i - 1 \in 1 .. m /\ (i - 1) + 1 = i
    BY <1>3, <1>6
  <2>2. t[i - 1] = b[(i - 1) + 1]
    BY <1>4, <2>1
  <2> QED BY <2>1, <2>2
<1>7. 1 \in 1 .. n
  BY <1>3
<1>8. \A i \in 1 .. n : i # 1 => i - 1 \in 1 .. m /\ t[i - 1] = b[i]
  BY <1>6
<1> QED BY <1>1, <1>2, <1>5, <1>7, <1>8 DEF n, m

\* A message more, and a message less.
LEMMA MessageAdded ==
  ASSUME NEW M, NEW s \in Seq(M), NEW m \in M
  PROVE  Append(s, m) \in Seq(M)
BY AppendProperties

LEMMA MessageTaken ==
  ASSUME NEW M, NEW s \in Seq(M), s # <<>>
  PROVE  Head(s) \in M /\ Tail(s) \in Seq(M)
BY HeadTailProperties

\* What epoll_wait() reports is each ready descriptor once.
LEMMA Reported ==
  ASSUME Types, NEW events, NEW b,
         events = {EventOf(f) : f \in {g \in ready : Readable(g)}},
         b \in Bijection(1 .. Cardinality(events), events)
  PROVE  /\ b \in Seq(EventType)
         /\ \A i \in 1 .. Len(b) :
              \E f \in ready : Readable(f) /\ b[i] = EventOf(f)
         /\ \A f \in ready : Readable(f) => \E i \in 1 .. Len(b) : b[i] = EventOf(f)
         /\ \A i, j \in 1 .. Len(b) : b[i].fd = b[j].fd => i = j
PROOF
<1> DEFINE R == {g \in ready : Readable(g)}
           n == Cardinality(events)
<1>1. R \subseteq Names /\ ready \subseteq Names
  BY DEF Types, TypeOK, Names
<1>2. IsFiniteSet(Names)
  BY FS_Interval, NameFacts DEF Names
<1>3. IsFiniteSet(R)
  BY <1>1, <1>2, FS_Subset
<1>4. IsFiniteSet(events)
  <2> DEFINE e == [f \in R |-> EventOf(f)]
  <2>1. e \in Surjection(R, events)
    BY DEF Surjection
  <2> HIDE DEF e, R
  <2> QED BY <1>3, <2>1, FS_Surjection
<1>5. n \in Nat
  BY <1>4, FS_CardinalityType
<1>6. \A f \in Names : EventOf(f) \in EventType /\ EventOf(f).fd = f
  BY DEF EventOf, EventType
<1>7. events \subseteq EventType
  BY <1>1, <1>6
<1> HIDE DEF n
<1>8. /\ b \in [1 .. n -> events]
      /\ \A i, j \in 1 .. n : b[i] = b[j] => i = j
      /\ \A e \in events : \E i \in 1 .. n : b[i] = e
  <2>1. b \in Bijection(1 .. n, events)
    BY DEF n
  <2> QED BY <2>1 DEF Bijection, Injection, Surjection, IsInjective
<1>9. b \in Seq(EventType) /\ Len(b) = n
  BY <1>5, <1>7, <1>8
<1>10. ASSUME NEW i \in 1 .. n PROVE \E f \in ready : Readable(f) /\ b[i] = EventOf(f)
  <2>1. b[i] \in events
    BY <1>8
  <2> QED BY <2>1
<1>11. ASSUME NEW f \in ready, Readable(f) PROVE \E i \in 1 .. n : b[i] = EventOf(f)
  <2>1. EventOf(f) \in events
    BY <1>11
  <2> QED BY <1>8, <2>1
<1>12. ASSUME NEW i \in 1 .. n, NEW j \in 1 .. n, b[i].fd = b[j].fd PROVE i = j
  <2>1. PICK f \in ready : b[i] = EventOf(f)
    BY <1>10
  <2>2. PICK g \in ready : b[j] = EventOf(g)
    BY <1>10
  <2>3. f = g
    BY <1>1, <1>6, <1>12, <2>1, <2>2
  <2> QED BY <1>8, <2>1, <2>2, <2>3
<1> QED BY <1>9, <1>10, <1>11, <1>12

-----------------------------------------------------------------------------
(* The beginning, the peers and the remote calls *)

LEMMA InitOK == Init => IInv
PROOF
<1> SUFFICES ASSUME Init PROVE IInv
  OBVIOUS
<1>1. Opened = {}
  BY DEF Init, Opened
<1>2. \A S : <<>> \in Seq(S) /\ Len(<<>>) = 0 /\ 1 .. 0 = {}
  OBVIOUS
<1>3. Types
  <2>1. \A S : <<>> \in Seq(S)
    BY <1>2
  <2>2. /\ sends \in [Conns -> Nat] /\ \A c \in Conns : sends[c] <= MaxSend[c]
        /\ told \in [Conns -> SUBSET {"start", "engine", "access"}]
    BY SendAssumption DEF Init
  <2>3. /\ inbox \in [Conns -> Seq(AllMessages)] /\ \A c \in Conns : inbox[c] \in Seq(Messages(Kind(c)))
        /\ backlog \in [Kinds -> Seq(Conns)]
        /\ \A k \in Kinds : backlog[k] \in Seq({c \in Conns : Kind(c) = k})
    BY <2>1 DEF Init
  <2>4. /\ core \in [at : {"wait", "next", "read", "deliver"}, msgs : Seq(AllMessages)]
        /\ core.at = "wait" /\ core.msgs \in Seq(UNION {Messages(k) : k \in Kinds})
        /\ batch \in Seq([fd : Names, hup : BOOLEAN])
    BY <2>1 DEF Init
  <2>5. /\ stage \in [Conns -> {"new", "pending", "served", "over", "dropped"}]
        /\ owner \in [Fds -> Conns \cup {NoConn}]
        /\ closed = {} /\ cut = {} /\ clients = {} /\ monitors = {} /\ ready = {}
        /\ engineFd = NoFd /\ accessFd = NoFd /\ wanted = FALSE
    BY DEF Init
  <2> QED BY <2>2, <2>3, <2>4, <2>5 DEF Types, TypeOK, Names
<1>4. SocketsOK
  BY <1>1, <1>2 DEF SocketsOK, FdsTracked, Init
<1>5. BatchOK
  BY <1>2 DEF BatchOK, Handling, Init
<1>6. EdgesOK
  BY <1>1 DEF EdgesOK, HangUpKnown, InputKnown, BacklogKnown, Init
<1>7. StaleOK
  BY <1>2 DEF StaleOK, HangUpsAreCurrent, Init
<1>8. AddressOK
  BY <1>2 DEF AddressOK, Addressed, SenderKnown, Handling, Init, Conns
<1> QED BY <1>3, <1>4, <1>5, <1>6, <1>7, <1>8 DEF IInv

LEMMA SocketsSame ==
  ASSUME SocketsOK, UNCHANGED <<fdSets, stage, backlog>>
  PROVE  SocketsOK' /\ Opened' = Opened
BY DEF SocketsOK, FdsTracked, Opened, fdSets

LEMMA BatchSame ==
  ASSUME BatchOK, UNCHANGED <<batch, core>>
  PROVE  BatchOK'
BY DEF BatchOK, Handling

\* More edges do no harm.
LEMMA EdgesAdded ==
  ASSUME EdgesOK, UNCHANGED <<owner, closed, inbox, backlog, batch, core>>, ready \subseteq ready'
  PROVE  EdgesOK'
BY DEF EdgesOK, HangUpKnown, InputKnown, BacklogKnown, Opened

LEMMA ConnectKeeps ==
  ASSUME IInv, NEW c \in Conns, Connect(c)
  PROVE  IInv'
PROOF
<1> DEFINE k == Kind(c)
<1>1. /\ stage[c] = "new" /\ stage' = [stage EXCEPT ![c] = "pending"]
      /\ backlog' = [backlog EXCEPT ![k] = Append(@, c)]
      /\ ready' = ready \cup {Listener[k]}
      /\ UNCHANGED <<closed, sends, inbox, fdSets, batch, core, cmd, cut>>
      /\ UNCHANGED <<owner, clients, monitors, engineFd, accessFd, wanted, told>>
  BY DEF Connect, fdSets, cmd
<1>2. Types /\ SocketsOK /\ BatchOK /\ EdgesOK /\ StaleOK /\ AddressOK
  BY DEF IInv
<1>3. k \in Kinds /\ backlog[k] \in Seq(Conns) /\ backlog \in [Kinds -> Seq(Conns)]
  BY <1>2, TypesAre, KindFacts
<1>4. stage \in [Conns -> {"new", "pending", "served", "over", "dropped"}]
  BY <1>2, TypesAre
<1> DEFINE s == backlog[k]
<1>5. /\ Append(s, c) \in Seq(Conns) /\ Len(Append(s, c)) = Len(s) + 1 /\ Len(s) \in Nat
      /\ \A i \in 1 .. Len(s) : Append(s, c)[i] = s[i]
      /\ Append(s, c)[Len(s) + 1] = c
  BY <1>3, AppendProperties
<1>6. Append(s, c) \in Seq({d \in Conns : Kind(d) = k})
  BY <1>2, <1>3, MessageAdded DEF Types, TypeOK
<1> DEFINE t == Append(s, c)
<1> HIDE DEF k, t
<1>7. /\ backlog' \in [Kinds -> Seq(Conns)] /\ backlog'[k] = t
      /\ \A l \in Kinds : l # k => backlog'[l] = backlog[l]
      /\ stage' \in [Conns -> {"new", "pending", "served", "over", "dropped"}]
      /\ stage'[c] = "pending" /\ \A d \in Conns : d # c => stage'[d] = stage[d]
  BY <1>1, <1>3, <1>4, <1>5 DEF t
<1>8. \A l \in Kinds : backlog'[l] \in Seq({d \in Conns : Kind(d) = l})
  <2>1. \A l \in Kinds : backlog[l] \in Seq({d \in Conns : Kind(d) = l})
    BY <1>2 DEF Types, TypeOK
  <2>2. t \in Seq({d \in Conns : Kind(d) = k})
    BY <1>6 DEF t
  <2> QED BY <1>7, <2>1, <2>2
<1>9. ready' \subseteq Names
  BY <1>1, <1>2, <1>3, NameFacts DEF Types, TypeOK, Names
<1>10. Types'
  BY <1>1, <1>2, <1>7, <1>8, <1>9 DEF Types, TypeOK, Names
<1>11. Opened' = Opened
  BY <1>1 DEF Opened
<1>12. SocketsOK'
  <2>1. FdsTracked'
    BY <1>1, <1>2, <1>11 DEF SocketsOK, FdsTracked
  <2>2. \A f, g \in Opened' : owner'[f] = owner'[g] => f = g
    BY <1>1, <1>2, <1>11 DEF SocketsOK
  <2>3. \A f \in Opened' : stage'[owner'[f]] = "served"
    <3>1. \A f \in Opened : stage[owner[f]] = "served" /\ owner[f] \in Conns
      BY <1>2, TypesAre DEF SocketsOK
    <3> QED BY <1>1, <1>7, <1>11, <3>1
  <2>4. ASSUME NEW l \in Kinds, l # k
        PROVE  /\ \A i \in 1 .. Len(backlog'[l]) : stage'[backlog'[l][i]] = "pending"
               /\ \A i, j \in 1 .. Len(backlog'[l]) : backlog'[l][i] = backlog'[l][j] => i = j
    <3>1. backlog[l] \in Seq(Conns) /\ backlog'[l] = backlog[l]
      BY <1>3, <1>7, <2>4
    <3>2. /\ \A i \in 1 .. Len(backlog[l]) : stage[backlog[l][i]] = "pending"
          /\ \A i, j \in 1 .. Len(backlog[l]) : backlog[l][i] = backlog[l][j] => i = j
      BY <1>2 DEF SocketsOK
    <3>3. \A i \in 1 .. Len(backlog[l]) : backlog[l][i] \in Conns
      BY <3>1, ElementOfSeq
    <3> QED BY <1>1, <1>7, <3>1, <3>2, <3>3
  <2>5. /\ \A i \in 1 .. Len(t) : stage'[t[i]] = "pending"
        /\ \A i, j \in 1 .. Len(t) : t[i] = t[j] => i = j
    <3>1. /\ \A i \in 1 .. Len(s) : stage[s[i]] = "pending" /\ s[i] \in Conns
          /\ \A i, j \in 1 .. Len(s) : s[i] = s[j] => i = j
      BY <1>2, <1>3, ElementOfSeq DEF SocketsOK
    <3> DEFINE n == Len(s)
    <3>2. /\ n \in Nat /\ Len(t) = n + 1 /\ t[n + 1] = c
          /\ \A i \in 1 .. n : t[i] = s[i]
      BY <1>5 DEF t
    <3> HIDE DEF n
    <3>3. 1 .. n + 1 = (1 .. n) \cup {n + 1}
      BY <3>2
    <3>4. \A i \in 1 .. n : t[i] # c /\ stage'[t[i]] = "pending"
      BY <1>1, <1>7, <3>1, <3>2 DEF n
    <3>5. \A i, j \in 1 .. n : t[i] = t[j] => i = j
      BY <3>1, <3>2 DEF n
    <3> QED BY <1>7, <3>2, <3>3, <3>4, <3>5
  <2>6. \A l \in Kinds :
          /\ \A i \in 1 .. Len(backlog'[l]) : stage'[backlog'[l][i]] = "pending"
          /\ \A i, j \in 1 .. Len(backlog'[l]) : backlog'[l][i] = backlog'[l][j] => i = j
    BY <1>7, <2>4, <2>5
  <2> QED BY <2>1, <2>2, <2>3, <2>6 DEF SocketsOK
<1>13. BatchOK'
  BY <1>1, <1>2, BatchSame
<1>14. EdgesOK'
  <2>1. HangUpKnown' /\ InputKnown'
    BY <1>1, <1>2, <1>11 DEF EdgesOK, HangUpKnown, InputKnown
  <2>2. ASSUME NEW l \in Kinds, backlog'[l] # <<>>
        PROVE  Listener[l] \in ready' \/ \E i \in 1 .. Len(batch') : batch'[i].fd = Listener[l]
    <3>1. CASE l = k
      BY <1>1, <3>1 DEF k
    <3>2. CASE l # k
      BY <1>1, <1>2, <1>7, <2>2, <3>2 DEF EdgesOK, BacklogKnown
    <3> QED BY <3>1, <3>2
  <2> QED BY <2>1, <2>2 DEF EdgesOK, BacklogKnown
<1>15. StaleOK'
  BY <1>1, <1>2, <1>4, <1>7, <1>11 DEF StaleOK, HangUpsAreCurrent, Conns
<1>16. AddressOK'
  <2>1. (\A d \in Conns : stage'[d] # "dropped") => \A d \in Conns : stage[d] # "dropped"
    BY <1>1, <1>7
  <2>2. SenderKnown => SenderKnown'
    BY <1>1, <1>11 DEF SenderKnown, Handling
  <2> QED BY <1>1, <1>2, <1>11, <2>1, <2>2 DEF AddressOK, Addressed
<1> QED BY <1>10, <1>12, <1>13, <1>14, <1>15, <1>16 DEF IInv

LEMMA SendKeeps ==
  ASSUME IInv, NEW c \in Conns, NEW m \in Messages(Kind(c)), Send(c, m)
  PROVE  IInv'
PROOF
<1>1. /\ sends[c] < MaxSend[c] /\ sends' = [sends EXCEPT ![c] = @ + 1]
      /\ inbox' = [inbox EXCEPT ![c] = Append(@, m)]
      /\ ready' = ready \cup FdOf(c)
      /\ UNCHANGED <<stage, closed, backlog, fdSets, batch, core, cmd, cut>>
      /\ UNCHANGED <<owner, clients, monitors, engineFd, accessFd, wanted, told>>
  BY DEF Send, fdSets, cmd
<1>2. Types /\ SocketsOK /\ BatchOK /\ EdgesOK /\ StaleOK /\ AddressOK
  BY DEF IInv
<1>3. sends' \in [Conns -> Nat] /\ \A d \in Conns : sends'[d] <= MaxSend[d]
  BY <1>1, <1>2, SendAssumption DEF Types, TypeOK
<1>4. /\ inbox[c] \in Seq(AllMessages) /\ inbox[c] \in Seq(Messages(Kind(c)))
      /\ inbox \in [Conns -> Seq(AllMessages)] /\ m \in AllMessages
  BY <1>2, TypesAre, KindFacts DEF Types, TypeOK
<1>5. Append(inbox[c], m) \in Seq(AllMessages) /\ Append(inbox[c], m) \in Seq(Messages(Kind(c)))
  BY <1>4, MessageAdded
<1>6. /\ inbox' \in [Conns -> Seq(AllMessages)] /\ inbox'[c] = Append(inbox[c], m)
      /\ \A d \in Conns : d # c => inbox'[d] = inbox[d]
  BY <1>1, <1>4, <1>5
<1>7. \A d \in Conns : inbox'[d] \in Seq(Messages(Kind(d)))
  BY <1>2, <1>5, <1>6 DEF Types, TypeOK
<1>8. FdOf(c) \subseteq Names
  BY NameFacts DEF FdOf
<1>9. Types'
  BY <1>1, <1>2, <1>3, <1>6, <1>7, <1>8 DEF Types, TypeOK, Names
<1>10. SocketsOK' /\ Opened' = Opened
  BY <1>1, <1>2, SocketsSame
<1>11. BatchOK'
  BY <1>1, <1>2, BatchSame
<1>12. EdgesOK'
  <2>1. HangUpKnown' /\ BacklogKnown'
    BY <1>1, <1>2, <1>10 DEF EdgesOK, HangUpKnown, BacklogKnown
  <2>2. ASSUME NEW f \in Opened, inbox'[owner[f]] # <<>>
        PROVE  f \in ready' \/ \E i \in 1 .. Len(batch) : batch[i].fd = f /\ (i = 1 => core.at # "deliver")
    <3>1. f \in Fds /\ owner[f] \in Conns
      BY <1>2, TypesAre
    <3>2. CASE owner[f] = c
      BY <1>1, <3>1, <3>2 DEF FdOf
    <3>3. CASE owner[f] # c
      BY <1>1, <1>2, <1>6, <2>2, <3>1, <3>3 DEF EdgesOK, InputKnown
    <3> QED BY <3>2, <3>3
  <2>3. InputKnown'
    BY <1>1, <1>10, <2>2 DEF InputKnown
  <2> QED BY <2>1, <2>3 DEF EdgesOK
<1>13. StaleOK'
  BY <1>1, <1>2, <1>10 DEF StaleOK, HangUpsAreCurrent
<1>14. AddressOK'
  BY <1>1, <1>2, <1>10 DEF AddressOK, Addressed, SenderKnown, Handling
<1> QED BY <1>9, <1>10, <1>11, <1>12, <1>13, <1>14 DEF IInv

LEMMA CloseKeeps ==
  ASSUME IInv, NEW c \in Conns, Close(c)
  PROVE  IInv'
PROOF
<1>1. /\ closed' = closed \cup {c}
      /\ ready' = ready \cup FdOf(c)
      /\ UNCHANGED <<stage, sends, inbox, backlog, fdSets, batch, core, cmd, cut>>
      /\ UNCHANGED <<owner, clients, monitors, engineFd, accessFd, wanted, told>>
  BY DEF Close, fdSets, cmd
<1>2. Types /\ SocketsOK /\ BatchOK /\ EdgesOK /\ StaleOK /\ AddressOK
  BY DEF IInv
<1>3. FdOf(c) \subseteq Names
  BY NameFacts DEF FdOf
<1>4. Types'
  BY <1>1, <1>2, <1>3 DEF Types, TypeOK, Names
<1>5. SocketsOK' /\ Opened' = Opened
  BY <1>1, <1>2, SocketsSame
<1>6. BatchOK'
  BY <1>1, <1>2, BatchSame
<1>7. EdgesOK'
  <2>1. InputKnown' /\ BacklogKnown'
    BY <1>1, <1>2, <1>5 DEF EdgesOK, InputKnown, BacklogKnown
  <2>2. ASSUME NEW f \in Opened, owner[f] \in closed'
        PROVE  f \in ready' \/ \E i \in 1 .. Len(batch) : batch[i].fd = f /\ batch[i].hup
    <3>1. f \in Fds
      BY <1>2, TypesAre
    <3>2. CASE owner[f] = c
      BY <1>1, <3>1, <3>2 DEF FdOf
    <3>3. CASE owner[f] # c
      BY <1>1, <1>2, <2>2, <3>3 DEF EdgesOK, HangUpKnown
    <3> QED BY <3>2, <3>3
  <2>3. HangUpKnown'
    BY <1>1, <1>5, <2>2 DEF HangUpKnown
  <2> QED BY <2>1, <2>3 DEF EdgesOK
<1>8. StaleOK'
  BY <1>1, <1>2, <1>5 DEF StaleOK, HangUpsAreCurrent
<1>9. AddressOK'
  BY <1>1, <1>2, <1>5 DEF AddressOK, Addressed, SenderKnown, Handling
<1> QED BY <1>4, <1>5, <1>6, <1>7, <1>8, <1>9 DEF IInv

\* A command is noted where it goes.
LEMMA Told ==
  ASSUME Types, SocketsOK, NEW f, Writable(f), NEW what \in {"start", "engine", "access"}
  PROVE  /\ Tell(f, what) \in [Conns -> SUBSET {"start", "engine", "access"}]
         /\ owner[f] \notin Monitors => \A c \in Monitors : Tell(f, what)[c] = told[c]
PROOF
<1>1. owner[f] \in Conns /\ told \in [Conns -> SUBSET {"start", "engine", "access"}]
  BY TypesAre DEF Writable, Types, TypeOK
<1> QED BY <1>1 DEF Tell, Conns

\* Nothing changes but what is told, and a descriptor that is cleared.
LEMMA CallsKeep ==
  ASSUME IInv, Calls
  PROVE  IInv'
PROOF
<1>1. /\ UNCHANGED <<peers, fdSets, ready, batch, core, cut>>
      /\ UNCHANGED <<stage, closed, sends, inbox, backlog, owner, clients, monitors>>
  BY DEF Calls, StartAnalysis, StopAnalysis, EngineCommand, AccessCommand, peers, fdSets
<1>2. Types /\ SocketsOK /\ BatchOK /\ EdgesOK /\ StaleOK /\ AddressOK
  BY DEF IInv
<1>3. /\ engineFd' \in {engineFd, NoFd} /\ accessFd' \in {accessFd, NoFd}
      /\ \/ told' = told
         \/ \E f \in {engineFd, accessFd} : \E what \in {"start", "engine", "access"} :
              Writable(f) /\ told' = Tell(f, what)
  BY DEF Calls, StartAnalysis, StopAnalysis, EngineCommand, AccessCommand, SendEngine, SendAccess
<1>4. wanted \in BOOLEAN
  BY <1>2 DEF Types, TypeOK
<1>5. wanted' \in BOOLEAN
  BY <1>4 DEF Calls, StartAnalysis, StopAnalysis, EngineCommand, AccessCommand
<1>6. told' \in [Conns -> SUBSET {"start", "engine", "access"}]
  <2>1. CASE told' = told
    BY <1>2, <2>1 DEF Types, TypeOK
  <2>2. CASE told' # told
    BY <1>2, <1>3, <2>2, Told
  <2> QED BY <2>1, <2>2
<1>7. Types'
  BY <1>1, <1>2, <1>3, <1>5, <1>6 DEF Types, TypeOK
<1>8. SocketsOK' /\ Opened' = Opened
  BY <1>1, <1>2, SocketsSame
<1>9. BatchOK' /\ EdgesOK'
  BY <1>1, <1>2, BatchSame, EdgesAdded
<1>10. StaleOK'
  BY <1>1, <1>2, <1>8 DEF StaleOK, HangUpsAreCurrent
<1>11. AddressOK'
  <2> SUFFICES ASSUME \A c \in Conns : stage[c] # "dropped"
               PROVE  Addressed(engineFd)' /\ Addressed(accessFd)' /\ SenderKnown'
                      /\ \A c \in Monitors : told'[c] = {}
    BY <1>1 DEF AddressOK
  <2>1. Addressed(engineFd) /\ Addressed(accessFd) /\ SenderKnown /\ \A c \in Monitors : told[c] = {}
    BY <1>2 DEF AddressOK
  <2>2. Addressed(engineFd)' /\ Addressed(accessFd)' /\ SenderKnown'
    BY <1>1, <1>3, <1>8, <2>1 DEF Addressed, SenderKnown, Handling
  <2>3. \A c \in Monitors : told'[c] = {}
    <3>1. CASE told' = told
      BY <2>1, <3>1
    <3>2. CASE told' # told
      <4>1. PICK f \in {engineFd, accessFd}, what \in {"start", "engine", "access"} :
              Writable(f) /\ told' = Tell(f, what)
        BY <1>3, <3>2
      <4>2. f \in Fds
        BY <1>2, <4>1, TypesAre DEF Writable
      <4>3. owner[f] \in Engines \cup Accesses
        BY <2>1, <4>1, <4>2, NameFacts DEF Addressed
      <4>4. owner[f] \notin Monitors
        BY <4>3, ConnAssumption
      <4> QED BY <1>2, <2>1, <4>1, <4>4, Told
    <3> QED BY <3>1, <3>2
  <2> QED BY <2>2, <2>3
<1> QED BY <1>7, <1>8, <1>9, <1>10, <1>11 DEF IInv

-----------------------------------------------------------------------------
(* The loop, where it closes nothing *)

\* The loop goes on to the next event.
LEMMA NextEvent ==
  ASSUME Types, BatchOK, batch # <<>>, batch' = Tail(batch), core'.at = "next"
  PROVE  batch' \in Seq(EventType) /\ BatchOK'
PROOF
<1>1. batch \in Seq(EventType)
  BY TypesAre
<1>2. /\ batch' \in Seq(EventType)
      /\ \A i \in 1 .. Len(batch') : i + 1 \in 1 .. Len(batch) /\ i + 1 # 1 /\ batch'[i] = batch[i + 1]
  BY <1>1, RestOfBatch
<1>3. ASSUME NEW i \in 1 .. Len(batch'), NEW j \in 1 .. Len(batch'), batch'[i].fd = batch'[j].fd
      PROVE  i = j
  <2>1. i + 1 = j + 1
    BY <1>2, <1>3 DEF BatchOK
  <2> QED BY <2>1
<1> QED BY <1>2, <1>3 DEF BatchOK, Handling

\* Hang-ups that wait are of the same connections as before.
LEMMA RestIsCurrent ==
  ASSUME Types, batch # <<>>, batch' = Tail(batch), HangUpsAreCurrent,
         UNCHANGED <<owner, closed>>
  PROVE  HangUpsAreCurrent'
PROOF
<1>1. batch \in Seq(EventType)
  BY TypesAre
<1>2. \A i \in 1 .. Len(batch') : i + 1 \in 1 .. Len(batch) /\ batch'[i] = batch[i + 1]
  BY <1>1, RestOfBatch
<1> QED BY <1>2 DEF HangUpsAreCurrent, Opened

LEMMA EpollWaitKeeps ==
  ASSUME IInv, EpollWait
  PROVE  IInv'
PROOF
<1>1. /\ core.at = "wait" /\ ready' = {} /\ core' = [core EXCEPT !.at = "next"]
      /\ UNCHANGED <<peers, fdSets, cmd, cut>>
      /\ UNCHANGED <<stage, closed, sends, inbox, backlog, owner, clients, monitors>>
      /\ UNCHANGED <<engineFd, accessFd, wanted, told>>
  BY DEF EpollWait, peers, fdSets, cmd
<1>2. Types /\ SocketsOK /\ BatchOK /\ EdgesOK /\ StaleOK /\ AddressOK
  BY DEF IInv
<1>3. /\ batch' \in Seq(EventType)
      /\ \A i \in 1 .. Len(batch') : \E f \in ready : Readable(f) /\ batch'[i] = EventOf(f)
      /\ \A f \in ready : Readable(f) => \E i \in 1 .. Len(batch') : batch'[i] = EventOf(f)
      /\ \A i, j \in 1 .. Len(batch') : batch'[i].fd = batch'[j].fd => i = j
  <2> DEFINE events == {EventOf(f) : f \in {g \in ready : Readable(g)}}
  <2>1. batch' \in Bijection(1 .. Cardinality(events), events)
    BY DEF EpollWait
  <2> QED BY <1>2, <2>1, Reported
<1>4. /\ core'.at = "next" /\ core'.msgs = core.msgs
      /\ core' \in [at : {"wait", "next", "read", "deliver"}, msgs : Seq(AllMessages)]
  BY <1>1, <1>2 DEF Types
<1>5. Types'
  BY <1>1, <1>2, <1>3, <1>4 DEF Types, TypeOK, EventType, Names
<1>6. SocketsOK' /\ Opened' = Opened
  BY <1>1, <1>2, SocketsSame
<1>7. BatchOK'
  BY <1>3, <1>4 DEF BatchOK, Handling
<1>8. batch = <<>> /\ Len(batch) = 0
  BY <1>1, <1>2 DEF BatchOK
<1>9. \A f : EventOf(f).fd = f
  BY DEF EventOf
<1>10. EdgesOK'
  <2>1. ASSUME NEW f \in Opened, owner[f] \in closed
        PROVE  \E i \in 1 .. Len(batch') : batch'[i].fd = f /\ batch'[i].hup
    <3>1. f \in ready
      BY <1>2, <1>8, <2>1 DEF EdgesOK, HangUpKnown
    <3>2. Readable(f) /\ EventOf(f).hup
      BY <2>1 DEF Readable, EventOf
    <3> QED BY <1>3, <1>9, <3>1, <3>2
  <2>2. ASSUME NEW f \in Opened, inbox[owner[f]] # <<>>
        PROVE  \E i \in 1 .. Len(batch') : batch'[i].fd = f
    <3>1. f \in ready
      BY <1>2, <1>8, <2>2 DEF EdgesOK, InputKnown
    <3>2. Readable(f)
      BY <2>2 DEF Readable
    <3> QED BY <1>3, <1>9, <3>1, <3>2
  <2>3. ASSUME NEW k \in Kinds, backlog[k] # <<>>
        PROVE  \E i \in 1 .. Len(batch') : batch'[i].fd = Listener[k]
    <3>1. Listener[k] \in ready
      BY <1>2, <1>8, <2>3 DEF EdgesOK, BacklogKnown
    <3>2. Readable(Listener[k])
      BY <2>3 DEF Readable
    <3> QED BY <1>3, <1>9, <3>1, <3>2
  <2> QED BY <1>1, <1>4, <1>6, <2>1, <2>2, <2>3 DEF EdgesOK, HangUpKnown, InputKnown, BacklogKnown
<1>11. HangUpsAreCurrent'
  <2>1. ASSUME NEW i \in 1 .. Len(batch'), batch'[i].hup
        PROVE  batch'[i].fd \in Opened /\ owner[batch'[i].fd] \in closed
    <3>1. PICK f \in ready : batch'[i] = EventOf(f)
      BY <1>3
    <3>2. EventOf(f).hup => f \in Opened /\ owner[f] \in closed
      BY DEF EventOf
    <3> QED BY <1>9, <2>1, <3>1, <3>2
  <2> QED BY <1>1, <1>6, <2>1 DEF HangUpsAreCurrent
<1>12. StaleOK'
  BY <1>1, <1>2, <1>11 DEF StaleOK
<1>13. AddressOK'
  BY <1>1, <1>2, <1>4, <1>6 DEF AddressOK, Addressed, SenderKnown, Handling
<1> QED BY <1>5, <1>6, <1>7, <1>10, <1>12, <1>13 DEF IInv

LEMMA BatchDoneKeeps ==
  ASSUME IInv, BatchDone
  PROVE  IInv'
PROOF
<1>1. /\ core.at = "next" /\ batch = <<>> /\ core' = [core EXCEPT !.at = "wait"]
      /\ UNCHANGED <<peers, fdSets, ready, batch, cmd, cut>>
      /\ UNCHANGED <<stage, closed, sends, inbox, backlog, owner, clients, monitors>>
      /\ UNCHANGED <<engineFd, accessFd, wanted, told>>
  BY DEF BatchDone, peers, fdSets, cmd
<1>2. Types /\ SocketsOK /\ BatchOK /\ EdgesOK /\ StaleOK /\ AddressOK
  BY DEF IInv
<1>3. /\ core'.at = "wait" /\ core'.msgs = core.msgs
      /\ core' \in [at : {"wait", "next", "read", "deliver"}, msgs : Seq(AllMessages)]
  BY <1>1, <1>2 DEF Types
<1>4. Types'
  BY <1>1, <1>2, <1>3 DEF Types, TypeOK
<1>5. SocketsOK' /\ Opened' = Opened
  BY <1>1, <1>2, SocketsSame
<1>6. BatchOK'
  BY <1>1, <1>2, <1>3 DEF BatchOK, Handling
<1>7. EdgesOK'
  BY <1>1, <1>2, <1>3, <1>5 DEF EdgesOK, HangUpKnown, InputKnown, BacklogKnown
<1>8. StaleOK'
  BY <1>1, <1>2, <1>5 DEF StaleOK, HangUpsAreCurrent
<1>9. AddressOK'
  BY <1>1, <1>2, <1>3, <1>5 DEF AddressOK, Addressed, SenderKnown, Handling
<1> QED BY <1>4, <1>5, <1>6, <1>7, <1>8, <1>9 DEF IInv

LEMMA AcceptDoneKeeps ==
  ASSUME IInv, NEW k \in Kinds, AcceptDone(k)
  PROVE  IInv'
PROOF
<1>1. /\ core.at = "next" /\ batch # <<>> /\ Head(batch).fd = Listener[k]
      /\ backlog[k] = <<>> /\ batch' = Tail(batch)
      /\ UNCHANGED <<peers, fdSets, ready, core, cmd, cut>>
      /\ UNCHANGED <<stage, closed, sends, inbox, backlog, owner, clients, monitors>>
      /\ UNCHANGED <<engineFd, accessFd, wanted, told>>
  BY DEF AcceptDone, Event, peers, fdSets, cmd
<1>2. Types /\ SocketsOK /\ BatchOK /\ EdgesOK /\ StaleOK /\ AddressOK
  BY DEF IInv
<1>3. batch' \in Seq(EventType) /\ BatchOK'
  BY <1>1, <1>2, NextEvent
<1>4. Types'
  BY <1>1, <1>2, <1>3 DEF Types, TypeOK, EventType, Names
<1>5. SocketsOK' /\ Opened' = Opened
  BY <1>1, <1>2, SocketsSame
<1>6. EdgesOK'
  <2>1. /\ Head(batch) = batch[1]
        /\ \A i \in 1 .. Len(batch) : i # 1 => i - 1 \in 1 .. Len(batch') /\ batch'[i - 1] = batch[i]
    BY <1>1, <1>2, TypesAre, RestOfBatch
  <2>2. ASSUME NEW f \in Names, f # Listener[k], NEW i \in 1 .. Len(batch), batch[i].fd = f
        PROVE  i - 1 \in 1 .. Len(batch') /\ batch'[i - 1] = batch[i]
    BY <1>1, <2>1, <2>2
  <2>3. \A f \in Opened : f \in Names /\ f # Listener[k]
    BY <1>2, TypesAre, NameFacts
  <2>4. HangUpKnown'
    <3> SUFFICES ASSUME NEW f \in Opened, owner[f] \in closed, f \notin ready
                 PROVE  \E i \in 1 .. Len(batch') : batch'[i].fd = f /\ batch'[i].hup
      BY <1>1, <1>5 DEF HangUpKnown
    <3>1. PICK i \in 1 .. Len(batch) : batch[i].fd = f /\ batch[i].hup
      BY <1>2 DEF EdgesOK, HangUpKnown
    <3> QED BY <2>2, <2>3, <3>1
  <2>5. InputKnown'
    <3> SUFFICES ASSUME NEW f \in Opened, inbox[owner[f]] # <<>>, f \notin ready
                 PROVE  \E i \in 1 .. Len(batch') :
                          batch'[i].fd = f /\ (i = 1 => core.at # "deliver")
      BY <1>1, <1>5 DEF InputKnown
    <3>1. PICK i \in 1 .. Len(batch) : batch[i].fd = f
      BY <1>2 DEF EdgesOK, InputKnown
    <3>2. core.at # "deliver"
      BY <1>1
    <3> QED BY <2>2, <2>3, <3>1, <3>2
  <2>6. ASSUME NEW l \in Kinds, backlog[l] # <<>>
        PROVE  Listener[l] \in ready \/ \E i \in 1 .. Len(batch') : batch'[i].fd = Listener[l]
    <3>1. Listener[l] \in Names /\ Listener[l] # Listener[k]
      BY <1>1, <2>6, NameFacts
    <3>2. CASE Listener[l] \notin ready
      <4>1. PICK i \in 1 .. Len(batch) : batch[i].fd = Listener[l]
        BY <1>2, <2>6, <3>2 DEF EdgesOK, BacklogKnown
      <4> QED BY <2>2, <3>1, <4>1
    <3> QED BY <3>2
  <2> QED BY <1>1, <2>4, <2>5, <2>6 DEF EdgesOK, BacklogKnown
<1>7. StaleOK'
  BY <1>1, <1>2, RestIsCurrent DEF StaleOK
<1>8. AddressOK'
  BY <1>1, <1>2, <1>5 DEF AddressOK, Addressed, SenderKnown, Handling
<1> QED BY <1>3, <1>4, <1>5, <1>6, <1>7, <1>8 DEF IInv

LEMMA StartReadKeeps ==
  ASSUME IInv, StartRead
  PROVE  IInv'
PROOF
<1>1. /\ core.at = "next" /\ batch # <<>> /\ Head(batch).fd \in Fds /\ ~Head(batch).hup
      /\ core' = [at |-> "read", msgs |-> <<>>]
      /\ UNCHANGED <<peers, fdSets, ready, batch, cmd, cut>>
      /\ UNCHANGED <<stage, closed, sends, inbox, backlog, owner, clients, monitors>>
      /\ UNCHANGED <<engineFd, accessFd, wanted, told>>
  BY DEF StartRead, ClientEvent, peers, fdSets, cmd
<1>2. Types /\ SocketsOK /\ BatchOK /\ EdgesOK /\ StaleOK /\ AddressOK
  BY DEF IInv
<1>3. /\ core'.at = "read" /\ core'.msgs = <<>> /\ Len(<<>>) = 0
      /\ core' \in [at : {"wait", "next", "read", "deliver"}, msgs : Seq(AllMessages)]
      /\ core'.msgs \in Seq(UNION {Messages(k) : k \in Kinds})
  BY <1>1
<1>4. Types'
  BY <1>1, <1>2, <1>3 DEF Types, TypeOK
<1>5. SocketsOK' /\ Opened' = Opened
  BY <1>1, <1>2, SocketsSame
<1>6. BatchOK'
  <2>1. Head(batch) = batch[1]
    BY <1>1, <1>2, TypesAre, RestOfBatch
  <2> QED BY <1>1, <1>2, <1>3, <2>1 DEF BatchOK, Handling
<1>7. EdgesOK'
  BY <1>1, <1>2, <1>3, <1>5 DEF EdgesOK, HangUpKnown, InputKnown, BacklogKnown
<1>8. StaleOK'
  BY <1>1, <1>2, <1>5 DEF StaleOK, HangUpsAreCurrent
<1>9. AddressOK'
  BY <1>1, <1>2, <1>3, <1>5 DEF AddressOK, Addressed, SenderKnown, Handling
<1> QED BY <1>4, <1>5, <1>6, <1>7, <1>8, <1>9 DEF IInv

LEMMA ReadOneKeeps ==
  ASSUME IInv, ReadOne
  PROVE  IInv'
PROOF
<1> DEFINE c == owner[Current]
<1>1. /\ core.at = "read" /\ Current \in Opened /\ inbox[c] # <<>>
      /\ core' = [core EXCEPT !.msgs = Append(@, Head(inbox[c]))]
      /\ inbox' = [inbox EXCEPT ![c] = Tail(@)]
      /\ UNCHANGED <<stage, closed, sends, backlog, fdSets, ready, batch, cmd, cut>>
      /\ UNCHANGED <<owner, clients, monitors, engineFd, accessFd, wanted, told>>
  BY DEF ReadOne, fdSets, cmd
<1>2. Types /\ SocketsOK /\ BatchOK /\ EdgesOK /\ StaleOK /\ AddressOK
  BY DEF IInv
<1>3. batch # <<>> /\ Current = batch[1] .fd
  <2>1. batch # <<>>
    BY <1>1, <1>2 DEF BatchOK, Handling
  <2> QED BY <1>2, <2>1, TypesAre, RestOfBatch DEF Current
<1>4. c \in Conns /\ inbox \in [Conns -> Seq(AllMessages)] /\ core.msgs \in Seq(AllMessages)
  BY <1>1, <1>2, TypesAre
<1> DEFINE m == Head(inbox[c])
<1>5. /\ inbox[c] \in Seq(Messages(Kind(c))) /\ inbox[c] \in Seq(AllMessages)
      /\ Tail(inbox[c]) \in Seq(Messages(Kind(c))) /\ Tail(inbox[c]) \in Seq(AllMessages)
      /\ m \in Messages(Kind(c)) /\ m \in AllMessages
  BY <1>1, <1>2, <1>4, MessageTaken DEF Types, TypeOK
<1> HIDE DEF c, m
<1>6. /\ inbox' \in [Conns -> Seq(AllMessages)] /\ inbox'[c] = Tail(inbox[c])
      /\ \A d \in Conns : d # c => inbox'[d] = inbox[d]
  BY <1>1, <1>4, <1>5
<1>7. \A d \in Conns : inbox'[d] \in Seq(Messages(Kind(d)))
  BY <1>2, <1>5, <1>6 DEF Types, TypeOK
<1>8. /\ core'.at = "read" /\ core'.msgs = Append(core.msgs, m)
      /\ Append(core.msgs, m) \in Seq(AllMessages)
      /\ core' \in [at : {"wait", "next", "read", "deliver"}, msgs : Seq(AllMessages)]
  <2>1. Append(core.msgs, m) \in Seq(AllMessages)
    BY <1>4, <1>5, MessageAdded
  <2> QED BY <1>1, <1>2, <2>1 DEF Types, m
<1>9. Types'
  BY <1>1, <1>2, <1>6, <1>7, <1>8, KindFacts DEF Types, TypeOK
<1>10. SocketsOK' /\ Opened' = Opened
  BY <1>1, <1>2, SocketsSame
<1>11. BatchOK'
  BY <1>1, <1>2, <1>8 DEF BatchOK, Handling
<1>12. EdgesOK'
  <2>1. HangUpKnown' /\ BacklogKnown'
    BY <1>1, <1>2, <1>10 DEF EdgesOK, HangUpKnown, BacklogKnown
  <2>2. \A f \in Opened : inbox'[owner[f]] # <<>> => inbox[owner[f]] # <<>>
    BY <1>1, <1>2, <1>6, TypesAre
  <2>3. InputKnown'
    BY <1>1, <1>2, <1>8, <1>10, <2>2 DEF EdgesOK, InputKnown
  <2> QED BY <2>1, <2>3 DEF EdgesOK
<1>13. StaleOK'
  BY <1>1, <1>2, <1>10 DEF StaleOK, HangUpsAreCurrent
<1>14. AddressOK'
  <2> DEFINE s == core.msgs  t == Append(s, m)
  <2>1. /\ s \in Seq(AllMessages) /\ Len(t) = Len(s) + 1 /\ Len(s) \in Nat
        /\ \A i \in 1 .. Len(s) : t[i] = s[i]
        /\ t[Len(s) + 1] = m
    BY <1>4, <1>5, AppendProperties
  <2> HIDE DEF t
  <2>2. SenderKnown => SenderKnown'
    <3> SUFFICES ASSUME SenderKnown, NEW i \in 1 .. Len(t)
                 PROVE  t[i] = "query" \/ (batch[1].fd \in Opened /\ t[i] \in Messages(Kind(owner[batch[1].fd])))
      BY <1>1, <1>8, <1>10 DEF SenderKnown, t
    <3> Handling
      BY <1>1 DEF Handling
    <3>1. CASE i \in 1 .. Len(s)
      <4>1. s[i] = "query" \/ (batch[1].fd \in Opened /\ s[i] \in Messages(Kind(owner[batch[1].fd])))
        BY <3>1 DEF SenderKnown
      <4> QED BY <2>1, <3>1, <4>1
    <3>2. CASE i = Len(s) + 1
      BY <1>1, <1>3, <1>5, <2>1, <3>2 DEF c
    <3> QED BY <2>1, <3>1, <3>2
  <2> QED BY <1>1, <1>2, <1>10, <2>2 DEF AddressOK, Addressed
<1> QED BY <1>9, <1>10, <1>11, <1>12, <1>13, <1>14 DEF IInv

\* While an event is handled, it is the first of the batch and no hang-up; a
\* connection that is closed then has its edge on the ready list.
LEMMA WhileHandling ==
  ASSUME IInv, Handling
  PROVE  /\ batch # <<>> /\ Current = batch[1].fd /\ Current \in Fds
         /\ Head(batch) = batch[1] /\ 1 \in 1 .. Len(batch) /\ ~batch[1].hup
         /\ Current \in Opened /\ owner[Current] \in closed => Current \in ready
PROOF
<1>1. Types /\ BatchOK /\ EdgesOK
  BY DEF IInv
<1>2. batch # <<>> /\ batch[1].fd \in Fds /\ ~batch[1].hup
  BY <1>1 DEF BatchOK
<1>3. Head(batch) = batch[1] /\ 1 \in 1 .. Len(batch) /\ Current = batch[1].fd
  BY <1>1, <1>2, TypesAre, RestOfBatch DEF Current
<1>4. ASSUME Current \in Opened, owner[Current] \in closed, Current \notin ready PROVE FALSE
  <2>1. PICK i \in 1 .. Len(batch) : batch[i].fd = Current /\ batch[i].hup
    BY <1>1, <1>4 DEF EdgesOK, HangUpKnown
  <2>2. i = 1
    BY <1>1, <1>3, <2>1 DEF BatchOK
  <2> QED BY <1>2, <2>1, <2>2
<1> QED BY <1>2, <1>3, <1>4

LEMMA ReadDoneKeeps ==
  ASSUME IInv, ReadDone
  PROVE  IInv'
PROOF
<1>1. /\ core.at = "read" /\ (Current \in Opened => inbox[owner[Current]] = <<>>)
      /\ core' = [core EXCEPT !.at = "deliver"]
      /\ UNCHANGED <<peers, fdSets, ready, batch, cmd, cut>>
      /\ UNCHANGED <<stage, closed, sends, inbox, backlog, owner, clients, monitors>>
      /\ UNCHANGED <<engineFd, accessFd, wanted, told>>
  BY DEF ReadDone, peers, fdSets, cmd
<1>2. Types /\ SocketsOK /\ BatchOK /\ EdgesOK /\ StaleOK /\ AddressOK
  BY DEF IInv
<1>3. /\ core'.at = "deliver" /\ core'.msgs = core.msgs
      /\ core' \in [at : {"wait", "next", "read", "deliver"}, msgs : Seq(AllMessages)]
  BY <1>1, <1>2 DEF Types
<1>4. Handling
  BY DEF Handling, ReadDone
<1>5. Types'
  BY <1>1, <1>2, <1>3 DEF Types, TypeOK
<1>6. SocketsOK' /\ Opened' = Opened
  BY <1>1, <1>2, SocketsSame
<1>7. BatchOK'
  BY <1>1, <1>2, <1>3, <1>4 DEF BatchOK, Handling
<1>8. EdgesOK'
  <2>1. HangUpKnown' /\ BacklogKnown'
    BY <1>1, <1>2, <1>6 DEF EdgesOK, HangUpKnown, BacklogKnown
  <2>2. ASSUME NEW f \in Opened, inbox[owner[f]] # <<>>, f \notin ready
        PROVE  \E i \in 1 .. Len(batch) : batch[i].fd = f /\ i # 1
    <3>1. PICK i \in 1 .. Len(batch) : batch[i].fd = f
      BY <1>2, <2>2 DEF EdgesOK, InputKnown
    <3>2. batch[1].fd # f
      BY <1>1, <1>4, <2>2, WhileHandling
    <3> QED BY <3>1, <3>2
  <2>3. InputKnown'
    BY <1>1, <1>6, <2>2 DEF InputKnown
  <2> QED BY <2>1, <2>3 DEF EdgesOK
<1>9. StaleOK'
  BY <1>1, <1>2, <1>6 DEF StaleOK, HangUpsAreCurrent
<1>10. AddressOK'
  BY <1>1, <1>2, <1>3, <1>4, <1>6 DEF AddressOK, Addressed, SenderKnown, Handling
<1> QED BY <1>5, <1>6, <1>7, <1>8, <1>9, <1>10 DEF IInv

LEMMA DeliveredKeeps ==
  ASSUME IInv, Delivered
  PROVE  IInv'
PROOF
<1>1. /\ core.at = "deliver" /\ core.msgs = <<>> /\ core' = [core EXCEPT !.at = "next"]
      /\ batch' = Tail(batch)
      /\ UNCHANGED <<peers, fdSets, ready, cmd, cut>>
      /\ UNCHANGED <<stage, closed, sends, inbox, backlog, owner, clients, monitors>>
      /\ UNCHANGED <<engineFd, accessFd, wanted, told>>
  BY DEF Delivered, peers, fdSets, cmd
<1>2. Types /\ SocketsOK /\ BatchOK /\ EdgesOK /\ StaleOK /\ AddressOK
  BY DEF IInv
<1>3. /\ core'.at = "next" /\ core'.msgs = core.msgs
      /\ core' \in [at : {"wait", "next", "read", "deliver"}, msgs : Seq(AllMessages)]
  BY <1>1, <1>2 DEF Types
<1>4. batch # <<>> /\ batch[1].fd \in Fds /\ ~batch[1].hup
  BY <1>1, WhileHandling DEF Handling
<1>5. batch' \in Seq(EventType) /\ BatchOK'
  BY <1>1, <1>2, <1>3, <1>4, NextEvent
<1>6. Types'
  BY <1>1, <1>2, <1>3, <1>5 DEF Types, TypeOK, EventType, Names
<1>7. SocketsOK' /\ Opened' = Opened
  BY <1>1, <1>2, SocketsSame
<1>8. EdgesOK'
  <2>1. \A i \in 1 .. Len(batch) : i # 1 => i - 1 \in 1 .. Len(batch') /\ batch'[i - 1] = batch[i]
    BY <1>1, <1>2, <1>4, TypesAre, RestOfBatch
  <2>2. HangUpKnown'
    <3> SUFFICES ASSUME NEW f \in Opened, owner[f] \in closed, f \notin ready
                 PROVE  \E i \in 1 .. Len(batch') : batch'[i].fd = f /\ batch'[i].hup
      BY <1>1, <1>7 DEF HangUpKnown
    <3>1. PICK i \in 1 .. Len(batch) : batch[i].fd = f /\ batch[i].hup
      BY <1>2 DEF EdgesOK, HangUpKnown
    <3> QED BY <1>4, <2>1, <3>1
  <2>3. InputKnown'
    <3> SUFFICES ASSUME NEW f \in Opened, inbox[owner[f]] # <<>>, f \notin ready
                 PROVE  \E i \in 1 .. Len(batch') : batch'[i].fd = f
      BY <1>1, <1>3, <1>7 DEF InputKnown
    <3>1. PICK i \in 1 .. Len(batch) : batch[i].fd = f /\ i # 1
      BY <1>1, <1>2 DEF EdgesOK, InputKnown
    <3> QED BY <2>1, <3>1
  <2>4. BacklogKnown'
    <3> SUFFICES ASSUME NEW k \in Kinds, backlog[k] # <<>>, Listener[k] \notin ready
                 PROVE  \E i \in 1 .. Len(batch') : batch'[i].fd = Listener[k]
      BY <1>1 DEF BacklogKnown
    <3>1. PICK i \in 1 .. Len(batch) : batch[i].fd = Listener[k]
      BY <1>2 DEF EdgesOK, BacklogKnown
    <3>2. i # 1
      BY <1>4, <3>1, NameFacts
    <3> QED BY <2>1, <3>1, <3>2
  <2> QED BY <2>2, <2>3, <2>4 DEF EdgesOK
<1>9. StaleOK'
  BY <1>1, <1>2, <1>4, RestIsCurrent DEF StaleOK
<1>10. AddressOK'
  BY <1>1, <1>2, <1>3, <1>7 DEF AddressOK, Addressed, SenderKnown, Handling
<1> QED BY <1>5, <1>6, <1>7, <1>8, <1>9, <1>10 DEF IInv

LEMMA AcceptKeeps ==
  ASSUME IInv, NEW k \in Kinds, Accept(k)
  PROVE  IInv'
PROOF
<1> DEFINE c == Head(backlog[k])
<1>1. PICK f \in Fds \ Opened :
        /\ core.at = "next" /\ backlog[k] # <<>>
        /\ owner' = [owner EXCEPT ![f] = c]
        /\ stage' = [stage EXCEPT ![c] = "served"]
        /\ IF k = "monitor"
           THEN monitors' = monitors \cup {f} /\ UNCHANGED clients
           ELSE clients' = clients \cup {f} /\ UNCHANGED monitors
        /\ ready' = IF inbox[c] # <<>> \/ c \in closed THEN ready \cup {f} ELSE ready
        /\ backlog' = [backlog EXCEPT ![k] = Tail(@)]
        /\ UNCHANGED <<closed, sends, inbox, batch, core, cmd, cut>>
        /\ UNCHANGED <<engineFd, accessFd, wanted, told>>
  BY DEF Accept, Event, cmd
<1>2. Types /\ SocketsOK /\ BatchOK /\ EdgesOK /\ StaleOK /\ AddressOK
  BY DEF IInv
<1>3. /\ owner \in [Fds -> Conns \cup {NoConn}] /\ backlog \in [Kinds -> Seq(Conns)]
      /\ stage \in [Conns -> {"new", "pending", "served", "over", "dropped"}]
      /\ backlog[k] \in Seq(Conns) /\ backlog[k] \in Seq({d \in Conns : Kind(d) = k})
      /\ f \in Fds /\ f \in Names
  BY <1>1, <1>2, TypesAre, NameFacts DEF Types, TypeOK
<1> DEFINE s == backlog[k]  t == Tail(s)
<1>4. /\ Len(s) \in Nat /\ Len(s) >= 1 /\ c = s[1]
      /\ t \in Seq(Conns) /\ t \in Seq({d \in Conns : Kind(d) = k})
      /\ Len(t) = Len(s) - 1
      /\ \A i \in 1 .. Len(t) : t[i] = s[i + 1]
      /\ c \in Conns /\ Kind(c) = k
  <2>1. Len(s) \in Nat \ {0} /\ c = s[1] /\ c \in Conns /\ t \in Seq(Conns)
        /\ Len(t) = Len(s) - 1
        /\ \A i \in 1 .. Len(t) : t[i] = s[i + 1]
    BY <1>1, <1>3, EmptySeq, HeadTailProperties
  <2>2. c \in {d \in Conns : Kind(d) = k} /\ t \in Seq({d \in Conns : Kind(d) = k})
    BY <1>1, <1>3, MessageTaken
  <2> QED BY <2>1, <2>2
<1> HIDE DEF c, t
<1>5. /\ backlog' \in [Kinds -> Seq(Conns)] /\ backlog'[k] = t
      /\ \A l \in Kinds : l # k => backlog'[l] = backlog[l]
      /\ stage' \in [Conns -> {"new", "pending", "served", "over", "dropped"}]
      /\ stage'[c] = "served" /\ \A d \in Conns : d # c => stage'[d] = stage[d]
      /\ owner' \in [Fds -> Conns \cup {NoConn}] /\ owner'[f] = c
      /\ \A g \in Fds : g # f => owner'[g] = owner[g]
  BY <1>1, <1>3, <1>4 DEF t
<1>6. c # NoConn /\ Opened' = Opened \cup {f} /\ f \notin Opened
  BY <1>1, <1>3, <1>4, <1>5, KindFacts DEF Opened
<1>7. \A g \in Opened : g # f /\ owner'[g] = owner[g] /\ owner[g] \in Conns /\ g \in Fds
  BY <1>2, <1>5, <1>6, TypesAre
<1>8. \A l \in Kinds : backlog'[l] \in Seq({d \in Conns : Kind(d) = l})
  <2>1. \A l \in Kinds : backlog[l] \in Seq({d \in Conns : Kind(d) = l})
    BY <1>2 DEF Types, TypeOK
  <2>2. t \in Seq({d \in Conns : Kind(d) = k})
    BY <1>4
  <2>3. ASSUME NEW l \in Kinds PROVE backlog'[l] \in Seq({d \in Conns : Kind(d) = l})
    <3>1. CASE l = k
      BY <1>5, <2>2, <3>1
    <3>2. CASE l # k
      <4>1. backlog'[l] = backlog[l]
        BY <1>5, <3>2
      <4> QED BY <2>1, <4>1
    <3> QED BY <3>1, <3>2
  <2> QED BY <2>3
<1>9. Types'
  <2>1. clients' \subseteq Fds /\ monitors' \subseteq Fds /\ ready' \subseteq Names
    BY <1>1, <1>2, <1>3 DEF Types, TypeOK, Names
  <2> QED BY <1>1, <1>2, <1>5, <1>8, <2>1 DEF Types, TypeOK, Names
<1>10. /\ \A i \in 1 .. Len(t) : stage[t[i]] = "pending" /\ t[i] # c /\ t[i] \in Conns
       /\ \A i, j \in 1 .. Len(t) : t[i] = t[j] => i = j
       /\ stage[c] = "pending"
  <2>1. /\ \A i \in 1 .. Len(s) : stage[s[i]] = "pending" /\ s[i] \in Conns
        /\ \A i, j \in 1 .. Len(s) : s[i] = s[j] => i = j
    BY <1>2, <1>3, ElementOfSeq DEF SocketsOK
  <2>2. /\ 1 \in 1 .. Len(s)
        /\ \A i \in 1 .. Len(t) : i + 1 \in 1 .. Len(s) /\ i + 1 # 1
    BY <1>4
  <2>3. ASSUME NEW i \in 1 .. Len(t)
        PROVE  t[i] = s[i + 1] /\ stage[t[i]] = "pending" /\ t[i] # c /\ t[i] \in Conns
    BY <1>4, <2>1, <2>2
  <2>4. ASSUME NEW i \in 1 .. Len(t), NEW j \in 1 .. Len(t), t[i] = t[j] PROVE i = j
    <3>1. i + 1 = j + 1
      BY <2>1, <2>2, <2>3, <2>4, SMTT(20)
    <3> QED BY <3>1
  <2> QED BY <1>4, <2>1, <2>2, <2>3, <2>4
<1>11. SocketsOK'
  <2>1. FdsTracked'
    <3>1. FdsTracked
      BY <1>2 DEF SocketsOK
    <3>2. k = "monitor" <=> c \in Monitors
      BY <1>4, KindFacts
    <3>3. f \notin clients /\ f \notin monitors
      BY <1>6, <3>1 DEF FdsTracked
    <3>4. CASE k = "monitor"
      BY <1>1, <1>5, <1>6, <1>7, <3>1, <3>2, <3>3, <3>4 DEF FdsTracked
    <3>5. CASE k # "monitor"
      BY <1>1, <1>5, <1>6, <1>7, <3>1, <3>2, <3>3, <3>5 DEF FdsTracked
    <3> QED BY <3>4, <3>5
  <2>2. \A g \in Opened : stage[owner[g]] = "served" /\ owner[g] # c
    BY <1>2, <1>10 DEF SocketsOK
  <2>3. \A g, h \in Opened' : owner'[g] = owner'[h] => g = h
    BY <1>2, <1>5, <1>6, <1>7, <2>2 DEF SocketsOK
  <2>4. \A g \in Opened' : stage'[owner'[g]] = "served"
    BY <1>5, <1>6, <1>7, <2>2
  <2>5. ASSUME NEW l \in Kinds, l # k
        PROVE  /\ \A i \in 1 .. Len(backlog'[l]) : stage'[backlog'[l][i]] = "pending"
               /\ \A i, j \in 1 .. Len(backlog'[l]) : backlog'[l][i] = backlog'[l][j] => i = j
    <3>1. backlog[l] \in Seq({d \in Conns : Kind(d) = l}) /\ backlog'[l] = backlog[l]
      BY <1>2, <1>5, <2>5 DEF Types, TypeOK
    <3>2. \A i \in 1 .. Len(backlog[l]) : backlog[l][i] \in {d \in Conns : Kind(d) = l}
      BY <3>1, ElementOfSeq
    <3>3. \A i \in 1 .. Len(backlog[l]) : backlog[l][i] \in Conns /\ backlog[l][i] # c
      BY <1>4, <2>5, <3>2
    <3>4. /\ \A i \in 1 .. Len(backlog[l]) : stage[backlog[l][i]] = "pending"
          /\ \A i, j \in 1 .. Len(backlog[l]) : backlog[l][i] = backlog[l][j] => i = j
      BY <1>2 DEF SocketsOK
    <3>5. \A i \in 1 .. Len(backlog[l]) : stage'[backlog[l][i]] = "pending"
      BY <1>5, <3>3, <3>4
    <3> QED BY <3>1, <3>4, <3>5
  <2>6. /\ \A i \in 1 .. Len(backlog'[k]) : stage'[backlog'[k][i]] = "pending"
        /\ \A i, j \in 1 .. Len(backlog'[k]) : backlog'[k][i] = backlog'[k][j] => i = j
    BY <1>5, <1>10
  <2> QED BY <2>1, <2>3, <2>4, <2>5, <2>6 DEF SocketsOK
<1>12. BatchOK'
  BY <1>1, <1>2, BatchSame
<1>13. EdgesOK'
  <2>1. ready \subseteq ready' /\ (inbox[c] # <<>> \/ c \in closed => f \in ready')
    BY <1>1
  <2>2. HangUpKnown'
    BY <1>1, <1>2, <1>5, <1>6, <1>7, <2>1 DEF EdgesOK, HangUpKnown
  <2>3. InputKnown'
    BY <1>1, <1>2, <1>5, <1>6, <1>7, <2>1, SMTT(20) DEF EdgesOK, InputKnown
  <2>4. BacklogKnown'
    BY <1>1, <1>2, <1>5, <2>1 DEF EdgesOK, BacklogKnown
  <2> QED BY <2>2, <2>3, <2>4 DEF EdgesOK
<1>14. StaleOK'
  <2>1. (\A d \in Monitors : stage'[d] # "over") => \A d \in Monitors : stage[d] # "over"
    BY <1>5, <1>10 DEF Conns
  <2>2. HangUpsAreCurrent => HangUpsAreCurrent'
    BY <1>1, <1>6, <1>7 DEF HangUpsAreCurrent
  <2> QED BY <1>1, <1>2, <2>1, <2>2 DEF StaleOK
<1>15. AddressOK'
  <2>1. (\A d \in Conns : stage'[d] # "dropped") => \A d \in Conns : stage[d] # "dropped"
    BY <1>5, <1>10
  <2>2. Addressed(engineFd) => Addressed(engineFd)'
    BY <1>1, <1>6, <1>7 DEF Addressed
  <2>3. Addressed(accessFd) => Addressed(accessFd)'
    BY <1>1, <1>6, <1>7 DEF Addressed
  <2>4. SenderKnown'
    BY <1>1 DEF SenderKnown, Handling
  <2> QED BY <1>1, <1>2, <2>1, <2>2, <2>3, <2>4 DEF AddressOK
<1> QED BY <1>9, <1>11, <1>12, <1>13, <1>14, <1>15 DEF IInv

-----------------------------------------------------------------------------
(* The loop, where it closes *)

\* Closing takes descriptors out of everything, and touches no other connection.
LEMMA Closing ==
  ASSUME IInv, NEW fs \in SUBSET Fds, NEW how \in {"over", "dropped"}, CloseFds(fs, how),
         clients' = clients \ fs, monitors' = monitors \ fs, UNCHANGED backlog
  PROVE  /\ Opened' = Opened \ fs /\ ready' = ready \ fs
         /\ \A f \in Opened' : /\ f \in Opened /\ f \notin fs /\ owner'[f] = owner[f]
                               /\ owner[f] \in Conns
                               /\ inbox'[owner[f]] = inbox[owner[f]]
         /\ \A c \in Conns : stage[c] \in {"over", "dropped"} => stage'[c] = stage[c]
         /\ \A f \in fs \cap Opened : owner[f] \in Conns /\ stage'[owner[f]] = how
         /\ owner' \in [Fds -> Conns \cup {NoConn}]
         /\ stage' \in [Conns -> {"new", "pending", "served", "over", "dropped"}]
         /\ inbox' \in [Conns -> Seq(AllMessages)]
         /\ \A c \in Conns : inbox'[c] \in Seq(Messages(Kind(c)))
         /\ cut' \subseteq Conns
         /\ (\A f \in fs \cap Opened : owner[f] \in closed) => cut' = cut
         /\ SocketsOK'
PROOF
<1> DEFINE gone == {owner[f] : f \in fs \cap Opened}
<1>1. /\ owner' = [f \in Fds |-> IF f \in fs THEN NoConn ELSE owner[f]]
      /\ stage' = [c \in Conns |-> IF c \in gone THEN how ELSE stage[c]]
      /\ inbox' = [c \in Conns |-> IF c \in gone THEN <<>> ELSE inbox[c]]
      /\ ready' = ready \ fs
      /\ cut' = cut \cup (gone \ closed)
  BY DEF CloseFds
<1>2. Types /\ SocketsOK
  BY DEF IInv
<1>3. \A f \in Opened : f \in Fds /\ owner[f] \in Conns
  BY <1>2, TypesAre
<1>4. gone \subseteq Conns /\ \A f \in fs \cap Opened : owner[f] \in gone
  BY <1>3
<1>5. \A f \in Opened : f \notin fs => owner[f] \notin gone
  BY <1>2 DEF SocketsOK
<1>6. \A c \in gone : stage[c] = "served"
  BY <1>2 DEF SocketsOK
<1>7. (\A f \in fs \cap Opened : owner[f] \in closed) => gone \subseteq closed
  OBVIOUS
<1> HIDE DEF gone
<1>8. Opened' = Opened \ fs
  BY <1>1 DEF Opened
<1>9. ASSUME NEW f \in Opened'
      PROVE  /\ f \in Opened /\ f \notin fs /\ owner'[f] = owner[f] /\ owner[f] \in Conns
             /\ owner[f] \notin gone
             /\ inbox'[owner[f]] = inbox[owner[f]] /\ stage'[owner[f]] = "served"
  <2>1. f \in Opened /\ f \notin fs /\ f \in Fds /\ owner[f] \in Conns
    BY <1>3, <1>8
  <2>2. owner'[f] = owner[f] /\ owner[f] \notin gone
    BY <1>1, <1>5, <2>1
  <2>3. stage[owner[f]] = "served"
    BY <1>2, <2>1 DEF SocketsOK
  <2> QED BY <1>1, <2>1, <2>2, <2>3
<1>10. /\ owner \in [Fds -> Conns \cup {NoConn}]
       /\ stage \in [Conns -> {"new", "pending", "served", "over", "dropped"}]
       /\ inbox \in [Conns -> Seq(AllMessages)]
       /\ \A c \in Conns : inbox[c] \in Seq(Messages(Kind(c)))
       /\ cut \subseteq Conns
  BY <1>2, TypesAre DEF Types, TypeOK
<1>11. /\ owner' \in [Fds -> Conns \cup {NoConn}]
       /\ stage' \in [Conns -> {"new", "pending", "served", "over", "dropped"}]
       /\ cut' \subseteq Conns
  BY <1>1, <1>4, <1>10
<1>12. /\ inbox' \in [Conns -> Seq(AllMessages)]
       /\ \A c \in Conns : inbox'[c] \in Seq(Messages(Kind(c)))
  <2>1. \A S : <<>> \in Seq(S)
    OBVIOUS
  <2>2. ASSUME NEW c \in Conns
        PROVE  inbox'[c] \in Seq(AllMessages) /\ inbox'[c] \in Seq(Messages(Kind(c)))
    <3>1. inbox'[c] = <<>> \/ inbox'[c] = inbox[c]
      BY <1>1
    <3> QED BY <1>10, <2>1, <3>1
  <2> QED BY <1>1, <2>2
<1>13. SocketsOK'
  <2>1. FdsTracked'
    <3>1. clients \subseteq Fds /\ monitors \subseteq Fds /\ FdsTracked
      BY <1>2 DEF Types, TypeOK, SocketsOK
    <3>2. clients' \cap monitors' = {} /\ clients' \cup monitors' = Opened'
      BY <1>8, <3>1 DEF FdsTracked
    <3>3. \A f \in Opened' : f \in monitors' <=> owner'[f] \in Monitors
      BY <1>9, <3>1 DEF FdsTracked
    <3> QED BY <3>2, <3>3 DEF FdsTracked
  <2>2. \A f, g \in Opened' : owner'[f] = owner'[g] => f = g
    BY <1>2, <1>9 DEF SocketsOK
  <2>3. ASSUME NEW k \in Kinds, NEW i \in 1 .. Len(backlog[k])
        PROVE  stage'[backlog[k][i]] = "pending"
    <3>1. backlog[k][i] \in Conns /\ stage[backlog[k][i]] = "pending"
      BY <1>2, TypesAre, ElementOfSeq DEF SocketsOK
    <3>2. backlog[k][i] \notin gone
      BY <1>6, <3>1
    <3> QED BY <1>1, <3>1, <3>2
  <2>4. \A k \in Kinds : \A i, j \in 1 .. Len(backlog[k]) : backlog[k][i] = backlog[k][j] => i = j
    BY <1>2 DEF SocketsOK
  <2> QED BY <1>9, <2>1, <2>2, <2>3, <2>4 DEF SocketsOK
<1>14. \A c \in Conns : stage[c] \in {"over", "dropped"} => stage'[c] = stage[c]
  BY <1>1, <1>6
<1>15. \A f \in fs \cap Opened : owner[f] \in Conns /\ stage'[owner[f]] = how
  BY <1>1, <1>3, <1>4
<1>16. (\A f \in fs \cap Opened : owner[f] \in closed) => cut' = cut
  BY <1>1, <1>7
<1> QED BY <1>1, <1>8, <1>9, <1>11, <1>12, <1>13, <1>14, <1>15, <1>16

\* Reading ends, or a message is delivered, with the batch as it was.
LEMMA ClosingKeepsEdges ==
  ASSUME IInv, Handling, NEW fs \in SUBSET Fds,
         Opened' = Opened \ fs, ready' = ready \ fs,
         \A f \in Opened' : owner'[f] = owner[f] /\ inbox'[owner[f]] = inbox[owner[f]],
         core.at = "deliver" \/ Current \in fs \/ (Current \in Opened => owner[Current] \in closed),
         core'.at = "deliver", UNCHANGED <<closed, backlog, batch>>
  PROVE  EdgesOK' /\ BatchOK'
PROOF
<1>1. BatchOK /\ EdgesOK
  BY DEF IInv
<1>2. \A f \in Opened' : f \in Opened /\ f \notin fs
  OBVIOUS
<1>3. HangUpKnown'
  BY <1>1, <1>2 DEF EdgesOK, HangUpKnown
<1>4. BacklogKnown'
  <2>1. \A k \in Kinds : Listener[k] \notin fs
    BY NameFacts
  <2> QED BY <1>1, <2>1 DEF EdgesOK, BacklogKnown
<1>5. ASSUME NEW f \in Opened', inbox[owner[f]] # <<>>, f \notin ready
      PROVE  \E i \in 1 .. Len(batch) : batch[i].fd = f /\ i # 1
  <2>1. PICK i \in 1 .. Len(batch) : batch[i].fd = f /\ (i = 1 => core.at # "deliver")
    BY <1>1, <1>2, <1>5 DEF EdgesOK, InputKnown
  <2>2. ASSUME i = 1 PROVE FALSE
    <3>1. f = Current
      BY <2>1, <2>2, WhileHandling
    <3>2. Current \in Opened /\ owner[Current] \in closed
      BY <1>2, <2>1, <2>2, <3>1
    <3> QED BY <1>5, <3>1, <3>2, WhileHandling
  <2> QED BY <2>1, <2>2
<1>6. InputKnown'
  BY <1>2, <1>5 DEF InputKnown
<1>7. BatchOK'
  BY <1>1 DEF BatchOK, Handling
<1> QED BY <1>3, <1>4, <1>6, <1>7 DEF EdgesOK

LEMMA HangUpKeeps ==
  ASSUME IInv, HangUp
  PROVE  IInv'
PROOF
<1> DEFINE f == Head(batch).fd
<1>1. /\ core.at = "next" /\ batch # <<>> /\ f \in Fds /\ Head(batch).hup
      /\ engineFd' = IF engineFd = f THEN NoFd ELSE engineFd
      /\ accessFd' = IF accessFd = f THEN NoFd ELSE accessFd
      /\ CloseFds({f}, "over")
      /\ IF f \in monitors
         THEN monitors' = monitors \ {f} /\ UNCHANGED clients
         ELSE clients' = clients \ {f} /\ UNCHANGED monitors
      /\ batch' = Tail(batch)
      /\ UNCHANGED <<closed, sends, backlog, core, wanted, told>>
  BY DEF HangUp, ClientEvent, Forget
<1>2. Types /\ SocketsOK /\ BatchOK /\ EdgesOK /\ StaleOK /\ AddressOK
  BY DEF IInv
<1>3. batch \in Seq(EventType)
  BY <1>2, TypesAre
<1>4. /\ f = batch[1].fd /\ batch[1].hup /\ 1 \in 1 .. Len(batch)
      /\ \A i \in 1 .. Len(batch') : i + 1 \in 1 .. Len(batch) /\ i + 1 # 1 /\ batch'[i] = batch[i + 1]
      /\ \A i \in 1 .. Len(batch) : i # 1 => i - 1 \in 1 .. Len(batch') /\ batch'[i - 1] = batch[i]
  BY <1>1, <1>3, RestOfBatch
<1> HIDE DEF f
<1>5. clients' = clients \ {f} /\ monitors' = monitors \ {f} /\ {f} \in SUBSET Fds
  BY <1>1, <1>2 DEF SocketsOK, FdsTracked
<1>6. /\ Opened' = Opened \ {f} /\ ready' = ready \ {f}
      /\ \A g \in Opened' : /\ g \in Opened /\ g \notin {f} /\ owner'[g] = owner[g]
                            /\ owner[g] \in Conns /\ inbox'[owner[g]] = inbox[owner[g]]
      /\ \A c \in Conns : stage[c] \in {"over", "dropped"} => stage'[c] = stage[c]
      /\ owner' \in [Fds -> Conns \cup {NoConn}]
      /\ stage' \in [Conns -> {"new", "pending", "served", "over", "dropped"}]
      /\ inbox' \in [Conns -> Seq(AllMessages)]
      /\ \A c \in Conns : inbox'[c] \in Seq(Messages(Kind(c)))
      /\ cut' \subseteq Conns
      /\ (\A g \in {f} \cap Opened : owner[g] \in closed) => cut' = cut
      /\ SocketsOK'
  BY <1>1, <1>5, Closing
<1>7. batch' \in Seq(EventType) /\ BatchOK'
  BY <1>1, <1>2, NextEvent
<1>8. Types'
  <2>1. clients' \subseteq Fds /\ monitors' \subseteq Fds /\ ready' \subseteq Names
    BY <1>2, <1>5, <1>6 DEF Types, TypeOK, Names
  <2>2. engineFd' \in Fds \cup {NoFd} /\ accessFd' \in Fds \cup {NoFd}
    BY <1>1, <1>2 DEF Types, TypeOK
  <2> QED BY <1>1, <1>2, <1>6, <1>7, <2>1, <2>2 DEF Types, TypeOK, EventType, Names
<1>9. EdgesOK'
  <2>1. ASSUME NEW g \in Names, g # f, NEW i \in 1 .. Len(batch), batch[i].fd = g
        PROVE  i - 1 \in 1 .. Len(batch') /\ batch'[i - 1] = batch[i]
    BY <1>4, <2>1
  <2>2. \A g \in Opened' : g \in Opened /\ g # f /\ g \in Names
    BY <1>2, <1>6, TypesAre, NameFacts
  <2>3. HangUpKnown'
    <3> SUFFICES ASSUME NEW g \in Opened', owner[g] \in closed, g \notin ready
                 PROVE  \E i \in 1 .. Len(batch') : batch'[i].fd = g /\ batch'[i].hup
      BY <1>1, <1>6 DEF HangUpKnown
    <3>1. PICK i \in 1 .. Len(batch) : batch[i].fd = g /\ batch[i].hup
      BY <1>2, <2>2 DEF EdgesOK, HangUpKnown
    <3> QED BY <2>1, <2>2, <3>1
  <2>4. InputKnown'
    <3> SUFFICES ASSUME NEW g \in Opened', inbox[owner[g]] # <<>>, g \notin ready
                 PROVE  \E i \in 1 .. Len(batch') : batch'[i].fd = g
      BY <1>1, <1>6 DEF InputKnown
    <3>1. PICK i \in 1 .. Len(batch) : batch[i].fd = g
      BY <1>2, <2>2 DEF EdgesOK, InputKnown
    <3> QED BY <2>1, <2>2, <3>1
  <2>5. BacklogKnown'
    <3> SUFFICES ASSUME NEW k \in Kinds, backlog[k] # <<>>, Listener[k] \notin ready
                 PROVE  \E i \in 1 .. Len(batch') : batch'[i].fd = Listener[k]
      BY <1>1, <1>5, <1>6, NameFacts DEF BacklogKnown
    <3>1. PICK i \in 1 .. Len(batch) : batch[i].fd = Listener[k]
      BY <1>2 DEF EdgesOK, BacklogKnown
    <3>2. Listener[k] \in Names /\ Listener[k] # f
      BY <1>5, NameFacts
    <3> QED BY <2>1, <3>1, <3>2
  <2> QED BY <2>3, <2>4, <2>5 DEF EdgesOK
<1>10. StaleOK'
  <2> SUFFICES ASSUME \A c \in Monitors : stage'[c] # "over"
               PROVE  cut' = {} /\ HangUpsAreCurrent'
    BY DEF StaleOK
  <2>1. \A c \in Monitors : stage[c] # "over"
    BY <1>6 DEF Conns
  <2>2. cut = {} /\ HangUpsAreCurrent
    BY <1>2, <2>1 DEF StaleOK
  <2>3. owner[f] \in closed
    BY <1>4, <2>2 DEF HangUpsAreCurrent
  <2>4. ASSUME NEW i \in 1 .. Len(batch'), batch'[i].hup
        PROVE  batch'[i].fd \in Opened' /\ owner'[batch'[i].fd] \in closed'
    <3>1. batch[i + 1].hup /\ batch[i + 1].fd \in Opened /\ owner[batch[i + 1].fd] \in closed
      BY <1>4, <2>2, <2>4 DEF HangUpsAreCurrent
    <3>2. batch[i + 1].fd # f
      BY <1>2, <1>4 DEF BatchOK
    <3> QED BY <1>1, <1>4, <1>6, <3>1, <3>2
  <2> QED BY <1>6, <2>2, <2>3, <2>4 DEF HangUpsAreCurrent
<1>11. AddressOK'
  <2>1. (\A c \in Conns : stage'[c] # "dropped") => \A c \in Conns : stage[c] # "dropped"
    BY <1>6
  <2>2. Addressed(engineFd) => Addressed(engineFd)'
    BY <1>1, <1>6 DEF Addressed
  <2>3. Addressed(accessFd) => Addressed(accessFd)'
    BY <1>1, <1>6 DEF Addressed
  <2>4. SenderKnown'
    BY <1>1 DEF SenderKnown, Handling
  <2> QED BY <1>1, <1>2, <2>1, <2>2, <2>3, <2>4 DEF AddressOK
<1> QED BY <1>6, <1>7, <1>8, <1>9, <1>10, <1>11 DEF IInv

\* What is read comes to an end with the connection, which is closed at once or
\* left to the next epoll_wait().
LEMMA ReadEndsKeep ==
  ASSUME IInv, core.at = "read", Current \in Opened, owner[Current] \in closed,
         NEW fs \in SUBSET Fds, fs = {} \/ fs = {Current}, CloseFds(fs, "dropped"),
         clients' = clients \ fs, monitors' = monitors \ fs,
         core' = [core EXCEPT !.at = "deliver"],
         engineFd' \in {engineFd, NoFd}, accessFd' \in {accessFd, NoFd},
         UNCHANGED <<closed, sends, backlog, batch, wanted, told>>
  PROVE  IInv'
PROOF
<1>1. Handling
  BY DEF Handling
<1>2. Types /\ SocketsOK /\ BatchOK /\ EdgesOK /\ StaleOK /\ AddressOK
  BY DEF IInv
<1>3. /\ Opened' = Opened \ fs /\ ready' = ready \ fs
      /\ \A f \in Opened' : /\ f \in Opened /\ f \notin fs /\ owner'[f] = owner[f]
                            /\ owner[f] \in Conns /\ inbox'[owner[f]] = inbox[owner[f]]
      /\ \A c \in Conns : stage[c] \in {"over", "dropped"} => stage'[c] = stage[c]
      /\ \A f \in fs \cap Opened : owner[f] \in Conns /\ stage'[owner[f]] = "dropped"
      /\ owner' \in [Fds -> Conns \cup {NoConn}]
      /\ stage' \in [Conns -> {"new", "pending", "served", "over", "dropped"}]
      /\ inbox' \in [Conns -> Seq(AllMessages)]
      /\ \A c \in Conns : inbox'[c] \in Seq(Messages(Kind(c)))
      /\ cut' \subseteq Conns
      /\ (\A f \in fs \cap Opened : owner[f] \in closed) => cut' = cut
      /\ SocketsOK'
  BY Closing
<1>4. /\ core'.at = "deliver" /\ core'.msgs = core.msgs
      /\ core' \in [at : {"wait", "next", "read", "deliver"}, msgs : Seq(AllMessages)]
  BY <1>2 DEF Types
<1>5. Types'
  <2>1. clients' \subseteq Fds /\ monitors' \subseteq Fds /\ ready' \subseteq Names
    BY <1>2, <1>3 DEF Types, TypeOK, Names
  <2>2. engineFd' \in Fds \cup {NoFd} /\ accessFd' \in Fds \cup {NoFd}
    BY <1>2 DEF Types, TypeOK
  <2> QED BY <1>2, <1>3, <1>4, <2>1, <2>2 DEF Types, TypeOK, Names
<1>6. EdgesOK' /\ BatchOK'
  BY <1>1, <1>3, <1>4, ClosingKeepsEdges
<1>7. StaleOK'
  <2> SUFFICES ASSUME \A c \in Monitors : stage'[c] # "over"
               PROVE  cut' = {} /\ HangUpsAreCurrent'
    BY DEF StaleOK
  <2>1. \A c \in Monitors : stage[c] # "over"
    BY <1>3 DEF Conns
  <2>2. cut = {} /\ HangUpsAreCurrent
    BY <1>2, <2>1 DEF StaleOK
  <2>3. ASSUME NEW i \in 1 .. Len(batch), batch[i].hup
        PROVE  batch[i].fd \in Opened' /\ owner'[batch[i].fd] \in closed
    <3>1. batch[i].fd \in Opened /\ owner[batch[i].fd] \in closed
      BY <2>2, <2>3 DEF HangUpsAreCurrent
    <3>2. batch[i].fd # Current
      BY <1>1, <1>2, <2>3, WhileHandling DEF BatchOK
    <3> QED BY <1>3, <3>1, <3>2
  <2> QED BY <1>3, <2>2, <2>3 DEF HangUpsAreCurrent
<1>8. AddressOK'
  <2> SUFFICES ASSUME \A c \in Conns : stage'[c] # "dropped"
               PROVE  Addressed(engineFd)' /\ Addressed(accessFd)' /\ SenderKnown'
                      /\ \A c \in Monitors : told[c] = {}
    BY DEF AddressOK
  <2>1. fs = {}
    BY <1>3
  <2>2. \A c \in Conns : stage[c] # "dropped"
    BY <1>3
  <2>3. Addressed(engineFd) /\ Addressed(accessFd) /\ SenderKnown /\ \A c \in Monitors : told[c] = {}
    BY <1>2, <2>2 DEF AddressOK
  <2>4. Opened' = Opened /\ \A f \in Opened : owner'[f] = owner[f]
    BY <1>3, <2>1
  <2>5. SenderKnown'
    BY <1>1, <1>4, <2>3, <2>4 DEF SenderKnown
  <2> QED BY <2>3, <2>4, <2>5 DEF Addressed
<1> QED BY <1>3, <1>5, <1>6, <1>7, <1>8 DEF IInv

LEMMA ReadEofKeeps ==
  ASSUME IInv, ReadEof
  PROVE  IInv'
PROOF
<1>1. /\ core.at = "read" /\ Current \in Opened \ monitors /\ owner[Current] \in closed
      /\ engineFd' \in {engineFd, NoFd} /\ accessFd' \in {accessFd, NoFd}
      /\ CloseFds({Current}, "dropped")
      /\ clients' = clients \ {Current} /\ core' = [core EXCEPT !.at = "deliver"]
      /\ UNCHANGED <<closed, sends, backlog, monitors, batch, wanted, told>>
  BY DEF ReadEof, Forget
<1>2. monitors' = monitors \ {Current} /\ {Current} \in SUBSET Fds
  BY <1>1, TypesAre DEF IInv
<1> QED BY <1>1, <1>2, ReadEndsKeep

LEMMA ReadResetKeeps ==
  ASSUME IInv, ReadReset
  PROVE  IInv'
PROOF
<1> DEFINE fs == {Current} \ monitors
<1>1. /\ core.at = "read" /\ Current \in Opened /\ owner[Current] \in closed
      /\ CloseFds(fs, "dropped")
      /\ clients' = clients \ {Current} /\ core' = [core EXCEPT !.at = "deliver"]
      /\ UNCHANGED <<closed, sends, backlog, monitors, batch, wanted, told, engineFd, accessFd>>
  BY DEF ReadReset, cmd
<1>2. fs \in SUBSET Fds /\ (fs = {} \/ fs = {Current})
  BY <1>1, TypesAre DEF IInv
<1>3. clients' = clients \ fs /\ monitors' = monitors \ fs
  BY <1>1 DEF IInv, SocketsOK, FdsTracked
<1> HIDE DEF fs
<1> QED BY <1>1, <1>2, <1>3, ReadEndsKeep

\* What a message tells of its sender.
LEMMA SenderNoted ==
  ASSUME IInv, Handling, core.msgs # <<>>, NoteSender
  PROVE  /\ engineFd' \in Fds \cup {NoFd} /\ accessFd' \in Fds \cup {NoFd}
         /\ told' \in [Conns -> SUBSET {"start", "engine", "access"}]
         /\ (\A c \in Conns : stage[c] # "dropped") =>
              /\ \A f \in {engineFd', accessFd'} :
                   f # NoFd => f \in Opened /\ owner[f] \in Engines \cup Accesses
              /\ \A c \in Monitors : told'[c] = {}
PROOF
<1>1. Types /\ SocketsOK /\ AddressOK
  BY DEF IInv
<1>2. core.msgs \in Seq(AllMessages)
  BY <1>1, TypesAre
<1>3. Message \in AllMessages /\ Message = core.msgs[1] /\ 1 \in 1 .. Len(core.msgs)
  BY <1>2, EmptySeq, HeadTailProperties DEF Message
<1>4. Current \in Fds /\ Current = batch[1].fd
  BY WhileHandling
<1>5. engineFd \in Fds \cup {NoFd} /\ accessFd \in Fds \cup {NoFd}
      /\ told \in [Conns -> SUBSET {"start", "engine", "access"}]
  BY <1>1 DEF Types, TypeOK
<1>6. /\ engineFd' \in {engineFd, NoFd, Current} /\ accessFd' \in {accessFd, Current}
      /\ told' = told \/ (Writable(Current) /\ told' = Tell(Current, "start"))
      /\ Message = "query" => engineFd' = engineFd /\ accessFd' = accessFd /\ told' = told
  <2>1. Message \in FromEngine =>
          /\ accessFd' = accessFd /\ engineFd' \in {NoFd, Current} /\ Message # "query"
          /\ told' = told \/ (Writable(Current) /\ told' = Tell(Current, "start"))
    BY DEF NoteSender, FromEngine
  <2>2. Message \in {"data", "replyAsOther"} =>
          accessFd' = Current /\ engineFd' = engineFd /\ told' = told /\ Message # "query"
    BY DEF NoteSender, FromEngine
  <2>3. Message \notin FromEngine \cup {"data", "replyAsOther"} =>
          accessFd' = accessFd /\ engineFd' = engineFd /\ told' = told
    BY DEF NoteSender
  <2> QED BY <2>1, <2>2, <2>3
<1>7. told' \in [Conns -> SUBSET {"start", "engine", "access"}]
  BY <1>1, <1>5, <1>6, Told
<1>8. ASSUME \A c \in Conns : stage[c] # "dropped"
      PROVE  /\ \A f \in {engineFd', accessFd'} :
                   f # NoFd => f \in Opened /\ owner[f] \in Engines \cup Accesses
             /\ \A c \in Monitors : told'[c] = {}
  <2>1. /\ Addressed(engineFd) /\ Addressed(accessFd) /\ SenderKnown
        /\ \A c \in Monitors : told[c] = {}
    BY <1>1, <1>8 DEF AddressOK
  <2>2. CASE Message = "query"
    BY <1>6, <2>1, <2>2 DEF Addressed
  <2>3. CASE Message # "query"
    <3>1. Current \in Opened /\ Message \in Messages(Kind(owner[Current]))
      BY <1>3, <1>4, <2>1, <2>3 DEF SenderKnown
    <3>2. owner[Current] \in Conns
      BY <1>1, <3>1, TypesAre
    <3>3. Kind(owner[Current]) # "monitor"
      BY <2>3, <3>1 DEF Messages
    <3>4. owner[Current] \notin Monitors /\ owner[Current] \in Engines \cup Accesses
      BY <3>2, <3>3, KindFacts DEF Conns
    <3>5. \A c \in Monitors : told'[c] = {}
      BY <1>1, <1>6, <2>1, <3>4, Told
    <3> QED BY <1>6, <2>1, <3>1, <3>4, <3>5 DEF Addressed
  <2> QED BY <2>2, <2>3
<1> QED BY <1>4, <1>5, <1>6, <1>7, <1>8

LEMMA DeliverKeeps ==
  ASSUME IInv, Deliver
  PROVE  IInv'
PROOF
<1> DEFINE dead == IF Message \in ToMonitors THEN {f \in monitors : ~Writable(f)} ELSE {}
<1>1. /\ core.at = "deliver" /\ core.msgs # <<>> /\ NoteSender
      /\ CloseFds(dead, "over") /\ monitors' = monitors \ dead
      /\ core' = [core EXCEPT !.msgs = Tail(@)]
      /\ UNCHANGED <<closed, sends, backlog, clients, batch, wanted>>
  BY DEF Deliver, ForwardToMonitors
<1>2. Types /\ SocketsOK /\ BatchOK /\ EdgesOK /\ StaleOK /\ AddressOK
  BY DEF IInv
<1>3. Handling
  BY <1>1 DEF Handling
<1>4. dead \subseteq monitors /\ \A f \in dead : ~Writable(f)
  OBVIOUS
<1> HIDE DEF dead
<1>5. /\ dead \in SUBSET Fds /\ dead \subseteq Opened
      /\ \A f \in dead : owner[f] \in Monitors /\ owner[f] \in closed
  BY <1>2, <1>4, OpenedIs DEF Writable
<1>6. clients' = clients \ dead
  BY <1>1, <1>2, <1>4 DEF SocketsOK, FdsTracked
<1>7. /\ Opened' = Opened \ dead /\ ready' = ready \ dead
      /\ \A f \in Opened' : /\ f \in Opened /\ f \notin dead /\ owner'[f] = owner[f]
                            /\ owner[f] \in Conns /\ inbox'[owner[f]] = inbox[owner[f]]
      /\ \A c \in Conns : stage[c] \in {"over", "dropped"} => stage'[c] = stage[c]
      /\ \A f \in dead \cap Opened : owner[f] \in Conns /\ stage'[owner[f]] = "over"
      /\ owner' \in [Fds -> Conns \cup {NoConn}]
      /\ stage' \in [Conns -> {"new", "pending", "served", "over", "dropped"}]
      /\ inbox' \in [Conns -> Seq(AllMessages)]
      /\ \A c \in Conns : inbox'[c] \in Seq(Messages(Kind(c)))
      /\ cut' \subseteq Conns
      /\ (\A f \in dead \cap Opened : owner[f] \in closed) => cut' = cut
      /\ SocketsOK'
  BY <1>1, <1>5, <1>6, Closing
<1>8. core.msgs \in Seq(AllMessages)
  BY <1>2, TypesAre
<1> DEFINE s == core.msgs  t == Tail(s)
<1>9. /\ t \in Seq(AllMessages) /\ \A i \in 1 .. Len(t) : t[i] = s[i + 1] /\ i + 1 \in 1 .. Len(s)
  <2>1. t \in Seq(AllMessages) /\ Len(t) = Len(s) - 1 /\ Len(s) \in Nat \ {0}
        /\ \A i \in 1 .. Len(t) : t[i] = s[i + 1]
    BY <1>1, <1>8, EmptySeq, HeadTailProperties
  <2> HIDE DEF t, s
  <2>2. \A i \in 1 .. Len(t) : i + 1 \in 1 .. Len(s)
    BY <2>1
  <2> QED BY <2>1, <2>2
<1> HIDE DEF t
<1>10. /\ core'.at = "deliver" /\ core'.msgs = t
       /\ core' \in [at : {"wait", "next", "read", "deliver"}, msgs : Seq(AllMessages)]
  BY <1>1, <1>2, <1>9 DEF Types, t
<1>11. /\ engineFd' \in Fds \cup {NoFd} /\ accessFd' \in Fds \cup {NoFd}
       /\ told' \in [Conns -> SUBSET {"start", "engine", "access"}]
       /\ (\A c \in Conns : stage[c] # "dropped") =>
            /\ \A f \in {engineFd', accessFd'} :
                 f # NoFd => f \in Opened /\ owner[f] \in Engines \cup Accesses
            /\ \A c \in Monitors : told'[c] = {}
  BY <1>1, <1>3, SenderNoted
<1>12. Types'
  <2>1. clients' \subseteq Fds /\ monitors' \subseteq Fds /\ ready' \subseteq Names
    BY <1>1, <1>2, <1>7 DEF Types, TypeOK, Names
  <2>2. core'.at = "deliver" /\ core'.msgs \in Seq(UNION {Messages(k) : k \in Kinds})
    BY <1>9, <1>10, KindFacts
  <2>3. /\ engineFd' \in Fds \cup {NoFd} /\ accessFd' \in Fds \cup {NoFd}
        /\ told' \in [Conns -> SUBSET {"start", "engine", "access"}]
    BY <1>11
  <2> QED BY <1>1, <1>2, <1>7, <1>10, <2>1, <2>2, <2>3 DEF Types, TypeOK, Names
<1>13. EdgesOK' /\ BatchOK'
  BY <1>1, <1>3, <1>5, <1>7, <1>10, ClosingKeepsEdges
<1>14. StaleOK'
  <2> SUFFICES ASSUME \A c \in Monitors : stage'[c] # "over"
               PROVE  cut' = {} /\ HangUpsAreCurrent'
    BY DEF StaleOK
  <2>1. dead = {}
    BY <1>5, <1>7
  <2>2. \A c \in Monitors : stage[c] # "over"
    BY <1>7 DEF Conns
  <2>3. cut = {} /\ HangUpsAreCurrent
    BY <1>2, <2>2 DEF StaleOK
  <2>4. Opened' = Opened /\ \A f \in Opened : owner'[f] = owner[f]
    BY <1>7, <2>1
  <2> QED BY <1>1, <1>7, <2>1, <2>3, <2>4 DEF HangUpsAreCurrent
<1>15. AddressOK'
  <2> SUFFICES ASSUME \A c \in Conns : stage'[c] # "dropped"
               PROVE  Addressed(engineFd)' /\ Addressed(accessFd)' /\ SenderKnown'
                      /\ \A c \in Monitors : told'[c] = {}
    BY DEF AddressOK
  <2>1. \A c \in Conns : stage[c] # "dropped"
    BY <1>7
  <2>2. SenderKnown
    BY <1>2, <2>1 DEF AddressOK
  <2>3. \A f \in Opened : owner[f] \in Engines \cup Accesses => f \in Opened' /\ owner'[f] = owner[f]
    BY <1>5, <1>7, ConnAssumption
  <2>4. Addressed(engineFd)' /\ Addressed(accessFd)'
    BY <1>11, <2>1, <2>3 DEF Addressed
  <2>5. SenderKnown'
    <3> SUFFICES ASSUME NEW i \in 1 .. Len(t), t[i] # "query"
                 PROVE  batch[1].fd \in Opened' /\ t[i] \in Messages(Kind(owner'[batch[1].fd]))
      BY <1>1, <1>10 DEF SenderKnown
    <3> DEFINE f == batch[1].fd
    <3>1. f \in Opened /\ t[i] \in Messages(Kind(owner[f]))
      BY <1>3, <1>9, <2>2 DEF SenderKnown
    <3>2. owner[f] \in Conns /\ Kind(owner[f]) # "monitor"
      BY <1>2, <3>1, TypesAre DEF Messages
    <3>3. owner[f] \in Engines \cup Accesses
      BY <3>2, KindFacts DEF Conns
    <3> QED BY <2>3, <3>1, <3>3
  <2> QED BY <1>11, <2>1, <2>4, <2>5
<1> QED BY <1>7, <1>12, <1>13, <1>14, <1>15 DEF IInv

-----------------------------------------------------------------------------
(* The theorems *)

LEMMA StutterKeeps ==
  ASSUME IInv, UNCHANGED vars
  PROVE  IInv'
PROOF
<1>1. /\ UNCHANGED <<peers, fdSets, ready, batch, core, cmd, cut>>
      /\ UNCHANGED <<stage, closed, sends, inbox, backlog, owner, clients, monitors>>
      /\ UNCHANGED <<engineFd, accessFd, wanted, told>>
  BY DEF vars, peers, fdSets, cmd
<1>2. Types /\ SocketsOK /\ BatchOK /\ EdgesOK /\ StaleOK /\ AddressOK
  BY DEF IInv
<1>3. Types'
  BY <1>1, <1>2 DEF Types, TypeOK
<1>4. SocketsOK' /\ Opened' = Opened
  BY <1>1, <1>2, SocketsSame
<1>5. BatchOK' /\ EdgesOK'
  BY <1>1, <1>2, BatchSame, EdgesAdded
<1>6. StaleOK'
  BY <1>1, <1>2, <1>4 DEF StaleOK, HangUpsAreCurrent
<1>7. AddressOK'
  BY <1>1, <1>2, <1>4 DEF AddressOK, Addressed, SenderKnown, Handling
<1> QED BY <1>3, <1>4, <1>5, <1>6, <1>7 DEF IInv

LEMMA StepKeeps == IInv /\ [Next]_vars => IInv'
PROOF
<1> SUFFICES ASSUME IInv, [Next]_vars PROVE IInv'
  OBVIOUS
<1>1. CASE Peer
  BY <1>1, ConnectKeeps, CloseKeeps, SendKeeps DEF Peer
<1>2. CASE Loop
  <2>1. CASE EpollWait \/ BatchDone \/ HangUp \/ StartRead
    BY <2>1, EpollWaitKeeps, BatchDoneKeeps, HangUpKeeps, StartReadKeeps
  <2>2. CASE ReadOne \/ ReadDone \/ ReadEof \/ ReadReset
    BY <2>2, ReadOneKeeps, ReadDoneKeeps, ReadEofKeeps, ReadResetKeeps
  <2>3. CASE Deliver \/ Delivered
    BY <2>3, DeliverKeeps, DeliveredKeeps
  <2>4. CASE \E k \in Kinds : Accept(k) \/ AcceptDone(k)
    BY <2>4, AcceptKeeps, AcceptDoneKeeps
  <2> QED BY <1>2, <2>1, <2>2, <2>3, <2>4 DEF Loop
<1>3. CASE Calls
  BY <1>3, CallsKeep
<1>4. CASE UNCHANGED vars
  BY <1>4, StutterKeeps
<1> QED BY <1>1, <1>2, <1>3, <1>4 DEF Next

LEMMA Invariant == Spec => []IInv
PROOF
<1>1. Init => IInv
  BY InitOK
<1>2. IInv /\ [Next]_vars => IInv'
  BY StepKeeps
<1> QED BY <1>1, <1>2, PTL DEF Spec

\* Every variable keeps its type.
THEOREM TypeCorrect == Spec => []TypeOK
PROOF
<1>1. IInv => TypeOK
  BY DEF IInv, Types
<1> QED BY <1>1, Invariant, PTL

\* client_fds_ and monitor_client_fds_ are the open descriptors, each in the set
\* of its kind, through every accept(), hang-up, end of file, reset and broadcast
\* (EventLoop.cpp 79-83, 160-174, 206-217, 295-299).
THEOREM FdsAreTracked == Spec => []FdsTracked
PROOF
<1>1. IInv => FdsTracked
  BY DEF IInv, SocketsOK
<1> QED BY <1>1, Invariant, PTL

\* When the loop goes to sleep, epoll knows of all there is to accept, to read or
\* to close: the read loops end at EAGAIN or with the connection (140-175).
THEOREM EdgesAreKept == Spec => []NoMissedEdge
PROOF
<1>1. IInv => NoMissedEdge
  <2> SUFFICES ASSUME IInv, core.at = "wait", NEW f \in Names, Readable(f) PROVE f \in ready
    BY DEF NoMissedEdge, Names
  <2>1. BatchOK /\ EdgesOK
    BY DEF IInv
  <2>2. batch = <<>> /\ Len(batch) = 0
    BY <2>1 DEF BatchOK
  <2>3. CASE \E k \in Kinds : f = Listener[k] /\ backlog[k] # <<>>
    BY <2>1, <2>2, <2>3 DEF EdgesOK, BacklogKnown
  <2>4. CASE f \in Opened /\ inbox[owner[f]] # <<>>
    BY <2>1, <2>2, <2>4 DEF EdgesOK, InputKnown
  <2>5. CASE f \in Opened /\ owner[f] \in closed
    BY <2>1, <2>2, <2>5 DEF EdgesOK, HangUpKnown
  <2> QED BY <2>3, <2>4, <2>5 DEF Readable
<1> QED BY <1>1, Invariant, PTL

\* No live peer is cut off unless a monitor was closed out of turn before: a
\* hang-up that waits in the batch is otherwise of the connection it was reported
\* for (183-227).
THEOREM OnlyMonitorsMakeStale == Spec => []StaleEventsNeedMonitors
PROOF
<1>1. IInv => StaleEventsNeedMonitors
  BY DEF IInv, StaleOK, StaleEventsNeedMonitors
<1> QED BY <1>1, Invariant, PTL

\* No command goes to a monitor unless a connection was closed inside
\* handle_client_data() before (main.cpp 40-41, 477-480).
THEOREM OnlyDropsMisdirect == Spec => []MisdirectionNeedsDrop
PROOF
<1>1. IInv => MisdirectionNeedsDrop
  BY DEF IInv, AddressOK, MisdirectionNeedsDrop
<1> QED BY <1>1, Invariant, PTL

\* accept() finds a descriptor for each connection that waits: the open ones
\* belong to as many other connections.
THEOREM DescriptorIsFree == Spec => [](\A k \in Kinds : backlog[k] # <<>> => Fds \ Opened # {})
PROOF
<1>1. ASSUME IInv, NEW k \in Kinds, backlog[k] # <<>>, Fds \ Opened = {} PROVE FALSE
  <2>1. Types /\ SocketsOK
    BY <1>1 DEF IInv
  <2> DEFINE c == Head(backlog[k])
  <2>2. c \in Conns /\ stage[c] = "pending"
    <3>1. backlog[k] \in Seq(Conns)
      BY <2>1, TypesAre
    <3>2. c = backlog[k][1] /\ c \in Conns /\ 1 \in 1 .. Len(backlog[k])
      BY <1>1, <3>1, EmptySeq, HeadTailProperties
    <3> QED BY <2>1, <3>2 DEF SocketsOK
  <2> HIDE DEF c
  <2>3. \A f \in Fds : f \in Opened /\ owner[f] \in Conns /\ owner[f] # c
    BY <1>1, <2>1, <2>2, TypesAre DEF SocketsOK
  <2>4. [f \in Fds |-> owner[f]] \in Injection(Fds, Conns \ {c})
    BY <2>1, <2>3 DEF SocketsOK, Injection, IsInjective
  <2>5. IsFiniteSet(Fds) /\ Cardinality(Fds) = MaxFd
    BY FS_Interval, FdAssumption DEF Fds
  <2>6. /\ IsFiniteSet(Conns \ {c}) /\ Cardinality(Conns \ {c}) = Cardinality(Conns) - 1
        /\ Cardinality(Conns) \in Nat
    BY <2>2, FS_RemoveElement, FS_CardinalityType, FdAssumption
  <2>7. Cardinality(Fds) <= Cardinality(Conns \ {c})
    BY <2>4, <2>5, <2>6, FS_Injection
  <2> QED BY <2>5, <2>6, <2>7, FdAssumption
<1>2. IInv => \A k \in Kinds : backlog[k] # <<>> => Fds \ Opened # {}
  BY <1>1
<1> QED BY <1>2, Invariant, PTL

=============================================================================
