------------------------------ MODULE DbWriter ------------------------------
(***************************************************************************)
(* The database writer of gateway_core: the event loop pushes records into *)
(* a ring, a thread of its own takes them out in batches and writes each   *)
(* batch in one SQLite transaction (gateway_core/DbWriter.cpp).            *)
(*                                                                         *)
(* The ring is the bounded FIFO that SpscQueue implements; its histories   *)
(* `sent' and `got' start anew with every process.  Records are numbered   *)
(* in the order in which the event loop offers them.  SQLite is external:  *)
(* what the code does with its result codes is modelled, and what a COMMIT *)
(* that fails may leave behind is a choice.                                *)
(***************************************************************************)
EXTENDS Integers, Sequences, SequencesExt, FiniteSets

CONSTANTS QueueMax,     \* records the ring holds: kDbQueueSize - 1
          BatchSize,    \* kBatchSize
          MaxOffer,     \* TLC bound: records offered
          MaxCrash,     \* TLC bound: crashes of the process
          SqlMayFail    \* may a statement of SQLite fail

ASSUME QueueMaxAssumption == QueueMax \in Nat \ {0}
ASSUME BatchAssumption == BatchSize \in 1 .. QueueMax
ASSUME DbBoundsAssumption == MaxOffer \in Nat /\ MaxCrash \in Nat
ASSUME SqlAssumption == SqlMayFail \in BOOLEAN

VARIABLES
  sent, got,  \* the ring
  offered,    \* records push() was called with
  owes,       \* push() has queued its record and not yet looked at size()
  notify,     \* notify_fd_ is readable
  dbRunning,  \* running_
  thread,     \* where loop() is: "off" before start(), "done" after it
  dbBatch,    \* what the thread took and has not written
  txn,        \* rows of the transaction that is open
  txnOpen,    \* the connection has a transaction open
  table,      \* rows committed, which outlive the process
  dropped,    \* records the code gave up on
  crashes     \* crashes so far

ring == <<sent, got>>
sqlite == <<txn, txnOpen, table>>
vars == <<ring, offered, owes, notify, dbRunning, thread, dbBatch, sqlite, dropped, crashes>>

Ring == INSTANCE BoundedFifo WITH Items <- Nat, Bound <- QueueMax

Queued == SubSeq(sent, Len(got) + 1, Len(sent))

Init ==
  /\ Ring!FifoInit
  /\ offered = 0
  /\ owes = FALSE
  /\ notify = FALSE
  /\ dbRunning = FALSE
  /\ thread = "off"
  /\ dbBatch = <<>>
  /\ txn = <<>>
  /\ txnOpen = FALSE
  /\ table = <<>>
  /\ dropped = {}
  /\ crashes = 0

-----------------------------------------------------------------------------
(* The event loop: start(), push() and, when the loop has ended, stop() *)

Start ==
  /\ thread = "off"
  /\ dbRunning' = TRUE
  /\ thread' = "wait"
  /\ UNCHANGED <<ring, offered, owes, notify, dbBatch, sqlite, dropped, crashes>>

Push ==
  /\ dbRunning
  /\ ~owes
  /\ offered < MaxOffer
  /\ offered' = offered + 1
  /\ Ring!Enqueue(offered + 1)
  /\ owes' = TRUE
  /\ UNCHANGED <<notify, dbRunning, thread, dbBatch, sqlite, dropped, crashes>>

\* The ring is full: push() returns false and no caller looks at it.
PushRefused ==
  /\ dbRunning
  /\ ~owes
  /\ offered < MaxOffer
  /\ Ring!Waiting = QueueMax
  /\ offered' = offered + 1
  /\ dropped' = dropped \cup {offered + 1}
  /\ UNCHANGED <<ring, owes, notify, dbRunning, thread, dbBatch, sqlite, crashes>>

\* The second half of push(): by now the thread may have taken records out.
PushNotify ==
  /\ owes
  /\ owes' = FALSE
  /\ notify' = (notify \/ Ring!Waiting >= BatchSize)
  /\ UNCHANGED <<ring, offered, dbRunning, thread, dbBatch, sqlite, dropped, crashes>>

Stop ==
  /\ dbRunning
  /\ ~owes
  /\ dbRunning' = FALSE
  /\ UNCHANGED <<ring, offered, owes, notify, thread, dbBatch, sqlite, dropped, crashes>>

-----------------------------------------------------------------------------
(* loop(): wait, take a batch, write it; after the last round, take what is *)
(* left and write that.                                                     *)

\* Variant with a bug: the wait has no timeout.
WakeNotified ==
  /\ thread = "wait"
  /\ notify
  /\ thread' = "take"
  /\ notify' = FALSE
  /\ UNCHANGED <<ring, offered, owes, dbRunning, dbBatch, sqlite, dropped, crashes>>

\* poll() returns with notify_fd_ readable, or after 100 ms.
Wake ==
  /\ thread = "wait"
  /\ thread' = "take"
  /\ notify' = FALSE
  /\ UNCHANGED <<ring, offered, owes, dbRunning, dbBatch, sqlite, dropped, crashes>>

\* Variant with a bug: pop() is called before the size of the batch is looked at,
\* so the record after a full batch is lost.
TakeOneMore ==
  /\ thread \in {"take", "drain"}
  /\ Ring!Dequeue
  /\ dbBatch' = IF thread = "take" /\ Len(dbBatch) = BatchSize
              THEN dbBatch ELSE Append(dbBatch, Head(Queued))
  /\ UNCHANGED <<offered, owes, notify, dbRunning, thread, sqlite, dropped, crashes>>

TakeOne ==
  /\ \/ thread = "take" /\ Len(dbBatch) < BatchSize
     \/ thread = "drain"
  /\ Ring!Dequeue
  /\ dbBatch' = Append(dbBatch, Head(Queued))
  /\ UNCHANGED <<offered, owes, notify, dbRunning, thread, sqlite, dropped, crashes>>

\* Variant with a bug: what is left is not written after the loop.
NextRoundOnly == IF dbRunning THEN "wait" ELSE "done"

\* Back at the top of the loop, where running_ is read.
NextRound == IF dbRunning THEN "wait" ELSE "drain"

\* The batch is full or the ring empty.
Taken ==
  /\ \/ thread = "take" /\ (Len(dbBatch) = BatchSize \/ Ring!Waiting = 0)
     \/ thread = "drain" /\ Ring!Waiting = 0
  /\ thread' = CASE dbBatch # <<>> /\ thread = "take"  -> "begin"
                 [] dbBatch # <<>> /\ thread = "drain" -> "beginLast"
                 [] dbBatch = <<>> /\ thread = "take"  -> NextRound
                 [] dbBatch = <<>> /\ thread = "drain" -> "done"
  /\ UNCHANGED <<ring, offered, owes, notify, dbRunning, dbBatch, sqlite, dropped, crashes>>

-----------------------------------------------------------------------------
(* flush_batch(), called in the loop and once after it *)

Flushing(inLoop, last) == thread \in {inLoop, last}

After(inLoop, last) == IF thread = inLoop THEN NextRound ELSE last

Begin ==
  /\ Flushing("begin", "beginLast")
  /\ ~txnOpen
  /\ txnOpen' = TRUE
  /\ thread' = IF thread = "begin" THEN "insert" ELSE "insertLast"
  /\ UNCHANGED <<ring, offered, owes, notify, dbRunning, dbBatch, txn, table, dropped, crashes>>

\* BEGIN fails on its own, or because a transaction is still open: flush_batch()
\* returns and the batch goes with it.
BeginFails ==
  /\ Flushing("begin", "beginLast")
  /\ SqlMayFail
  /\ dropped' = dropped \cup ToSet(dbBatch)
  /\ dbBatch' = <<>>
  /\ thread' = After("begin", "done")
  /\ UNCHANGED <<ring, offered, owes, notify, dbRunning, sqlite, crashes>>

Insert ==
  /\ Flushing("insert", "insertLast")
  /\ dbBatch # <<>>
  /\ txn' = Append(txn, Head(dbBatch))
  /\ dbBatch' = Tail(dbBatch)
  /\ UNCHANGED <<ring, offered, owes, notify, dbRunning, thread, txnOpen, table, dropped, crashes>>

\* prepare or step fails: the record is logged and skipped, the rest goes on.
InsertFails ==
  /\ Flushing("insert", "insertLast")
  /\ SqlMayFail
  /\ dbBatch # <<>>
  /\ dropped' = dropped \cup {Head(dbBatch)}
  /\ dbBatch' = Tail(dbBatch)
  /\ UNCHANGED <<ring, offered, owes, notify, dbRunning, thread, sqlite, crashes>>

\* Variant with a bug: the rows of the batch are kept and written again.
CommitKeeps ==
  /\ Flushing("insert", "insertLast")
  /\ dbBatch = <<>>
  /\ table' = table \o txn
  /\ txnOpen' = FALSE
  /\ thread' = After("insert", "done")
  /\ UNCHANGED <<ring, offered, owes, notify, dbRunning, dbBatch, txn, dropped, crashes>>

Commit ==
  /\ Flushing("insert", "insertLast")
  /\ dbBatch = <<>>
  /\ table' = table \o txn
  /\ txn' = <<>>
  /\ txnOpen' = FALSE
  /\ thread' = After("insert", "done")
  /\ UNCHANGED <<ring, offered, owes, notify, dbRunning, dbBatch, dropped, crashes>>

\* The result of COMMIT is not looked at.  SQLite either rolled back or left the
\* transaction open.
CommitFails ==
  /\ Flushing("insert", "insertLast")
  /\ SqlMayFail
  /\ dbBatch = <<>>
  /\ \/ UNCHANGED <<sqlite, dropped>>
     \/ /\ dropped' = dropped \cup ToSet(txn)
        /\ txn' = <<>>
        /\ txnOpen' = FALSE
        /\ UNCHANGED table
  /\ thread' = After("insert", "done")
  /\ UNCHANGED <<ring, offered, owes, notify, dbRunning, dbBatch, crashes>>

-----------------------------------------------------------------------------
\* The process dies and the watchdog starts it again: only the table is left.
Crash ==
  /\ crashes < MaxCrash
  /\ crashes' = crashes + 1
  /\ dropped' = dropped \cup ToSet(Queued) \cup ToSet(dbBatch) \cup ToSet(txn)
  /\ sent' = <<>>
  /\ got' = <<>>
  /\ owes' = FALSE
  /\ notify' = FALSE
  /\ dbRunning' = FALSE
  /\ thread' = "off"
  /\ dbBatch' = <<>>
  /\ txn' = <<>>
  /\ txnOpen' = FALSE
  /\ UNCHANGED <<offered, table>>

Thread ==
  \/ Wake \/ TakeOne \/ Taken
  \/ Begin \/ BeginFails \/ Insert \/ InsertFails \/ Commit \/ CommitFails

Next == Start \/ Push \/ PushRefused \/ PushNotify \/ Stop \/ Thread \/ Crash

Spec == Init /\ [][Next]_vars

\* The thread runs whenever it can, and poll() comes back after 100 ms.
FairSpec == Spec /\ WF_vars(Thread)

-----------------------------------------------------------------------------
(* Properties *)

Threads == {"off", "wait", "take", "begin", "insert", "drain", "beginLast", "insertLast", "done"}

TypeOK ==
  /\ sent \in Seq(1 .. MaxOffer)
  /\ got \in Seq(1 .. MaxOffer)
  /\ offered \in 0 .. MaxOffer
  /\ owes \in BOOLEAN
  /\ notify \in BOOLEAN
  /\ dbRunning \in BOOLEAN
  /\ thread \in Threads
  /\ dbBatch \in Seq(1 .. MaxOffer)
  /\ txn \in Seq(1 .. MaxOffer)
  /\ txnOpen \in BOOLEAN
  /\ table \in Seq(1 .. MaxOffer)
  /\ dropped \subseteq 1 .. MaxOffer
  /\ crashes \in 0 .. MaxCrash

\* Rows reach the tables in the order of the records and no record becomes two
\* rows, across batches, failed statements and restarts (DbWriter.cpp 105-147,
\* 152-209): a monitor that asks for "id > last" relies on it.
InOrderOnce ==
  LET way == table \o txn \o dbBatch \o Queued
  IN \A i, j \in 1 .. Len(way) : i < j => way[i] < way[j]

\* Every record the event loop offered is in a table, on its way there, or was
\* given up on, and never two of these (DbWriter.cpp 79-87, 105-216).
NoneForgotten ==
  LET way == ToSet(table \o txn \o dbBatch \o Queued)
  IN /\ way \cup dropped = 1 .. offered
     /\ way \cap dropped = {}

\* When stop() returns, every record that push() accepted went through
\* flush_batch() (lines 140-147): the loop's last look at running_ may come
\* before or after any push and anywhere in a round.
StopDrains == thread = "done" => Queued = <<>> /\ dbBatch = <<>>

\* Each accepted record reaches a table in the end or is given up on, before the
\* stop or through the last batch; a transaction that a failed COMMIT left open
\* is the only place where it may stay (lines 105-149, 207).  As only so many are
\* offered, again and again all that were accepted are there.
EventuallyStored ==
  []<>(\A n \in ToSet(sent) :
         \/ n \in ToSet(table) \cup dropped
         \/ n \in ToSet(txn) /\ ~Flushing("insert", "insertLast"))
=============================================================================
