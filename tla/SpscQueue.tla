----------------------------- MODULE SpscQueue -----------------------------
(***************************************************************************)
(* The lock-free single-producer single-consumer ring of common/           *)
(* SpscQueue.h, at the grain of its shared accesses.  The core uses it     *)
(* between the event loop and the database thread, the engine uses three   *)
(* of them between its four stages.                                        *)
(*                                                                         *)
(* An item is a record with std::string or shared_ptr members, so the copy *)
(* into the slot (line 26) and the copy out of it (line 38) are not        *)
(* atomic: while a copy in is under way the slot holds NoItem.  The        *)
(* cursors are atomics with acquire/release order, hence one step per      *)
(* access to the cursor of the other side.                                 *)
(*                                                                         *)
(* `sent' and `got' are histories: the items whose push returned true and  *)
(* the items pop handed out.                                               *)
(***************************************************************************)
EXTENDS Integers, Sequences

CONSTANTS Capacity,   \* the template parameter, slots in the ring
          Items,      \* what the producer can push
          NoItem,     \* a slot that holds no whole item
          MaxPush     \* TLC bound: accepted pushes

ASSUME CapacityAssumption == Capacity \in Nat /\ Capacity >= 2
ASSUME NoItemAssumption == NoItem \notin Items
ASSUME MaxPushAssumption == MaxPush \in Nat

VARIABLES
  buffer,     \* buffer_
  readPos,    \* read_pos_
  writePos,   \* write_pos_
  prod,       \* the producer: where it is in push() and with which item
  cons,       \* the consumer: where it is in pop() and what it copied
  refused,    \* did the last finished push return false
  sent, got

vars == <<buffer, readPos, writePos, prod, cons, refused, sent, got>>

Slots == 0 .. Capacity - 1

Succ(pos) == (pos + 1) % Capacity

\* size(), as the producer computes it: its own cursor, then the other one.
\* size_t subtraction wraps, and Capacity is added before the remainder, so the
\* result is the remainder of the difference.
Size == (writePos - readPos + Capacity) % Capacity

Init ==
  /\ buffer = [s \in Slots |-> NoItem]
  /\ readPos = 0
  /\ writePos = 0
  /\ prod = [at |-> "idle", item |-> NoItem]
  /\ cons = [at |-> "idle", item |-> NoItem]
  /\ refused = FALSE
  /\ sent = <<>>
  /\ got = <<>>

-----------------------------------------------------------------------------
(* push() *)

PushFull ==
  /\ prod.at = "idle"
  /\ Succ(writePos) = readPos
  /\ refused' = TRUE
  /\ UNCHANGED <<buffer, readPos, writePos, prod, cons, sent, got>>

\* Variant with a bug: the full ring is not noticed.
PushUnchecked(x) ==
  /\ prod.at = "idle"
  /\ Len(sent) < MaxPush
  /\ prod' = [at |-> "copy", item |-> x]
  /\ buffer' = [buffer EXCEPT ![writePos] = NoItem]
  /\ UNCHANGED <<readPos, writePos, cons, refused, sent, got>>

PushBegin(x) ==
  /\ prod.at = "idle"
  /\ Len(sent) < MaxPush
  /\ Succ(writePos) # readPos
  /\ prod' = [at |-> "copy", item |-> x]
  /\ buffer' = [buffer EXCEPT ![writePos] = NoItem]
  /\ UNCHANGED <<readPos, writePos, cons, refused, sent, got>>

PushCopied ==
  /\ prod.at = "copy"
  /\ prod' = [prod EXCEPT !.at = "publish"]
  /\ buffer' = [buffer EXCEPT ![writePos] = prod.item]
  /\ UNCHANGED <<readPos, writePos, cons, refused, sent, got>>

PushPublish ==
  /\ prod.at = "publish"
  /\ prod' = [prod EXCEPT !.at = "idle"]
  /\ writePos' = Succ(writePos)
  /\ refused' = FALSE
  /\ sent' = Append(sent, prod.item)
  /\ UNCHANGED <<buffer, readPos, cons, got>>

-----------------------------------------------------------------------------
(* pop(): an empty queue returns false and leaves everything alone, so that *)
(* outcome is a stuttering step.                                            *)

PopBegin ==
  /\ cons.at = "idle"
  /\ readPos # writePos
  /\ cons' = [cons EXCEPT !.at = "copy"]
  /\ UNCHANGED <<buffer, readPos, writePos, prod, refused, sent, got>>

PopCopied ==
  /\ cons.at = "copy"
  /\ cons' = [at |-> "publish", item |-> buffer[readPos]]
  /\ UNCHANGED <<buffer, readPos, writePos, prod, refused, sent, got>>

\* Variant with a bug: the cursor stays.
PopForgotten ==
  /\ cons.at = "publish"
  /\ cons' = [cons EXCEPT !.at = "idle"]
  /\ got' = Append(got, cons.item)
  /\ UNCHANGED <<buffer, readPos, writePos, prod, refused, sent>>

PopPublish ==
  /\ cons.at = "publish"
  /\ cons' = [cons EXCEPT !.at = "idle"]
  /\ readPos' = Succ(readPos)
  /\ got' = Append(got, cons.item)
  /\ UNCHANGED <<buffer, writePos, prod, refused, sent>>

Producer == PushFull \/ PushCopied \/ PushPublish \/ \E x \in Items : PushBegin(x)

Consumer == PopBegin \/ PopCopied \/ PopPublish

Next == Producer \/ Consumer

Spec == Init /\ [][Next]_vars

-----------------------------------------------------------------------------
(* Properties *)

TypeOK ==
  /\ buffer \in [Slots -> Items \cup {NoItem}]
  /\ readPos \in Slots
  /\ writePos \in Slots
  /\ prod \in [at : {"idle", "copy", "publish"}, item : Items \cup {NoItem}]
  /\ cons \in [at : {"idle", "copy", "publish"}, item : Items \cup {NoItem}]
  /\ refused \in BOOLEAN
  /\ sent \in Seq(Items \cup {NoItem})
  /\ got \in Seq(Items \cup {NoItem})

\* What pop() handed out is, item by item, what push() accepted: no loss, no
\* duplicate, no reordering, no half-copied item (SpscQueue.h 26, 38).
Fifo ==
  /\ Len(got) <= Len(sent)
  /\ \A i \in 1 .. Len(got) : got[i] = sent[i]

\* The producer never copies into the slot the consumer is copying from: the
\* two cursor checks (lines 23 and 35) are what keeps the plain accesses of
\* lines 26 and 38 free of a data race.
NoSlotRace ==
  ~ (prod.at = "copy" /\ cons.at \in {"copy", "publish"} /\ readPos = writePos)

\* size() tells the producer exactly how many items wait, whatever the wrap of
\* the cursors (lines 45-47): DbWriter::push compares it with kBatchSize.
SizeExact == Size = Len(sent) - Len(got)

\* push() returns false only while Capacity - 1 items wait: one slot is given
\* up to tell full from empty, and no more than one (line 23).
RefusedOnlyWhenFull ==
  [][refused' /\ ~refused => Len(sent) - Len(got) = Capacity - 1]_vars

\* The ring implements the bounded FIFO.
Abstract == INSTANCE BoundedFifo WITH Bound <- Capacity - 1

ImplementsFifo == Abstract!FifoSpec
=============================================================================
