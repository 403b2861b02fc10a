-------------------------- MODULE SpscQueueProofs --------------------------
(***************************************************************************)
(* What the ring of common/SpscQueue.h guarantees for every capacity and   *)
(* every set of items: its types, that it is a FIFO, that the two threads  *)
(* never touch one slot at the same time, and that it implements the       *)
(* bounded FIFO its users reason with.                                     *)
(*                                                                         *)
(* The inductive invariant ties the cursors to the histories: the distance *)
(* from readPos to writePos is the number of items that wait, and the k-th *)
(* slot after readPos holds the k-th of them.  The distance is stated by   *)
(* cases, so that no step of the proof needs the remainder operator beyond *)
(* the lemma SuccByCases.                                                  *)
(*                                                                         *)
(* gateway_access has a queue with a lock in the place of this ring.  What *)
(* its drivers put into it is proved at the end, about AccessBridge.       *)
(***************************************************************************)
EXTENDS SpscQueue, AccessBridge, SequenceTheorems, TLAPS

Dist(from, to) == IF to >= from THEN to - from ELSE to - from + Capacity

Slot(pos, k) == IF pos + k < Capacity THEN pos + k ELSE pos + k - Capacity

Waiting == Len(sent) - Len(got)

\* The cursors are as far apart as there are items waiting.
CursorsAgree == Dist(readPos, writePos) = Waiting

\* The slots after readPos hold the items that wait, in order.
SlotsAgree ==
  \A k \in 0 .. Capacity - 1 :
    k < Waiting => buffer[Slot(readPos, k)] = sent[Len(got) + 1 + k]

\* What each thread holds between two of its steps.
ThreadsAgree ==
  /\ prod.at # "idle" => prod.item \in Items /\ Succ(writePos) # readPos
  /\ prod.at = "publish" => buffer[writePos] = prod.item
  /\ cons.at # "idle" => readPos # writePos
  /\ cons.at = "publish" => cons.item = sent[Len(got) + 1]

\* Only whole items were accepted and handed out.
HistoryOK == sent \in Seq(Items) /\ got \in Seq(Items)

IInv == TypeOK /\ HistoryOK /\ Fifo /\ CursorsAgree /\ SlotsAgree /\ ThreadsAgree

-----------------------------------------------------------------------------
(* The successor of a cursor, without the remainder. *)
LEMMA SuccByCases ==
  ASSUME NEW pos \in Slots
  PROVE  /\ Succ(pos) = IF pos + 1 = Capacity THEN 0 ELSE pos + 1
         /\ Succ(pos) \in Slots
PROOF
<1> USE CapacityAssumption
<1>1. CASE pos + 1 = Capacity
  <2>1. Capacity % Capacity = 0
    BY Z3
  <2> QED BY <1>1, <2>1 DEF Succ, Slots
<1>2. CASE pos + 1 # Capacity
  <2>1. pos + 1 \in 0 .. Capacity - 1
    BY <1>2 DEF Slots
  <2>2. (pos + 1) % Capacity = pos + 1
    BY <2>1, Z3
  <2> QED BY <1>2, <2>1, <2>2 DEF Succ, Slots
<1> QED BY <1>1, <1>2

(* The arithmetic of the ring: where the k-th slot is, and how the distance *)
(* changes as either cursor moves.                                          *)
LEMMA SlotArithmetic ==
  ASSUME NEW from \in Slots, NEW to \in Slots
  PROVE  /\ Dist(from, to) \in 0 .. Capacity - 1
         /\ Dist(from, to) = 0 <=> from = to
         /\ Slot(from, Dist(from, to)) = to
         /\ Dist(from, to) = Capacity - 1 <=> Succ(to) = from
         /\ Succ(to) # from => Dist(from, Succ(to)) = Dist(from, to) + 1
         /\ from # to => Dist(Succ(from), to) = Dist(from, to) - 1
         /\ \A k \in 0 .. Capacity - 1 :
              /\ Slot(from, k) \in Slots
              /\ k < Dist(from, to) => Slot(from, k) # to
              /\ k + 1 < Capacity => Slot(Succ(from), k) = Slot(from, k + 1)
PROOF
<1> USE CapacityAssumption
<1>1. /\ Succ(to) = IF to + 1 = Capacity THEN 0 ELSE to + 1
      /\ Succ(from) = IF from + 1 = Capacity THEN 0 ELSE from + 1
  BY SuccByCases
<1>2. from \in Int /\ to \in Int /\ from >= 0 /\ to >= 0 /\ from < Capacity /\ to < Capacity
  BY DEF Slots
<1> QED BY <1>1, <1>2 DEF Dist, Slot, Slots

-----------------------------------------------------------------------------
(* The invariant holds initially and is kept by every step. *)

LEMMA InitIInv == Init => IInv
PROOF
<1> SUFFICES ASSUME Init PROVE IInv
  OBVIOUS
<1> USE CapacityAssumption DEF Init
<1>1. TypeOK /\ HistoryOK
  <2>1. sent \in Seq(Items) /\ got \in Seq(Items)
    OBVIOUS
  <2>2. sent \in Seq(Items \cup {NoItem}) /\ got \in Seq(Items \cup {NoItem})
    OBVIOUS
  <2>3. buffer \in [Slots -> Items \cup {NoItem}] /\ 0 \in Slots
    BY DEF Slots
  <2> QED BY <2>1, <2>2, <2>3 DEF TypeOK, HistoryOK
<1>2. Fifo /\ ThreadsAgree
  BY DEF Fifo, ThreadsAgree
<1>3. CursorsAgree /\ SlotsAgree
  BY DEF CursorsAgree, SlotsAgree, Dist, Waiting
<1> QED BY <1>1, <1>2, <1>3 DEF IInv

(* What the invariant says of the cursors, in the form the steps use. *)
LEMMA Facts ==
  ASSUME IInv
  PROVE  /\ readPos \in Slots /\ writePos \in Slots
         /\ Len(sent) \in Nat /\ Len(got) \in Nat
         /\ Waiting \in 0 .. Capacity - 1
         /\ Waiting = 0 <=> readPos = writePos
         /\ Waiting = Capacity - 1 <=> Succ(writePos) = readPos
         /\ Slot(readPos, Waiting) = writePos
         /\ \A k \in 0 .. Capacity - 1 : k < Waiting => Slot(readPos, k) # writePos
         /\ readPos # writePos => buffer[readPos] = sent[Len(got) + 1]
PROOF
<1> USE CapacityAssumption DEF IInv
<1>1. readPos \in Slots /\ writePos \in Slots /\ Len(sent) \in Nat /\ Len(got) \in Nat
  BY DEF TypeOK
<1>2. /\ Waiting \in 0 .. Capacity - 1
      /\ Waiting = 0 <=> readPos = writePos
      /\ Waiting = Capacity - 1 <=> Succ(writePos) = readPos
      /\ Slot(readPos, Waiting) = writePos
      /\ \A k \in 0 .. Capacity - 1 : k < Waiting => Slot(readPos, k) # writePos
  <2>1. Dist(readPos, writePos) = Waiting
    BY DEF CursorsAgree
  <2>2. /\ Dist(readPos, writePos) \in 0 .. Capacity - 1
        /\ Dist(readPos, writePos) = 0 <=> readPos = writePos
        /\ Slot(readPos, Dist(readPos, writePos)) = writePos
        /\ Dist(readPos, writePos) = Capacity - 1 <=> Succ(writePos) = readPos
        /\ \A k \in 0 .. Capacity - 1 :
             k < Dist(readPos, writePos) => Slot(readPos, k) # writePos
    BY <1>1, SlotArithmetic
  <2> QED BY <2>1, <2>2
<1>3. readPos # writePos => buffer[readPos] = sent[Len(got) + 1]
  <2>1. Slot(readPos, 0) = readPos
    BY <1>1 DEF Slot, Slots
  <2>2. Waiting > 0 => buffer[Slot(readPos, 0)] = sent[Len(got) + 1 + 0]
    BY <1>2 DEF SlotsAgree
  <2> QED BY <1>1, <1>2, <2>1, <2>2
<1> QED BY <1>1, <1>2, <1>3

LEMMA NextIInv == IInv /\ [Next]_vars => IInv'
PROOF
<1> SUFFICES ASSUME IInv, [Next]_vars PROVE IInv'
  OBVIOUS
<1> USE CapacityAssumption, NoItemAssumption
<1>0. /\ readPos \in Slots /\ writePos \in Slots
      /\ Len(sent) \in Nat /\ Len(got) \in Nat
      /\ Waiting \in 0 .. Capacity - 1
      /\ Waiting = 0 <=> readPos = writePos
      /\ Slot(readPos, Waiting) = writePos
      /\ \A k \in 0 .. Capacity - 1 : k < Waiting => Slot(readPos, k) # writePos
      /\ readPos # writePos => buffer[readPos] = sent[Len(got) + 1]
  BY Facts
<1>1. CASE PushFull
  <2>1. TypeOK'
    BY <1>1 DEF PushFull, IInv, TypeOK
  <2>2. HistoryOK' /\ Fifo' /\ CursorsAgree' /\ SlotsAgree' /\ ThreadsAgree'
    BY <1>1 DEF PushFull, IInv, HistoryOK, Fifo, CursorsAgree, SlotsAgree, ThreadsAgree, Waiting
  <2> QED BY <2>1, <2>2 DEF IInv
<1>2. ASSUME NEW x \in Items, PushBegin(x) PROVE IInv'
  <2>1. TypeOK'
    BY <1>0, <1>2 DEF PushBegin, IInv, TypeOK
  <2>2. HistoryOK' /\ Fifo' /\ CursorsAgree'
    BY <1>2 DEF PushBegin, IInv, HistoryOK, Fifo, CursorsAgree, Waiting
  <2>3. SlotsAgree'
    BY <1>0, <1>2 DEF PushBegin, IInv, TypeOK, SlotsAgree, Waiting
  <2>4. ThreadsAgree'
    BY <1>0, <1>2 DEF PushBegin, IInv, ThreadsAgree
  <2> QED BY <2>1, <2>2, <2>3, <2>4 DEF IInv
<1>3. CASE PushCopied
  <2>1. prod.item \in Items
    BY <1>3 DEF PushCopied, IInv, ThreadsAgree
  <2>2. TypeOK'
    BY <1>0, <1>3, <2>1 DEF PushCopied, IInv, TypeOK
  <2>3. HistoryOK' /\ Fifo' /\ CursorsAgree'
    BY <1>3 DEF PushCopied, IInv, HistoryOK, Fifo, CursorsAgree, Waiting
  <2>4. SlotsAgree'
    BY <1>0, <1>3 DEF PushCopied, IInv, TypeOK, SlotsAgree, Waiting
  <2>5. ThreadsAgree'
    BY <1>0, <1>3, <2>1 DEF PushCopied, IInv, TypeOK, ThreadsAgree
  <2> QED BY <2>2, <2>3, <2>4, <2>5 DEF IInv
<1>4. CASE PushPublish
  <2>1. prod.item \in Items /\ Succ(writePos) # readPos /\ buffer[writePos] = prod.item
    BY <1>4 DEF PushPublish, IInv, ThreadsAgree
  <2>2. /\ Len(sent') = Len(sent) + 1
        /\ sent' \in Seq(Items)
        /\ \A i \in 1 .. Len(sent) : sent'[i] = sent[i]
        /\ sent'[Len(sent) + 1] = prod.item
    BY <1>4, <2>1 DEF PushPublish, IInv, HistoryOK
  <2>3. Waiting' = Waiting + 1 /\ Waiting + 1 < Capacity
    BY <1>0, <1>4, <2>1, <2>2, Facts DEF PushPublish, Waiting
  <2>4. TypeOK'
    <3>1. Succ(writePos) \in Slots
      BY <1>0, SuccByCases
    <3>2. sent' \in Seq(Items \cup {NoItem})
      BY <1>4, <2>1 DEF PushPublish, IInv, TypeOK
    <3> QED BY <1>4, <3>1, <3>2 DEF PushPublish, IInv, TypeOK
  <2>5. HistoryOK' /\ Fifo'
    BY <1>0, <1>4, <2>2 DEF PushPublish, IInv, HistoryOK, Fifo
  <2>6. CursorsAgree'
    BY <1>0, <1>4, <2>1, <2>3, SlotArithmetic DEF PushPublish, IInv, CursorsAgree
  <2>7. SlotsAgree'
    <3> SUFFICES ASSUME NEW k \in 0 .. Capacity - 1, k < Waiting'
                 PROVE  (buffer[Slot(readPos, k)])' = (sent[Len(got) + 1 + k])'
      BY DEF SlotsAgree
    <3>1. CASE k < Waiting
      <4>1. Len(got) + 1 + k \in 1 .. Len(sent)
        BY <1>0, <3>1 DEF Waiting
      <4>2. buffer[Slot(readPos, k)] = sent[Len(got) + 1 + k]
        BY <3>1 DEF IInv, SlotsAgree
      <4> QED BY <1>4, <2>2, <4>1, <4>2 DEF PushPublish, Slot
    <3>2. CASE k = Waiting
      <4>1. Len(got) + 1 + k = Len(sent) + 1
        BY <1>0, <3>2 DEF Waiting
      <4>2. Slot(readPos, k) = writePos
        BY <1>0, <3>2
      <4> QED BY <1>4, <2>1, <2>2, <4>1, <4>2 DEF PushPublish, Slot
    <3> QED BY <1>0, <2>3, <3>1, <3>2
  <2>8. ThreadsAgree'
    <3>1. cons.at # "idle" => readPos # Succ(writePos)
      BY <2>1
    <3>2. cons.at = "publish" => Len(got) + 1 \in 1 .. Len(sent)
      BY <1>0 DEF IInv, ThreadsAgree, Waiting
    <3> QED BY <1>4, <2>2, <3>1, <3>2 DEF PushPublish, IInv, TypeOK, ThreadsAgree
  <2> QED BY <2>4, <2>5, <2>6, <2>7, <2>8 DEF IInv
<1>5. CASE PopBegin
  <2>1. TypeOK'
    BY <1>5 DEF PopBegin, IInv, TypeOK
  <2>2. HistoryOK' /\ Fifo' /\ CursorsAgree' /\ SlotsAgree'
    BY <1>5 DEF PopBegin, IInv, HistoryOK, Fifo, CursorsAgree, SlotsAgree, Waiting
  <2>3. ThreadsAgree'
    BY <1>5 DEF PopBegin, IInv, TypeOK, ThreadsAgree
  <2> QED BY <2>1, <2>2, <2>3 DEF IInv
<1>6. CASE PopCopied
  <2>1. TypeOK'
    BY <1>0, <1>6 DEF PopCopied, IInv, TypeOK
  <2>2. HistoryOK' /\ Fifo' /\ CursorsAgree' /\ SlotsAgree'
    BY <1>6 DEF PopCopied, IInv, HistoryOK, Fifo, CursorsAgree, SlotsAgree, Waiting
  <2>3. ThreadsAgree'
    BY <1>0, <1>6 DEF PopCopied, IInv, TypeOK, ThreadsAgree
  <2> QED BY <2>1, <2>2, <2>3 DEF IInv
<1>7. CASE PopPublish
  <2>1. readPos # writePos /\ cons.item = sent[Len(got) + 1]
    BY <1>7 DEF PopPublish, IInv, ThreadsAgree
  <2>2. Waiting > 0 /\ Len(got) + 1 \in 1 .. Len(sent)
    BY <1>0, <2>1 DEF Waiting
  <2>3. cons.item \in Items
    BY <2>1, <2>2 DEF IInv, HistoryOK
  <2>4. /\ Len(got') = Len(got) + 1
        /\ got' \in Seq(Items)
        /\ \A i \in 1 .. Len(got) : got'[i] = got[i]
        /\ got'[Len(got) + 1] = cons.item
    BY <1>7, <2>3 DEF PopPublish, IInv, HistoryOK
  <2>5. Waiting' = Waiting - 1
    BY <1>0, <1>7, <2>4 DEF PopPublish, Waiting
  <2>6. TypeOK'
    <3>1. Succ(readPos) \in Slots
      BY <1>0, SuccByCases
    <3>2. got' \in Seq(Items \cup {NoItem})
      BY <1>7, <2>3 DEF PopPublish, IInv, TypeOK
    <3> QED BY <1>7, <3>1, <3>2 DEF PopPublish, IInv, TypeOK
  <2>7. HistoryOK' /\ Fifo'
    <3>1. HistoryOK'
      BY <1>7, <2>4 DEF PopPublish, IInv, HistoryOK
    <3>2. Fifo'
      BY <1>0, <1>7, <2>1, <2>2, <2>4 DEF PopPublish, IInv, Fifo
    <3> QED BY <3>1, <3>2
  <2>8. CursorsAgree'
    BY <1>0, <1>7, <2>1, <2>5, SlotArithmetic DEF PopPublish, IInv, CursorsAgree
  <2>9. SlotsAgree'
    <3> SUFFICES ASSUME NEW k \in 0 .. Capacity - 1, k < Waiting'
                 PROVE  (buffer[Slot(readPos, k)])' = (sent[Len(got) + 1 + k])'
      BY DEF SlotsAgree
    <3>1. k + 1 \in 0 .. Capacity - 1 /\ k + 1 < Waiting /\ k + 1 < Capacity
      BY <1>0, <2>5
    <3>2. Slot(Succ(readPos), k) = Slot(readPos, k + 1)
      BY <1>0, <3>1, SlotArithmetic
    <3>3. buffer[Slot(readPos, k + 1)] = sent[Len(got) + 1 + (k + 1)]
      BY <3>1 DEF IInv, SlotsAgree
    <3>4. (Slot(readPos, k))' = Slot(Succ(readPos), k)
      BY <1>7 DEF PopPublish, Slot
    <3>5. Len(got') + 1 + k = Len(got) + 1 + (k + 1)
      BY <1>0, <2>4
    <3> QED BY <1>7, <3>2, <3>3, <3>4, <3>5 DEF PopPublish
  <2>10. ThreadsAgree'
    <3>1. /\ Succ(readPos) = IF readPos + 1 = Capacity THEN 0 ELSE readPos + 1
          /\ Succ(writePos) = IF writePos + 1 = Capacity THEN 0 ELSE writePos + 1
      BY <1>0, SuccByCases
    <3>2. Succ(writePos) # Succ(readPos)
      BY <1>0, <2>1, <3>1 DEF Slots
    <3> QED BY <1>7, <3>2 DEF PopPublish, IInv, TypeOK, ThreadsAgree
  <2> QED BY <2>6, <2>7, <2>8, <2>9, <2>10 DEF IInv
<1>8. CASE UNCHANGED vars
  <2>1. TypeOK'
    BY <1>8 DEF vars, IInv, TypeOK
  <2>2. HistoryOK' /\ Fifo' /\ CursorsAgree' /\ SlotsAgree' /\ ThreadsAgree'
    BY <1>8 DEF vars, IInv, HistoryOK, Fifo, CursorsAgree, SlotsAgree, ThreadsAgree, Waiting
  <2> QED BY <2>1, <2>2 DEF IInv
<1> QED
  BY <1>1, <1>2, <1>3, <1>4, <1>5, <1>6, <1>7, <1>8 DEF Next, Producer, Consumer

(* The inductive invariant holds in every reachable state. *)
LEMMA Inductive == Spec => []IInv
PROOF BY InitIInv, NextIInv, PTL DEF Spec

-----------------------------------------------------------------------------
(* The theorems *)

(* Every cursor stays a slot, and whatever a thread holds or a history records *)
(* is an item or no item, in every state of push() and pop().                  *)
THEOREM TypeCorrect == Spec => []TypeOK
PROOF
<1>1. IInv => TypeOK
  BY DEF IInv
<1> QED BY <1>1, Inductive, PTL

(* pop() hands out what push() accepted, in that order, each item once and     *)
(* whole (SpscQueue.h 18-41).                                                  *)
THEOREM FifoCorrect == Spec => []Fifo
PROOF
<1>1. IInv => Fifo
  BY DEF IInv
<1> QED BY <1>1, Inductive, PTL

(* The plain copies of lines 26 and 38 never meet in one slot: the two cursor  *)
(* checks alone exclude the data race.                                         *)
THEOREM SlotsAreExclusive == Spec => []NoSlotRace
PROOF
<1>1. IInv => NoSlotRace
  BY DEF IInv, ThreadsAgree, NoSlotRace
<1> QED BY <1>1, Inductive, PTL

(* size() is the number of items that wait, however the cursors have wrapped   *)
(* (lines 45-47).                                                              *)
THEOREM SizeCorrect == Spec => []SizeExact
PROOF
<1>1. ASSUME IInv PROVE SizeExact
  <2> USE CapacityAssumption
  <2>1. /\ readPos \in Int /\ writePos \in Int
        /\ readPos >= 0 /\ readPos < Capacity
        /\ writePos >= 0 /\ writePos < Capacity
    BY <1>1, Facts DEF Slots
  <2>2. CASE writePos >= readPos
    <3> DEFINE d == writePos - readPos
    <3>1. d \in 0 .. Capacity - 1
      BY <2>1, <2>2
    <3>2. \A n \in 0 .. Capacity - 1 : (n + Capacity) % Capacity = n
      BY Z3
    <3>3. (d + Capacity) % Capacity = d
      BY <3>1, <3>2
    <3> QED BY <1>1, <2>1, <2>2, <3>3 DEF SizeExact, Size, IInv, CursorsAgree, Dist, Waiting
  <2>3. CASE ~(writePos >= readPos)
    <3> DEFINE d == writePos - readPos + Capacity
    <3>1. d \in 0 .. Capacity - 1
      BY <2>1, <2>3
    <3>2. \A n \in 0 .. Capacity - 1 : n % Capacity = n
      BY Z3
    <3>3. d % Capacity = d
      BY <3>1, <3>2
    <3> QED BY <1>1, <2>1, <2>3, <3>3 DEF SizeExact, Size, IInv, CursorsAgree, Dist, Waiting
  <2> QED BY <2>2, <2>3
<1> QED BY <1>1, Inductive, PTL

(* push() refuses an item only while Capacity - 1 items wait (line 23).        *)
THEOREM RefusalCorrect == Spec => RefusedOnlyWhenFull
PROOF
<1>1. ASSUME IInv, [Next]_vars
      PROVE  [refused' /\ ~refused => Len(sent) - Len(got) = Capacity - 1]_vars
  <2>1. CASE PushFull
    BY <1>1, <2>1, Facts DEF PushFull, Waiting
  <2>2. CASE \E x \in Items : PushBegin(x)
    BY <2>2 DEF PushBegin
  <2>3. CASE PushCopied \/ PushPublish \/ Consumer
    BY <2>3 DEF PushCopied, PushPublish, Consumer, PopBegin, PopCopied, PopPublish
  <2>4. CASE UNCHANGED vars
    BY <2>4
  <2> QED BY <1>1, <2>1, <2>2, <2>3, <2>4 DEF Next, Producer
<1> QED BY <1>1, Inductive, PTL DEF Spec, RefusedOnlyWhenFull

(* The ring implements the bounded FIFO: publishing a cursor is the step at    *)
(* which an item is queued or taken, every other step is invisible.            *)
THEOREM Refinement == Spec => ImplementsFifo
PROOF
<1>1. Init => Abstract!FifoInit
  BY DEF Init, Abstract!FifoInit
<1>2. ASSUME IInv, [Next]_vars
      PROVE  [Abstract!FifoNext]_Abstract!fifoVars
  <2> USE DEF Abstract!fifoVars, Abstract!FifoNext
  <2>1. CASE PushPublish
    <3>1. prod.item \in Items /\ Succ(writePos) # readPos
      BY <1>2, <2>1 DEF PushPublish, IInv, ThreadsAgree
    <3>2. Len(sent) - Len(got) < Capacity - 1
      BY <1>2, <3>1, Facts, CapacityAssumption DEF Waiting
    <3>3. Abstract!Enqueue(prod.item)
      BY <2>1, <3>2 DEF PushPublish, Abstract!Enqueue, Abstract!Waiting
    <3> QED BY <3>1, <3>3
  <2>2. CASE PopPublish
    <3>1. cons.item = sent[Len(got) + 1] /\ readPos # writePos
      BY <1>2, <2>2 DEF PopPublish, IInv, ThreadsAgree
    <3>2. Len(got) < Len(sent)
      BY <1>2, <3>1, Facts, CapacityAssumption DEF Waiting
    <3>3. Abstract!Dequeue
      BY <2>2, <3>1, <3>2 DEF PopPublish, Abstract!Dequeue
    <3> QED BY <3>3
  <2>3. CASE PushFull \/ PushCopied \/ PopBegin \/ PopCopied
    BY <2>3 DEF PushFull, PushCopied, PopBegin, PopCopied
  <2>4. CASE \E x \in Items : PushBegin(x)
    BY <2>4 DEF PushBegin
  <2>5. CASE UNCHANGED vars
    BY <2>5 DEF vars
  <2> QED BY <1>2, <2>1, <2>2, <2>3, <2>4, <2>5 DEF Next, Producer, Consumer
<1> QED BY <1>1, <1>2, Inductive, PTL DEF Spec, ImplementsFifo, Abstract!FifoSpec

-----------------------------------------------------------------------------
(* The other queue between threads: that of gateway_access, for any drivers  *)
(* and any number of answers.                                                *)

\* What the proofs need of the assumptions of AccessBridge.
BridgeAssumption ==
  /\ Rtu \cap Tcp = {} /\ Added \subseteq Rtu \cup Tcp
  /\ MaxTimeouts \in Nat \ {0} /\ MaxReadings \in Nat

\* A stream of whole responses.
Aligned(c) ==
  \E n \in Nat : Len(c) = 2 * n /\ \A k \in 1 .. n : Whole(c[2 * k - 1], c[2 * k])

\* A driver that is not suspended has timeouts left, has its port open while it
\* runs, and is the only one to poll.
SerialHolds ==
  \A d \in Rtu :
    /\ suspended[d] => d \notin port
    /\ ~suspended[d] => timeouts[d] < MaxTimeouts
    /\ running[d] /\ ~suspended[d] => d \in port
    /\ at[d] \in {"off", "poll"} => ~suspended[d]

\* What a driver has of its stream and what is still to come are whole responses
\* together, and before a new connection it has nothing: unless it kept
\* part of a frame.
StreamHolds ==
  \A d \in Tcp : d \notin kept =>
    IF at[d] = "reconnect" THEN recvBuf[d] = <<>> ELSE Aligned(recvBuf[d] \o wire[d])

HandHolds == \A d \in Drivers : at[d] = "push" => message[d] \in Message

\* A message of two responses has its reason.
Sound(m) == m.mixed => m.from \in kept

MessagesHold ==
  /\ \A i \in 1 .. Len(queue) : Sound(queue[i])
  /\ \A i \in 1 .. Len(batch) : Sound(batch[i])
  /\ \A d \in Drivers : Sound(message[d])

BridgeInv ==
  BridgeTypeOK /\ SerialHolds /\ StreamHolds /\ HandHolds /\ MessagesHold

(* What is left of a sequence without its first n elements. *)
LEMMA RestIs ==
  ASSUME NEW S, NEW s \in Seq(S), NEW n \in 0 .. Len(s)
  PROVE  /\ SubSeq(s, n + 1, Len(s)) \in Seq(S)
         /\ Len(SubSeq(s, n + 1, Len(s))) = Len(s) - n
         /\ \A i \in 1 .. Len(s) - n : SubSeq(s, n + 1, Len(s))[i] = s[n + i]
PROOF
<1>1. /\ n + 1 \in Int /\ Len(s) \in Int
      /\ \A i \in n + 1 .. Len(s) : s[i] \in S
  OBVIOUS
<1>2. /\ SubSeq(s, n + 1, Len(s)) \in Seq(S)
      /\ Len(SubSeq(s, n + 1, Len(s))) = IF n + 1 <= Len(s) THEN Len(s) - (n + 1) + 1 ELSE 0
      /\ \A i \in 1 .. Len(s) - (n + 1) + 1 : SubSeq(s, n + 1, Len(s))[i] = s[(n + 1) + i - 1]
  BY <1>1, SubSeqProperties
<1> QED BY <1>2

(* Streams of whole responses. *)
LEMMA AlignedEmpty == Aligned(<<>>)
PROOF
<1>1. Len(<<>>) = 2 * 0 /\ 0 \in Nat /\ 1 .. 0 = {}
  OBVIOUS
<1> QED BY <1>1 DEF Aligned

LEMMA AlignedMore ==
  ASSUME NEW S, NEW c \in Seq(S), NEW x \in S, NEW y \in S, Aligned(c), Whole(x, y)
  PROVE  Aligned(c \o <<x, y>>)
PROOF
<1> DEFINE e == c \o <<x, y>>
<1>1. PICK n \in Nat :
        Len(c) = 2 * n /\ \A k \in 1 .. n : Whole(c[2 * k - 1], c[2 * k])
  BY DEF Aligned
<1>2. /\ Len(e) = Len(c) + 2 /\ e[Len(c) + 1] = x /\ e[Len(c) + 2] = y
      /\ \A i \in 1 .. Len(c) : e[i] = c[i]
  OBVIOUS
<1> HIDE DEF e
<1>3. n + 1 \in Nat /\ Len(e) = 2 * (n + 1)
  BY <1>1, <1>2
<1>4. ASSUME NEW k \in 1 .. n + 1 PROVE Whole(e[2 * k - 1], e[2 * k])
  <2>1. CASE k = n + 1
    <3>1. 2 * k - 1 = Len(c) + 1 /\ 2 * k = Len(c) + 2
      BY <1>1, <2>1
    <3> QED BY <1>2, <3>1
  <2>2. CASE k \in 1 .. n
    <3>1. 2 * k - 1 \in 1 .. Len(c) /\ 2 * k \in 1 .. Len(c)
      BY <1>1, <2>2
    <3> QED BY <1>1, <1>2, <2>2, <3>1
  <2> QED BY <2>1, <2>2
<1>5. Aligned(e)
  BY <1>3, <1>4 DEF Aligned
<1> QED BY <1>5 DEF e

LEMMA AlignedLess ==
  ASSUME NEW S, NEW c \in Seq(S), Len(c) >= 2, Aligned(c)
  PROVE  Whole(c[1], c[2]) /\ Aligned(SubSeq(c, 3, Len(c)))
PROOF
<1> DEFINE e == SubSeq(c, 3, Len(c))
<1>1. PICK n \in Nat :
        Len(c) = 2 * n /\ \A k \in 1 .. n : Whole(c[2 * k - 1], c[2 * k])
  BY DEF Aligned
<1>2. Len(e) = Len(c) - 2 /\ \A i \in 1 .. Len(c) - 2 : e[i] = c[2 + i]
  <2>1. 2 \in 0 .. Len(c) /\ 2 + 1 = 3
    OBVIOUS
  <2> QED BY <2>1, RestIs
<1> HIDE DEF e
<1>3. 1 \in 1 .. n /\ 2 * 1 - 1 = 1 /\ 2 * 1 = 2 /\ n - 1 \in Nat /\ Len(e) = 2 * (n - 1)
  BY <1>1, <1>2
<1>4. Whole(c[1], c[2])
  BY <1>1, <1>3
<1>5. ASSUME NEW k \in 1 .. n - 1 PROVE Whole(e[2 * k - 1], e[2 * k])
  <2>1. /\ k + 1 \in 1 .. n /\ 2 * k - 1 \in 1 .. Len(c) - 2 /\ 2 * k \in 1 .. Len(c) - 2
        /\ 2 + (2 * k - 1) = 2 * (k + 1) - 1 /\ 2 + 2 * k = 2 * (k + 1)
    BY <1>1
  <2>2. e[2 * k - 1] = c[2 * (k + 1) - 1] /\ e[2 * k] = c[2 * (k + 1)]
    BY <1>2, <2>1
  <2> QED BY <1>1, <2>1, <2>2
<1>6. Aligned(e)
  BY <1>3, <1>5 DEF Aligned
<1> QED BY <1>4, <1>6 DEF e

LEMMA ThreeParts ==
  ASSUME NEW T
  PROVE  \A x, y, z \in Seq(T) : (x \o y) \o z = x \o (y \o z)
BY ConcatAssociative

LEMMA ReadKeepsStream ==
  ASSUME NEW S, NEW s \in Seq(S), NEW w \in Seq(S)
  PROVE  \A n \in 1 .. Len(w) :
           /\ s \o SubSeq(w, 1, n) \in Seq(S) /\ SubSeq(w, n + 1, Len(w)) \in Seq(S)
           /\ (s \o SubSeq(w, 1, n)) \o SubSeq(w, n + 1, Len(w)) = s \o w
PROOF
<1>a. \A x, y, z \in Seq(S) : (x \o y) \o z = x \o (y \o z)
  BY ThreeParts, SMTT(20)
<1> TAKE n \in 1 .. Len(w)
<1> DEFINE a == SubSeq(w, 1, n)
           b == SubSeq(w, n + 1, Len(w))
<1>1. a \in Seq(S) /\ Len(a) = n /\ \A i \in 1 .. n : a[i] = w[i]
  OBVIOUS
<1>2. b \in Seq(S) /\ Len(b) = Len(w) - n /\ \A i \in 1 .. Len(w) - n : b[i] = w[n + i]
  BY RestIs
<1> HIDE DEF a, b
<1>3. a \o b = w
  <2>1. /\ a \o b \in Seq(S) /\ Len(a \o b) = Len(w)
        /\ \A i \in 1 .. Len(w) : (a \o b)[i] = IF i <= n THEN a[i] ELSE b[i - n]
    <3>1. /\ a \o b \in Seq(S) /\ Len(a \o b) = Len(a) + Len(b)
          /\ \A i \in 1 .. Len(a) + Len(b) :
               (a \o b)[i] = IF i <= Len(a) THEN a[i] ELSE b[i - Len(a)]
      BY <1>1, <1>2, ConcatProperties
    <3>2. Len(a) + Len(b) = Len(w)
      BY <1>1, <1>2
    <3> QED BY <1>1, <3>1, <3>2
  <2>2. ASSUME NEW i \in 1 .. Len(w) PROVE (a \o b)[i] = w[i]
    <3>1. CASE i <= n
      BY <1>1, <2>1, <3>1
    <3>2. CASE i > n
      <4>1. i - n \in 1 .. Len(w) - n /\ n + (i - n) = i
        BY <3>2
      <4>2. b[i - n] = w[i]
        BY <1>2, <4>1
      <4> QED BY <2>1, <3>2, <4>2
    <3>3. i <= n \/ i > n
      OBVIOUS
    <3> QED BY <3>1, <3>2, <3>3
  <2> QED BY <2>1, <2>2, SeqEqual
<1>4. (s \o a) \o b = s \o (a \o b)
  <2>1. a \in Seq(S) /\ b \in Seq(S)
    BY <1>1, <1>2
  <2> QED BY <1>a, <2>1
<1>5. s \o a \in Seq(S)
  BY <1>1, ConcatProperties
<1> QED BY <1>5, <1>1, <1>2, <1>3, <1>4 DEF a, b

LEMMA FrameKeepsStream ==
  ASSUME NEW S, NEW s \in Seq(S), NEW w \in Seq(S), Len(s) >= 2
  PROVE  /\ SubSeq(s, 3, Len(s)) \in Seq(S)
         /\ s \o w \in Seq(S) /\ Len(s \o w) >= 2
         /\ (s \o w)[1] = s[1] /\ (s \o w)[2] = s[2]
         /\ SubSeq(s, 3, Len(s)) \o w = SubSeq(s \o w, 3, Len(s \o w))
PROOF
<1> DEFINE a == SubSeq(s, 3, Len(s))
           c == s \o w
           b == SubSeq(c, 3, Len(c))
<1>1. a \in Seq(S) /\ Len(a) = Len(s) - 2 /\ \A i \in 1 .. Len(s) - 2 : a[i] = s[2 + i]
  <2>1. 2 \in 0 .. Len(s) /\ 2 + 1 = 3
    OBVIOUS
  <2> QED BY <2>1, RestIs
<1>2. /\ c \in Seq(S) /\ Len(c) = Len(s) + Len(w)
      /\ \A i \in 1 .. Len(s) : c[i] = s[i]
      /\ \A i \in 1 .. Len(w) : c[Len(s) + i] = w[i]
  OBVIOUS
<1> HIDE DEF a, c
<1>3. b \in Seq(S) /\ Len(b) = Len(c) - 2 /\ \A i \in 1 .. Len(c) - 2 : b[i] = c[2 + i]
  <2>1. 2 \in 0 .. Len(c) /\ 2 + 1 = 3
    BY <1>2
  <2> QED BY <1>2, <2>1, RestIs
<1> HIDE DEF b
<1>4. ASSUME NEW i \in 1 .. Len(b) PROVE (a \o w)[i] = b[i]
  <2>1. CASE i <= Len(s) - 2
    <3>1. i \in 1 .. Len(s) - 2 /\ 2 + i \in 1 .. Len(s) /\ i \in 1 .. Len(c) - 2
      BY <1>2, <2>1, <1>3
    <3>2. (a \o w)[i] = a[i]
      BY <1>1, <3>1
    <3> QED BY <1>1, <1>2, <1>3, <3>1, <3>2
  <2>2. CASE i > Len(s) - 2
    <3>1. i - (Len(s) - 2) \in 1 .. Len(w) /\ 2 + i = Len(s) + (i - (Len(s) - 2))
      BY <1>2, <1>3, <2>2
    <3>2. c[2 + i] = w[i - (Len(s) - 2)]
      BY <1>2, <3>1
    <3>3. (a \o w)[i] = w[i - (Len(s) - 2)]
      BY <1>1, <1>2, <1>3, <2>2, SMTT(20)
    <3> QED BY <1>2, <1>3, <3>2, <3>3
  <2> QED BY <1>1, <1>2, <1>3, <2>1, <2>2, SMTT(20)
<1>5. a \o w \in Seq(S) /\ Len(a \o w) = Len(b)
  BY <1>1, <1>2, <1>3
<1>6. a \o w = b
  BY <1>3, <1>4, <1>5, SeqEqual
<1>7. Len(c) >= 2 /\ c[1] = s[1] /\ c[2] = s[2]
  BY <1>2
<1> QED BY <1>1, <1>2, <1>6, <1>7 DEF a, b, c

LEMMA BridgeStarts == ASSUME BridgeAssumption PROVE BridgeInit => BridgeInv
PROOF
<1> SUFFICES ASSUME BridgeInit PROVE BridgeInv
  OBVIOUS
<1>1. 0 \in 0 .. MaxTimeouts /\ 0 \in 0 .. MaxReadings /\ 0 < MaxTimeouts
  BY DEF BridgeAssumption
<1>2. BridgeTypeOK
  <2>1. /\ wire \in [Tcp -> Seq(Part)] /\ recvBuf \in [Tcp -> Seq(Part)]
        /\ queue \in Seq(Message) /\ batch \in Seq(Message)
    BY DEF BridgeInit
  <2>2. message \in [Drivers -> Message \cup {NoMessage}]
    BY DEF BridgeInit
  <2> QED BY <1>1, <2>1, <2>2 DEF BridgeInit, BridgeTypeOK
<1>3. SerialHolds
  BY <1>1 DEF BridgeInit, SerialHolds, Drivers
<1>4. StreamHolds
  <2>1. <<>> \o <<>> = <<>>
    OBVIOUS
  <2>2. ASSUME NEW d \in Tcp PROVE at[d] # "reconnect" /\ recvBuf[d] \o wire[d] = <<>>
    BY <2>1 DEF BridgeInit, Drivers
  <2> QED BY <2>2, AlignedEmpty DEF StreamHolds
<1>5. HandHolds
  BY DEF BridgeInit, HandHolds
<1>6. MessagesHold
  BY DEF BridgeInit, MessagesHold, Sound, NoMessage
<1> QED BY <1>2, <1>3, <1>4, <1>5, <1>6 DEF BridgeInv

(* What the two kinds of driver and the main thread leave alone. *)
LEMMA DriverKinds ==
  ASSUME BridgeAssumption
  PROVE  /\ Drivers = Rtu \cup Tcp
         /\ \A d \in Rtu : d \in Drivers /\ d \notin Tcp
         /\ \A d \in Tcp : d \in Drivers /\ d \notin Rtu
BY DEF BridgeAssumption, Drivers

-----------------------------------------------------------------------------
(* A serial driver *)

LEMMA RtuKeeps ==
  ASSUME BridgeAssumption, BridgeInv, NEW d \in Rtu,
         RtuPoll(d) \/ RtuAnswer(d) \/ RtuTimeout(d) \/ RtuRevives(d)
  PROVE  BridgeInv'
PROOF
<1> USE DEF RtuStep, stream, bridge, mainVars, serial, Goto
<1>1. /\ BridgeTypeOK /\ SerialHolds /\ StreamHolds /\ HandHolds /\ MessagesHold
      /\ d \in Drivers /\ d \notin Tcp /\ Rtu \subseteq Drivers
      /\ Tcp \subseteq Drivers
  BY DriverKinds DEF BridgeInv
<1>2. /\ UNCHANGED <<raw, running, wire, recvBuf, kept, queue, wakeup, main, batch, core>>
      /\ \A e \in Drivers : e # d => at'[e] = at[e] /\ message'[e] = message[e]
      /\ \A e \in Rtu : e # d => /\ timeouts'[e] = timeouts[e] /\ suspended'[e] = suspended[e]
                                 /\ (e \in port' <=> e \in port)
  BY <1>1 DEF RtuPoll, RtuAnswer, RtuTimeout, RtuRevives, BridgeTypeOK
<1>3. /\ at' \in [Drivers -> {"off", "failed", "top", "poll", "push", "notify", "read",
                                     "frames", "reconnect", "done"}]
      /\ suspended' \in [Rtu -> BOOLEAN] /\ port' \subseteq Rtu
  BY <1>1 DEF RtuPoll, RtuAnswer, RtuTimeout, RtuRevives, BridgeTypeOK
<1>4. /\ message' \in [Drivers -> Message \cup {NoMessage}]
      /\ Sound(message'[d])
      /\ at'[d] = "push" => message'[d] \in Message
  <2>1. CASE RtuAnswer(d)
    <3>1. [from |-> d, mixed |-> FALSE] \in Message
      BY <1>1 DEF Message
    <3>2. /\ message' = [message EXCEPT ![d] = [from |-> d, mixed |-> FALSE]]
          /\ at' = [at EXCEPT ![d] = "push"]
      BY <2>1 DEF RtuAnswer
    <3>3. message'[d] = [from |-> d, mixed |-> FALSE]
      BY <1>1, <3>2 DEF BridgeTypeOK
    <3> QED BY <1>1, <3>1, <3>2, <3>3 DEF BridgeTypeOK, Sound
  <2>2. CASE RtuPoll(d) \/ RtuTimeout(d) \/ RtuRevives(d)
    <3>1. message' = message /\ at'[d] # "push"
      BY <1>1, <2>2 DEF RtuPoll, RtuTimeout, RtuRevives, BridgeTypeOK
    <3>2. Sound(message'[d])
      BY <1>1, <1>2, <3>1 DEF MessagesHold, Sound
    <3> QED BY <1>1, <3>1, <3>2 DEF BridgeTypeOK
  <2> QED BY <2>1, <2>2
<1>5. /\ timeouts' \in [Rtu -> 0 .. MaxTimeouts] /\ readings' \in [Drivers -> 0 .. MaxReadings]
      /\ suspended'[d] => d \notin port'
      /\ ~suspended'[d] => timeouts'[d] < MaxTimeouts
      /\ running'[d] /\ ~suspended'[d] => d \in port'
      /\ at'[d] \in {"off", "poll"} => ~suspended'[d]
  <2>1. CASE RtuPoll(d)
    BY <1>1, <2>1 DEF RtuPoll, BridgeTypeOK, SerialHolds
  <2>2. CASE RtuAnswer(d)
    <3>1. readings[d] + 1 \in 0 .. MaxReadings /\ 0 \in 0 .. MaxTimeouts /\ 0 < MaxTimeouts
      BY <1>1, <2>2 DEF RtuAnswer, BridgeTypeOK, BridgeAssumption
    <3> QED BY <1>1, <2>2, <3>1 DEF RtuAnswer, BridgeTypeOK, SerialHolds
  <2>3. CASE RtuTimeout(d)
    <3>1. /\ timeouts' = [timeouts EXCEPT ![d] = @ + 1] /\ readings' = readings
          /\ at' = [at EXCEPT ![d] = "top"] /\ at[d] = "poll" /\ ~suspended[d]
      BY <1>1, <2>3 DEF RtuTimeout, SerialHolds
    <3>2. timeouts[d] < MaxTimeouts /\ timeouts[d] \in Nat /\ MaxTimeouts \in Nat
      BY <1>1, <3>1 DEF SerialHolds, BridgeTypeOK, BridgeAssumption
    <3>3. timeouts[d] + 1 \in 0 .. MaxTimeouts /\ timeouts'[d] = timeouts[d] + 1
      BY <1>1, <3>1, <3>2 DEF BridgeTypeOK
    <3>4. timeouts' \in [Rtu -> 0 .. MaxTimeouts]
      BY <1>1, <3>1, <3>3 DEF BridgeTypeOK
    <3>5. CASE timeouts[d] + 1 >= MaxTimeouts
      <4>1. suspended'[d] /\ d \notin port'
        BY <1>1, <2>3, <3>5 DEF RtuTimeout, BridgeTypeOK
      <4> QED BY <1>1, <3>1, <3>4, <4>1 DEF BridgeTypeOK
    <3>6. CASE ~(timeouts[d] + 1 >= MaxTimeouts)
      <4>1. suspended' = suspended /\ port' = port /\ timeouts'[d] < MaxTimeouts
        BY <2>3, <3>2, <3>3, <3>6 DEF RtuTimeout
      <4> QED BY <1>1, <1>2, <3>1, <3>4, <4>1 DEF BridgeTypeOK, SerialHolds
    <3> QED BY <3>5, <3>6
  <2>4. CASE RtuRevives(d)
    <3>1. 0 \in 0 .. MaxTimeouts /\ 0 < MaxTimeouts
      BY DEF BridgeAssumption
    <3> QED BY <1>1, <2>4, <3>1 DEF RtuRevives, BridgeTypeOK, SerialHolds
  <2> QED BY <2>1, <2>2, <2>3, <2>4
<1>6. BridgeTypeOK'
  BY <1>1, <1>2, <1>3, <1>4, <1>5 DEF BridgeTypeOK
<1>7. SerialHolds'
  <2> SUFFICES ASSUME NEW e \in Rtu
               PROVE  /\ suspended'[e] => e \notin port'
                      /\ ~suspended'[e] => timeouts'[e] < MaxTimeouts
                      /\ running'[e] /\ ~suspended'[e] => e \in port'
                      /\ at'[e] \in {"off", "poll"} => ~suspended'[e]
    BY DEF SerialHolds
  <2>1. CASE e = d
    BY <1>5, <2>1
  <2>2. CASE e # d
    BY <1>1, <1>2, <2>2 DEF SerialHolds
  <2> QED BY <2>1, <2>2
<1>8. StreamHolds'
  BY <1>1, <1>2 DEF StreamHolds
<1>9. HandHolds' /\ MessagesHold'
  <2>1. \A e \in Drivers : Sound(message[e])' /\ (at'[e] = "push" => message'[e] \in Message)
    BY <1>1, <1>2, <1>4 DEF HandHolds, MessagesHold, Sound
  <2> QED BY <1>1, <1>2, <2>1 DEF HandHolds, MessagesHold, Sound
<1> QED BY <1>6, <1>7, <1>8, <1>9 DEF BridgeInv

-----------------------------------------------------------------------------
(* A TCP driver *)

StreamOf(buf, rest, place) ==
  IF place = "reconnect" THEN buf = <<>> ELSE Aligned(buf \o rest)

(* What a step of one TCP driver may do: it moves itself, and what it has of    *)
(* its stream stays whole unless it is marked.                                  *)
LEMMA TcpRest ==
  ASSUME BridgeAssumption, BridgeInv, NEW d \in Tcp,
         UNCHANGED <<raw, running, timeouts, suspended, port, queue, wakeup, main, batch, core>>,
         \A e \in Drivers : e # d => at'[e] = at[e] /\ message'[e] = message[e],
         \A e \in Tcp : e # d => wire'[e] = wire[e] /\ recvBuf'[e] = recvBuf[e],
         at' \in [Drivers -> {"off", "failed", "top", "poll", "push", "notify", "read",
                                     "frames", "reconnect", "done"}],
         wire' \in [Tcp -> Seq(Part)], recvBuf' \in [Tcp -> Seq(Part)],
         kept \subseteq kept', kept' \subseteq Tcp,
         readings' \in [Drivers -> 0 .. MaxReadings],
         message' \in [Drivers -> Message \cup {NoMessage}],
         d \notin kept' => StreamOf(recvBuf'[d], wire'[d], at'[d]),
         Sound(message[d])',
         at'[d] = "push" => message'[d] \in Message
  PROVE  BridgeInv'
PROOF
<1>1. /\ BridgeTypeOK /\ SerialHolds /\ StreamHolds /\ HandHolds /\ MessagesHold
      /\ d \in Drivers /\ d \notin Rtu /\ Rtu \subseteq Drivers
      /\ Tcp \subseteq Drivers
  BY DriverKinds DEF BridgeInv
<1>2. BridgeTypeOK'
  BY <1>1 DEF BridgeTypeOK
<1>3. SerialHolds'
  BY <1>1 DEF SerialHolds
<1>4. StreamHolds'
  <2> SUFFICES ASSUME NEW e \in Tcp, e \notin kept' PROVE StreamOf(recvBuf'[e], wire'[e], at'[e])
    BY DEF StreamHolds, StreamOf
  <2>1. CASE e = d
    BY <2>1
  <2>2. CASE e # d
    BY <1>1, <2>2 DEF StreamHolds, StreamOf
  <2> QED BY <2>1, <2>2
<1>5. HandHolds' /\ MessagesHold'
  <2>1. \A e \in Drivers : Sound(message[e])' /\ (at'[e] = "push" => message'[e] \in Message)
    BY <1>1 DEF HandHolds, MessagesHold, Sound
  <2>2. \A i \in 1 .. Len(queue) : Sound(queue[i])'
    BY <1>1 DEF MessagesHold, Sound
  <2>3. \A i \in 1 .. Len(batch) : Sound(batch[i])'
    BY <1>1 DEF MessagesHold, Sound
  <2> QED BY <2>1, <2>2, <2>3 DEF HandHolds, MessagesHold, Sound
<1> QED BY <1>2, <1>3, <1>4, <1>5 DEF BridgeInv

(* Steps that take no message out of the stream. *)
LEMMA TcpStreamKeeps ==
  ASSUME BridgeAssumption, BridgeInv, NEW d \in Tcp,
         TcpRequest(d) \/ TcpWriteFails(d) \/ TcpRead(d) \/ TcpReadFails(d)
           \/ TcpIncomplete(d) \/ TcpBadLength(d) \/ TcpReconnects(d)
  PROVE  BridgeInv'
PROOF
<1> USE DEF TcpStep, stream, bridge, mainVars, serial, Goto
<1>1. /\ BridgeTypeOK /\ StreamHolds /\ MessagesHold
      /\ d \in Drivers /\ Tcp \subseteq Drivers
      /\ recvBuf[d] \in Seq(Part) /\ wire[d] \in Seq(Part)
      /\ <<>> \in Seq(Part)
  BY DriverKinds DEF BridgeInv, BridgeTypeOK
<1>2. /\ UNCHANGED <<raw, running, timeouts, suspended, port, queue, wakeup, main, batch, core, message>>
      /\ \A e \in Drivers : e # d => at'[e] = at[e]
      /\ \A e \in Tcp : e # d => wire'[e] = wire[e] /\ recvBuf'[e] = recvBuf[e]
      /\ at' \in [Drivers -> {"off", "failed", "top", "poll", "push", "notify", "read",
                                     "frames", "reconnect", "done"}]
      /\ kept \subseteq kept' /\ kept' \subseteq Tcp
  BY <1>1 DEF TcpRequest, TcpWriteFails, TcpRead, TcpReadFails,
     TcpIncomplete, TcpBadLength, TcpReconnects, BridgeTypeOK
<1>3. /\ wire' \in [Tcp -> Seq(Part)] /\ recvBuf' \in [Tcp -> Seq(Part)]
      /\ readings' \in [Drivers -> 0 .. MaxReadings]
      /\ d \notin kept' => StreamOf(recvBuf'[d], wire'[d], at'[d])
      /\ at'[d] # "push"
  <2>1. CASE TcpRequest(d)
    <3>1. at[d] = "top" /\ at'[d] = "read" /\ recvBuf' = recvBuf /\ kept' = kept
      BY <1>1, <2>1 DEF TcpRequest, BridgeTypeOK
    <3>2. CASE UNCHANGED <<readings, wire>>
      BY <1>1, <3>1, <3>2 DEF BridgeTypeOK, StreamHolds, StreamOf
    <3>3. CASE /\ readings[d] < MaxReadings
               /\ readings' = [readings EXCEPT ![d] = @ + 1]
               /\ wire' = [wire EXCEPT ![d] = @ \o Answer(readings[d] + 1)]
      <4> DEFINE x == [part |-> "head", of |-> readings[d] + 1]
                 y == [part |-> "tail", of |-> readings[d] + 1]
      <4>1. readings[d] + 1 \in 0 .. MaxReadings /\ readings[d] + 1 \in 1 .. MaxReadings
        <5>1. readings[d] \in 0 .. MaxReadings /\ MaxReadings \in Nat
          BY <1>1 DEF BridgeTypeOK, BridgeAssumption
        <5> QED BY <3>3, <5>1
      <4>2. x \in Part /\ y \in Part /\ Whole(x, y)
        BY <4>1 DEF Part, Whole
      <4>3. Answer(readings[d] + 1) = <<x, y>>
        BY DEF Answer
      <4> HIDE DEF x, y
      <4>4. <<x, y>> \in Seq(Part)
        BY <4>2
      <4>5. /\ wire[d] \o <<x, y>> \in Seq(Part)
            /\ recvBuf[d] \o (wire[d] \o <<x, y>>) = (recvBuf[d] \o wire[d]) \o <<x, y>>
            /\ recvBuf[d] \o wire[d] \in Seq(Part)
        <5>1. \A s, t, u \in Seq(Part) : (s \o t) \o u = s \o (t \o u)
          BY ThreeParts
        <5> QED BY <1>1, <4>4, <5>1, ConcatProperties
      <4>6. /\ wire' = [wire EXCEPT ![d] = wire[d] \o <<x, y>>]
            /\ wire'[d] = wire[d] \o <<x, y>>
        BY <1>1, <3>3, <4>3 DEF BridgeTypeOK
      <4>7. wire' \in [Tcp -> Seq(Part)]
        BY <1>1, <4>5, <4>6 DEF BridgeTypeOK
      <4>8. readings' \in [Drivers -> 0 .. MaxReadings]
        BY <1>1, <3>3, <4>1 DEF BridgeTypeOK
      <4>9. d \notin kept' => Aligned(recvBuf'[d] \o wire'[d])
        BY <1>1, <3>1, <4>2, <4>5, <4>6, AlignedMore DEF StreamHolds
      <4> QED BY <1>1, <3>1, <4>7, <4>8, <4>9 DEF BridgeTypeOK, StreamOf
    <3> QED BY <2>1, <3>2, <3>3 DEF TcpRequest
  <2>2. CASE TcpWriteFails(d)
    <3>1. /\ at'[d] = "reconnect" /\ UNCHANGED <<wire, recvBuf, readings>>
          /\ recvBuf[d] # <<>> => d \in kept'
      BY <1>1, <2>2 DEF TcpWriteFails, BridgeTypeOK
    <3> QED BY <1>1, <3>1 DEF BridgeTypeOK, StreamOf
  <2>3. CASE TcpRead(d)
    <3>1. at[d] = "read" /\ at'[d] = "frames" /\ kept' = kept /\ readings' = readings
      BY <1>1, <2>3 DEF TcpRead, BridgeTypeOK
    <3>a. \A n \in 1 .. Len(wire[d]) :
            /\ recvBuf[d] \o SubSeq(wire[d], 1, n) \in Seq(Part)
            /\ SubSeq(wire[d], n + 1, Len(wire[d])) \in Seq(Part)
            /\ (recvBuf[d] \o SubSeq(wire[d], 1, n)) \o SubSeq(wire[d], n + 1, Len(wire[d]))
                 = recvBuf[d] \o wire[d]
      <4> DEFINE s == recvBuf[d]
                 w == wire[d]
      <4>1. s \in Seq(Part) /\ w \in Seq(Part)
        BY <1>1
      <4> HIDE DEF s, w
      <4>2. \A n \in 1 .. Len(w) :
              /\ s \o SubSeq(w, 1, n) \in Seq(Part)
              /\ SubSeq(w, n + 1, Len(w)) \in Seq(Part)
              /\ (s \o SubSeq(w, 1, n)) \o SubSeq(w, n + 1, Len(w)) = s \o w
        BY <4>1, ReadKeepsStream, ZenonT(30)
      <4> QED BY <4>2 DEF s, w
    <3>2. PICK n \in 1 .. Len(wire[d]) :
            /\ recvBuf' = [recvBuf EXCEPT ![d] = @ \o SubSeq(wire[d], 1, n)]
            /\ wire' = [wire EXCEPT ![d] = SubSeq(@, n + 1, Len(@))]
      BY <2>3 DEF TcpRead
    <3> DEFINE buf == recvBuf[d] \o SubSeq(wire[d], 1, n)
               rest == SubSeq(wire[d], n + 1, Len(wire[d]))
    <3>3. /\ buf \in Seq(Part) /\ rest \in Seq(Part)
          /\ buf \o rest = recvBuf[d] \o wire[d]
      BY <3>a
    <3>4. recvBuf' = [recvBuf EXCEPT ![d] = buf] /\ wire' = [wire EXCEPT ![d] = rest]
      BY <3>2
    <3> HIDE DEF buf, rest
    <3>5. /\ recvBuf'[d] = buf /\ wire'[d] = rest
          /\ wire' \in [Tcp -> Seq(Part)] /\ recvBuf' \in [Tcp -> Seq(Part)]
      BY <1>1, <3>3, <3>4 DEF BridgeTypeOK
    <3> QED BY <1>1, <3>1, <3>3, <3>5 DEF BridgeTypeOK, StreamHolds, StreamOf
  <2>4. CASE TcpReadFails(d) \/ TcpBadLength(d)
    <3>1. /\ at'[d] = "reconnect" /\ recvBuf'[d] = <<>> /\ wire' = wire /\ readings' = readings
          /\ recvBuf' \in [Tcp -> Seq(Part)]
      BY <1>1, <2>4, ZenonT(30) DEF TcpReadFails, TcpBadLength, BridgeTypeOK
    <3> QED BY <1>1, <3>1 DEF BridgeTypeOK, StreamOf
  <2>5. CASE TcpIncomplete(d)
    <3>1. at[d] = "frames" /\ at'[d] = "top" /\ UNCHANGED <<wire, recvBuf, kept, readings>>
      BY <1>1, <2>5 DEF TcpIncomplete, BridgeTypeOK
    <3> QED BY <1>1, <3>1 DEF BridgeTypeOK, StreamHolds, StreamOf
  <2>6. CASE TcpReconnects(d)
    <3>1. /\ at[d] = "reconnect" /\ at'[d] = "top" /\ UNCHANGED <<recvBuf, kept, readings>>
          /\ wire'[d] = <<>> /\ wire' \in [Tcp -> Seq(Part)]
      BY <1>1, <2>6 DEF TcpReconnects, BridgeTypeOK
    <3>2. <<>> \o <<>> = <<>>
      OBVIOUS
    <3> QED BY <1>1, <3>1, <3>2, AlignedEmpty DEF BridgeTypeOK, StreamHolds, StreamOf
  <2> QED BY <2>1, <2>2, <2>3, <2>4, <2>5, <2>6
<1>4. message' \in [Drivers -> Message \cup {NoMessage}]
  BY <1>1, <1>2 DEF BridgeTypeOK
<1>5. Sound(message[d])'
  BY <1>1, <1>2 DEF MessagesHold, Sound
<1> QED BY <1>1, <1>2, <1>3, <1>4, <1>5, TcpRest

(* A frame that is taken off is the next whole response. *)
LEMMA TcpFrameKeeps ==
  ASSUME BridgeAssumption, BridgeInv, NEW d \in Tcp, TcpFrame(d)
  PROVE  BridgeInv'
PROOF
<1> USE DEF TcpStep, stream, bridge, mainVars, serial, Goto
<1>1. /\ BridgeTypeOK /\ StreamHolds /\ MessagesHold
      /\ d \in Drivers /\ Tcp \subseteq Drivers
      /\ recvBuf[d] \in Seq(Part) /\ wire[d] \in Seq(Part)
      /\ Len(recvBuf[d]) >= 2 /\ at[d] = "frames"
  BY DriverKinds DEF BridgeInv, BridgeTypeOK, TcpFrame
<1>a. /\ SubSeq(recvBuf[d], 3, Len(recvBuf[d])) \in Seq(Part)
      /\ recvBuf[d] \o wire[d] \in Seq(Part) /\ Len(recvBuf[d] \o wire[d]) >= 2
      /\ (recvBuf[d] \o wire[d])[1] = recvBuf[d][1] /\ (recvBuf[d] \o wire[d])[2] = recvBuf[d][2]
      /\ SubSeq(recvBuf[d], 3, Len(recvBuf[d])) \o wire[d]
           = SubSeq(recvBuf[d] \o wire[d], 3, Len(recvBuf[d] \o wire[d]))
  <2> DEFINE s == recvBuf[d]
             w == wire[d]
  <2>1. s \in Seq(Part) /\ w \in Seq(Part) /\ Len(s) >= 2
    BY <1>1
  <2> HIDE DEF s, w
  <2>2. /\ SubSeq(s, 3, Len(s)) \in Seq(Part)
        /\ s \o w \in Seq(Part) /\ Len(s \o w) >= 2
        /\ (s \o w)[1] = s[1] /\ (s \o w)[2] = s[2]
        /\ SubSeq(s, 3, Len(s)) \o w = SubSeq(s \o w, 3, Len(s \o w))
    BY <2>1, FrameKeepsStream
  <2> QED BY <2>2 DEF s, w
<1> DEFINE x == recvBuf[d][1]
           y == recvBuf[d][2]
           rest == SubSeq(recvBuf[d], 3, Len(recvBuf[d]))
           m == [from |-> d, mixed |-> ~Whole(x, y)]
<1>2. /\ rest \in Seq(Part)
      /\ recvBuf[d] \o wire[d] \in Seq(Part) /\ Len(recvBuf[d] \o wire[d]) >= 2
      /\ (recvBuf[d] \o wire[d])[1] = x /\ (recvBuf[d] \o wire[d])[2] = y
      /\ rest \o wire[d] = SubSeq(recvBuf[d] \o wire[d], 3, Len(recvBuf[d] \o wire[d]))
  BY <1>a
<1>3. d \notin kept => Whole(x, y) /\ Aligned(rest \o wire[d])
  BY <1>1, <1>2, AlignedLess DEF StreamHolds
<1>4. m \in Message /\ m.from = d /\ m.mixed = ~Whole(x, y)
  BY <1>1 DEF Message, Whole
<1>5. /\ UNCHANGED <<raw, running, timeouts, suspended, port, queue, wakeup, main, batch, core, wire, kept,
                     readings>>
      /\ recvBuf' = [recvBuf EXCEPT ![d] = rest]
      /\ \/ message' = [message EXCEPT ![d] = m] /\ at' = [at EXCEPT ![d] = "push"]
         \/ message' = message /\ at' = at
  BY DEF TcpFrame
<1> HIDE DEF x, y, rest, m
<1>6. /\ recvBuf'[d] = rest /\ recvBuf' \in [Tcp -> Seq(Part)]
      /\ \A e \in Tcp : e # d => recvBuf'[e] = recvBuf[e]
      /\ at' \in [Drivers -> {"off", "failed", "top", "poll", "push", "notify", "read",
                                     "frames", "reconnect", "done"}]
      /\ at'[d] \in {"push", "frames"}
      /\ \A e \in Drivers : e # d => at'[e] = at[e] /\ message'[e] = message[e]
      /\ message' \in [Drivers -> Message \cup {NoMessage}]
      /\ message'[d] = m \/ (message' = message /\ at'[d] = "frames")
  <2>1. recvBuf'[d] = rest /\ recvBuf' \in [Tcp -> Seq(Part)]
    BY <1>1, <1>2, <1>5 DEF BridgeTypeOK
  <2>2. \A e \in Tcp : e # d => recvBuf'[e] = recvBuf[e]
    BY <1>1, <1>5 DEF BridgeTypeOK
  <2>3. CASE message' = message /\ at' = at
    BY <1>1, <2>1, <2>2, <2>3 DEF BridgeTypeOK
  <2>4. CASE message' = [message EXCEPT ![d] = m] /\ at' = [at EXCEPT ![d] = "push"]
    <3>1. /\ message' \in [Drivers -> Message \cup {NoMessage}]
          /\ message'[d] = m /\ at'[d] = "push"
          /\ \A e \in Drivers : e # d => at'[e] = at[e] /\ message'[e] = message[e]
      BY <1>1, <1>4, <2>4 DEF BridgeTypeOK
    <3> QED BY <1>1, <2>1, <2>2, <2>4, <3>1 DEF BridgeTypeOK
  <2> QED BY <1>5, <2>3, <2>4
<1>7. d \notin kept' => StreamOf(recvBuf'[d], wire'[d], at'[d])
  BY <1>3, <1>5, <1>6 DEF StreamOf
<1>8. Sound(message[d])'
  <2>1. CASE message'[d] = m
    BY <1>3, <1>4, <1>5, <2>1 DEF Sound
  <2>2. CASE message' = message
    BY <1>1, <1>5, <2>2 DEF Sound, MessagesHold
  <2> QED BY <1>6, <2>1, <2>2
<1>9. at'[d] = "push" => message'[d] \in Message
  BY <1>4, <1>6
<1>10. /\ wire' \in [Tcp -> Seq(Part)] /\ kept \subseteq kept' /\ kept' \subseteq Tcp
       /\ readings' \in [Drivers -> 0 .. MaxReadings]
  BY <1>1, <1>5 DEF BridgeTypeOK
<1> QED BY <1>1, <1>5, <1>6, <1>7, <1>8, <1>9, <1>10, TcpRest

-----------------------------------------------------------------------------
(* What both kinds of driver do, and the main thread *)

LEMMA HandOverKeeps ==
  ASSUME BridgeAssumption, BridgeInv, NEW d \in Drivers, PushMessage(d)
  PROVE  BridgeInv'
PROOF
<1> USE DEF stream, bridge, mainVars, serial, Goto
<1>1. /\ BridgeTypeOK /\ SerialHolds /\ StreamHolds /\ HandHolds /\ MessagesHold
      /\ Rtu \subseteq Drivers /\ Tcp \subseteq Drivers
  BY DriverKinds DEF BridgeInv
<1>2. /\ at[d] = "push" /\ queue' = Append(queue, message[d])
      /\ message' = [message EXCEPT ![d] = NoMessage]
      /\ at' = [at EXCEPT ![d] = "notify"]
      /\ UNCHANGED <<raw, running, timeouts, suspended, port, wire, recvBuf, kept, readings, wakeup, main,
                     batch, core>>
  BY DEF PushMessage
<1>3. message[d] \in Message /\ Sound(message[d])
  BY <1>1, <1>2 DEF HandHolds, MessagesHold
<1>4. /\ queue' \in Seq(Message) /\ Len(queue') = Len(queue) + 1
      /\ \A i \in 1 .. Len(queue) : queue'[i] = queue[i]
      /\ queue'[Len(queue) + 1] = message[d]
  BY <1>1, <1>2, <1>3 DEF BridgeTypeOK
<1>5. /\ message' \in [Drivers -> Message \cup {NoMessage}]
      /\ at' \in [Drivers -> {"off", "failed", "top", "poll", "push", "notify", "read",
                                     "frames", "reconnect", "done"}]
      /\ at'[d] = "notify" /\ message'[d] = NoMessage
      /\ \A e \in Drivers : e # d => at'[e] = at[e] /\ message'[e] = message[e]
  BY <1>1, <1>2 DEF BridgeTypeOK
<1>6. BridgeTypeOK'
  BY <1>1, <1>2, <1>4, <1>5 DEF BridgeTypeOK
<1>7. SerialHolds' /\ StreamHolds' /\ HandHolds'
  <2>1. SerialHolds'
    BY <1>1, <1>2, <1>5 DEF SerialHolds
  <2>2. StreamHolds'
    BY <1>1, <1>2, <1>5 DEF StreamHolds
  <2>3. HandHolds'
    BY <1>1, <1>2, <1>5 DEF HandHolds
  <2> QED BY <2>1, <2>2, <2>3
<1>8. MessagesHold'
  <2>1. \A i \in 1 .. Len(queue') : Sound(queue[i])'
    <3> SUFFICES ASSUME NEW i \in 1 .. Len(queue') PROVE Sound(queue[i])'
      BY DEF Sound
    <3>1. CASE i \in 1 .. Len(queue)
      BY <1>1, <1>2, <1>4, <3>1 DEF MessagesHold, Sound
    <3>2. CASE i = Len(queue) + 1
      BY <1>2, <1>3, <1>4, <3>2 DEF Sound
    <3>3. Len(queue) \in Nat
      BY <1>1 DEF BridgeTypeOK
    <3> QED BY <1>4, <3>1, <3>2, <3>3
  <2>2. \A e \in Drivers : Sound(message[e])'
    <3>1. NoMessage.mixed = FALSE
      BY DEF NoMessage
    <3> QED BY <1>1, <1>2, <1>5, <3>1 DEF MessagesHold, Sound
  <2>3. \A i \in 1 .. Len(batch) : Sound(batch[i])'
    BY <1>1, <1>2 DEF MessagesHold, Sound
  <2> QED BY <1>2, <2>1, <2>2, <2>3 DEF MessagesHold, Sound
<1> QED BY <1>6, <1>7, <1>8 DEF BridgeInv

(* Steps that touch no message, no stream and no serial driver. *)
LEMMA PlaceKeeps ==
  ASSUME BridgeAssumption, BridgeInv, NEW d \in Drivers,
         WriteWakeup(d) \/ LoopEnds(d) \/ StopDriver(d)
  PROVE  BridgeInv'
PROOF
<1> USE DEF stream, bridge, mainVars, serial, Goto, MainStep
<1>1. /\ BridgeTypeOK /\ SerialHolds /\ StreamHolds /\ HandHolds /\ MessagesHold
      /\ Rtu \subseteq Drivers /\ Tcp \subseteq Drivers
  BY DriverKinds DEF BridgeInv
<1>2. /\ UNCHANGED <<raw, timeouts, suspended, port, wire, recvBuf, kept, readings, message, queue, main,
                     batch, core>>
      /\ at' \in [Drivers -> {"off", "failed", "top", "poll", "push", "notify", "read",
                                     "frames", "reconnect", "done"}]
      /\ running' \in [Drivers -> BOOLEAN] /\ wakeup' \in BOOLEAN
      /\ at' = at \/ (at'[d] \in {"frames", "top", "done"} /\ at[d] \in {"notify", "top"})
      /\ \A e \in Drivers : e # d => at'[e] = at[e]
      /\ \A e \in Drivers : running'[e] => running[e]
  BY <1>1 DEF WriteWakeup, LoopEnds, StopDriver, BridgeTypeOK
<1>3. BridgeTypeOK'
  BY <1>1, <1>2 DEF BridgeTypeOK
<1>4. SerialHolds'
  BY <1>1, <1>2 DEF SerialHolds
<1>5. StreamHolds'
  BY <1>1, <1>2 DEF StreamHolds
<1>6. HandHolds'
  BY <1>1, <1>2 DEF HandHolds
<1>7. MessagesHold'
  BY <1>1, <1>2 DEF MessagesHold, Sound
<1> QED BY <1>3, <1>4, <1>5, <1>6, <1>7 DEF BridgeInv

LEMMA StartKeeps ==
  ASSUME BridgeAssumption, BridgeInv, NEW d \in Drivers,
         Boot(d) \/ AddDevice(d)
  PROVE  BridgeInv'
PROOF
<1> USE DEF stream, bridge, mainVars, serial, Goto, MainStep
<1>1. /\ BridgeTypeOK /\ SerialHolds /\ StreamHolds /\ HandHolds /\ MessagesHold
      /\ Rtu \subseteq Drivers /\ Tcp \subseteq Drivers
  BY DriverKinds DEF BridgeInv
<1>2. /\ UNCHANGED <<raw, timeouts, suspended, wire, recvBuf, kept, readings, message, queue, wakeup, main,
                     batch, core>>
      /\ at[d] = "off"
      /\ \/ /\ running' = [running EXCEPT ![d] = TRUE]
            /\ port' = IF d \in Rtu THEN port \cup {d} ELSE port
            /\ at' = [at EXCEPT ![d] = "top"]
         \/ at' = [at EXCEPT ![d] = "failed"] /\ UNCHANGED <<running, port>>
  BY DEF Boot, AddDevice, StartDriver
<1>3. /\ at' \in [Drivers -> {"off", "failed", "top", "poll", "push", "notify", "read",
                                     "frames", "reconnect", "done"}]
      /\ at'[d] \in {"top", "failed"}
      /\ \A e \in Drivers : e # d => at'[e] = at[e]
  BY <1>1, <1>2 DEF BridgeTypeOK
<1>4. /\ running' \in [Drivers -> BOOLEAN] /\ port' \subseteq Rtu
      /\ \A e \in Drivers : e # d => running'[e] = running[e]
      /\ \A e \in Rtu : e # d => (e \in port' <=> e \in port)
      /\ d \in Rtu => \/ d \in port'
                      \/ (d \in port' <=> d \in port) /\ running'[d] = running[d]
  BY <1>1, <1>2 DEF BridgeTypeOK
<1>5. BridgeTypeOK'
  BY <1>1, <1>2, <1>3, <1>4 DEF BridgeTypeOK
<1>6. SerialHolds'
  BY <1>1, <1>2, <1>3, <1>4 DEF SerialHolds
<1>7. StreamHolds'
  BY <1>1, <1>2, <1>3 DEF StreamHolds
<1>8. HandHolds'
  BY <1>1, <1>2, <1>3 DEF HandHolds
<1>9. MessagesHold'
  BY <1>1, <1>2 DEF MessagesHold, Sound
<1> QED BY <1>5, <1>6, <1>7, <1>8, <1>9 DEF BridgeInv

(* The messages move from the queue to the batch and off it. *)
LEMMA BatchKeeps ==
  ASSUME BridgeAssumption, BridgeInv, TakeQueue \/ Forward
  PROVE  BridgeInv'
PROOF
<1> USE DEF stream, bridge, mainVars, serial, MainStep
<1>1. BridgeTypeOK /\ SerialHolds /\ StreamHolds /\ HandHolds /\ MessagesHold
  BY DEF BridgeInv
<1>2. UNCHANGED <<raw, at, running, timeouts, suspended, port, wire, recvBuf, kept, readings, message,
                  wakeup, core>>
  BY DEF TakeQueue, Forward
<1>3. /\ queue' \in Seq(Message) /\ batch' \in Seq(Message)
      /\ main' \in {"boot", "wait", "take", "send", "stop", "exited"}
      /\ \A i \in 1 .. Len(queue') : Sound(queue'[i])
      /\ \A i \in 1 .. Len(batch') : Sound(batch'[i])
  <2>1. CASE TakeQueue
    BY <1>1, <2>1 DEF TakeQueue, BridgeTypeOK, MessagesHold
  <2>2. CASE Forward
    <3>1. batch # <<>> /\ batch' = Tail(batch) /\ UNCHANGED <<queue, main>>
      BY <2>2 DEF Forward
    <3>2. batch \in Seq(Message)
      BY <1>1 DEF BridgeTypeOK
    <3>3. /\ batch' \in Seq(Message) /\ Len(batch') = Len(batch) - 1
          /\ \A i \in 1 .. Len(batch') : i + 1 \in 1 .. Len(batch) /\ batch'[i] = batch[i + 1]
      BY <3>1, <3>2
    <3> QED BY <1>1, <3>1, <3>3 DEF BridgeTypeOK, MessagesHold
  <2> QED BY <2>1, <2>2
<1>4. BridgeTypeOK'
  BY <1>1, <1>2, <1>3 DEF BridgeTypeOK
<1>5. SerialHolds' /\ StreamHolds' /\ HandHolds'
  BY <1>1, <1>2 DEF SerialHolds, StreamHolds, HandHolds
<1>6. MessagesHold'
  BY <1>1, <1>2, <1>3 DEF MessagesHold, Sound
<1> QED BY <1>4, <1>5, <1>6 DEF BridgeInv

LEMMA MainKeeps ==
  ASSUME BridgeAssumption, BridgeInv,
         BootDone \/ ReadWakeup \/ Forwarded \/ Signal \/ CoreGone
           \/ CoreEnds \/ Exit
  PROVE  BridgeInv'
PROOF
<1> USE DEF stream, bridge, mainVars, serial, MainStep
<1>1. /\ BridgeTypeOK /\ SerialHolds /\ StreamHolds /\ HandHolds /\ MessagesHold
      /\ Rtu \subseteq Drivers
  BY DriverKinds DEF BridgeInv
<1>2. /\ UNCHANGED <<raw, at, running, timeouts, suspended, wire, recvBuf, kept, readings, message, queue,
                     batch>>
      /\ wakeup' \in BOOLEAN /\ core' \in BOOLEAN
      /\ main' \in {"boot", "wait", "take", "send", "stop", "exited"}
      /\ port' = port \/ (port' = {} /\ \A d \in Drivers : ~running[d])
  BY <1>1 DEF BootDone, ReadWakeup, Forwarded, Signal, CoreGone,
     CoreEnds, Exit, BridgeTypeOK
<1>3. BridgeTypeOK'
  BY <1>1, <1>2 DEF BridgeTypeOK
<1>4. SerialHolds'
  BY <1>1, <1>2 DEF SerialHolds
<1>5. StreamHolds' /\ HandHolds'
  BY <1>1, <1>2 DEF StreamHolds, HandHolds
<1>6. MessagesHold'
  BY <1>1, <1>2 DEF MessagesHold, Sound
<1> QED BY <1>3, <1>4, <1>5, <1>6 DEF BridgeInv

LEMMA BridgeInductive == BridgeSpec => []BridgeInv
PROOF
<1> BridgeAssumption
  BY DriversAssumption, BoundsAssumption DEF BridgeAssumption
<1>1. BridgeInit => BridgeInv
  BY BridgeStarts
<1>2. BridgeInv /\ [BridgeNext]_bridgeVars => BridgeInv'
  <2> SUFFICES ASSUME BridgeInv, [BridgeNext]_bridgeVars PROVE BridgeInv'
    OBVIOUS
  <2>1. ASSUME NEW d \in Drivers, Driver(d) PROVE BridgeInv'
    <3>1. CASE PushMessage(d)
      BY <3>1, HandOverKeeps
    <3>2. CASE WriteWakeup(d) \/ LoopEnds(d)
      BY <3>2, PlaceKeeps
    <3>3. CASE d \in Rtu /\ (RtuPoll(d) \/ RtuAnswer(d) \/ RtuTimeout(d)
                             \/ RtuRevives(d))
      BY <3>3, RtuKeeps
    <3>4. CASE d \in Tcp /\ (TcpRequest(d) \/ TcpWriteFails(d) \/ TcpRead(d)
                             \/ TcpReadFails(d) \/ TcpIncomplete(d)
                             \/ TcpBadLength(d) \/ TcpReconnects(d))
      BY <3>4, TcpStreamKeeps
    <3>5. CASE d \in Tcp /\ TcpFrame(d)
      BY <3>5, TcpFrameKeeps
    <3> QED BY <2>1, <3>1, <3>2, <3>3, <3>4, <3>5 DEF Driver, Poll, RtuRead
  <2>2. ASSUME NEW d \in Drivers, Boot(d) \/ AddDevice(d) PROVE BridgeInv'
    BY <2>2, StartKeeps
  <2>3. ASSUME NEW d \in Drivers, StopDriver(d) PROVE BridgeInv'
    BY <2>3, PlaceKeeps
  <2>4. CASE TakeQueue \/ Forward
    BY <2>4, BatchKeeps
  <2>5. CASE BootDone \/ ReadWakeup \/ Forwarded \/ Signal
               \/ CoreGone \/ CoreEnds \/ Exit
    BY <2>5, MainKeeps
  <2>6. CASE UNCHANGED bridgeVars
    <3> USE <2>6 DEF bridgeVars, stream, bridge, mainVars, serial
    <3>1. BridgeTypeOK'
      BY DEF BridgeInv, BridgeTypeOK
    <3>2. SerialHolds' /\ StreamHolds' /\ HandHolds'
      BY DEF BridgeInv, SerialHolds, StreamHolds, HandHolds
    <3>3. MessagesHold'
      BY DEF BridgeInv, MessagesHold, Sound
    <3> QED BY <3>1, <3>2, <3>3 DEF BridgeInv
  <2> QED BY <2>1, <2>2, <2>3, <2>4, <2>5, <2>6 DEF BridgeNext, Main
<1> QED BY <1>1, <1>2, PTL DEF BridgeSpec

(* Places, streams, messages and flags of gateway_access are of their kinds;    *)
(* no driver counts more timeouts than it tolerates.                            *)
THEOREM BridgeTypes == BridgeSpec => []BridgeTypeOK
PROOF
<1>1. BridgeInv => BridgeTypeOK
  BY DEF BridgeInv
<1> QED BY <1>1, BridgeInductive, PTL

(* A serial driver that runs has its port open and timeouts left, or is         *)
(* suspended with the port closed (ModbusRtuDriver.cpp).                        *)
THEOREM SerialPortsAgree == BridgeSpec => []SerialConsistent
PROOF
<1>1. BridgeInv => SerialConsistent
  BY DriverKinds DEF BridgeInv, SerialHolds, SerialConsistent, BridgeTypeOK
<1> QED BY <1>1, BridgeInductive, PTL

(* A message made of two responses comes only from a driver whose write()       *)
(* failed with part of a frame in recv_buf_ (ModbusTcpDriver.cpp).              *)
THEOREM OnlyLeftoversMix == BridgeSpec => []MixedNeedsLeftover
PROOF
<1>1. BridgeInv => MixedNeedsLeftover
  <2> SUFFICES ASSUME BridgeInv,
                      NEW m \in ToSet(queue) \cup ToSet(batch)
                                  \cup {message[d] : d \in Drivers}
               PROVE  Sound(m)
    BY DEF MixedNeedsLeftover, Sound
  <2>1. CASE m \in ToSet(queue)
    <3>1. DOMAIN queue = 1 .. Len(queue)
      BY DEF BridgeInv, BridgeTypeOK
    <3> QED BY <2>1, <3>1 DEF BridgeInv, MessagesHold, ToSet
  <2>2. CASE m \in ToSet(batch)
    <3>1. DOMAIN batch = 1 .. Len(batch)
      BY DEF BridgeInv, BridgeTypeOK
    <3> QED BY <2>2, <3>1 DEF BridgeInv, MessagesHold, ToSet
  <2>3. CASE m \in {message[d] : d \in Drivers}
    BY <2>3 DEF BridgeInv, MessagesHold
  <2> QED BY <2>1, <2>2, <2>3
<1> QED BY <1>1, BridgeInductive, PTL
=============================================================================
