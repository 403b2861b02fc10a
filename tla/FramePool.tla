----------------------------- MODULE FramePool -----------------------------
(***************************************************************************)
(* The pool of frame buffers of the video engine (pipeline/FramePool.cpp): *)
(* a lock-free stack of free slots, threaded through free_list_, with its  *)
(* top in free_head_.  get_frame() pops a slot; the last shared_ptr to the *)
(* frame pushes it back, from whatever thread drops it.                    *)
(*                                                                         *)
(* get_frame() reads free_list_[idx] after it loaded the head and before   *)
(* its compare-and-swap, so a slot that leaves the stack and comes back in *)
(* between goes unnoticed (ABA).  The pipeline has one thread that calls   *)
(* get_frame(), CaptureStage, and several that drop frames.                *)
(*                                                                         *)
(* `chain' is a history: the free slots, the top of the stack last.        *)
(***************************************************************************)
EXTENDS Integers, Sequences, FiniteSets

CONSTANTS PoolSize,     \* pool_size_
          Allocators,   \* threads that call get_frame()
          Releasers     \* threads that may drop a last reference

ASSUME PoolSizeAssumption == PoolSize \in Nat \ {0}

VARIABLES
  freeHead,   \* free_head_
  freeList,   \* free_list_
  alloc,      \* where each allocator is in get_frame(), its idx, free_list_[idx]
  rel,        \* where each releaser is in release(), its index and `old'
  frames,     \* references handed out and not dropped, per slot
  chain

poolVars == <<freeHead, freeList, alloc, rel, frames, chain>>

PoolSlots == 0 .. PoolSize - 1

Link == PoolSlots \cup {-1}

\* The constructor links slot i to slot i + 1.
PoolInit ==
  /\ freeHead = 0
  /\ freeList = [s \in PoolSlots |-> IF s = PoolSize - 1 THEN -1 ELSE s + 1]
  /\ alloc = [a \in Allocators |-> [at |-> "idle", idx |-> -1, next |-> -1]]
  /\ rel = [t \in Releasers |-> [at |-> "idle", idx |-> -1, old |-> -1]]
  /\ frames = [s \in PoolSlots |-> 0]
  /\ chain = [i \in 1 .. PoolSize |-> PoolSize - i]

-----------------------------------------------------------------------------
(* get_frame(): an empty stack returns nullptr and changes nothing. *)

AllocLoad(a) ==
  /\ alloc[a].at = "idle"
  /\ freeHead # -1
  /\ alloc' = [alloc EXCEPT ![a].at = "read", ![a].idx = freeHead]
  /\ UNCHANGED <<freeHead, freeList, rel, frames, chain>>

AllocRead(a) ==
  /\ alloc[a].at = "read"
  /\ alloc' = [alloc EXCEPT ![a].at = "cas", ![a].next = freeList[alloc[a].idx]]
  /\ UNCHANGED <<freeHead, freeList, rel, frames, chain>>

\* Variant with a bug: the head is stored, not compared and swapped.
AllocStore(a) ==
  /\ alloc[a].at = "cas"
  /\ freeHead' = alloc[a].next
  /\ frames' = [frames EXCEPT ![alloc[a].idx] = @ + 1]
  /\ alloc' = [alloc EXCEPT ![a].at = "idle"]
  /\ chain' = [i \in 1 .. Len(chain) - 1 |-> chain[i]]
  /\ UNCHANGED <<freeList, rel>>

AllocSwap(a) ==
  /\ alloc[a].at = "cas"
  /\ freeHead = alloc[a].idx
  /\ freeHead' = alloc[a].next
  /\ frames' = [frames EXCEPT ![alloc[a].idx] = @ + 1]
  /\ alloc' = [alloc EXCEPT ![a].at = "idle"]
  /\ chain' = [i \in 1 .. Len(chain) - 1 |-> chain[i]]
  /\ UNCHANGED <<freeList, rel>>

\* The head moved, or the weak compare-and-swap failed spuriously: start over.
AllocRetry(a) ==
  /\ alloc[a].at = "cas"
  /\ alloc' = [alloc EXCEPT ![a].at = "idle"]
  /\ UNCHANGED <<freeHead, freeList, rel, frames, chain>>

-----------------------------------------------------------------------------
(* release(), the deleter of the shared_ptr *)

Drop(t, s) ==
  /\ rel[t].at = "idle"
  /\ frames[s] > 0
  /\ frames' = [frames EXCEPT ![s] = @ - 1]
  /\ rel' = [rel EXCEPT ![t].at = "load", ![t].idx = s]
  /\ UNCHANGED <<freeHead, freeList, alloc, chain>>

ReleaseLoad(t) ==
  /\ rel[t].at = "load"
  /\ rel' = [rel EXCEPT ![t].at = "link", ![t].old = freeHead]
  /\ UNCHANGED <<freeHead, freeList, alloc, frames, chain>>

ReleaseLink(t) ==
  /\ rel[t].at = "link"
  /\ freeList' = [freeList EXCEPT ![rel[t].idx] = rel[t].old]
  /\ rel' = [rel EXCEPT ![t].at = "cas"]
  /\ UNCHANGED <<freeHead, alloc, frames, chain>>

\* Variant with a bug: the head is stored, not compared and swapped.
ReleaseStore(t) ==
  /\ rel[t].at = "cas"
  /\ freeHead' = rel[t].idx
  /\ rel' = [rel EXCEPT ![t].at = "idle"]
  /\ chain' = Append(chain, rel[t].idx)
  /\ UNCHANGED <<freeList, alloc, frames>>

ReleaseSwap(t) ==
  /\ rel[t].at = "cas"
  /\ freeHead = rel[t].old
  /\ freeHead' = rel[t].idx
  /\ rel' = [rel EXCEPT ![t].at = "idle"]
  /\ chain' = Append(chain, rel[t].idx)
  /\ UNCHANGED <<freeList, alloc, frames>>

\* Variant with a bug: the swap is tried once.
ReleaseGivesUp(t) ==
  /\ rel[t].at = "cas"
  /\ rel' = [rel EXCEPT ![t].at = "idle"]
  /\ UNCHANGED <<freeHead, freeList, alloc, frames, chain>>

ReleaseRetry(t) ==
  /\ rel[t].at = "cas"
  /\ rel' = [rel EXCEPT ![t].at = "load"]
  /\ UNCHANGED <<freeHead, freeList, alloc, frames, chain>>

GetFrame(a) == AllocLoad(a) \/ AllocRead(a) \/ AllocSwap(a) \/ AllocRetry(a)

Release(t) ==
  \/ \E s \in PoolSlots : Drop(t, s)
  \/ ReleaseLoad(t)
  \/ ReleaseLink(t)
  \/ ReleaseSwap(t)
  \/ ReleaseRetry(t)

PoolNext == (\E a \in Allocators : GetFrame(a)) \/ (\E t \in Releasers : Release(t))

PoolSpec == PoolInit /\ [][PoolNext]_poolVars

-----------------------------------------------------------------------------
(* Properties *)

PoolTypeOK ==
  /\ freeHead \in Link
  /\ freeList \in [PoolSlots -> Link]
  /\ alloc \in [Allocators -> [at : {"idle", "read", "cas"}, idx : Link, next : Link]]
  /\ rel \in [Releasers -> [at : {"idle", "load", "link", "cas"}, idx : Link, old : Link]]
  /\ frames \in [PoolSlots -> Nat]
  /\ chain \in Seq(PoolSlots)

\* A slot is on the stack, handed out once, or in the hands of a releaser, and
\* never in two of these places: two frames never share a buffer, and no buffer
\* is forgotten.
InChain(s) == \E i \in 1 .. Len(chain) : chain[i] = s

InRelease(s) == \E t \in Releasers : rel[t].at # "idle" /\ rel[t].idx = s

OnePlace ==
  \A s \in PoolSlots :
    /\ InChain(s) \/ InRelease(s) \/ frames[s] = 1
    /\ frames[s] <= 1
    /\ InChain(s) => frames[s] = 0 /\ ~InRelease(s)
    /\ InRelease(s) => frames[s] = 0

\* The list the code walks is the stack: head and links agree with the slots
\* that were pushed and not popped, whatever was interleaved with a swap.
ListIsChain ==
  /\ freeHead = (IF chain = <<>> THEN -1 ELSE chain[Len(chain)])
  /\ \A i \in 1 .. Len(chain) :
       freeList[chain[i]] = (IF i = 1 THEN -1 ELSE chain[i - 1])

\* free_list_ is a plain vector: no thread reads an entry (FramePool.cpp 41)
\* while another one writes it (line 53).
NoLinkRace ==
  \A a \in Allocators, t \in Releasers :
    ~ (alloc[a].at = "read" /\ rel[t].at = "link" /\ alloc[a].idx = rel[t].idx)

\* The n-th entry of the list, from the head.
Walk[n \in 0 .. PoolSize] ==
  IF n = 0 THEN freeHead
  ELSE IF Walk[n - 1] = -1 THEN -1 ELSE freeList[Walk[n - 1]]

\* When every frame has been dropped, every slot can be allocated again.
NothingLeaks ==
  (/\ \A a \in Allocators : alloc[a].at = "idle"
   /\ \A t \in Releasers : rel[t].at = "idle"
   /\ \A s \in PoolSlots : frames[s] = 0)
  => \A s \in PoolSlots : \E n \in 0 .. PoolSize : Walk[n] = s
=============================================================================
