-------------------------- MODULE FramePoolProofs --------------------------
(***************************************************************************)
(* The pool of pipeline/FramePool.cpp is correct for every size and every  *)
(* number of threads that drop frames, as long as one thread allocates:    *)
(* the assumption that the pipeline meets and the unit test does not.      *)
(*                                                                         *)
(* Why one allocator is enough: only get_frame() takes slots off the       *)
(* stack, so the slot it looks at stays on the stack until its own         *)
(* compare-and-swap, and a slot that is on the stack is in no releaser's   *)
(* hands, so its link does not change either.                              *)
(*                                                                         *)
(* The pool lives as long as the pipeline is not built again.  That no     *)
(* frame outlives it then is proved at the end, about Pipeline.             *)
(***************************************************************************)
EXTENDS FramePool, Pipeline, FiniteSetTheorems, TLAPS

OneAllocator == \A a, b \in Allocators : a = b

\* No slot is on the stack twice.
ChainDistinct ==
  \A i, j \in 1 .. Len(chain) : chain[i] = chain[j] => i = j

\* The slot an allocator looks at is still on the stack, and the link it read
\* is still the slot's link.
AllocHolds ==
  \A a \in Allocators :
    /\ alloc[a].at # "idle" => alloc[a].idx \in PoolSlots /\ InChain(alloc[a].idx)
    /\ alloc[a].at = "cas" => alloc[a].next = freeList[alloc[a].idx]

\* Two releasers hold two slots, and the link a releaser wrote stays.
RelHolds ==
  /\ \A t \in Releasers : rel[t].at # "idle" => rel[t].idx \in PoolSlots
  /\ \A t, u \in Releasers :
       rel[t].at # "idle" /\ rel[u].at # "idle" /\ rel[t].idx = rel[u].idx => t = u
  /\ \A t \in Releasers :
       rel[t].at = "cas" => freeList[rel[t].idx] = rel[t].old

IInv ==
  PoolTypeOK /\ ListIsChain /\ ChainDistinct /\ OnePlace /\ AllocHolds /\ RelHolds

-----------------------------------------------------------------------------
(* The constructor's list is the stack of all slots. *)
LEMMA InitIInv == PoolInit => IInv
PROOF
<1> SUFFICES ASSUME PoolInit PROVE IInv
  OBVIOUS
<1> USE PoolSizeAssumption DEF PoolInit
<1>1. chain \in Seq(PoolSlots) /\ Len(chain) = PoolSize
  BY DEF PoolSlots
<1>2. PoolTypeOK
  BY <1>1 DEF PoolTypeOK, PoolSlots, Link
<1>3. \A i \in 1 .. PoolSize : chain[i] = PoolSize - i /\ chain[i] \in PoolSlots
  BY DEF PoolSlots
<1>4. ListIsChain
  <2>1. chain # <<>>
    BY <1>1
  <2>2. freeHead = chain[Len(chain)]
    BY <1>1, <1>3
  <2>3. ASSUME NEW i \in 1 .. PoolSize
        PROVE  freeList[chain[i]] = (IF i = 1 THEN -1 ELSE chain[i - 1])
    BY <1>3, <2>3 DEF PoolSlots
  <2> QED BY <1>1, <2>1, <2>2, <2>3 DEF ListIsChain
<1>5. ChainDistinct
  BY <1>1, <1>3 DEF ChainDistinct
<1>6. OnePlace
  <2>1. ASSUME NEW s \in PoolSlots PROVE InChain(s)
    <3>1. PoolSize - s \in 1 .. PoolSize /\ chain[PoolSize - s] = s
      BY <1>3 DEF PoolSlots
    <3> QED BY <1>1, <3>1 DEF InChain
  <2> QED BY <2>1 DEF OnePlace, InRelease
<1>7. AllocHolds /\ RelHolds
  BY DEF AllocHolds, RelHolds
<1> QED BY <1>2, <1>4, <1>5, <1>6, <1>7 DEF IInv

-----------------------------------------------------------------------------
(* get_frame() *)

(* Loading the head, reading the link and giving up change nothing shared. *)
LEMMA AllocLookKeeps ==
  ASSUME IInv, NEW a \in Allocators, AllocLoad(a) \/ AllocRead(a) \/ AllocRetry(a)
  PROVE  IInv'
PROOF
<1> USE DEF IInv
<1>1. /\ freeHead' = freeHead /\ freeList' = freeList /\ rel' = rel
      /\ frames' = frames /\ chain' = chain
  BY DEF AllocLoad, AllocRead, AllocRetry
<1>2. ListIsChain' /\ ChainDistinct' /\ OnePlace' /\ RelHolds'
  BY <1>1 DEF ListIsChain, ChainDistinct, OnePlace, InChain, InRelease, RelHolds
<1>3. CASE AllocLoad(a)
  <2>1. freeHead \in PoolSlots /\ InChain(freeHead)
    <3>1. chain # <<>> /\ freeHead = chain[Len(chain)]
      BY <1>3 DEF AllocLoad, ListIsChain
    <3>2. Len(chain) \in 1 .. Len(chain) /\ chain[Len(chain)] \in PoolSlots
      BY <3>1 DEF PoolTypeOK
    <3> QED BY <3>1, <3>2 DEF InChain
  <2>2. PoolTypeOK'
    BY <1>1, <1>3, ZenonT(30) DEF AllocLoad, PoolTypeOK
  <2>3. AllocHolds'
    <3>1. /\ alloc' = [alloc EXCEPT ![a].at = "read", ![a].idx = freeHead]
          /\ alloc \in [Allocators -> [at : {"idle", "read", "cas"}, idx : Link, next : Link]]
      BY <1>3 DEF AllocLoad, PoolTypeOK
    <3>2. alloc'[a].at = "read" /\ alloc'[a].idx = freeHead
      BY <3>1
    <3>3. \A b \in Allocators : b # a => alloc'[b] = alloc[b]
      BY <3>1
    <3>4. ASSUME NEW b \in Allocators
          PROVE  /\ alloc'[b].at # "idle" => alloc'[b].idx \in PoolSlots /\ InChain(alloc'[b].idx)
                 /\ alloc'[b].at = "cas" => alloc'[b].next = freeList[alloc'[b].idx]
      <4>1. CASE b = a
        BY <2>1, <3>2, <4>1
      <4>2. CASE b # a
        BY <3>3, <4>2 DEF AllocHolds
      <4> QED BY <4>1, <4>2
    <3> QED BY <1>1, <3>4 DEF AllocHolds, InChain
  <2> QED BY <1>2, <2>2, <2>3
<1>4. CASE AllocRead(a)
  <2>1. alloc[a].idx \in PoolSlots
    BY <1>4 DEF AllocRead, AllocHolds
  <2>2. PoolTypeOK'
    BY <1>1, <1>4, <2>1, ZenonT(30) DEF AllocRead, PoolTypeOK
  <2>3. AllocHolds'
    <3>1. /\ alloc' = [alloc EXCEPT ![a].at = "cas", ![a].next = freeList[alloc[a].idx]]
          /\ alloc \in [Allocators -> [at : {"idle", "read", "cas"}, idx : Link, next : Link]]
      BY <1>4 DEF AllocRead, PoolTypeOK
    <3>2. alloc'[a] = [at |-> "cas", idx |-> alloc[a].idx, next |-> freeList[alloc[a].idx]]
      BY <3>1
    <3>3. \A b \in Allocators : b # a => alloc'[b] = alloc[b]
      BY <3>1
    <3>4. InChain(alloc[a].idx)
      BY <1>4 DEF AllocRead, AllocHolds
    <3>5. ASSUME NEW b \in Allocators
          PROVE  /\ alloc'[b].at # "idle" => alloc'[b].idx \in PoolSlots /\ InChain(alloc'[b].idx)
                 /\ alloc'[b].at = "cas" => alloc'[b].next = freeList[alloc'[b].idx]
      <4>1. CASE b = a
        BY <2>1, <3>2, <3>4, <4>1
      <4>2. CASE b # a
        BY <3>3, <4>2 DEF AllocHolds
      <4> QED BY <4>1, <4>2
    <3> QED BY <1>1, <3>5 DEF AllocHolds, InChain
  <2> QED BY <1>2, <2>2, <2>3
<1>5. CASE AllocRetry(a)
  <2>1. PoolTypeOK'
    BY <1>1, <1>5 DEF AllocRetry, PoolTypeOK
  <2>2. AllocHolds'
    BY <1>1, <1>5 DEF AllocRetry, AllocHolds, InChain, PoolTypeOK
  <2> QED BY <1>2, <2>1, <2>2
<1> QED BY <1>3, <1>4, <1>5

(* The swap takes exactly the top of the stack. *)
LEMMA AllocSwapKeeps ==
  ASSUME IInv, OneAllocator, NEW a \in Allocators, AllocSwap(a)
  PROVE  IInv'
PROOF
<1> USE DEF IInv
<1> DEFINE idx == alloc[a].idx
           n == Len(chain)
<1>1. idx \in PoolSlots /\ InChain(idx) /\ alloc[a].next = freeList[idx] /\ freeHead = idx
  BY DEF AllocSwap, AllocHolds
<1>2. n \in Nat /\ n >= 1 /\ chain[n] = idx /\ chain \in Seq(PoolSlots)
  <2>1. chain \in Seq(PoolSlots) /\ n \in Nat
    BY DEF PoolTypeOK
  <2>2. n >= 1
    BY <1>1, <2>1 DEF InChain
  <2> QED BY <1>1, <2>1, <2>2 DEF ListIsChain
<1>3. /\ chain' \in Seq(PoolSlots) /\ Len(chain') = n - 1
      /\ \A i \in 1 .. n - 1 : chain'[i] = chain[i]
  BY <1>2 DEF AllocSwap
<1>4. \A s \in PoolSlots : InChain(s)' <=> InChain(s) /\ s # idx
  BY <1>2, <1>3 DEF InChain, ChainDistinct
<1>5. PoolTypeOK'
  <2>1. alloc[a].next \in Link
    BY <1>1 DEF PoolTypeOK
  <2>2. frames' \in [PoolSlots -> Nat]
    BY <1>1 DEF AllocSwap, PoolTypeOK
  <2>3. alloc' \in [Allocators -> [at : {"idle", "read", "cas"}, idx : Link, next : Link]]
    BY ZenonT(30) DEF AllocSwap, PoolTypeOK
  <2> QED BY <1>3, <2>1, <2>2, <2>3 DEF AllocSwap, PoolTypeOK
<1>6. ListIsChain'
  <2>1. freeHead' = IF n = 1 THEN -1 ELSE chain[n - 1]
    <3>1. freeHead' = freeList[chain[n]]
      BY <1>1, <1>2 DEF AllocSwap
    <3>2. n \in 1 .. n
      BY <1>2
    <3> QED BY <3>1, <3>2 DEF ListIsChain
  <2>2. freeHead' = IF chain' = <<>> THEN -1 ELSE chain'[Len(chain')]
    BY <1>2, <1>3, <2>1
  <2>3. ASSUME NEW i \in 1 .. Len(chain')
        PROVE  freeList'[chain'[i]] = (IF i = 1 THEN -1 ELSE chain'[i - 1])
    BY <1>2, <1>3 DEF AllocSwap, ListIsChain
  <2> QED BY <2>2, <2>3 DEF ListIsChain
<1>7. ChainDistinct'
  <2> SUFFICES ASSUME NEW i \in 1 .. Len(chain'), NEW j \in 1 .. Len(chain'),
                      chain'[i] = chain'[j]
               PROVE  i = j
    BY Zenon DEF ChainDistinct
  <2>1. i \in 1 .. n - 1 /\ j \in 1 .. n - 1
    BY <1>3
  <2>2. chain[i] = chain[j]
    BY <1>3, <2>1
  <2>3. i \in 1 .. Len(chain) /\ j \in 1 .. Len(chain)
    BY <1>2, <2>1
  <2> QED BY <2>2, <2>3 DEF ChainDistinct
<1>8. OnePlace'
  <2> SUFFICES ASSUME NEW s \in PoolSlots
               PROVE  /\ (InChain(s) \/ InRelease(s) \/ frames[s] = 1)'
                      /\ (frames[s] <= 1)'
                      /\ (InChain(s) => frames[s] = 0 /\ ~InRelease(s))'
                      /\ (InRelease(s) => frames[s] = 0)'
    BY DEF OnePlace
  <2>1. InRelease(s)' <=> InRelease(s)
    BY DEF AllocSwap, InRelease
  <2>2. frames' = [frames EXCEPT ![idx] = @ + 1] /\ frames \in [PoolSlots -> Nat]
    BY DEF AllocSwap, PoolTypeOK
  <2>3. CASE s = idx
    BY <1>1, <1>4, <2>1, <2>2, <2>3 DEF OnePlace
  <2>4. CASE s # idx
    BY <1>4, <2>1, <2>2, <2>4 DEF OnePlace
  <2> QED BY <2>3, <2>4
<1>9. AllocHolds'
  <2>1. \A b \in Allocators : alloc'[b].at = "idle"
    BY DEF AllocSwap, PoolTypeOK, OneAllocator
  <2> QED BY <2>1 DEF AllocHolds
<1>10. RelHolds'
  BY DEF AllocSwap, RelHolds
<1> QED BY <1>5, <1>6, <1>7, <1>8, <1>9, <1>10

-----------------------------------------------------------------------------
(* release() *)

LEMMA DropKeeps ==
  ASSUME IInv, NEW t \in Releasers, NEW s \in PoolSlots, Drop(t, s)
  PROVE  IInv'
PROOF
<1> USE DEF IInv
<1>1. /\ frames' = [frames EXCEPT ![s] = @ - 1] /\ frames \in [PoolSlots -> Nat]
      /\ frames[s] = 1 /\ rel[t].at = "idle"
      /\ ~InChain(s) /\ ~InRelease(s)
  BY DEF Drop, PoolTypeOK, OnePlace
<1>2. /\ rel' = [rel EXCEPT ![t].at = "load", ![t].idx = s]
      /\ rel \in [Releasers -> [at : {"idle", "load", "link", "cas"}, idx : Link, old : Link]]
      /\ s \in Link
  BY DEF Drop, PoolTypeOK, Link
<1>3. PoolTypeOK'
  <2>1. frames' \in [PoolSlots -> Nat]
    BY <1>1
  <2>2. rel' \in [Releasers -> [at : {"idle", "load", "link", "cas"}, idx : Link, old : Link]]
    BY <1>2
  <2> QED BY <2>1, <2>2 DEF Drop, PoolTypeOK
<1>4. ListIsChain' /\ ChainDistinct' /\ AllocHolds'
  BY DEF Drop, ListIsChain, ChainDistinct, AllocHolds, InChain
<1>5. OnePlace'
  <2>1. \A x \in PoolSlots : InChain(x)' <=> InChain(x)
    BY DEF Drop, InChain
  <2>2. \A x \in PoolSlots : InRelease(x)' <=> InRelease(x) \/ x = s
    BY <1>1, <1>2 DEF InRelease
  <2> QED BY <1>1, <2>1, <2>2 DEF OnePlace
<1>6. RelHolds'
  BY <1>1, <1>2 DEF Drop, RelHolds, InRelease
<1> QED BY <1>3, <1>4, <1>5, <1>6

(* Loading the head, and going back to load it again. *)
LEMMA ReleaseLookKeeps ==
  ASSUME IInv, NEW t \in Releasers, ReleaseLoad(t) \/ ReleaseRetry(t)
  PROVE  IInv'
PROOF
<1> USE DEF IInv
<1>1. rel \in [Releasers -> [at : {"idle", "load", "link", "cas"}, idx : Link, old : Link]]
  BY DEF PoolTypeOK
<1>2. /\ \A u \in Releasers : rel'[u].idx = rel[u].idx /\ (rel'[u].at # "idle" <=> rel[u].at # "idle")
      /\ \A u \in Releasers : rel'[u].at = "cas" => rel[u].at = "cas" /\ rel'[u].old = rel[u].old
  BY <1>1 DEF ReleaseLoad, ReleaseRetry
<1>3. UNCHANGED <<freeHead, freeList, alloc, frames, chain>>
  BY DEF ReleaseLoad, ReleaseRetry
<1>4. PoolTypeOK'
  BY <1>1, <1>3, SMTT(20) DEF ReleaseLoad, ReleaseRetry, PoolTypeOK
<1>5. ListIsChain' /\ ChainDistinct' /\ AllocHolds'
  BY <1>3 DEF ListIsChain, ChainDistinct, AllocHolds, InChain
<1>6. OnePlace'
  <2>1. \A x \in PoolSlots : InChain(x)' <=> InChain(x)
    BY <1>3 DEF InChain
  <2>2. \A x \in PoolSlots : InRelease(x)' <=> InRelease(x)
    BY <1>2 DEF InRelease
  <2> QED BY <1>3, <2>1, <2>2 DEF OnePlace
<1>7. RelHolds'
  BY <1>2, <1>3 DEF RelHolds
<1> QED BY <1>4, <1>5, <1>6, <1>7

(* The link that is written belongs to a slot that is not on the stack. *)
LEMMA ReleaseLinkKeeps ==
  ASSUME IInv, NEW t \in Releasers, ReleaseLink(t)
  PROVE  IInv'
PROOF
<1> USE DEF IInv
<1> DEFINE idx == rel[t].idx
<1>1. /\ idx \in PoolSlots /\ rel[t].old \in Link /\ InRelease(idx)
      /\ rel \in [Releasers -> [at : {"idle", "load", "link", "cas"}, idx : Link, old : Link]]
      /\ freeList \in [PoolSlots -> Link]
  BY DEF ReleaseLink, RelHolds, InRelease, PoolTypeOK
<1>2. ~InChain(idx)
  BY <1>1 DEF OnePlace
<1>3. \A s \in PoolSlots : s # idx => freeList'[s] = freeList[s]
  BY <1>1 DEF ReleaseLink
<1>4. freeList'[idx] = rel[t].old
  BY <1>1 DEF ReleaseLink
<1>5. /\ \A u \in Releasers : /\ rel'[u].idx = rel[u].idx /\ rel'[u].old = rel[u].old
                              /\ rel'[u].at # "idle" <=> rel[u].at # "idle"
      /\ \A u \in Releasers : u # t => rel'[u] = rel[u]
  BY <1>1 DEF ReleaseLink
<1>6. PoolTypeOK'
  BY <1>1 DEF ReleaseLink, PoolTypeOK
<1>7. ListIsChain'
  <2>1. ASSUME NEW i \in 1 .. Len(chain)
        PROVE  freeList'[chain[i]] = (IF i = 1 THEN -1 ELSE chain[i - 1])
    <3>1. chain[i] \in PoolSlots /\ chain[i] # idx
      BY <1>2 DEF PoolTypeOK, InChain
    <3> QED BY <1>3, <3>1 DEF ListIsChain
  <2> QED BY <2>1 DEF ReleaseLink, ListIsChain
<1>8. ChainDistinct'
  BY DEF ReleaseLink, ChainDistinct
<1>9. OnePlace'
  <2>1. \A x \in PoolSlots : (InChain(x)' <=> InChain(x)) /\ (InRelease(x)' <=> InRelease(x))
    BY <1>5 DEF ReleaseLink, InChain, InRelease
  <2> QED BY <2>1 DEF ReleaseLink, OnePlace
<1>10. AllocHolds'
  <2> SUFFICES ASSUME NEW a \in Allocators
               PROVE  /\ alloc[a].at # "idle" => alloc[a].idx \in PoolSlots /\ InChain(alloc[a].idx)
                      /\ alloc[a].at = "cas" => alloc[a].next = freeList'[alloc[a].idx]
    BY DEF ReleaseLink, AllocHolds, InChain
  <2>1. alloc[a].at # "idle" => alloc[a].idx \in PoolSlots /\ InChain(alloc[a].idx)
    BY DEF AllocHolds
  <2>2. alloc[a].at = "cas" => alloc[a].next = freeList[alloc[a].idx]
    BY DEF AllocHolds
  <2> QED BY <1>2, <1>3, <2>1, <2>2
<1>11. RelHolds'
  <2>1. ASSUME NEW u \in Releasers, rel'[u].at = "cas"
        PROVE  freeList'[rel'[u].idx] = rel'[u].old
    <3>1. CASE u = t
      BY <1>4, <1>5, <3>1
    <3>2. CASE u # t
      <4>1. rel[u].at = "cas" /\ rel[u].idx # idx /\ rel[u].idx \in PoolSlots
        BY <1>5, <2>1, <3>2 DEF RelHolds, ReleaseLink
      <4> QED BY <1>3, <1>5, <4>1 DEF RelHolds
    <3> QED BY <3>1, <3>2
  <2> QED BY <1>5, <2>1 DEF RelHolds
<1> QED BY <1>6, <1>7, <1>8, <1>9, <1>10, <1>11

(* The swap puts a slot on the stack whose link is the old head. *)
LEMMA ReleaseSwapKeeps ==
  ASSUME IInv, NEW t \in Releasers, ReleaseSwap(t)
  PROVE  IInv'
PROOF
<1> USE DEF IInv
<1> DEFINE idx == rel[t].idx
           n == Len(chain)
<1>1. /\ idx \in PoolSlots /\ InRelease(idx) /\ freeList[idx] = freeHead
      /\ rel \in [Releasers -> [at : {"idle", "load", "link", "cas"}, idx : Link, old : Link]]
  BY DEF ReleaseSwap, RelHolds, InRelease, PoolTypeOK
<1>2. ~InChain(idx) /\ frames[idx] = 0
  BY <1>1 DEF OnePlace
<1>3. /\ chain \in Seq(PoolSlots) /\ n \in Nat
      /\ chain' \in Seq(PoolSlots) /\ Len(chain') = n + 1
      /\ \A i \in 1 .. n : chain'[i] = chain[i]
      /\ chain'[n + 1] = idx
  BY <1>1 DEF ReleaseSwap, PoolTypeOK
<1>4. \A s \in PoolSlots : InChain(s)' <=> InChain(s) \/ s = idx
  BY <1>3 DEF InChain
<1>5. /\ \A u \in Releasers : u # t => rel'[u] = rel[u]
      /\ rel'[t].at = "idle"
  BY <1>1 DEF ReleaseSwap
<1>6. \A s \in PoolSlots : InRelease(s)' <=> InRelease(s) /\ s # idx
  <2>1. ASSUME NEW u \in Releasers, u # t, rel[u].at # "idle" PROVE rel[u].idx # idx
    BY <2>1 DEF RelHolds, ReleaseSwap
  <2> QED BY <1>5, <2>1 DEF InRelease
<1>7. PoolTypeOK'
  <2>1. rel' \in [Releasers -> [at : {"idle", "load", "link", "cas"}, idx : Link, old : Link]]
    BY <1>1 DEF ReleaseSwap
  <2>2. freeHead' \in Link
    BY <1>1 DEF ReleaseSwap, Link
  <2> QED BY <1>3, <2>1, <2>2 DEF ReleaseSwap, PoolTypeOK
<1>8. ListIsChain'
  <2>1. freeHead' = IF chain' = <<>> THEN -1 ELSE chain'[Len(chain')]
    BY <1>3 DEF ReleaseSwap
  <2>2. ASSUME NEW i \in 1 .. n
        PROVE  freeList'[chain'[i]] = (IF i = 1 THEN -1 ELSE chain'[i - 1])
    BY <1>3 DEF ReleaseSwap, ListIsChain
  <2>3. freeList'[chain'[n + 1]] = (IF n + 1 = 1 THEN -1 ELSE chain'[n])
    <3>1. freeHead = IF n = 0 THEN -1 ELSE chain[n]
      BY <1>3 DEF ListIsChain
    <3> QED BY <1>1, <1>3, <3>1 DEF ReleaseSwap
  <2> QED BY <1>3, <2>1, <2>2, <2>3 DEF ListIsChain
<1>9. ChainDistinct'
  <2>1. \A i \in 1 .. n : chain'[i] # idx
    BY <1>2, <1>3 DEF InChain
  <2> QED BY <1>3, <2>1 DEF ChainDistinct
<1>10. OnePlace'
  <2>1. frames' = frames
    BY DEF ReleaseSwap
  <2> QED BY <1>2, <1>4, <1>6, <2>1 DEF OnePlace
<1>11. AllocHolds'
  <2>1. alloc' = alloc /\ freeList' = freeList
    BY DEF ReleaseSwap
  <2> QED BY <1>4, <2>1 DEF AllocHolds
<1>12. RelHolds'
  <2>1. freeList' = freeList
    BY DEF ReleaseSwap
  <2> QED BY <1>5, <2>1 DEF RelHolds
<1> QED BY <1>7, <1>8, <1>9, <1>10, <1>11, <1>12

-----------------------------------------------------------------------------
LEMMA NextIInv == IInv /\ OneAllocator /\ [PoolNext]_poolVars => IInv'
PROOF
<1> SUFFICES ASSUME IInv, OneAllocator, [PoolNext]_poolVars PROVE IInv'
  OBVIOUS
<1>1. ASSUME NEW a \in Allocators, GetFrame(a) PROVE IInv'
  BY <1>1, AllocLookKeeps, AllocSwapKeeps DEF GetFrame
<1>2. ASSUME NEW t \in Releasers, Release(t) PROVE IInv'
  <2>1. CASE \E s \in PoolSlots : Drop(t, s)
    BY <2>1, DropKeeps
  <2>2. CASE ReleaseLoad(t) \/ ReleaseRetry(t)
    BY <2>2, ReleaseLookKeeps
  <2>3. CASE ReleaseLink(t)
    BY <2>3, ReleaseLinkKeeps
  <2>4. CASE ReleaseSwap(t)
    BY <2>4, ReleaseSwapKeeps
  <2> QED BY <1>2, <2>1, <2>2, <2>3, <2>4 DEF Release
<1>3. CASE UNCHANGED poolVars
  BY <1>3 DEF poolVars, IInv, PoolTypeOK, ListIsChain, ChainDistinct, OnePlace, AllocHolds, RelHolds,
     InChain, InRelease
<1> QED BY <1>1, <1>2, <1>3 DEF PoolNext

(* With one allocating thread the inductive invariant always holds. *)
LEMMA Inductive == ASSUME OneAllocator PROVE PoolSpec => []IInv
PROOF
<1>1. IInv /\ [PoolNext]_poolVars => IInv'
  BY NextIInv
<1> QED BY <1>1, InitIInv, PTL DEF PoolSpec

-----------------------------------------------------------------------------
(* The theorems *)

(* Head, links and indices stay slots of the pool or -1.                       *)
THEOREM TypeCorrect == ASSUME OneAllocator PROVE PoolSpec => []PoolTypeOK
PROOF
<1>1. IInv => PoolTypeOK
  BY DEF IInv
<1> QED BY <1>1, Inductive, PTL

(* Every buffer is in one place: on the stack, in one frame, or about to be    *)
(* pushed back (FramePool.cpp 36-56).                                          *)
THEOREM OnePlaceCorrect == ASSUME OneAllocator PROVE PoolSpec => []OnePlace
PROOF
<1>1. IInv => OnePlace
  BY DEF IInv
<1> QED BY <1>1, Inductive, PTL

(* The linked list is the stack: no compare-and-swap installs a stale link.    *)
THEOREM ListCorrect == ASSUME OneAllocator PROVE PoolSpec => []ListIsChain
PROOF
<1>1. IInv => ListIsChain
  BY DEF IInv
<1> QED BY <1>1, Inductive, PTL

(* The plain read of a link (line 41) never meets the write of it (line 53).   *)
THEOREM LinksAreExclusive == ASSUME OneAllocator PROVE PoolSpec => []NoLinkRace
PROOF
<1>1. IInv => NoLinkRace
  BY DEF IInv, NoLinkRace, AllocHolds, OnePlace, InRelease
<1> QED BY <1>1, Inductive, PTL

-----------------------------------------------------------------------------
(* Nothing leaks.  The walk from the head is defined by recursion; for a list   *)
(* that is the stack it is the stack read from its top.                         *)

Stack == [n \in 0 .. PoolSize |-> IF n < Len(chain) THEN chain[Len(chain) - n] ELSE -1]

\* What one more level of the recursion makes of `f'.
Onwards(f) ==
  [n \in 0 .. PoolSize |->
     IF n = 0 THEN freeHead ELSE IF f[n - 1] = -1 THEN -1 ELSE freeList[f[n - 1]]]

LEMMA StackIsFixed ==
  ASSUME PoolTypeOK, ListIsChain
  PROVE  Stack = Onwards(Stack)
PROOF
<1> DEFINE l == Len(chain)
<1>1. /\ l \in Nat /\ \A i \in 1 .. l : chain[i] \in PoolSlots /\ chain[i] # -1
      /\ (l = 0 => chain = <<>>) /\ PoolSize \in Nat
  <2>1. chain \in Seq(PoolSlots)
    BY DEF PoolTypeOK
  <2>2. l \in Nat /\ (l = 0 => chain = <<>>) /\ \A i \in 1 .. l : chain[i] \in PoolSlots
    BY <2>1
  <2> QED BY <2>2, PoolSizeAssumption DEF PoolSlots
<1>2. /\ freeHead = (IF chain = <<>> THEN -1 ELSE chain[l])
      /\ \A i \in 1 .. l : freeList[chain[i]] = (IF i = 1 THEN -1 ELSE chain[i - 1])
      /\ (l # 0 => chain # <<>>)
  BY DEF ListIsChain
<1>3. \A n \in 0 .. PoolSize : Stack[n] = IF n < l THEN chain[l - n] ELSE -1
  BY DEF Stack
<1> HIDE DEF l
<1>4. ASSUME NEW n \in 0 .. PoolSize
      PROVE  Stack[n] = IF n = 0 THEN freeHead
                        ELSE IF Stack[n - 1] = -1 THEN -1 ELSE freeList[Stack[n - 1]]
  <2>1. CASE n = 0
    BY <1>1, <1>2, <1>3, <2>1
  <2>2. CASE n # 0 /\ n - 1 < l
    <3>1. n - 1 \in 0 .. PoolSize /\ l - (n - 1) \in 1 .. l
      BY <1>1, <2>2
    <3>2. Stack[n - 1] = chain[l - (n - 1)] /\ Stack[n - 1] # -1
      BY <1>1, <1>3, <2>2, <3>1
    <3>3. freeList[Stack[n - 1]] =
            IF l - (n - 1) = 1 THEN -1 ELSE chain[l - (n - 1) - 1]
      BY <1>2, <3>1, <3>2
    <3>4. (l - (n - 1) = 1 <=> ~ (n < l)) /\ l - (n - 1) - 1 = l - n
      BY <1>1, <2>2
    <3> QED BY <1>3, <2>2, <3>2, <3>3, <3>4
  <2>3. CASE n # 0 /\ ~ (n - 1 < l)
    <3>1. n - 1 \in 0 .. PoolSize /\ ~ (n < l)
      BY <1>1, <2>3
    <3> QED BY <1>3, <2>3, <3>1
  <2> QED BY <2>1, <2>2, <2>3
<1> QED BY <1>4 DEF Stack, Onwards

LEMMA WalkIsStack ==
  ASSUME PoolTypeOK, ListIsChain
  PROVE  \A n \in 0 .. PoolSize : Walk[n] = Stack[n]
PROOF
<1>1. Walk = Onwards(Walk)
  BY StackIsFixed DEF Walk, Onwards
<1>2. Stack = Onwards(Stack)
  BY StackIsFixed
<1> DEFINE T == {n \in 0 .. PoolSize : Walk[n] # Stack[n]}
<1>3. PoolSize \in Nat /\ T \subseteq Nat
  BY PoolSizeAssumption
<1>4. SUFFICES ASSUME T # {} PROVE FALSE
  OBVIOUS
<1>5. PICK m \in T : \A k \in T : ~ (<<k, m>> \in OpToRel(<, Nat))
  BY <1>3, <1>4, NatLessThanWellFounded, WFMin
<1>6. m \in 0 .. PoolSize /\ Walk[m] # Stack[m]
  OBVIOUS
<1>7. CASE m = 0
  <2>1. Onwards(Walk)[m] = freeHead /\ Onwards(Stack)[m] = freeHead
    BY <1>6, <1>7 DEF Onwards
  <2> QED BY <1>1, <1>2, <1>6, <2>1
<1>8. CASE m # 0
  <2>1. m - 1 \in 0 .. PoolSize /\ m - 1 < m /\ m \in Nat /\ m - 1 \in Nat
    BY <1>3, <1>6, <1>8
  <2>2. m - 1 \notin T
    BY <1>5, <2>1 DEF OpToRel
  <2>3. Walk[m - 1] = Stack[m - 1]
    BY <2>1, <2>2
  <2>4. Onwards(Walk)[m] = Onwards(Stack)[m]
    BY <1>6, <1>8, <2>3 DEF Onwards
  <2> QED BY <1>1, <1>2, <1>6, <2>4
<1> QED BY <1>7, <1>8

(* The stack is no higher than the pool has slots.                              *)
LEMMA StackFits ==
  ASSUME PoolTypeOK, ChainDistinct
  PROVE  Len(chain) \in Nat /\ Len(chain) <= PoolSize
PROOF
<1> DEFINE l == Len(chain)
<1>1. l \in Nat /\ \A i \in 1 .. l : chain[i] \in PoolSlots
  BY DEF PoolTypeOK
<1>2. IsFiniteSet(PoolSlots) /\ Cardinality(PoolSlots) = PoolSize
  <2>1. 0 \in Int /\ PoolSize - 1 \in Int /\ PoolSize \in Nat \ {0}
    BY PoolSizeAssumption
  <2>2. IsFiniteSet(0 .. PoolSize - 1)
        /\ Cardinality(0 .. PoolSize - 1) =
             IF 0 > PoolSize - 1 THEN 0 ELSE PoolSize - 1 - 0 + 1
    BY <2>1, FS_Interval
  <2> QED BY <2>1, <2>2 DEF PoolSlots
<1>3. IsFiniteSet(1 .. l) /\ Cardinality(1 .. l) = l
  <2>1. 1 \in Int /\ l \in Int
    BY <1>1
  <2>2. IsFiniteSet(1 .. l) /\ Cardinality(1 .. l) = IF 1 > l THEN 0 ELSE l - 1 + 1
    BY <2>1, FS_Interval
  <2> QED BY <1>1, <2>2
<1>4. SUFFICES ASSUME PoolSize < l PROVE FALSE
  BY <1>1, PoolSizeAssumption
<1> DEFINE f == [i \in 1 .. l |-> chain[i]]
<1>5. f \in [1 .. l -> PoolSlots] /\ \A i \in 1 .. l : f[i] = chain[i]
  BY <1>1
<1> HIDE DEF f, l
<1>6. Cardinality(PoolSlots) < Cardinality(1 .. l)
  BY <1>2, <1>3, <1>4
<1> DEFINE S == 1 .. l
<1>7. /\ IsFiniteSet(S) /\ IsFiniteSet(PoolSlots)
      /\ Cardinality(PoolSlots) < Cardinality(S) /\ f \in [S -> PoolSlots]
  BY <1>2, <1>3, <1>5, <1>6
<1> HIDE DEF S
<1>8. \E i, j \in S : i # j /\ f[i] = f[j]
  BY <1>7, FS_PigeonHole
<1> QED BY <1>5, <1>8 DEF ChainDistinct, l, S

(* When every frame has been dropped and nobody is in the pool's code, each     *)
(* slot can be allocated again: the walk from free_head_ along free_list_ that  *)
(* get_frame() makes reaches all of them (FramePool.cpp 36-56).                 *)
THEOREM NothingIsLost == ASSUME OneAllocator PROVE PoolSpec => []NothingLeaks
PROOF
<1>1. IInv => NothingLeaks
  <2> SUFFICES ASSUME IInv, \A t \in Releasers : rel[t].at = "idle", NEW s \in PoolSlots,
                      frames[s] = 0
               PROVE  \E n \in 0 .. PoolSize : Walk[n] = s
    BY DEF NothingLeaks
  <2>1. PICK i \in 1 .. Len(chain) : chain[i] = s
    BY DEF IInv, OnePlace, InChain, InRelease
  <2>2. Len(chain) \in Nat /\ Len(chain) <= PoolSize /\ PoolSize \in Nat
    BY StackFits, PoolSizeAssumption DEF IInv
  <2>3. /\ Len(chain) - i \in 0 .. PoolSize /\ Len(chain) - i < Len(chain)
        /\ Len(chain) - (Len(chain) - i) = i
    BY <2>2
  <2>4. Stack[Len(chain) - i] = s
    BY <2>1, <2>3 DEF Stack
  <2> QED BY <2>3, <2>4, WalkIsStack DEF IInv
<1> QED BY <1>1, Inductive, PTL

-----------------------------------------------------------------------------
(* The pipeline that uses the pool (Pipeline.cpp), for queues of any size.  *)

AllOff == \A s \in Stages : at[s] = "off"

QueuesEmpty == \A q \in Queues : queue[q] = <<>>

\* Stages exist before a thread runs.  stop() leaves a row of joined threads
\* behind it, start() has a row of threads ahead that are not launched; between
\* the two nothing runs and nothing waits.
StagesFollow ==
  /\ ~created => AllOff
  /\ mgr.at \in {"signal", "join"} =>
       \A s \in Stages : s < mgr.stage => at[s] = "off"
  /\ mgr.at = "launch" => created /\ \A s \in Stages : s <= mgr.stage => at[s] = "off"
  /\ mgr.at = "drain" => AllOff
  /\ mgr.at \in {"lockStart", "create"} => AllOff /\ QueuesEmpty

\* A stage holds a frame only where its loop has one.
HandsFollow ==
  \A s \in Stages : hand[s] # <<>> => at[s] \in {"push", "work", "infer", "callback"}

PipeInv == PipeTypeOK /\ StagesFollow /\ HandsFollow /\ NoDanglingFrame

LEMMA PipeNumbers ==
  /\ Capture = 1 /\ Preprocess = 2 /\ Inference = 3 /\ Postprocess = 4
  /\ Stages = {1, 2, 3, 4} /\ Queues = {1, 2, 3}
PROOF
<1>1. 1 .. 4 = {1, 2, 3, 4} /\ 1 .. 3 = {1, 2, 3}
  OBVIOUS
<1> QED BY <1>1 DEF Capture, Preprocess, Inference, Postprocess, Stages,
     Queues

(* The frames in use are finitely many, so that each has a rank.            *)
LEMMA ElementsFinite ==
  ASSUME NEW seq \in Seq(Nat)
  PROVE  Elements(seq) \subseteq Nat /\ IsFiniteSet(Elements(seq))
PROOF
<1> DEFINE f == [i \in 1 .. Len(seq) |-> seq[i]]
<1>1. Len(seq) \in Nat /\ \A i \in 1 .. Len(seq) : seq[i] \in Nat
  OBVIOUS
<1>2. f \in Surjection(1 .. Len(seq), Elements(seq))
  BY DEF Surjection, Elements
<1>3. IsFiniteSet(1 .. Len(seq))
  BY <1>1, FS_Interval
<1>4. IsFiniteSet(Elements(seq))
  BY <1>2, <1>3, FS_Surjection
<1> QED BY <1>1, <1>4 DEF Elements

LEMMA InUseFinite ==
  ASSUME RingsOK
  PROVE  InUse \subseteq Nat \ {Gone} /\ IsFiniteSet(InUse)
PROOF
<1>1. /\ \A s \in Stages : Elements(hand[s]) \subseteq Nat /\ IsFiniteSet(Elements(hand[s]))
      /\ \A q \in Queues : Elements(queue[q]) \subseteq Nat /\ IsFiniteSet(Elements(queue[q]))
      /\ \A q \in Queues : Elements(popped[q]) \subseteq Nat /\ IsFiniteSet(Elements(popped[q]))
  BY ElementsFinite DEF RingsOK
<1>2. IsFiniteSet(InHands)
  <2>1. InHands = Elements(hand[1]) \cup (Elements(hand[2]) \cup
                  (Elements(hand[3]) \cup Elements(hand[4])))
    BY PipeNumbers DEF InHands
  <2>2. IsFiniteSet(Elements(hand[3]) \cup Elements(hand[4]))
    BY <1>1, PipeNumbers, FS_Union
  <2>3. IsFiniteSet(Elements(hand[2]) \cup (Elements(hand[3]) \cup Elements(hand[4])))
    BY <1>1, <2>2, PipeNumbers, FS_Union
  <2> QED BY <1>1, <2>1, <2>3, PipeNumbers, FS_Union
<1>3. IsFiniteSet(InRings)
  <2>1. \A q \in Queues : IsFiniteSet(Elements(queue[q]) \cup Elements(popped[q]))
    BY <1>1, FS_Union
  <2>2. InRings = (Elements(queue[1]) \cup Elements(popped[1])) \cup
                  ((Elements(queue[2]) \cup Elements(popped[2])) \cup
                   (Elements(queue[3]) \cup Elements(popped[3])))
    BY PipeNumbers DEF InRings
  <2>3. IsFiniteSet((Elements(queue[2]) \cup Elements(popped[2])) \cup
                    (Elements(queue[3]) \cup Elements(popped[3])))
    BY <2>1, PipeNumbers, FS_Union
  <2> QED BY <2>1, <2>2, <2>3, PipeNumbers, FS_Union
<1>4. InHands \subseteq Nat /\ InRings \subseteq Nat
  BY <1>1 DEF InHands, InRings
<1>5. InUse = (InHands \cup InRings) \ {Gone}
  BY DEF InUse
<1>6. IsFiniteSet(InHands \cup InRings)
  BY <1>2, <1>3, FS_Union
<1>7. IsFiniteSet((InHands \cup InRings) \ {Gone})
  BY <1>6, FS_RemoveElement
<1> QED BY <1>4, <1>5, <1>7

LEMMA RankIsNumber ==
  ASSUME RingsOK, NEW f \in Nat
  PROVE  Rank(f) \in Nat /\ (f \in InUse => Rank(f) # Gone)
PROOF
<1> DEFINE older == {g \in InUse : g <= f}
<1>1. IsFiniteSet(older)
  BY InUseFinite, FS_Subset
<1>2. Cardinality(older) \in Nat /\ (Cardinality(older) = 0 => older = {})
  BY <1>1, FS_CardinalityType, FS_EmptySet
<1>3. f \in InUse => f \in older
  OBVIOUS
<1> QED BY <1>2, <1>3 DEF Rank, Gone

(* The new ranks are numbers, and those of frames are ranks of frames.      *)
LEMMA RankedIsSeq ==
  ASSUME RingsOK, NEW seq \in Seq(Nat)
  PROVE  /\ Ranked(seq) \in Seq(Nat) /\ Len(Ranked(seq)) = Len(seq)
         /\ Elements(seq) \subseteq InUse => Gone \notin Elements(Ranked(seq))
PROOF
<1>1. Len(seq) \in Nat /\ \A i \in 1 .. Len(seq) : seq[i] \in Nat
  OBVIOUS
<1>2. \A i \in 1 .. Len(seq) :
        Rank(seq[i]) \in Nat /\ (seq[i] \in InUse => Rank(seq[i]) # Gone)
  BY <1>1, RankIsNumber
<1>3. Ranked(seq) = [i \in 1 .. Len(seq) |-> Rank(seq[i])]
  BY DEF Ranked
<1>4. Ranked(seq) \in Seq(Nat) /\ Len(Ranked(seq)) = Len(seq)
  BY <1>1, <1>2, <1>3
<1>5. ASSUME Elements(seq) \subseteq InUse PROVE Gone \notin Elements(Ranked(seq))
  <2>1. \A i \in 1 .. Len(seq) : seq[i] \in InUse
    BY <1>5 DEF Elements
  <2> QED BY <1>2, <1>3, <1>4, <2>1 DEF Elements
<1> QED BY <1>4, <1>5

(* What the four operations on a queue leave in it.                         *)
LEMMA SeqElements ==
  ASSUME NEW a \in Seq(Nat), NEW b \in Seq(Nat)
  PROVE  /\ a \o b \in Seq(Nat) /\ Len(a \o b) = Len(a) + Len(b)
         /\ Elements(a \o b) \subseteq Elements(a) \cup Elements(b)
         /\ a # <<>> => /\ Tail(a) \in Seq(Nat) /\ Len(Tail(a)) = Len(a) - 1
                        /\ Elements(Tail(a)) \subseteq Elements(a)
                        /\ Head(a) \in Elements(a) /\ Head(a) \in Nat
         /\ Elements(<<>>) = {}
PROOF
<1>1. a \o b \in Seq(Nat) /\ Len(a \o b) = Len(a) + Len(b)
  OBVIOUS
<1>2. Elements(a \o b) \subseteq Elements(a) \cup Elements(b)
  <2> SUFFICES ASSUME NEW i \in 1 .. Len(a \o b)
               PROVE  (a \o b)[i] \in Elements(a) \cup Elements(b)
    BY DEF Elements
  <2>1. CASE i <= Len(a)
    BY <2>1 DEF Elements
  <2>2. CASE i > Len(a)
    <3>1. i - Len(a) \in 1 .. Len(b) /\ (a \o b)[i] = b[i - Len(a)]
      BY <1>1, <2>2
    <3> QED BY <3>1 DEF Elements
  <2> QED BY <2>1, <2>2
<1>3. ASSUME a # <<>>
      PROVE  /\ Tail(a) \in Seq(Nat) /\ Len(Tail(a)) = Len(a) - 1
             /\ Elements(Tail(a)) \subseteq Elements(a)
             /\ Head(a) \in Elements(a) /\ Head(a) \in Nat
  <2>1. Len(a) \in Nat \ {0} /\ Head(a) = a[1] /\ a[1] \in Nat
    BY <1>3
  <2>2. Tail(a) \in Seq(Nat) /\ Len(Tail(a)) = Len(a) - 1
    BY <1>3
  <2>3. \A i \in 1 .. Len(Tail(a)) : i + 1 \in 1 .. Len(a) /\ Tail(a)[i] = a[i + 1]
    BY <1>3, <2>1, <2>2
  <2>4. 1 \in 1 .. Len(a)
    BY <2>1
  <2> QED BY <2>1, <2>2, <2>3, <2>4 DEF Elements
<1>4. Elements(<<>>) = {}
  BY DEF Elements
<1> QED BY <1>1, <1>2, <1>3, <1>4

LEMMA PipeStarts == ASSUME QueueMax \in Nat PROVE PipeInit => PipeInv
PROOF
<1> SUFFICES ASSUME PipeInit PROVE PipeInv
  OBVIOUS
<1>1. PipeTypeOK
  <2>1. <<>> \in Seq(Nat) /\ Len(<<>>) = 0 /\ 0 <= QueueMax /\ 0 + 0 <= QueueMax + 1
    OBVIOUS
  <2>2. /\ mgr = [at |-> "idle", op |-> "none", stage |-> 1] /\ 1 \in Stages
        /\ hand = [s \in Stages |-> <<>>]
        /\ queue = [q \in Queues |-> <<>>] /\ popped = [q \in Queues |-> <<>>]
    BY PipeNumbers DEF PipeInit
  <2>3. /\ hand \in [Stages -> Seq(Nat)]
        /\ queue \in [Queues -> Seq(Nat)] /\ popped \in [Queues -> Seq(Nat)]
        /\ \A s \in Stages : Len(hand[s]) <= 1
        /\ \A q \in Queues : Len(queue[q]) <= QueueMax /\ Len(popped[q]) + Len(queue[q]) <= Cells
    BY <2>1, <2>2 DEF Cells
  <2>4. /\ mgr.at = "idle" /\ mgr.op = "none" /\ mgr.stage \in Stages
        /\ mgr = [at |-> mgr.at, op |-> mgr.op, stage |-> mgr.stage]
    BY <2>2
  <2> QED BY <2>3, <2>4 DEF PipeInit, PipeTypeOK, ControlOK, RingsOK
<1>2. StagesFollow
  BY PipeNumbers DEF PipeInit, StagesFollow, AllOff
<1>3. HandsFollow /\ NoDanglingFrame
  BY DEF PipeInit, HandsFollow, NoDanglingFrame, Elements
<1> QED BY <1>1, <1>2, <1>3 DEF PipeInv

(* A thread moves itself only, and not one that returned. *)
LEMMA ThreadMoves ==
  ASSUME ControlOK, NEW s \in Stages, Thread(s)
  PROVE  /\ UNCHANGED <<running, stageLock, created, mgr>>
         /\ at[s] # "off"
         /\ \A r \in Stages : r # s => at'[r] = at[r]
         /\ ControlOK'
PROOF
<1>1. CASE Leave(s)
  <2>1. Entry(s) # "off"
    BY DEF Entry
  <2> QED BY <1>1, <2>1 DEF Leave, Goto, ControlOK
<1>2. CASE Push(s)
  BY <1>2 DEF Push, Goto, ControlOK
<1>3. CASE Pop(s)
  BY <1>3, PipeNumbers DEF Pop, Goto, ControlOK
<1>4. CASE s = Capture /\ CapturePull
  BY <1>4 DEF CapturePull, Goto, ControlOK
<1>5. CASE s = Inference /\ (InferenceLoad \/ InferenceLeave)
  BY <1>5 DEF InferenceLoad, InferenceLeave, Goto, ControlOK
<1>6. CASE s = Inference /\ (InferenceLock \/ InferenceRun)
  BY <1>6 DEF InferenceLock, InferenceRun, InferenceTake, InferenceDrop, Goto, ControlOK
<1>7. CASE s = Postprocess /\ PostprocessCallback
  BY <1>7 DEF PostprocessCallback, Goto, ControlOK
<1> QED BY <1>1, <1>2, <1>3, <1>4, <1>5, <1>6, <1>7 DEF Thread, Advance

(* What the rings and the hands hold: kept by each of the steps that move a *)
(* frame.                                                                   *)
LEMMA PushKeeps ==
  ASSUME QueueMax \in Nat, RingsOK, NoDanglingFrame, NEW s \in Stages, Push(s)
  PROVE  RingsOK' /\ NoDanglingFrame'
PROOF
<1>1. hand' = [hand EXCEPT ![s] = <<>>] /\ Len(<<>>) <= 1 /\ <<>> \in Seq(Nat)
  BY DEF Push, Hold
<1>2. /\ hand' \in [Stages -> Seq(Nat)]
      /\ \A r \in Stages : Len(hand'[r]) <= 1 /\ Gone \notin Elements(hand'[r])
  BY <1>1, SeqElements DEF RingsOK, NoDanglingFrame
<1>3. CASE s \notin Queues
  <2>1. queue' = queue /\ popped' = popped
    BY <1>3 DEF Push, RingsOK
  <2> QED BY <1>2, <2>1 DEF RingsOK, NoDanglingFrame
<1>4. CASE s \in Queues
  <2> DEFINE waiting == queue[s] \o hand[s]
             rest == IF Len(popped[s]) + Len(queue[s]) = Cells THEN Tail(popped[s])
                                                               ELSE popped[s]
  <2>1. /\ queue' = [queue EXCEPT ![s] = waiting] /\ popped' = [popped EXCEPT ![s] = rest]
        /\ Len(queue[s]) < QueueMax
    BY <1>4 DEF Push, RingsOK
  <2>2. /\ hand[s] \in Seq(Nat) /\ queue[s] \in Seq(Nat) /\ popped[s] \in Seq(Nat)
        /\ Len(hand[s]) \in Nat /\ Len(queue[s]) \in Nat /\ Len(popped[s]) \in Nat
        /\ Len(hand[s]) <= 1 /\ Len(popped[s]) + Len(queue[s]) <= Cells
        /\ Gone \notin Elements(hand[s]) /\ Gone \notin Elements(queue[s])
    BY <1>4 DEF RingsOK, NoDanglingFrame
  <2>3. /\ waiting \in Seq(Nat) /\ Len(waiting) = Len(queue[s]) + Len(hand[s])
        /\ Gone \notin Elements(waiting)
    BY <2>2, SeqElements
  <2>4. rest \in Seq(Nat) /\ Len(rest) + Len(waiting) <= Cells /\ Len(waiting) <= QueueMax
    <3> DEFINE w == Len(queue[s])
               h == Len(hand[s])
               p == Len(popped[s])
    <3>0. /\ w \in Nat /\ h \in Nat /\ p \in Nat /\ h <= 1 /\ w < QueueMax
          /\ p + w <= QueueMax + 1
      BY <2>1, <2>2 DEF Cells
    <3>1. Len(waiting) = w + h
      BY <2>3
    <3> HIDE DEF w, h, p, waiting
    <3>2. CASE p + w = QueueMax + 1
      <4>1. p # 0
        BY <3>0, <3>2
      <4>2. popped[s] # <<>>
        BY <4>1 DEF p
      <4>3. Tail(popped[s]) \in Seq(Nat) /\ Len(Tail(popped[s])) = p - 1
        BY <2>2, <4>2, SeqElements DEF p
      <4>4. rest = Tail(popped[s])
        BY <3>2 DEF w, p, Cells
      <4> HIDE DEF rest
      <4>5. (p - 1) + (w + h) <= QueueMax + 1 /\ w + h <= QueueMax
        BY <3>0, <3>2
      <4>6. Len(rest) = p - 1 /\ rest \in Seq(Nat)
        BY <4>3, <4>4
      <4> QED BY <3>1, <4>5, <4>6 DEF Cells
    <3>3. CASE p + w # QueueMax + 1
      <4>1. rest = popped[s] /\ Len(rest) = p /\ rest \in Seq(Nat)
        BY <2>2, <3>3 DEF w, p, Cells
      <4> HIDE DEF rest
      <4> QED BY <3>0, <3>1, <3>3, <4>1 DEF Cells
    <3> QED BY <3>2, <3>3
  <2>5. \A q \in Queues : q # s => queue'[q] = queue[q] /\ popped'[q] = popped[q]
    BY <2>1 DEF RingsOK
  <2>6. queue'[s] = waiting /\ popped'[s] = rest
    BY <1>4, <2>1 DEF RingsOK
  <2>7. queue' \in [Queues -> Seq(Nat)] /\ popped' \in [Queues -> Seq(Nat)]
    BY <2>1, <2>3, <2>4 DEF RingsOK
  <2> HIDE DEF waiting, rest
  <2>8. \A q \in Queues : /\ Len(queue'[q]) <= QueueMax
                          /\ Len(popped'[q]) + Len(queue'[q]) <= Cells
                          /\ Gone \notin Elements(queue'[q])
    BY <2>3, <2>4, <2>5, <2>6 DEF RingsOK, NoDanglingFrame
  <2> QED BY <1>2, <2>7, <2>8 DEF RingsOK, NoDanglingFrame
<1> QED BY <1>3, <1>4

LEMMA PopKeeps ==
  ASSUME QueueMax \in Nat, RingsOK, NoDanglingFrame, NEW s \in Stages, Pop(s)
  PROVE  RingsOK' /\ NoDanglingFrame'
PROOF
<1> DEFINE q == s - 1
           f == Head(queue[q])
<1>1. q \in Queues
  BY PipeNumbers DEF Pop
<1>2. /\ hand' = [hand EXCEPT ![s] = <<f>>]
      /\ queue' = [queue EXCEPT ![q] = Tail(queue[q])]
      /\ popped' = [popped EXCEPT ![q] = Append(popped[q], f)]
      /\ queue[q] # <<>>
  BY <1>1 DEF Pop, Hold, RingsOK
<1>3. /\ queue[q] \in Seq(Nat) /\ popped[q] \in Seq(Nat)
      /\ Len(queue[q]) \in Nat /\ Len(popped[q]) \in Nat
      /\ Len(queue[q]) <= QueueMax /\ Len(popped[q]) + Len(queue[q]) <= Cells
      /\ Gone \notin Elements(queue[q])
  BY <1>1 DEF RingsOK, NoDanglingFrame
<1>4. /\ Tail(queue[q]) \in Seq(Nat) /\ Len(Tail(queue[q])) = Len(queue[q]) - 1
      /\ Gone \notin Elements(Tail(queue[q])) /\ f \in Nat /\ f # Gone
  BY <1>2, <1>3, SeqElements
<1>5. Append(popped[q], f) \in Seq(Nat) /\ Len(Append(popped[q], f)) = Len(popped[q]) + 1
  BY <1>3, <1>4
<1>6. <<f>> \in Seq(Nat) /\ Len(<<f>>) = 1 /\ Elements(<<f>>) = {f}
  BY <1>4 DEF Elements
<1> HIDE DEF q, f
<1>7. /\ hand' \in [Stages -> Seq(Nat)]
      /\ \A r \in Stages : Len(hand'[r]) <= 1 /\ Gone \notin Elements(hand'[r])
  BY <1>2, <1>4, <1>6 DEF RingsOK, NoDanglingFrame
<1>8. queue' \in [Queues -> Seq(Nat)] /\ popped' \in [Queues -> Seq(Nat)]
  BY <1>2, <1>4, <1>5 DEF RingsOK
<1>9. \A r \in Queues : r # q => queue'[r] = queue[r] /\ popped'[r] = popped[r]
  BY <1>2 DEF RingsOK
<1>10. queue'[q] = Tail(queue[q]) /\ popped'[q] = Append(popped[q], f)
  BY <1>1, <1>2 DEF RingsOK
<1>11. /\ Len(queue'[q]) <= QueueMax /\ Len(popped'[q]) + Len(queue'[q]) <= Cells
       /\ Gone \notin Elements(queue'[q])
  <2>1. Len(queue'[q]) = Len(queue[q]) - 1 /\ Len(popped'[q]) = Len(popped[q]) + 1
    BY <1>4, <1>5, <1>10
  <2>2. Gone \notin Elements(queue'[q])
    BY <1>4, <1>10
  <2>3. \A m, n, c, k \in Nat :
          m <= k /\ n + m <= c => m - 1 <= k /\ (n + 1) + (m - 1) <= c
    OBVIOUS
  <2>4. Cells \in Nat
    BY DEF Cells
  <2>5. /\ Len(queue[q]) - 1 <= QueueMax
        /\ (Len(popped[q]) + 1) + (Len(queue[q]) - 1) <= Cells
    BY <1>3, <2>3, <2>4
  <2> QED BY <2>1, <2>2, <2>5
<1>12. \A r \in Queues : /\ Len(queue'[r]) <= QueueMax
                         /\ Len(popped'[r]) + Len(queue'[r]) <= Cells
                         /\ Gone \notin Elements(queue'[r])
  BY <1>9, <1>11 DEF RingsOK, NoDanglingFrame
<1> QED BY <1>7, <1>8, <1>12 DEF RingsOK, NoDanglingFrame

LEMMA PullKeeps ==
  ASSUME QueueMax \in Nat, RingsOK, NoDanglingFrame, CapturePull
  PROVE  RingsOK' /\ NoDanglingFrame'
PROOF
<1> DEFINE young == Cardinality(InUse) + 1
<1>1. /\ hand' = [s \in Stages |-> IF s = Capture THEN <<young>> ELSE Ranked(hand[s])]
      /\ queue' = [q \in Queues |-> Ranked(queue[q])]
      /\ popped' = [q \in Queues |-> Ranked(popped[q])]
  BY DEF CapturePull
<1>2. young \in Nat /\ young # Gone
  <2>1. Cardinality(InUse) \in Nat
    BY InUseFinite, FS_CardinalityType
  <2> QED BY <2>1 DEF Gone
<1>3. <<young>> \in Seq(Nat) /\ Len(<<young>>) = 1 /\ Elements(<<young>>) = {young}
  BY <1>2 DEF Elements
<1> HIDE DEF young
<1>4. ASSUME NEW s \in Stages
      PROVE  /\ Ranked(hand[s]) \in Seq(Nat) /\ Len(Ranked(hand[s])) <= 1
             /\ Gone \notin Elements(Ranked(hand[s]))
  <2>1. hand[s] \in Seq(Nat) /\ Len(hand[s]) <= 1 /\ Gone \notin Elements(hand[s])
    BY DEF RingsOK, NoDanglingFrame
  <2>2. Elements(hand[s]) \subseteq InUse
    BY <2>1 DEF InUse, InHands
  <2>3. Ranked(hand[s]) \in Seq(Nat) /\ Len(Ranked(hand[s])) = Len(hand[s])
    BY <2>1, RankedIsSeq
  <2>4. Gone \notin Elements(Ranked(hand[s]))
    BY <2>1, <2>2, RankedIsSeq
  <2> QED BY <2>1, <2>3, <2>4
<1>5. ASSUME NEW q \in Queues
      PROVE  /\ Ranked(queue[q]) \in Seq(Nat) /\ Len(Ranked(queue[q])) = Len(queue[q])
             /\ Ranked(popped[q]) \in Seq(Nat) /\ Len(Ranked(popped[q])) = Len(popped[q])
             /\ Gone \notin Elements(Ranked(queue[q]))
  <2>1. queue[q] \in Seq(Nat) /\ popped[q] \in Seq(Nat) /\ Gone \notin Elements(queue[q])
    BY DEF RingsOK, NoDanglingFrame
  <2>2. Elements(queue[q]) \subseteq InUse
    BY <2>1 DEF InUse, InRings
  <2> QED BY <2>1, <2>2, RankedIsSeq
<1>6. /\ hand' \in [Stages -> Seq(Nat)]
      /\ \A s \in Stages : Len(hand'[s]) <= 1 /\ Gone \notin Elements(hand'[s])
  BY <1>1, <1>2, <1>3, <1>4
<1>7. queue' \in [Queues -> Seq(Nat)] /\ popped' \in [Queues -> Seq(Nat)]
  BY <1>1, <1>5
<1>8. \A q \in Queues : queue'[q] = Ranked(queue[q]) /\ popped'[q] = Ranked(popped[q])
  BY <1>1
<1>9. \A q \in Queues : /\ Len(queue'[q]) <= QueueMax
                        /\ Len(popped'[q]) + Len(queue'[q]) <= Cells
                        /\ Gone \notin Elements(queue'[q])
  <2> TAKE q \in Queues
  <2>1. Len(queue'[q]) = Len(queue[q]) /\ Len(popped'[q]) = Len(popped[q])
    BY <1>5, <1>8
  <2>2. Len(queue[q]) <= QueueMax /\ Len(popped[q]) + Len(queue[q]) <= Cells
    BY DEF RingsOK
  <2>3. Gone \notin Elements(queue'[q])
    BY <1>5, <1>8
  <2> QED BY <2>1, <2>2, <2>3
<1> QED BY <1>6, <1>7, <1>9 DEF RingsOK, NoDanglingFrame

LEMMA DrainKeeps ==
  ASSUME QueueMax \in Nat, RingsOK, NoDanglingFrame, StopDrain
  PROVE  RingsOK' /\ NoDanglingFrame'
PROOF
<1>1. /\ hand' = hand /\ queue' = [q \in Queues |-> <<>>]
      /\ popped' = [q \in Queues |-> popped[q] \o queue[q]]
  BY DEF StopDrain, Drain
<1>2. <<>> \in Seq(Nat) /\ Len(<<>>) = 0 /\ Elements(<<>>) = {}
  BY DEF Elements
<1>3. ASSUME NEW q \in Queues
      PROVE  /\ popped[q] \o queue[q] \in Seq(Nat)
             /\ Len(popped[q] \o queue[q]) <= Cells
             /\ Len(popped[q] \o queue[q]) \in Nat
  <2>1. /\ popped[q] \in Seq(Nat) /\ queue[q] \in Seq(Nat)
        /\ Len(popped[q]) + Len(queue[q]) <= Cells
    BY DEF RingsOK
  <2>2. /\ popped[q] \o queue[q] \in Seq(Nat)
        /\ Len(popped[q] \o queue[q]) = Len(popped[q]) + Len(queue[q])
    BY <2>1, SeqElements
  <2>3. Len(popped[q] \o queue[q]) <= Cells
    BY <2>1, <2>2, Zenon
  <2>4. Len(popped[q] \o queue[q]) \in Nat
    <3>1. \A seq \in Seq(Nat) : Len(seq) \in Nat
      OBVIOUS
    <3> QED BY <2>2, <3>1, Zenon
  <2> QED BY <2>2, <2>3, <2>4
<1>4. queue' \in [Queues -> Seq(Nat)] /\ popped' \in [Queues -> Seq(Nat)]
  BY <1>1, <1>2, <1>3
<1>5. \A q \in Queues : queue'[q] = <<>> /\ popped'[q] = popped[q] \o queue[q]
  BY <1>1
<1>6. \A q \in Queues : /\ Len(queue'[q]) <= QueueMax
                        /\ Len(popped'[q]) + Len(queue'[q]) <= Cells
                        /\ Gone \notin Elements(queue'[q])
  <2> TAKE q \in Queues
  <2>1. Len(queue'[q]) = 0 /\ Elements(queue'[q]) = {}
    BY <1>2, <1>5
  <2>2. Len(popped'[q]) <= Cells /\ Len(popped'[q]) \in Nat
    BY <1>3, <1>5
  <2>3. Gone \notin Elements(queue'[q])
    BY <2>1
  <2>4. Len(popped'[q]) + 0 <= Cells
    BY <2>2 DEF Cells
  <2> QED BY <2>1, <2>3, <2>4
<1> QED BY <1>1, <1>4, <1>6 DEF RingsOK, NoDanglingFrame

(* With every thread joined no hand holds a frame, and what the cells refer *)
(* to is gone.                                                              *)
LEMMA CreateKeeps ==
  ASSUME QueueMax \in Nat, PipeInv, StartCreate
  PROVE  RingsOK' /\ NoDanglingFrame' /\ \A s \in Stages : hand'[s] = <<>>
PROOF
<1>1. /\ hand' = [s \in Stages |-> [i \in 1 .. Len(hand[s]) |-> Gone]]
      /\ queue' = [q \in Queues |-> <<>>]
      /\ popped' = [q \in Queues |-> [i \in 1 .. Len(popped[q]) + Len(queue[q]) |-> Gone]]
  BY DEF StartCreate
<1>2. \A s \in Stages : hand[s] = <<>>
  BY DEF PipeInv, StartCreate, StagesFollow, AllOff, HandsFollow
<1>3. <<>> \in Seq(Nat) /\ Len(<<>>) = 0 /\ Elements(<<>>) = {}
  BY DEF Elements
<1>4. [i \in 1 .. 0 |-> Gone] = <<>>
  OBVIOUS
<1>5. \A s \in Stages : hand'[s] = <<>>
  BY <1>1, <1>2, <1>3, <1>4
<1>6. ASSUME NEW q \in Queues, NEW n, n = Len(popped[q]) + Len(queue[q])
      PROVE  n \in Nat /\ n <= Cells
  BY <1>6 DEF PipeInv, PipeTypeOK, RingsOK
<1>7. ASSUME NEW n \in Nat
      PROVE  [i \in 1 .. n |-> Gone] \in Seq(Nat) /\ Len([i \in 1 .. n |-> Gone]) = n
  BY DEF Gone
<1>8. /\ hand' \in [Stages -> Seq(Nat)] /\ queue' \in [Queues -> Seq(Nat)]
      /\ popped' \in [Queues -> Seq(Nat)]
  <2>1. hand' \in [Stages -> Seq(Nat)]
    BY <1>1, <1>3, <1>5
  <2>2. \A q \in Queues : [i \in 1 .. Len(popped[q]) + Len(queue[q]) |-> Gone] \in Seq(Nat)
    BY <1>6, <1>7
  <2> QED BY <1>1, <1>3, <2>1, <2>2
<1>9. \A q \in Queues : /\ Len(queue'[q]) <= QueueMax
                        /\ Len(popped'[q]) + Len(queue'[q]) <= Cells
                        /\ Gone \notin Elements(queue'[q])
  <2> TAKE q \in Queues
  <2> DEFINE n == Len(popped[q]) + Len(queue[q])
  <2>1. n \in Nat /\ n <= Cells
    BY <1>6
  <2>2. queue'[q] = <<>> /\ popped'[q] = [i \in 1 .. n |-> Gone]
    BY <1>1
  <2> HIDE DEF n
  <2>3. Len(popped'[q]) = n
    BY <1>7, <2>1, <2>2
  <2>4. Len(queue'[q]) = 0 /\ Elements(queue'[q]) = {}
    BY <1>3, <2>2
  <2> QED BY <2>1, <2>3, <2>4
<1> QED BY <1>3, <1>5, <1>8, <1>9 DEF RingsOK, NoDanglingFrame

(* The other steps of a thread leave the rings alone.                       *)
LEMMA ThreadRings ==
  ASSUME QueueMax \in Nat, RingsOK, NoDanglingFrame, NEW s \in Stages, Thread(s)
  PROVE  RingsOK' /\ NoDanglingFrame'
PROOF
<1>1. CASE UNCHANGED <<hand, queue, popped>>
  BY <1>1 DEF RingsOK, NoDanglingFrame
<1>2. CASE (\E r \in Stages : Hold(r, <<>>)) /\ UNCHANGED <<queue, popped>>
  <2>1. <<>> \in Seq(Nat) /\ Len(<<>>) <= 1 /\ Gone \notin Elements(<<>>)
    BY DEF Elements
  <2> QED BY <1>2, <2>1 DEF Hold, RingsOK, NoDanglingFrame
<1>3. CASE Push(s)
  BY <1>3, PushKeeps
<1>4. CASE Pop(s)
  BY <1>4, PopKeeps
<1>5. CASE CapturePull
  BY <1>5, PullKeeps
<1>6. CASE Leave(s) \/ InferenceLoad \/ InferenceLeave
  BY <1>1, <1>6 DEF Leave, InferenceLoad, InferenceLeave
<1>7. CASE InferenceLock \/ InferenceRun \/ PostprocessCallback
  BY <1>1, <1>2, <1>7, PipeNumbers DEF InferenceLock, InferenceRun, InferenceTake,
     InferenceDrop, PostprocessCallback
<1> QED BY <1>3, <1>4, <1>5, <1>6, <1>7 DEF Thread, Advance

(* A thread that goes to a place without a frame puts its frame down.       *)
LEMMA ThreadHands ==
  ASSUME ControlOK, RingsOK, HandsFollow, NEW s \in Stages, Thread(s)
  PROVE  HandsFollow'
PROOF
<1> DEFINE busy == {"push", "work", "infer", "callback"}
<1>1. /\ \A r \in Stages : r # s => at'[r] = at[r]
      /\ \A r \in Stages : hand[r] # <<>> => at[r] \in busy
  BY ThreadMoves DEF HandsFollow
<1>2. CASE CapturePull
  <2>1. s = Capture \/ s # Capture
    OBVIOUS
  <2>2. at' = [at EXCEPT ![Capture] = "push"]
    BY <1>2 DEF CapturePull, Goto
  <2>3. \A r \in Stages : r # Capture => hand'[r] = Ranked(hand[r])
    BY <1>2 DEF CapturePull
  <2>4. \A r \in Stages : hand[r] = <<>> => Ranked(hand[r]) = <<>>
    BY DEF Ranked
  <2>5. \A r \in Stages : r # Capture => at'[r] = at[r]
    BY <2>2 DEF ControlOK
  <2>6. at'[Capture] = "push"
    BY <2>2, PipeNumbers DEF ControlOK
  <2> QED BY <1>1, <2>3, <2>4, <2>5, <2>6 DEF HandsFollow
<1>3. ASSUME \A r \in Stages : r # s => hand'[r] = hand[r],
             hand'[s] # <<>> => at'[s] \in busy
      PROVE  HandsFollow'
  BY <1>1, <1>3 DEF HandsFollow
<1>4. CASE Leave(s)
  <2>1. Entry(s) \notin busy
    BY DEF Entry
  <2> QED BY <1>1, <1>3, <1>4, <2>1 DEF Leave
<1>5. CASE Push(s)
  <2>1. hand' = [hand EXCEPT ![s] = <<>>]
    BY <1>5 DEF Push, Hold
  <2> QED BY <1>3, <2>1 DEF RingsOK
<1>6. CASE Pop(s)
  <2>1. hand' = [hand EXCEPT ![s] = <<Head(queue[s - 1])>>]
    BY <1>6 DEF Pop, Hold
  <2>2. at'[s] \in busy
    BY <1>6, PipeNumbers DEF Pop, Goto, ControlOK
  <2> QED BY <1>3, <2>1, <2>2 DEF RingsOK
<1>7. CASE s = Inference /\ (InferenceLoad \/ InferenceLeave)
  <2>1. hand' = hand /\ at[s] \notin busy
    BY <1>7 DEF InferenceLoad, InferenceLeave
  <2> QED BY <1>1, <1>3, <2>1
<1>8. CASE s = Inference /\ (InferenceLock \/ InferenceRun)
  <2>1. CASE hand' = hand /\ (Goto(s, "infer") \/ Goto(s, "push"))
    <3>1. at'[s] \in busy
      BY <2>1 DEF Goto, ControlOK
    <3> QED BY <1>3, <2>1, <3>1
  <2>2. CASE Hold(s, <<>>)
    BY <1>3, <2>2 DEF Hold, RingsOK
  <2> QED BY <1>8, <2>1, <2>2 DEF InferenceLock, InferenceRun, InferenceTake, InferenceDrop
<1>9. CASE s = Postprocess /\ PostprocessCallback
  BY <1>3, <1>9 DEF PostprocessCallback, Hold, RingsOK
<1> QED BY <1>2, <1>4, <1>5, <1>6, <1>7, <1>8, <1>9 DEF Thread, Advance

LEMMA ThreadKeeps ==
  ASSUME QueueMax \in Nat, PipeInv, NEW s \in Stages, Thread(s)
  PROVE  PipeInv'
PROOF
<1>1. ControlOK /\ RingsOK
  BY DEF PipeInv, PipeTypeOK
<1>2. /\ UNCHANGED <<running, stageLock, created, mgr>>
      /\ at[s] # "off"
      /\ \A r \in Stages : r # s => at'[r] = at[r]
      /\ ControlOK'
  BY <1>1, ThreadMoves
<1>3. RingsOK' /\ NoDanglingFrame'
  BY <1>1, ThreadRings DEF PipeInv
<1>4. HandsFollow'
  BY <1>1, ThreadHands DEF PipeInv
<1>5. StagesFollow'
  <2>1. ~AllOff /\ ~(mgr.at \in {"lockStart", "create"}) /\ created /\ mgr.at # "drain"
    BY <1>2 DEF PipeInv, StagesFollow, AllOff
  <2> QED BY <1>2, <2>1 DEF PipeInv, StagesFollow
<1> QED BY <1>2, <1>3, <1>4, <1>5 DEF PipeInv, PipeTypeOK

(* A step of the scheduler thread keeps the types. *)
LEMMA SchedulerTypes ==
  ASSUME ControlOK,
         Scheduler \/ \E op \in {"start", "stop", "switch"} : Command(op)
  PROVE  ControlOK'
PROOF
<1>1. CASE \E op \in {"start", "stop", "switch"} : Command(op)
  BY <1>1 DEF Command, ControlOK
<1>2. CASE StopLock \/ StopSignal
  BY <1>2, PipeNumbers DEF StopLock, StopSignal, ControlOK
<1>3. CASE StopJoin
  <2>1. mgr.stage # 4 => mgr.stage + 1 \in Stages
    BY PipeNumbers DEF ControlOK
  <2> QED BY <1>3, <2>1, PipeNumbers DEF StopJoin, ControlOK
<1>4. CASE StopDrain
  BY <1>4, PipeNumbers DEF StopDrain, ControlOK
<1>5. CASE StartCreate
  BY <1>5, PipeNumbers DEF StartCreate, ControlOK
<1>6. CASE StartLock \/ SwitchLock \/ SwitchModelLock
  BY <1>6 DEF StartLock, SwitchLock, SwitchModelLock, ControlOK
<1>7. CASE StartLaunch
  <2>1. Entry(mgr.stage) \in {"pull", "load", "pop"}
    BY DEF Entry
  <2>2. mgr.stage # 1 => mgr.stage - 1 \in Stages
    BY PipeNumbers DEF ControlOK
  <2> QED BY <1>7, <2>1, <2>2, PipeNumbers DEF StartLaunch, Goto, ControlOK
<1>8. CASE SwitchModel
  BY <1>8 DEF SwitchModel, ControlOK
<1> QED BY <1>1, <1>2, <1>3, <1>4, <1>5, <1>6, <1>7, <1>8 DEF Scheduler

(* The row of joined threads grows to all of them, the row of threads that are  *)
(* not launched shrinks to none.                                                *)
LEMMA SchedulerFollows ==
  ASSUME ControlOK, StagesFollow,
         Scheduler \/ \E op \in {"start", "stop", "switch"} : Command(op)
  PROVE  StagesFollow'
PROOF
<1>1. CASE \E op \in {"start", "stop", "switch"} : Command(op)
  BY <1>1 DEF Command, ControlOK, StagesFollow, AllOff
<1>2. CASE StopLock
  BY <1>2, PipeNumbers DEF StopLock, ControlOK, StagesFollow, AllOff
<1>3. CASE StopSignal
  BY <1>3 DEF StopSignal, ControlOK, StagesFollow, AllOff
<1>4. CASE StopJoin
  BY <1>4, PipeNumbers DEF StopJoin, ControlOK, StagesFollow, AllOff
<1>5. CASE StopDrain
  BY <1>5 DEF StopDrain, Drain, ControlOK, StagesFollow, AllOff, QueuesEmpty
<1>6. CASE StartLock
  BY <1>6 DEF StartLock, ControlOK, StagesFollow, AllOff, QueuesEmpty
<1>7. CASE StartCreate
  BY <1>7 DEF StartCreate, ControlOK, StagesFollow, AllOff
<1>8. CASE StartLaunch
  BY <1>8, PipeNumbers DEF StartLaunch, Goto, ControlOK, StagesFollow, AllOff
<1>9. CASE SwitchLock \/ SwitchModelLock \/ SwitchModel
  BY <1>9 DEF SwitchLock, SwitchModelLock, SwitchModel, ControlOK,
     StagesFollow, AllOff
<1> QED BY <1>1, <1>2, <1>3, <1>4, <1>5, <1>6, <1>7, <1>8, <1>9 DEF Scheduler

(* Of its steps, those that touch a frame or a place of a stage.                *)
LEMMA SchedulerRings ==
  ASSUME QueueMax \in Nat, PipeInv,
         Scheduler \/ \E op \in {"start", "stop", "switch"} : Command(op)
  PROVE  RingsOK' /\ NoDanglingFrame' /\ HandsFollow'
PROOF
<1>1. ControlOK /\ RingsOK /\ NoDanglingFrame /\ HandsFollow /\ StagesFollow
  BY DEF PipeInv, PipeTypeOK
<1>2. CASE UNCHANGED <<at, hand, queue, popped>>
  BY <1>1, <1>2 DEF RingsOK, NoDanglingFrame, HandsFollow
<1>3. CASE StopDrain
  <2>1. RingsOK' /\ NoDanglingFrame'
    BY <1>1, <1>3, DrainKeeps
  <2> QED BY <1>1, <1>3, <2>1 DEF StopDrain, HandsFollow
<1>4. CASE StartCreate
  BY <1>4, CreateKeeps DEF HandsFollow
<1>5. CASE StartLaunch
  <2>1. UNCHANGED <<hand, queue, popped>>
    BY <1>5 DEF StartLaunch
  <2>2. RingsOK' /\ NoDanglingFrame'
    BY <1>1, <2>1 DEF RingsOK, NoDanglingFrame
  <2>3. at[mgr.stage] = "off" /\ mgr.stage \in Stages
    BY <1>1, <1>5, PipeNumbers DEF StartLaunch, StagesFollow, ControlOK
  <2>4. hand[mgr.stage] = <<>>
    BY <1>1, <2>3 DEF HandsFollow
  <2>5. \A s \in Stages : s # mgr.stage => at'[s] = at[s]
    BY <1>1, <1>5 DEF StartLaunch, Goto, ControlOK
  <2> QED BY <1>1, <2>1, <2>2, <2>4, <2>5 DEF HandsFollow
<1>6. CASE \E op \in {"start", "stop", "switch"} : Command(op)
  BY <1>2, <1>6 DEF Command
<1>7. CASE StopLock \/ StopSignal \/ StopJoin \/ StartLock
  BY <1>2, <1>7 DEF StopLock, StopSignal, StopJoin, StartLock
<1>8. CASE SwitchLock \/ SwitchModelLock \/ SwitchModel
  BY <1>2, <1>8 DEF SwitchLock, SwitchModelLock, SwitchModel
<1> QED BY <1>3, <1>4, <1>5, <1>6, <1>7, <1>8 DEF Scheduler

LEMMA PipeInductive == PipeSpec => []PipeInv
PROOF
<1> USE QueueMaxAssumption
<1>1. PipeInit => PipeInv
  BY PipeStarts
<1>2. PipeInv /\ [PipeNext]_pipeVars => PipeInv'
  <2> SUFFICES ASSUME PipeInv, [PipeNext]_pipeVars PROVE PipeInv'
    OBVIOUS
  <2>1. ASSUME NEW s \in Stages, Thread(s) PROVE PipeInv'
    BY <2>1, ThreadKeeps
  <2>2. CASE Scheduler \/ \E op \in {"start", "stop", "switch"} : Command(op)
    BY <2>2, SchedulerTypes, SchedulerFollows, SchedulerRings DEF PipeInv, PipeTypeOK
  <2>3. CASE UNCHANGED pipeVars
    BY <2>3 DEF pipeVars, PipeInv, PipeTypeOK, ControlOK, RingsOK, StagesFollow, AllOff,
       QueuesEmpty, HandsFollow, NoDanglingFrame
  <2> QED BY <2>1, <2>2, <2>3 DEF PipeNext
<1> QED BY <1>1, <1>2, PTL DEF PipeSpec

(* Stages, places, rings and the scheduler's state are of their kinds, no queue *)
(* holds more than it has room for, and no ring refers to more frames than it   *)
(* has cells.                                                                   *)
THEOREM PipelineTypes == PipeSpec => []PipeTypeOK
PROOF
<1>1. PipeInv => PipeTypeOK
  BY DEF PipeInv
<1> QED BY <1>1, PipeInductive, PTL

(* No stage ever works on, or waits for, a frame of a pool that start() has     *)
(* destroyed (Pipeline.cpp 31-34), for queues and pools of any size.            *)
THEOREM NoFrameOutlivesPool == PipeSpec => []NoDanglingFrame
PROOF
<1>1. PipeInv => NoDanglingFrame
  BY DEF PipeInv
<1> QED BY <1>1, PipeInductive, PTL
=============================================================================
