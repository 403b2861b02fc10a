-------------------------- MODULE ShmSeqlockProofs --------------------------
(***************************************************************************)
(* That no reader gets an old block, none torn by more than the next       *)
(* publication into its buffer, and in the life of one core none that is   *)
(* more than one publication behind the last, for any number of readers,   *)
(* words, attempts, publications and crashes.                              *)
(*                                                                         *)
(* The sequence number a reader compares only says something together with *)
(* what the publisher is doing: under an even number stands the block that *)
(* was completed with it, and words of the one under way that passed the   *)
(* odd number; as long as the number has not moved a reader has copied     *)
(* nothing else.  A reader that no restart of the core has disturbed finds *)
(* the segment settled.                                                    *)
(*                                                                         *)
(* The crashes end in a restart by the watchdog.  What holds of it stands  *)
(* in the second half, about Watchdog: its table of children is exact, and *)
(* it starts no program too often.                                         *)
(***************************************************************************)
EXTENDS ShmSeqlock, Watchdog, Sequences, SequenceTheorems, WellFoundedInduction, TLAPS

ReaderStates ==
  [at : {"idle", "index", "seq", "copy"}, idx : Bufs, s1 : Nat, todo : SUBSET Words,
   copy : [Words -> Nat], left : Nat, from : Nat, overlap : BOOLEAN]

Settled == toClear = NoCells

\* What holds of the buffers while publish() is in each of its steps.
PubAgrees ==
  /\ published <= version
  /\ pub.at \in {"idle", "write", "flip"} => Settled
  /\ pub.at \in {"idle", "flip"} => ~Odd(seq[0]) /\ ~Odd(seq[1])
  /\ pub.at = "write" =>
       /\ ~Odd(pub.cur)
       /\ ~Odd(seq[readIndex])
       /\ pub.odd => seq[pub.target] = pub.cur + 1
       /\ ~pub.odd => seq[pub.target] = pub.cur
  /\ pub.at \in {"write", "flip"} =>
       /\ pub.target = 1 - readIndex
       /\ \A w \in Words \ pub.todo : buffers[pub.target][w] = version
  /\ pub.at = "flip" => pub.todo = {}

\* What the memset has passed is zero.
ClearAgrees ==
  pub.at = "clear" =>
    /\ published = 0
    /\ \A b \in Bufs : b \notin toClear.seqs => seq[b] = 0
    /\ \A b \in Bufs, w \in Words : <<b, w>> \notin toClear.words => buffers[b][w] = 0

CurrentIsFresh ==
  Settled => \A w \in Words : buffers[readIndex][w] >= published

Attempting(r) == rd[r].at \in {"seq", "copy"} /\ ~rd[r].overlap

\* What an attempt that no restart has disturbed knows of its buffer.
AttemptAgrees(r) ==
  /\ Settled
  /\ rd[r].from <= version
  /\ \A w \in Words : buffers[rd[r].idx][w] >= rd[r].from

CopyAgrees(r) ==
  /\ ~Odd(rd[r].s1)
  /\ rd[r].s1 <= seq[rd[r].idx]
  /\ \A w \in Words \ rd[r].todo : rd[r].copy[w] >= rd[r].from

RdAgrees(r) ==
  /\ rd[r].at # "idle" => rd[r].left # 0
  /\ Attempting(r) => AttemptAgrees(r)
  /\ Attempting(r) /\ rd[r].at = "copy" => CopyAgrees(r)

IInv ==
  /\ TypeOK
  /\ PubAgrees /\ ClearAgrees
  /\ CurrentIsFresh
  /\ \A r \in Readers : RdAgrees(r)
  /\ NotStale

-----------------------------------------------------------------------------
(* The status block of a core that has published nothing. *)
LEMMA InitIInv == Init => IInv
PROOF
<1> SUFFICES ASSUME Init PROVE IInv
  OBVIOUS
<1> USE DEF Init
<1>1. TypeOK
  BY RetriesAssumption DEF TypeOK, Blank, Resting, NoCells, Bufs
<1>2. PubAgrees
  BY DEF PubAgrees, Settled, Resting, Odd, Bufs
<1>3. ClearAgrees /\ CurrentIsFresh
  BY DEF ClearAgrees, CurrentIsFresh, Blank, Bufs
<1>4. \A r \in Readers : RdAgrees(r)
  BY DEF RdAgrees, Attempting
<1>5. NotStale
  <2> SUFFICES ASSUME NEW r \in Readers, NEW w \in Words
               PROVE  accepted[r].block[w] >= accepted[r].from
    BY Zenon DEF NotStale
  <2>1. accepted[r].block[w] = 0 /\ accepted[r].from = 0
    BY DEF Blank
  <2> QED BY <2>1
<1> QED BY <1>1, <1>2, <1>3, <1>4, <1>5 DEF IInv

-----------------------------------------------------------------------------
(* publish() *)

(* The two buffers are two: what publish() writes is not what readers are *)
(* directed to.                                                           *)
LEMMA TargetFacts ==
  ASSUME TypeOK, PubAgrees, pub.at \in {"write", "flip"}
  PROVE  /\ pub.target \in Bufs /\ readIndex \in Bufs
         /\ pub.target # readIndex
         /\ \A b \in Bufs : b = pub.target \/ b = readIndex
PROOF
<1>1. pub.target \in Bufs /\ readIndex \in Bufs /\ pub.target = 1 - readIndex
  BY DEF TypeOK, PubAgrees
<1> QED BY <1>1 DEF Bufs

(* Choosing the buffer changes nothing that is shared. *)
LEMMA PublishBeginKeeps == IInv /\ PublishBegin => IInv'
PROOF
<1> SUFFICES ASSUME IInv, PublishBegin PROVE IInv'
  OBVIOUS
<1> USE DEF IInv, PublishBegin, pubVars, rdVars
<1>1. TypeOK'
  BY DEF TypeOK, Bufs
<1>2. PubAgrees'
  BY DEF PubAgrees, TypeOK, Settled, Bufs
<1>3. ClearAgrees' /\ CurrentIsFresh'
  BY DEF ClearAgrees, CurrentIsFresh, Settled
<1>4. \A r \in Readers : RdAgrees(r)'
  BY DEF RdAgrees, Attempting, AttemptAgrees, CopyAgrees, Settled, TypeOK
<1>5. NotStale'
  BY DEF NotStale
<1> QED BY <1>1, <1>2, <1>3, <1>4, <1>5

(* The sequence number of a buffer moves on: no copy under way is of the *)
(* number that stands there now.                                         *)
LEMMA SeqMovesOn ==
  ASSUME TypeOK, NEW r \in Readers, RdAgrees(r), NEW b \in Bufs, NEW n \in Nat,
         n > seq[b], seq' = [seq EXCEPT ![b] = n],
         UNCHANGED <<buffers, toClear, rd, version>>
  PROVE  RdAgrees(r)'
PROOF
<1>1. rd[r].idx \in Bufs /\ rd[r].s1 \in Nat /\ seq \in [Bufs -> Nat]
  BY DEF TypeOK
<1>2. seq'[rd[r].idx] = (IF rd[r].idx = b THEN n ELSE seq[rd[r].idx])
  BY <1>1
<1>3. Attempting(r)' = Attempting(r) /\ AttemptAgrees(r)' = AttemptAgrees(r)
  BY DEF Attempting, AttemptAgrees, Settled
<1>4. CopyAgrees(r) => CopyAgrees(r)'
  BY <1>1, <1>2 DEF CopyAgrees
<1> QED BY <1>3, <1>4 DEF RdAgrees

(* The number becomes odd over a buffer that is still as it was. *)
LEMMA PublishOddKeeps == IInv /\ PublishOdd => IInv'
PROOF
<1> SUFFICES ASSUME IInv, PublishOdd PROVE IInv'
  OBVIOUS
<1> USE DEF IInv, PublishOdd, pubVars, rdVars
<1>1. /\ pub.target \in Bufs /\ readIndex \in Bufs /\ pub.target # readIndex
      /\ \A b \in Bufs : b = pub.target \/ b = readIndex
      /\ seq \in [Bufs -> Nat] /\ pub.cur \in Nat /\ seq[pub.target] = pub.cur
  BY TargetFacts DEF TypeOK, PubAgrees
<1>2. pub.cur + 1 \in Nat /\ pub.cur + 1 > seq[pub.target] /\ Odd(pub.cur + 1)
  BY <1>1 DEF PubAgrees, Odd
<1>3. /\ seq' \in [Bufs -> Nat]
      /\ seq'[pub.target] = pub.cur + 1 /\ seq'[readIndex] = seq[readIndex]
  BY <1>1, <1>2
<1>4. pub' \in [at : {"idle", "write", "flip", "dead", "clear"}, target : Bufs,
                cur : Nat, odd : BOOLEAN, todo : SUBSET Words]
  BY DEF TypeOK
<1>5. TypeOK'
  BY <1>3, <1>4 DEF TypeOK
<1>6. PubAgrees'
  BY <1>1, <1>3 DEF PubAgrees, TypeOK, Settled
<1>7. ClearAgrees' /\ CurrentIsFresh'
  BY DEF ClearAgrees, CurrentIsFresh, Settled
<1>8. \A r \in Readers : RdAgrees(r)'
  BY <1>1, <1>2, SeqMovesOn
<1>9. NotStale'
  BY DEF NotStale
<1> QED BY <1>5, <1>6, <1>7, <1>8, <1>9

(* A word of the buffer that readers are not directed to. *)
LEMMA PublishWordKeeps ==
  ASSUME IInv, NEW v \in Words, PublishWord(v) PROVE IInv'
PROOF
<1> USE DEF IInv, PublishWord, pubVars, rdVars
<1> DEFINE t == pub.target
<1>1. /\ t \in Bufs /\ readIndex \in Bufs /\ t # readIndex
      /\ \A b \in Bufs : b = t \/ b = readIndex
      /\ buffers \in [Bufs -> [Words -> Nat]] /\ version \in Nat /\ seq \in [Bufs -> Nat]
      /\ pub.cur \in Nat
  BY TargetFacts DEF TypeOK
<1>2. /\ buffers' \in [Bufs -> [Words -> Nat]]
      /\ buffers'[t] = [buffers[t] EXCEPT ![v] = version]
      /\ buffers'[readIndex] = buffers[readIndex]
  BY <1>1
<1>3. pub' \in [at : {"idle", "write", "flip", "dead", "clear"}, target : Bufs,
                cur : Nat, odd : BOOLEAN, todo : SUBSET Words]
  BY DEF TypeOK
<1>4. \A w \in Words : buffers'[t][w] = (IF w = v THEN version ELSE buffers[t][w])
  BY <1>1, <1>2
<1>5. TypeOK'
  BY <1>2, <1>3 DEF TypeOK
<1>6. PubAgrees'
  BY <1>4 DEF PubAgrees, TypeOK, Settled
<1>7. ClearAgrees' /\ CurrentIsFresh'
  BY <1>2 DEF ClearAgrees, CurrentIsFresh, Settled
<1>8. ASSUME NEW r \in Readers PROVE RdAgrees(r)'
  <2>1. /\ rd[r].idx \in Bufs /\ rd[r].from \in Nat /\ rd[r].s1 \in Nat
        /\ rd[r].idx = t \/ rd[r].idx = readIndex
    BY <1>1 DEF TypeOK
  <2>2. Attempting(r)' = Attempting(r)
    BY DEF Attempting
  <2>3. AttemptAgrees(r) => AttemptAgrees(r)'
    BY <1>1, <1>2, <1>4, <2>1 DEF AttemptAgrees, Settled
  <2>4. CopyAgrees(r) => CopyAgrees(r)'
    BY <1>2, <2>1 DEF CopyAgrees
  <2> QED BY <2>2, <2>3, <2>4 DEF RdAgrees
<1>9. NotStale'
  BY DEF NotStale
<1> QED BY <1>5, <1>6, <1>7, <1>8, <1>9

(* The number becomes even over a whole block. *)
LEMMA PublishEvenKeeps == IInv /\ PublishEven => IInv'
PROOF
<1> SUFFICES ASSUME IInv, PublishEven PROVE IInv'
  OBVIOUS
<1> USE DEF IInv, PublishEven, pubVars, rdVars
<1>1. /\ pub.target \in Bufs /\ readIndex \in Bufs /\ pub.target # readIndex
      /\ \A b \in Bufs : b = pub.target \/ b = readIndex
      /\ seq \in [Bufs -> Nat] /\ pub.cur \in Nat /\ seq[pub.target] = pub.cur + 1
  BY TargetFacts DEF TypeOK, PubAgrees
<1>2. pub.cur + 2 \in Nat /\ pub.cur + 2 > seq[pub.target] /\ ~Odd(pub.cur + 2)
  BY <1>1 DEF PubAgrees, Odd
<1>3. /\ seq' \in [Bufs -> Nat]
      /\ seq'[pub.target] = pub.cur + 2 /\ seq'[readIndex] = seq[readIndex]
  BY <1>1, <1>2
<1>4. pub' \in [at : {"idle", "write", "flip", "dead", "clear"}, target : Bufs,
                cur : Nat, odd : BOOLEAN, todo : SUBSET Words]
  BY DEF TypeOK
<1>5. TypeOK'
  BY <1>3, <1>4 DEF TypeOK
<1>6. PubAgrees'
  <2>1. ~Odd(seq'[0]) /\ ~Odd(seq'[1])
    <3>1. ~Odd(seq'[pub.target]) /\ ~Odd(seq'[readIndex])
      BY <1>2, <1>3 DEF PubAgrees
    <3> QED BY <1>1, <3>1 DEF Bufs
  <2> QED BY <2>1 DEF PubAgrees, TypeOK, Settled
<1>7. ClearAgrees' /\ CurrentIsFresh'
  BY DEF ClearAgrees, CurrentIsFresh, Settled
<1>8. \A r \in Readers : RdAgrees(r)'
  BY <1>1, <1>2, SeqMovesOn
<1>9. NotStale'
  BY DEF NotStale
<1> QED BY <1>5, <1>6, <1>7, <1>8, <1>9

(* Readers are directed to the block that was just completed. *)
LEMMA PublishFlipKeeps == IInv /\ PublishFlip => IInv'
PROOF
<1> SUFFICES ASSUME IInv, PublishFlip PROVE IInv'
  OBVIOUS
<1> USE DEF IInv, PublishFlip, pubVars, rdVars
<1>1. pub' \in [at : {"idle", "write", "flip", "dead", "clear"}, target : Bufs,
                cur : Nat, odd : BOOLEAN, todo : SUBSET Words]
  BY DEF TypeOK
<1>2. TypeOK'
  BY <1>1, TargetFacts DEF TypeOK
<1>3. version \in Nat /\ \A w \in Words : buffers[pub.target][w] = version
  BY DEF PubAgrees, TypeOK
<1>4. PubAgrees'
  BY <1>3 DEF PubAgrees, TypeOK, Settled
<1>5. ClearAgrees' /\ CurrentIsFresh'
  BY <1>3 DEF ClearAgrees, CurrentIsFresh, Settled
<1>6. \A r \in Readers : RdAgrees(r)'
  BY DEF RdAgrees, Attempting, AttemptAgrees, CopyAgrees, Settled
<1>7. NotStale'
  BY DEF NotStale
<1> QED BY <1>2, <1>4, <1>5, <1>6, <1>7

-----------------------------------------------------------------------------
(* A crash of the core, and the constructor of the next one *)

(* Whatever the core was doing stays as it is. *)
LEMMA CrashKeeps == IInv /\ Crash => IInv'
PROOF
<1> SUFFICES ASSUME IInv, Crash PROVE IInv'
  OBVIOUS
<1> USE DEF IInv, Crash, pubVars, rdVars
<1>1. pub' \in [at : {"idle", "write", "flip", "dead", "clear"}, target : Bufs,
                cur : Nat, odd : BOOLEAN, todo : SUBSET Words]
      /\ pub'.at = "dead"
  BY DEF TypeOK
<1>2. crashes' \in Nat
  BY DEF TypeOK
<1>3. TypeOK'
  BY <1>1, <1>2 DEF TypeOK
<1>4. PubAgrees' /\ ClearAgrees'
  BY <1>1 DEF PubAgrees, ClearAgrees
<1>5. CurrentIsFresh'
  BY DEF CurrentIsFresh, Settled
<1>6. \A r \in Readers : RdAgrees(r)'
  BY DEF RdAgrees, Attempting, AttemptAgrees, CopyAgrees, Settled
<1>7. NotStale'
  BY DEF NotStale
<1> QED BY <1>3, <1>4, <1>5, <1>6, <1>7

(* From here on no attempt under way is undisturbed. *)
LEMMA RestartKeeps == IInv /\ Restart => IInv'
PROOF
<1> SUFFICES ASSUME IInv, Restart PROVE IInv'
  OBVIOUS
<1> USE DEF IInv, Restart
<1>1. /\ pub' \in [at : {"idle", "write", "flip", "dead", "clear"}, target : Bufs,
                   cur : Nat, odd : BOOLEAN, todo : SUBSET Words]
      /\ pub'.at = "clear"
  BY DEF TypeOK, Resting, Bufs
<1>2. \A r \in Readers : /\ rd'[r].at = rd[r].at /\ rd'[r].left = rd[r].left
                         /\ rd'[r].overlap
  BY DEF TypeOK
<1>3. rd' \in [Readers -> ReaderStates]
  <2>1. ASSUME NEW r \in Readers
        PROVE  [rd[r] EXCEPT !.overlap = TRUE] \in ReaderStates
    <3>1. rd[r] \in ReaderStates
      BY DEF TypeOK, ReaderStates
    <3> QED BY <3>1 DEF ReaderStates
  <2> QED BY <2>1
<1>4. TypeOK'
  BY <1>1, <1>3 DEF TypeOK, ReaderStates, AllCells
<1>5. ~Settled'
  BY DEF Settled, AllCells, NoCells
<1>6. PubAgrees' /\ ClearAgrees'
  BY <1>1 DEF PubAgrees, ClearAgrees, AllCells, TypeOK
<1>7. CurrentIsFresh'
  BY <1>5 DEF CurrentIsFresh
<1>8. \A r \in Readers : RdAgrees(r)'
  BY <1>2 DEF RdAgrees, Attempting
<1>9. NotStale'
  BY DEF NotStale
<1> QED BY <1>4, <1>6, <1>7, <1>8, <1>9

(* When the memset is through, all it leaves is a whole block of zeros in  *)
(* each buffer; before that nothing is promised of an undisturbed attempt. *)
LEMMA ClearingKeeps ==
  ASSUME IInv, ~Settled, pub.at = "clear", TypeOK', ClearAgrees',
         UNCHANGED <<pub, rdVars, version, published>>
  PROVE  IInv'
PROOF
<1> USE DEF IInv, rdVars
<1>1. PubAgrees'
  BY DEF PubAgrees
<1>2. Settled' => \A b \in Bufs, w \in Words : buffers'[b][w] = 0
  BY DEF ClearAgrees, Settled, NoCells
<1>3. CurrentIsFresh'
  BY <1>2 DEF CurrentIsFresh, ClearAgrees, TypeOK
<1>4. \A r \in Readers : RdAgrees(r)'
  BY DEF RdAgrees, Attempting, AttemptAgrees
<1>5. NotStale'
  BY DEF NotStale
<1> QED BY <1>1, <1>3, <1>4, <1>5

(* The memset passes one word. *)
LEMMA ClearWordKeeps ==
  ASSUME IInv, NEW b \in Bufs, NEW w \in Words, ClearWord(b, w) PROVE IInv'
PROOF
<1> USE DEF ClearWord, pubVars, rdVars
<1>1. ~Settled
  BY DEF Settled, NoCells
<1>2. /\ buffers' \in [Bufs -> [Words -> Nat]]
      /\ toClear' \in [words : SUBSET (Bufs \X Words), seqs : SUBSET Bufs, index : BOOLEAN]
  BY DEF IInv, TypeOK
<1>3. TypeOK'
  BY <1>2 DEF IInv, TypeOK
<1>4. ASSUME NEW c \in Bufs, NEW v \in Words, <<c, v>> \notin toClear'.words
      PROVE  buffers'[c][v] = 0
  <2>1. CASE c = b /\ v = w
    BY <2>1 DEF IInv, TypeOK
  <2>2. CASE ~(c = b /\ v = w)
    <3>1. buffers'[c][v] = buffers[c][v]
      BY <2>2 DEF IInv, TypeOK
    <3>2. <<c, v>> \notin toClear.words
      BY <1>4, <2>2 DEF IInv, TypeOK
    <3> QED BY <3>1, <3>2 DEF IInv, ClearAgrees
  <2> QED BY <2>1, <2>2
<1>5. ClearAgrees'
  <2>1. toClear'.seqs = toClear.seqs
    BY DEF IInv, TypeOK
  <2> QED BY <1>4, <2>1 DEF IInv, ClearAgrees
<1> QED BY <1>1, <1>3, <1>5, ClearingKeeps

(* A sequence number is cleared. *)
LEMMA ClearSeqKeeps ==
  ASSUME IInv, NEW b \in Bufs, ClearSeq(b) PROVE IInv'
PROOF
<1> USE DEF ClearSeq, pubVars, rdVars
<1>1. ~Settled
  BY DEF Settled, NoCells
<1>2. /\ seq' \in [Bufs -> Nat]
      /\ toClear' \in [words : SUBSET (Bufs \X Words), seqs : SUBSET Bufs, index : BOOLEAN]
  BY DEF IInv, TypeOK
<1>3. TypeOK'
  BY <1>2 DEF IInv, TypeOK
<1>4. \A c \in Bufs : c \notin toClear'.seqs => seq'[c] = 0
  BY DEF IInv, TypeOK, ClearAgrees
<1>5. ClearAgrees'
  <2>1. toClear'.words = toClear.words
    BY DEF IInv, TypeOK
  <2> QED BY <1>4, <2>1 DEF IInv, ClearAgrees
<1> QED BY <1>1, <1>3, <1>5, ClearingKeeps

(* The index is cleared. *)
LEMMA ClearIndexKeeps == IInv /\ ClearIndex => IInv'
PROOF
<1> SUFFICES ASSUME IInv, ClearIndex PROVE IInv'
  OBVIOUS
<1> USE DEF ClearIndex, pubVars, rdVars
<1>1. ~Settled
  BY DEF Settled, NoCells
<1>2. TypeOK'
  BY DEF IInv, TypeOK, Bufs
<1>3. ClearAgrees'
  BY DEF IInv, TypeOK, ClearAgrees
<1> QED BY <1>1, <1>2, <1>3, ClearingKeeps

(* The new core starts with two whole blocks and two even numbers. *)
LEMMA ClearedKeeps == IInv /\ Cleared => IInv'
PROOF
<1> SUFFICES ASSUME IInv, Cleared PROVE IInv'
  OBVIOUS
<1> USE DEF IInv, Cleared, pubVars, rdVars
<1>1. /\ pub' \in [at : {"idle", "write", "flip", "dead", "clear"}, target : Bufs,
                   cur : Nat, odd : BOOLEAN, todo : SUBSET Words]
      /\ pub'.at = "idle"
  BY DEF TypeOK
<1>2. TypeOK'
  BY <1>1 DEF TypeOK
<1>3. seq[0] = 0 /\ seq[1] = 0
  BY DEF ClearAgrees, NoCells, Bufs
<1>4. ~Odd(seq[0]) /\ ~Odd(seq[1])
  BY <1>3 DEF Odd
<1>5. PubAgrees' /\ ClearAgrees'
  BY <1>1, <1>4 DEF PubAgrees, ClearAgrees, Settled
<1>6. CurrentIsFresh'
  BY DEF CurrentIsFresh, Settled
<1>7. \A r \in Readers : RdAgrees(r)'
  BY DEF RdAgrees, Attempting, AttemptAgrees, CopyAgrees, Settled
<1>8. NotStale'
  BY DEF NotStale
<1> QED BY <1>2, <1>5, <1>6, <1>7, <1>8

-----------------------------------------------------------------------------
(* read() *)

(* A step of one reader that returns nothing: only what this reader knows *)
(* has to be looked at.                                                   *)
LEMMA ReaderKeeps ==
  ASSUME IInv, NEW r \in Readers, NEW s \in ReaderStates, rd' = [rd EXCEPT ![r] = s],
         RdAgrees(r)', UNCHANGED <<pubVars, accepted>>
  PROVE  IInv'
PROOF
<1> USE DEF IInv, pubVars
<1>1. TypeOK'
  <2>1. rd' \in [Readers -> ReaderStates]
    BY DEF TypeOK, ReaderStates
  <2> QED BY <2>1 DEF TypeOK, ReaderStates
<1>2. PubAgrees' /\ ClearAgrees' /\ CurrentIsFresh'
  BY DEF PubAgrees, ClearAgrees, CurrentIsFresh, Settled
<1>3. ASSUME NEW q \in Readers, q # r PROVE RdAgrees(q)'
  <2>1. rd'[q] = rd[q]
    BY <1>3 DEF TypeOK
  <2> QED BY <2>1 DEF RdAgrees, Attempting, AttemptAgrees, CopyAgrees, Settled
<1>4. NotStale'
  BY DEF NotStale
<1> QED BY <1>1, <1>2, <1>3, <1>4

(* A rejected attempt is the last one or has another one after it. *)
LEMMA RejectKeeps ==
  ASSUME IInv, NEW r \in Readers, rd[r].at # "idle", rd' = [rd EXCEPT ![r] = Rejected(r)],
         UNCHANGED <<pubVars, accepted>>
  PROVE  IInv'
PROOF
<1>1. rd[r] \in ReaderStates /\ rd[r].left # 0 /\ rd \in [Readers -> ReaderStates]
  BY DEF IInv, TypeOK, ReaderStates, RdAgrees
<1>2. rd[r].left - 1 \in Nat
  BY <1>1 DEF ReaderStates
<1>3. /\ Rejected(r) \in ReaderStates
      /\ Rejected(r).left = rd[r].left - 1
      /\ Rejected(r).at = IF rd[r].left = 1 THEN "idle" ELSE "index"
  BY <1>1, <1>2 DEF Rejected, ReaderStates
<1>4. rd'[r] = Rejected(r)
  BY <1>1
<1>5. RdAgrees(r)'
  BY <1>1, <1>3, <1>4 DEF RdAgrees, Attempting, ReaderStates
<1> QED BY <1>3, <1>5, ReaderKeeps

(* read() starts its first attempt. *)
LEMMA ReadBeginKeeps ==
  ASSUME IInv, NEW r \in Readers, ReadBegin(r) PROVE IInv'
PROOF
<1> DEFINE s == [rd[r] EXCEPT !.at = "index", !.left = Retries]
<1>1. rd \in [Readers -> ReaderStates]
  BY DEF IInv, TypeOK, ReaderStates
<1>2. s \in ReaderStates /\ s.at = "index" /\ s.left = Retries
  BY <1>1, RetriesAssumption DEF ReaderStates
<1>3. rd' = [rd EXCEPT ![r] = s] /\ rd'[r] = s
  BY <1>1 DEF ReadBegin
<1>4. RdAgrees(r)'
  <2>1. rd'[r].at = "index" /\ rd'[r].left = Retries
    BY <1>2, <1>3
  <2> QED BY <2>1, RetriesAssumption DEF RdAgrees, Attempting
<1> QED BY <1>2, <1>3, <1>4, ReaderKeeps DEF ReadBegin

(* The block the index names is as new as the last publication. *)
LEMMA ReadIndexKeeps ==
  ASSUME IInv, NEW r \in Readers, ReadIndex(r) PROVE IInv'
PROOF
<1> DEFINE s == [rd[r] EXCEPT !.at = "seq", !.idx = readIndex, !.from = published,
                              !.overlap = (toClear # NoCells)]
<1>1. rd \in [Readers -> ReaderStates] /\ readIndex \in Bufs /\ published \in Nat
  BY DEF IInv, TypeOK, ReaderStates
<1>2. /\ s \in ReaderStates /\ s.at = "seq" /\ s.left = rd[r].left /\ s.idx = readIndex
      /\ s.from = published /\ s.overlap = (toClear # NoCells)
  BY <1>1 DEF ReaderStates
<1>3. rd' = [rd EXCEPT ![r] = s] /\ rd'[r] = s
  BY <1>1 DEF ReadIndex
<1>4. UNCHANGED <<pubVars, accepted>> /\ rd[r].at = "index"
  BY DEF ReadIndex
<1>5. RdAgrees(r)'
  <2>1. rd[r].left # 0
    BY <1>4 DEF IInv, RdAgrees
  <2>2. ASSUME ~s.overlap PROVE AttemptAgrees(r)'
    <3>1. rd'[r].idx = readIndex /\ rd'[r].from = published
      BY <1>2, <1>3
    <3>2. /\ Settled /\ published <= version
          /\ \A w \in Words : buffers[readIndex][w] >= published
      BY <1>2, <2>2 DEF IInv, Settled, CurrentIsFresh, PubAgrees
    <3> QED BY <1>4, <3>1, <3>2 DEF AttemptAgrees, Settled, pubVars
  <2> QED BY <1>2, <1>3, <2>1, <2>2 DEF RdAgrees, Attempting
<1> QED BY <1>2, <1>3, <1>4, <1>5, ReaderKeeps

(* Under an even number the attempt goes on, under an odd one it is over. *)
LEMMA ReadSeqKeeps ==
  ASSUME IInv, NEW r \in Readers, ReadSeq(r) PROVE IInv'
PROOF
<1>1. rd \in [Readers -> ReaderStates] /\ seq \in [Bufs -> Nat]
  BY DEF IInv, TypeOK, ReaderStates
<1>2. rd[r].at = "seq" /\ UNCHANGED <<pubVars, accepted>>
  BY DEF ReadSeq
<1>3. CASE Odd(seq[rd[r].idx])
  <2>1. rd' = [rd EXCEPT ![r] = Rejected(r)]
    BY <1>3 DEF ReadSeq
  <2> QED BY <1>2, <2>1, RejectKeeps
<1>4. CASE ~Odd(seq[rd[r].idx])
  <2> DEFINE s == [rd[r] EXCEPT !.at = "copy", !.s1 = seq[rd[r].idx], !.todo = Words]
  <2>1. rd' = [rd EXCEPT ![r] = s]
    BY <1>4 DEF ReadSeq
  <2>2. seq[rd[r].idx] \in Nat
    BY <1>1 DEF ReaderStates
  <2>3. /\ s \in ReaderStates /\ s.at = "copy" /\ s.left = rd[r].left /\ s.idx = rd[r].idx
        /\ s.from = rd[r].from /\ s.overlap = rd[r].overlap
        /\ s.s1 = seq[rd[r].idx] /\ s.todo = Words
    BY <1>1, <2>2 DEF ReaderStates
  <2>4. rd'[r] = s
    BY <1>1, <2>1
  <2>5. RdAgrees(r)'
    <3>1. rd[r].left # 0 /\ (~s.overlap => AttemptAgrees(r))
      BY <1>2, <2>3 DEF IInv, RdAgrees, Attempting
    <3>2. ~s.overlap => AttemptAgrees(r)'
      BY <1>2, <2>3, <2>4, <3>1 DEF AttemptAgrees, Settled, pubVars
    <3>3. CopyAgrees(r)'
      BY <1>2, <1>4, <2>2, <2>3, <2>4 DEF CopyAgrees, pubVars
    <3> QED BY <2>3, <2>4, <3>1, <3>2, <3>3 DEF RdAgrees, Attempting
  <2> QED BY <1>2, <2>1, <2>3, <2>5, ReaderKeeps
<1> QED BY <1>3, <1>4

(* A copied word is what stands in the buffer. *)
LEMMA ReadWordKeeps ==
  ASSUME IInv, NEW r \in Readers, NEW v \in Words, ReadWord(r, v) PROVE IInv'
PROOF
<1> DEFINE s == [rd[r] EXCEPT !.copy[v] = buffers[rd[r].idx][v], !.todo = @ \ {v}]
<1>1. rd \in [Readers -> ReaderStates] /\ buffers \in [Bufs -> [Words -> Nat]]
  BY DEF IInv, TypeOK, ReaderStates
<1>2. rd[r].at = "copy" /\ UNCHANGED <<pubVars, accepted>>
  BY DEF ReadWord
<1>3. rd' = [rd EXCEPT ![r] = s] /\ rd'[r] = s
  BY <1>1 DEF ReadWord
<1>4. buffers[rd[r].idx][v] \in Nat
  BY <1>1 DEF ReaderStates
<1>5. /\ s \in ReaderStates /\ s.at = "copy" /\ s.left = rd[r].left /\ s.idx = rd[r].idx
      /\ s.from = rd[r].from /\ s.overlap = rd[r].overlap /\ s.s1 = rd[r].s1
      /\ s.todo = rd[r].todo \ {v}
      /\ \A w \in Words : s.copy[w] = IF w = v THEN buffers[rd[r].idx][v] ELSE rd[r].copy[w]
  BY <1>1, <1>2, <1>4 DEF ReaderStates
<1>6. RdAgrees(r)'
  <2>1. rd[r].left # 0 /\ (~s.overlap => AttemptAgrees(r) /\ CopyAgrees(r))
    BY <1>2, <1>5 DEF IInv, RdAgrees, Attempting
  <2>2. ~s.overlap => AttemptAgrees(r)'
    BY <1>2, <1>3, <1>5, <2>1 DEF AttemptAgrees, Settled, pubVars
  <2>3. ~s.overlap => CopyAgrees(r)'
    BY <1>2, <1>3, <1>5, <2>1 DEF AttemptAgrees, CopyAgrees, pubVars
  <2> QED BY <1>3, <1>5, <2>1, <2>2, <2>3 DEF RdAgrees, Attempting
<1> QED BY <1>2, <1>3, <1>5, <1>6, ReaderKeeps

(* The number has not moved: what was copied is what stands there, and under *)
(* an even number a whole block stands there.                                *)
LEMMA ReadAcceptKeeps ==
  ASSUME IInv, NEW r \in Readers, ReadAccept(r) PROVE IInv'
PROOF
<1> USE DEF IInv
<1> DEFINE a == [block |-> rd[r].copy, idx |-> rd[r].idx, from |-> rd[r].from,
                 overlap |-> rd[r].overlap]
           s == [rd[r] EXCEPT !.at = "idle"]
<1>1. rd \in [Readers -> ReaderStates]
  BY DEF TypeOK, ReaderStates
<1>2. s \in ReaderStates /\ s.at = "idle" /\ rd' = [rd EXCEPT ![r] = s]
  BY <1>1 DEF ReaderStates, ReadAccept
<1>3. /\ UNCHANGED pubVars /\ rd[r].at = "copy" /\ rd[r].todo = {}
      /\ seq[rd[r].idx] = rd[r].s1
      /\ accepted' = [accepted EXCEPT ![r] = a]
  BY DEF ReadAccept
<1>4. TypeOK'
  <2>1. rd' \in [Readers -> ReaderStates]
    BY <1>1, <1>2
  <2>2. a \in [block : [Words -> Nat], idx : Bufs, from : Nat, overlap : BOOLEAN]
    BY <1>1 DEF ReaderStates
  <2> QED BY <1>3, <2>1, <2>2 DEF TypeOK, ReaderStates, pubVars
<1>5. PubAgrees' /\ ClearAgrees' /\ CurrentIsFresh'
  BY <1>3 DEF PubAgrees, ClearAgrees, CurrentIsFresh, Settled, pubVars
<1>6. ASSUME NEW q \in Readers PROVE RdAgrees(q)'
  <2>1. CASE q = r
    BY <1>1, <1>2, <2>1 DEF RdAgrees, Attempting
  <2>2. CASE q # r
    <3>1. rd'[q] = rd[q]
      BY <1>1, <1>2, <2>2
    <3> QED BY <1>3, <3>1 DEF RdAgrees, Attempting, AttemptAgrees, CopyAgrees, Settled, pubVars
  <2> QED BY <2>1, <2>2
<1>7. ~rd[r].overlap => /\ Settled /\ ~Odd(seq[rd[r].idx])
                        /\ \A w \in Words : rd[r].copy[w] >= rd[r].from
  BY <1>3 DEF RdAgrees, Attempting, AttemptAgrees, CopyAgrees
<1>8. accepted'[r] = a /\ \A q \in Readers : q # r => accepted'[q] = accepted[q]
  BY <1>3 DEF TypeOK
<1>9. NotStale'
  BY <1>7, <1>8 DEF NotStale
<1> QED BY <1>4, <1>5, <1>6, <1>9

(* The number has moved: what was copied is dropped. *)
LEMMA ReadRejectKeeps ==
  ASSUME IInv, NEW r \in Readers, ReadReject(r) PROVE IInv'
PROOF
<1>1. rd[r].at # "idle" /\ rd' = [rd EXCEPT ![r] = Rejected(r)]
      /\ UNCHANGED <<pubVars, accepted>>
  BY DEF ReadReject
<1> QED BY <1>1, RejectKeeps

-----------------------------------------------------------------------------
(* IInv is inductive. *)
LEMMA NextKeeps == IInv /\ [Next]_vars => IInv'
PROOF
<1> SUFFICES ASSUME IInv, [Next]_vars PROVE IInv'
  OBVIOUS
<1>1. CASE Publisher
  BY <1>1, PublishBeginKeeps, PublishOddKeeps, PublishWordKeeps, PublishEvenKeeps,
     PublishFlipKeeps DEF Publisher
<1>2. CASE Crash
  BY <1>2, CrashKeeps
<1>3. CASE Recovery
  BY <1>3, RestartKeeps, ClearWordKeeps, ClearSeqKeeps, ClearIndexKeeps, ClearedKeeps
     DEF Recovery
<1>4. ASSUME NEW r \in Readers, Reader(r) PROVE IInv'
  BY <1>4, ReadBeginKeeps, ReadIndexKeeps, ReadSeqKeeps, ReadWordKeeps, ReadAcceptKeeps,
     ReadRejectKeeps DEF Reader
<1>5. CASE UNCHANGED vars
  BY <1>5 DEF IInv, vars, TypeOK, PubAgrees, ClearAgrees, CurrentIsFresh,
     RdAgrees, Attempting, AttemptAgrees, CopyAgrees, NotStale, Settled
<1> QED BY <1>1, <1>2, <1>3, <1>4, <1>5 DEF Next

(* IInv holds throughout. *)
LEMMA Inductive == Spec => []IInv
PROOF
<1>1. Init => IInv
  BY InitIInv
<1>2. IInv /\ [Next]_vars => IInv'
  BY NextKeeps
<1> QED BY <1>1, <1>2, PTL DEF Spec

(* The variables keep their types. *)
THEOREM TypeCorrect == Spec => []TypeOK
PROOF
<1>1. IInv => TypeOK
  BY DEF IInv
<1> QED BY <1>1, Inductive, PTL

(* ShmReader::read does not return a block older than the one current when *)
(* its attempt loaded read_index, whatever the order in which the stores   *)
(* of publish() become visible.                                            *)
THEOREM ReadsAreNotStale == Spec => []NotStale
PROOF
<1>1. IInv => NotStale
  BY DEF IInv
<1> QED BY <1>1, Inductive, PTL

-----------------------------------------------------------------------------
(* What a torn block is made of.  The number that stands at a buffer tells,     *)
(* together with the index and the state of publish(), which publications its   *)
(* words can be of.                                                             *)

Other == 1 - readIndex

\* The publication over which the number of the other buffer was last made even.
Prev(b) == IF seq[b] = 0 THEN 0 ELSE published - 1

\* The publications that the words of a buffer with an even number can be of.
Found(b) ==
  IF b = readIndex THEN {published}
  ELSE IF pub.target = readIndex THEN {Prev(b)}
  ELSE IF seq[b] = pub.cur + 2 THEN {version}
  ELSE {Prev(b), version}

\* No publication is under way, or the core died when none was.
Between ==
  /\ version = published \/ (published = 0 /\ crashes > 0)
  /\ published = 0 => seq[Other] = 0

\* One is, or the core died when one was.
UnderWay ==
  /\ version > 0
  /\ version = published + 1 \/ (published = 0 /\ crashes > 0)
  /\ ~Odd(pub.cur)
  /\ seq[Other] \in {pub.cur, pub.cur + 1, pub.cur + 2}
  /\ published = 0 => pub.cur = 0

Turns ==
  /\ published = 0 <=> seq[readIndex] = 0
  /\ pub.target = readIndex => Between
  /\ pub.target = Other => UnderWay
  /\ pub.at = "idle" => pub.target = readIndex
  /\ pub.at = "write" => pub.target = Other /\ seq[Other] # pub.cur + 2
  /\ pub.at = "flip" => pub.target = Other /\ seq[Other] = pub.cur + 2
  /\ crashes = 0 /\ seq[Other] = 0 => published <= 1

Contents == \A b \in Bufs, w \in Words : Odd(seq[b]) \/ buffers[b][w] \in Found(b)

\* The constructor of a core that follows another one.
Renewed ==
  /\ pub.at \in {"dead", "clear"} => crashes > 0
  /\ pub.at = "clear" => pub.target = 0 /\ (toClear.index \/ readIndex = 0)

CopyFound(r) ==
  Attempting(r) /\ rd[r].at = "copy" /\ seq[rd[r].idx] = rd[r].s1 =>
    \A w \in Words \ rd[r].todo : rd[r].copy[w] \in Found(rd[r].idx)

TInv ==
  /\ Renewed
  /\ Settled => Turns /\ Contents
  /\ \A r \in Readers : CopyFound(r)
  /\ TornByNextOnly

LEMMA InitTInv == Init => TInv
PROOF
<1> SUFFICES ASSUME Init PROVE TInv
  OBVIOUS
<1> USE DEF Init, Resting
<1>1. seq[0] = 0 /\ seq[1] = 0 /\ Other = 1
  BY DEF Bufs, Other
<1>2. Renewed
  BY DEF Renewed
<1>3. Turns
  BY <1>1 DEF Turns, Between, Other
<1>4. Contents
  BY <1>1 DEF Contents, Found, Prev, Blank, Bufs
<1>5. \A r \in Readers : CopyFound(r)
  BY DEF CopyFound, Attempting
<1>6. TornByNextOnly
  <2>1. \A r \in Readers : accepted[r].block = Blank
    OBVIOUS
  <2>2. \A w \in Words : Blank[w] = 0
    BY DEF Blank
  <2> QED BY <2>1, <2>2 DEF TornByNextOnly
<1> QED BY <1>2, <1>3, <1>4, <1>5, <1>6 DEF TInv

(* The two buffers, whatever publish() is doing. *)
LEMMA OtherFacts ==
  ASSUME TypeOK
  PROVE  /\ readIndex \in Bufs /\ Other \in Bufs /\ Other # readIndex
         /\ 1 - Other = readIndex
         /\ \A b \in Bufs : b = Other \/ b = readIndex
         /\ pub.target = Other \/ pub.target = readIndex
         /\ seq \in [Bufs -> Nat] /\ pub.cur \in Nat
         /\ version \in Nat /\ published \in Nat /\ crashes \in Nat
PROOF
<1>1. /\ readIndex \in {0, 1} /\ pub.target \in {0, 1}
      /\ seq \in [Bufs -> Nat] /\ pub.cur \in Nat
      /\ version \in Nat /\ published \in Nat /\ crashes \in Nat
  BY DEF TypeOK, Bufs
<1> QED BY <1>1 DEF Bufs, Other

(* A step of the publisher under which the number of a buffer stays leaves      *)
(* what can be found there.                                                     *)
LEMMA FoundStays ==
  ASSUME TypeOK, TypeOK', PubAgrees, Settled, Turns, Publisher \/ Crash,
         NEW b \in Bufs, seq'[b] = seq[b]
  PROVE  Found(b) \subseteq Found(b)'
PROOF
<1> USE OtherFacts
<1>1. CASE PublishBegin
  <2>1. /\ readIndex' = readIndex /\ published' = published /\ seq' = seq
        /\ pub.target = readIndex /\ pub'.target = Other /\ pub'.cur = seq[Other]
    BY <1>1 DEF PublishBegin, Turns, Other
  <2> QED BY <2>1 DEF Found, Prev
<1>2. CASE PublishOdd \/ PublishEven
  <2>1. /\ readIndex' = readIndex /\ published' = published /\ version' = version
        /\ pub'.target = pub.target /\ pub'.cur = pub.cur
    BY <1>2 DEF PublishOdd, PublishEven, TypeOK
  <2> QED BY <2>1 DEF Found, Prev
<1>3. CASE (\E w \in Words : PublishWord(w)) \/ Crash
  <2>1. /\ readIndex' = readIndex /\ published' = published /\ version' = version
        /\ pub'.target = pub.target /\ pub'.cur = pub.cur
    BY <1>3 DEF PublishWord, Crash, TypeOK
  <2> QED BY <2>1 DEF Found, Prev
<1>4. CASE PublishFlip
  <2>1. /\ readIndex' = Other /\ published' = version
        /\ pub.target = Other /\ pub'.target = Other /\ seq[Other] = pub.cur + 2
    BY <1>4 DEF PublishFlip, Turns, TypeOK
  <2>2. CASE b = Other
    BY <2>1, <2>2 DEF Found
  <2>3. CASE b = readIndex
    <3>1. Found(b) = {published} /\ Found(b)' = {Prev(b)'}
      BY <2>1, <2>3 DEF Found
    <3>2. published = 0 <=> seq[b] = 0
      BY <2>3 DEF Turns
    <3>3. published # 0 => version = published + 1
      BY <2>1 DEF Turns, UnderWay
    <3>4. Prev(b)' = published
      BY <2>1, <3>2, <3>3 DEF Prev
    <3> QED BY <3>1, <3>4
  <2> QED BY <2>2, <2>3
<1> QED BY <1>1, <1>2, <1>3, <1>4 DEF Publisher

\* Of one buffer at most two publications can be found, the second the first to
\* follow the other there.
LEMMA FoundFollows ==
  ASSUME TypeOK, Settled, Turns, NEW b \in Bufs, ~Odd(seq[b]),
         NEW m \in Found(b), NEW n \in Found(b)
  PROVE  m = n \/ Follows(m, n) \/ Follows(n, m)
PROOF
<1> USE OtherFacts
<1>1. CASE b = Other /\ pub.target = Other /\ seq[b] # pub.cur + 2
  <2>1. seq[b] = 0 => Follows(version, Prev(b))
    <3>1. seq[b] = 0 => Prev(b) = 0 /\ (crashes > 0 \/ version <= 2)
      BY <1>1 DEF Prev, Turns, UnderWay
    <3> QED BY <3>1 DEF Follows
  <2>2. seq[b] # 0 => Follows(version, Prev(b))
    <3>1. seq[b] # 0 /\ published # 0 => version = Prev(b) + 2
      BY <1>1 DEF Prev, Turns, UnderWay
    <3>2. seq[b] # 0 /\ published = 0 => seq[b] = 1
      BY <1>1 DEF Turns, UnderWay
    <3>3. ~(seq[b] # 0 /\ published = 0)
      BY <3>2 DEF Odd
    <3> QED BY <3>1, <3>3 DEF Follows
  <2>3. Found(b) = {Prev(b), version}
    BY <1>1 DEF Found
  <2> QED BY <2>1, <2>2, <2>3
<1>2. CASE ~(b = Other /\ pub.target = Other /\ seq[b] # pub.cur + 2)
  BY <1>2 DEF Found
<1> QED BY <1>1, <1>2

(* The publisher's turns. *)
LEMMA TurnsKeep ==
  ASSUME TypeOK, TypeOK', PubAgrees, Settled, Turns, Renewed, Publisher \/ Crash
  PROVE  Turns' /\ Renewed'
PROOF
<1> USE OtherFacts
<1>1. CASE PublishBegin
  <2>1. /\ readIndex' = readIndex /\ published' = published /\ seq' = seq
        /\ version' = version + 1 /\ crashes' = crashes
        /\ pub.target = readIndex /\ Between
        /\ pub'.at = "write" /\ pub'.target = Other /\ pub'.cur = seq[Other]
    BY <1>1 DEF PublishBegin, Turns, Other
  <2>2. ~Odd(seq[Other])
    BY <1>1 DEF PublishBegin, PubAgrees, Bufs
  <2>3. UnderWay' /\ Other' = Other
    BY <2>1, <2>2 DEF Between, UnderWay, Other
  <2> QED BY <2>1, <2>3 DEF Turns, Renewed
<1>2. CASE PublishOdd
  <2>1. /\ readIndex' = readIndex /\ published' = published /\ version' = version
        /\ crashes' = crashes /\ pub.target = Other /\ UnderWay
        /\ pub'.at = "write" /\ pub'.target = Other /\ pub'.cur = pub.cur
        /\ seq'[readIndex] = seq[readIndex] /\ seq'[Other] = pub.cur + 1
    BY <1>2 DEF PublishOdd, Turns, TypeOK
  <2>2. UnderWay' /\ Other' = Other
    BY <2>1 DEF UnderWay, Other
  <2> QED BY <2>1, <2>2 DEF Turns, Renewed
<1>3. CASE \E w \in Words : PublishWord(w)
  <2>1. /\ readIndex' = readIndex /\ published' = published /\ version' = version
        /\ crashes' = crashes /\ seq' = seq
        /\ pub'.at = pub.at /\ pub'.target = pub.target /\ pub'.cur = pub.cur
        /\ toClear' = toClear
    BY <1>3 DEF PublishWord, TypeOK
  <2> QED BY <2>1 DEF Turns, Renewed, Between, UnderWay, Other
<1>4. CASE PublishEven
  <2>1. /\ readIndex' = readIndex /\ published' = published /\ version' = version
        /\ crashes' = crashes /\ pub.target = Other /\ UnderWay
        /\ pub'.at = "flip" /\ pub'.target = Other /\ pub'.cur = pub.cur
        /\ seq'[readIndex] = seq[readIndex] /\ seq'[Other] = pub.cur + 2
    BY <1>4 DEF PublishEven, Turns, TypeOK
  <2>2. UnderWay' /\ Other' = Other
    BY <2>1 DEF UnderWay, Other
  <2> QED BY <2>1, <2>2 DEF Turns, Renewed
<1>5. CASE PublishFlip
  <2>1. /\ readIndex' = Other /\ published' = version /\ version' = version
        /\ crashes' = crashes /\ seq' = seq /\ UnderWay
        /\ seq[Other] = pub.cur + 2 /\ pub'.at = "idle" /\ pub'.target = Other
    BY <1>5 DEF PublishFlip, Turns, TypeOK
  <2>2. version > 0 /\ (crashes = 0 => version = published + 1)
    BY <2>1 DEF UnderWay
  <2>3. Other' = readIndex
    BY <2>1 DEF Other
  <2>4. Between'
    BY <2>1, <2>2, <2>3 DEF Between
  <2>5. crashes = 0 /\ seq[readIndex] = 0 => version <= 1
    BY <2>2 DEF Turns
  <2> QED BY <2>1, <2>2, <2>3, <2>4, <2>5 DEF Turns, Renewed
<1>6. CASE Crash
  <2>1. /\ readIndex' = readIndex /\ published' = published /\ version' = version
        /\ crashes' = crashes + 1 /\ seq' = seq
        /\ pub'.at = "dead" /\ pub'.target = pub.target /\ pub'.cur = pub.cur
    BY <1>6 DEF Crash, TypeOK
  <2> QED BY <2>1 DEF Turns, Renewed, Between, UnderWay, Other
<1> QED BY <1>1, <1>2, <1>3, <1>4, <1>5, <1>6 DEF Publisher

(* What stands in the buffers, as the publisher goes on. *)
LEMMA ContentsKeep ==
  ASSUME IInv, TypeOK', Turns, Contents, Turns', Settled, Publisher \/ Crash
  PROVE  Contents'
PROOF
<1> USE OtherFacts DEF IInv
<1> SUFFICES ASSUME NEW b \in Bufs, NEW w \in Words, ~Odd(seq'[b])
             PROVE  buffers'[b][w] \in Found(b)'
  BY DEF Contents
<1>1. buffers \in [Bufs -> [Words -> Nat]]
  BY DEF TypeOK
<1>2. CASE seq'[b] = seq[b] /\ buffers' = buffers
  BY <1>2, FoundStays DEF Contents
<1>3. CASE \E v \in Words : PublishWord(v)
  <2>1. PICK v \in Words : PublishWord(v)
    BY <1>3
  <2>2. seq' = seq /\ pub.target = Other /\ pub.at = "write" /\ version' = version
        /\ pub'.target = pub.target /\ pub'.cur = pub.cur /\ readIndex' = readIndex
        /\ buffers' = [buffers EXCEPT ![pub.target][v] = version]
    BY <2>1 DEF PublishWord, Turns, TypeOK
  <2>3. buffers'[b][w] = buffers[b][w] \/ (b = Other /\ buffers'[b][w] = version)
    BY <1>1, <2>2
  <2>4. b = Other => version \in Found(b)'
    BY <2>2 DEF Found
  <2>5. buffers[b][w] \in Found(b)'
    BY <2>2, FoundStays DEF Contents
  <2> QED BY <2>3, <2>4, <2>5
<1>4. CASE PublishOdd
  <2>1. pub.target = Other /\ seq' = [seq EXCEPT ![Other] = pub.cur + 1]
        /\ buffers' = buffers /\ ~Odd(pub.cur)
    BY <1>4 DEF PublishOdd, Turns, UnderWay
  <2>2. Odd(pub.cur + 1)
    BY <2>1 DEF Odd
  <2>3. b # Other
    BY <2>1, <2>2
  <2> QED BY <1>2, <2>1, <2>3
<1>5. CASE PublishEven
  <2>1. pub.target = Other /\ seq' = [seq EXCEPT ![Other] = pub.cur + 2]
        /\ buffers' = buffers /\ pub.at = "write" /\ pub.todo = {}
        /\ version' = version /\ readIndex' = readIndex
        /\ pub'.target = pub.target /\ pub'.cur = pub.cur
    BY <1>5 DEF PublishEven, Turns, TypeOK
  <2>2. CASE b = Other
    <3>1. buffers[b][w] = version
      BY <2>1, <2>2 DEF PubAgrees
    <3> QED BY <2>1, <2>2, <3>1 DEF Found
  <2>3. CASE b # Other
    BY <1>2, <2>1, <2>3
  <2> QED BY <2>2, <2>3
<1>6. CASE PublishBegin \/ PublishFlip \/ Crash
  <2>1. seq' = seq /\ buffers' = buffers
    BY <1>6 DEF PublishBegin, PublishFlip, Crash
  <2> QED BY <1>2, <2>1
<1> QED BY <1>3, <1>4, <1>5, <1>6 DEF Publisher

(* Under a number that has not moved a copy stays what can be found there. *)
LEMMA CopiesKeep ==
  ASSUME IInv, TypeOK', TInv, Publisher \/ Crash, NEW r \in Readers
  PROVE  CopyFound(r)'
PROOF
<1>1. rd' = rd
  BY DEF Publisher, PublishBegin, PublishOdd, PublishWord, PublishEven, PublishFlip, Crash,
     rdVars
<1> DEFINE b == rd[r].idx
<1> SUFFICES ASSUME Attempting(r)', rd[r].at = "copy", seq'[b] = rd[r].s1,
                    NEW w \in Words \ rd[r].todo
             PROVE  rd[r].copy[w] \in Found(b)'
  BY <1>1 DEF CopyFound
<1>2. PICK c \in Bufs : c = b
  BY DEF IInv, TypeOK
<1>3. Attempting(r)
  BY <1>1 DEF Attempting
<1>4. Settled /\ Turns /\ Contents /\ rd[r].s1 <= seq[c] /\ ~Odd(rd[r].s1)
  BY <1>2, <1>3 DEF IInv, RdAgrees, AttemptAgrees, CopyAgrees, TInv
<1>5. seq[c] \in Nat /\ rd[r].s1 \in Nat /\ pub.target \in Bufs /\ pub.cur \in Nat
      /\ seq \in [Bufs -> Nat]
  BY <1>2 DEF IInv, TypeOK
<1>6. seq'[c] >= seq[c]
  <2>1. CASE PublishOdd \/ PublishEven
    <3>1. seq[pub.target] \in {pub.cur, pub.cur + 1}
      BY <2>1 DEF PublishOdd, PublishEven, IInv, PubAgrees
    <3>2. /\ seq[pub.target] = pub.cur + 1 => seq' = [seq EXCEPT ![pub.target] = pub.cur + 2]
          /\ seq[pub.target] = pub.cur =>
               \E n \in {1, 2} : seq' = [seq EXCEPT ![pub.target] = pub.cur + n]
      BY <2>1, <3>1, <1>5 DEF PublishOdd, PublishEven, IInv, PubAgrees
    <3> QED BY <1>5, <3>1, <3>2
  <2>2. CASE ~(PublishOdd \/ PublishEven)
    <3>1. seq' = seq
      BY <2>2 DEF Publisher, PublishBegin, PublishWord, PublishFlip, Crash
    <3> QED BY <1>5, <3>1
  <2> QED BY <2>1, <2>2
<1>7. seq'[c] = seq[c] /\ seq[c] = rd[r].s1
  BY <1>2, <1>4, <1>5, <1>6
<1>8. Found(c) \subseteq Found(c)'
  BY <1>4, <1>7, FoundStays DEF IInv
<1>9. rd[r].copy[w] \in Found(c)
  BY <1>2, <1>3, <1>7 DEF TInv, CopyFound
<1> QED BY <1>1, <1>2, <1>8, <1>9

(* publish(), and a core that dies. *)
LEMMA PublisherKeepsTInv ==
  ASSUME IInv, IInv', TInv, Publisher \/ Crash
  PROVE  TInv'
PROOF
<1>1. Settled' = Settled /\ crashes' >= crashes /\ accepted' = accepted
  BY DEF Publisher, PublishBegin, PublishOdd, PublishWord, PublishEven, PublishFlip, Crash,
     rdVars, Settled, IInv, TypeOK
<1>2. Settled => Turns' /\ Renewed' /\ Contents'
  BY TurnsKeep, ContentsKeep DEF IInv, TInv
<1>3. Renewed'
  <2>1. CASE Settled
    BY <1>2, <2>1
  <2>2. CASE ~Settled
    <3>1. pub.at \in {"dead", "clear"}
      BY <2>2 DEF IInv, PubAgrees, TypeOK
    <3>2. Crash
      BY <3>1 DEF Publisher, PublishBegin, PublishOdd, PublishWord, PublishEven, PublishFlip
    <3>3. pub'.at = "dead" /\ crashes' > 0
      BY <3>2 DEF Crash, IInv, TypeOK
    <3> QED BY <3>3 DEF Renewed
  <2> QED BY <2>1, <2>2
<1>4. TornByNextOnly'
  BY <1>1 DEF TInv, TornByNextOnly, Follows, IInv, TypeOK
<1> QED BY <1>1, <1>2, <1>3, <1>4, CopiesKeep DEF TInv, IInv

(* The memset of the next core: what it leaves is blank, and no attempt that    *)
(* it finds under way is undisturbed.                                           *)
LEMMA RecoveryKeepsTInv ==
  ASSUME IInv, IInv', TInv, Recovery
  PROVE  TInv'
PROOF
<1> USE DEF IInv
<1>1. pub.at \in {"dead", "clear"} /\ crashes' = crashes /\ accepted' = accepted /\ crashes > 0
  BY DEF Recovery, Restart, ClearWord, ClearSeq, ClearIndex, Cleared, rdVars, TInv, Renewed
<1>2. TornByNextOnly'
  BY <1>1 DEF TInv, TornByNextOnly, Follows
<1>3. CASE Restart
  <2>1. ~Settled'
    BY <1>3 DEF Restart, Settled, AllCells, NoCells
  <2>2. Renewed'
    BY <1>1, <1>3 DEF Restart, Renewed, Resting, AllCells
  <2>3. \A r \in Readers : rd'[r].overlap
    BY <1>3 DEF Restart, TypeOK
  <2> QED BY <1>2, <2>1, <2>2, <2>3 DEF TInv, CopyFound, Attempting
<1>4. CASE ~Restart
  <2>1. pub.at = "clear" /\ rd' = rd /\ pub'.target = 0
    BY <1>4 DEF Recovery, ClearWord, ClearSeq, ClearIndex, Cleared, rdVars, TInv, Renewed,
       TypeOK
  <2>2. Renewed'
    BY <1>1, <1>4, <2>1 DEF Recovery, ClearWord, ClearSeq, ClearIndex, Cleared, TInv, Renewed,
       TypeOK
  <2>3. ASSUME Settled'
        PROVE  /\ readIndex' = 0 /\ published' = 0 /\ pub'.target = 0
               /\ \A b \in Bufs : seq'[b] = 0 /\ \A w \in Words : buffers'[b][w] = 0
               /\ pub'.at \in {"idle", "clear"}
    <3>1. CASE Cleared
      BY <2>1, <2>3, <3>1 DEF Cleared, ClearAgrees, TInv, Renewed, NoCells, TypeOK
    <3>2. CASE pub' = pub
      BY <2>1, <2>2, <2>3, <3>2 DEF ClearAgrees, Renewed, Settled, NoCells, TypeOK
    <3> QED BY <1>4, <3>1, <3>2 DEF Recovery, ClearWord, ClearSeq, ClearIndex
  <2>4. Settled' => Turns' /\ Contents'
    <3> SUFFICES ASSUME Settled' PROVE Turns' /\ Contents'
      OBVIOUS
    <3>1. Other' = 1 /\ readIndex' \in Bufs /\ Other' \in Bufs
      BY <2>3 DEF Other, Bufs
    <3>2. Turns'
      BY <1>1, <2>3, <3>1 DEF Turns, Between
    <3>3. Contents'
      BY <2>3 DEF Contents, Found, Prev
    <3> QED BY <3>2, <3>3
  <2>5. \A r \in Readers : CopyFound(r)'
    <3>1. ~Settled \/ Cleared
      <4>1. Settled => toClear.words = {} /\ toClear.seqs = {} /\ toClear.index = FALSE
        BY DEF Settled, NoCells
      <4>2. Cleared \/ toClear.words # {} \/ toClear.seqs # {} \/ toClear.index
        BY Zenon, <1>4 DEF Recovery, ClearWord, ClearSeq, ClearIndex
      <4> QED BY <4>1, <4>2
    <3>2. CASE ~Settled
      BY <2>1, <3>2 DEF RdAgrees, AttemptAgrees, CopyFound, Attempting
    <3>3. CASE Cleared
      <4>1. UNCHANGED <<buffers, seq, readIndex, version, published, rd>>
            /\ pub'.target = pub.target /\ pub'.cur = pub.cur
        BY <3>3 DEF Cleared, rdVars, TypeOK
      <4> QED BY <4>1 DEF TInv, CopyFound, Attempting, Found, Prev
    <3> QED BY <3>1, <3>2, <3>3
  <2> QED BY <1>2, <2>2, <2>4, <2>5 DEF TInv
<1> QED BY <1>3, <1>4

(* read(): a word is copied from what can be found, and what was copied under   *)
(* the same number is returned.                                                 *)
LEMMA ReaderKeepsTInv ==
  ASSUME IInv, IInv', TInv, NEW r \in Readers, Reader(r)
  PROVE  TInv'
PROOF
<1> USE DEF IInv
<1>1. /\ UNCHANGED pubVars
      /\ rd \in [Readers -> ReaderStates] /\ rd' \in [Readers -> ReaderStates]
      /\ \A q \in Readers : q # r => rd'[q] = rd[q] /\ accepted'[q] = accepted[q]
  BY DEF Reader, ReadBegin, ReadIndex, ReadSeq, ReadWord, ReadAccept, ReadReject, TypeOK,
     ReaderStates
<1>2. Renewed' /\ (Settled' => Turns' /\ Contents')
  BY <1>1 DEF TInv, Renewed, Settled, Turns, Between, UnderWay, Other, Contents, Found, Prev,
     pubVars
<1>3. \A b \in Bufs : Found(b)' = Found(b)
  BY <1>1 DEF Found, Prev, pubVars
<1>4. ASSUME NEW q \in Readers PROVE CopyFound(q)'
  <2>1. CASE q # r
    <3>1. rd'[q] = rd[q] /\ seq' = seq /\ rd[q].idx \in Bufs
      BY <1>1, <2>1 DEF pubVars, ReaderStates
    <3>2. Found(rd[q].idx)' = Found(rd[q].idx)
      BY <1>1, <3>1 DEF Found, Prev, pubVars
    <3> QED BY <3>1, <3>2 DEF TInv, CopyFound, Attempting
  <2>2. CASE q = r /\ ~(\E w \in Words : ReadWord(r, w))
    <3>1. rd'[r].at # "copy" \/ rd'[r].todo = Words
      <4>1. CASE ReadBegin(r) \/ ReadIndex(r) \/ ReadAccept(r)
        BY <1>1, <4>1 DEF ReadBegin, ReadIndex, ReadAccept, ReaderStates
      <4>2. CASE rd' = [rd EXCEPT ![r] = Rejected(r)]
        BY <1>1, <4>2 DEF Rejected, ReaderStates
      <4>3. CASE ReadSeq(r) /\ rd' # [rd EXCEPT ![r] = Rejected(r)]
        BY <1>1, <4>3 DEF ReadSeq, ReaderStates
      <4> QED BY <2>2, <4>1, <4>2, <4>3 DEF Reader, ReadReject
    <3> QED BY <2>2, <3>1 DEF CopyFound
  <2>3. CASE q = r /\ \E w \in Words : ReadWord(r, w)
    <3>1. PICK v \in Words : ReadWord(r, v)
      BY <2>3
    <3>2. /\ rd[r].at = "copy" /\ rd[r].idx \in Bufs
          /\ rd'[r].at = "copy" /\ rd'[r].idx = rd[r].idx /\ rd'[r].s1 = rd[r].s1
          /\ rd'[r].overlap = rd[r].overlap /\ rd'[r].todo = rd[r].todo \ {v}
          /\ rd'[r].copy = [rd[r].copy EXCEPT ![v] = buffers[rd[r].idx][v]]
      BY <1>1, <3>1 DEF ReadWord, ReaderStates
    <3>3. rd[r].copy \in [Words -> Nat] /\ seq' = seq
      BY <1>1 DEF ReaderStates, pubVars
    <3>4. PICK b \in Bufs : b = rd[r].idx
      BY <3>2
    <3> SUFFICES ASSUME Attempting(r), seq[b] = rd[r].s1, NEW w \in Words \ rd'[r].todo
                 PROVE  rd'[r].copy[w] \in Found(b)
      BY <1>3, <2>3, <3>2, <3>3, <3>4 DEF CopyFound, Attempting
    <3>5. Settled /\ ~Odd(seq[b])
      BY <3>2, <3>4 DEF RdAgrees, AttemptAgrees, CopyAgrees
    <3>6. buffers[b][v] \in Found(b)
      BY <3>5 DEF TInv, Contents
    <3>7. w # v => rd[r].copy[w] \in Found(b)
      BY <3>2, <3>4 DEF TInv, CopyFound
    <3> QED BY <3>2, <3>3, <3>4, <3>6, <3>7
  <2> QED BY <2>1, <2>2, <2>3
<1>5. TornByNextOnly'
  <2>1. CASE ReadAccept(r)
    <3>1. /\ accepted'[r].block = rd[r].copy /\ accepted'[r].overlap = rd[r].overlap
          /\ rd[r].at = "copy" /\ rd[r].todo = {} /\ seq[rd[r].idx] = rd[r].s1
      BY <2>1 DEF ReadAccept, TypeOK
    <3>2. PICK b \in Bufs : b = rd[r].idx
      BY <1>1 DEF ReaderStates
    <3>3. ~rd[r].overlap => Settled /\ ~Odd(seq[b]) /\ Turns
      BY <3>1, <3>2 DEF RdAgrees, Attempting, AttemptAgrees, CopyAgrees, TInv
    <3>4. ~rd[r].overlap => \A w \in Words : rd[r].copy[w] \in Found(b)
      BY <3>1, <3>2 DEF TInv, CopyFound, Attempting
    <3>5. ~rd[r].overlap => \A v, w \in Words :
            \/ rd[r].copy[v] = rd[r].copy[w]
            \/ Follows(rd[r].copy[v], rd[r].copy[w])
            \/ Follows(rd[r].copy[w], rd[r].copy[v])
      BY <3>3, <3>4, FoundFollows
    <3> QED BY <1>1, <3>1, <3>5 DEF TInv, TornByNextOnly, Follows, pubVars
  <2>2. CASE ~ReadAccept(r)
    <3>1. accepted' = accepted /\ crashes' = crashes
      BY <1>1, <2>2 DEF Reader, ReadBegin, ReadIndex, ReadSeq, ReadWord, ReadReject, pubVars
    <3> QED BY <3>1 DEF TInv, TornByNextOnly, Follows
  <2> QED BY <2>1, <2>2
<1> QED BY <1>2, <1>4, <1>5 DEF TInv

LEMMA NextKeepsTInv == IInv /\ IInv' /\ TInv /\ [Next]_vars => TInv'
PROOF
<1> SUFFICES ASSUME IInv, IInv', TInv, [Next]_vars PROVE TInv'
  OBVIOUS
<1>1. CASE Next
  BY <1>1, PublisherKeepsTInv, RecoveryKeepsTInv, ReaderKeepsTInv DEF Next
<1>2. CASE UNCHANGED vars
  <2>1. Renewed' = Renewed /\ Settled' = Settled /\ Turns' = Turns
    BY <1>2 DEF vars, Renewed, Settled, Turns, Between, UnderWay, Other
  <2>2. Contents' = Contents /\ TornByNextOnly' = TornByNextOnly
    BY <1>2 DEF vars, Contents, Found, Prev, TornByNextOnly, Follows
  <2>3. \A r \in Readers : CopyFound(r)' = CopyFound(r)
    BY <1>2 DEF vars, CopyFound, Attempting, Found, Prev
  <2> QED BY <2>1, <2>2, <2>3 DEF TInv
<1> QED BY <1>1, <1>2

(* A torn block that ShmReader::read returns mixes a publication with the next  *)
(* one into the same buffer and with no other, in whatever order the stores of  *)
(* ShmPublisher::publish between its release stores become visible.             *)
THEOREM TornByNextCorrect == Spec => []TornByNextOnly
PROOF
<1>1. Init => TInv
  BY InitTInv
<1>2. IInv /\ IInv' /\ TInv /\ [Next]_vars => TInv'
  BY NextKeepsTInv
<1>3. TInv => TornByNextOnly
  BY DEF TInv
<1> QED BY <1>1, <1>2, <1>3, Inductive, PTL DEF Spec

-----------------------------------------------------------------------------
(* The life of the first core: no reader goes back by more than one block.      *)

\* What a reader has in hand is not ahead of the publisher, and what it returned
\* last is at most one ahead of what its attempt will return.
ReaderIsClose(r) ==
  /\ ~rd[r].overlap
  /\ \A w \in Words :
       /\ rd[r].copy[w] <= version /\ accepted[r].block[w] <= version
       /\ rd[r].at \in {"seq", "copy"} => accepted[r].block[w] <= rd[r].from + 1

\* One publication at most is under way.
PublisherIsClose ==
  /\ pub.at \in {"idle", "write", "flip"}
  /\ version <= published + 1
  /\ pub.at = "idle" => version = published
  /\ \A b \in Bufs, w \in Words : buffers[b][w] <= version

FirstLife == crashes = 0 => PublisherIsClose /\ \A r \in Readers : ReaderIsClose(r)

LEMMA InitFirstLife == Init => FirstLife
BY DEF Init, FirstLife, PublisherIsClose, ReaderIsClose, Blank, Resting, Bufs

(* publish() *)
LEMMA PublisherKeepsClose ==
  ASSUME IInv, FirstLife, crashes = 0, Publisher
  PROVE  FirstLife'
PROOF
<1>1. /\ version \in Nat /\ published \in Nat /\ buffers \in [Bufs -> [Words -> Nat]]
      /\ pub.target \in Bufs
      /\ \A r \in Readers : rd[r] \in ReaderStates /\ accepted[r].block \in [Words -> Nat]
  BY DEF IInv, TypeOK, ReaderStates
<1>2. PublisherIsClose /\ \A r \in Readers : ReaderIsClose(r)
  BY DEF FirstLife
<1>3. UNCHANGED <<rd, accepted>> /\ version' \in Nat /\ version <= version'
  <2>1. UNCHANGED <<rd, accepted>> /\ (version' = version \/ version' = version + 1)
    BY DEF Publisher, PublishBegin, PublishOdd, PublishWord, PublishEven, PublishFlip, rdVars
  <2> QED BY <1>1, <2>1
<1>4. ASSUME NEW r \in Readers PROVE ReaderIsClose(r)'
  <2>1. \A w \in Words : rd[r].copy[w] \in Nat /\ accepted[r].block[w] \in Nat
    BY <1>1 DEF ReaderStates
  <2>2. \A w \in Words : rd[r].copy[w] <= version' /\ accepted[r].block[w] <= version'
    BY <1>1, <1>2, <1>3, <2>1 DEF ReaderIsClose
  <2> QED BY <1>2, <1>3, <2>2 DEF ReaderIsClose
<1>5. PublisherIsClose'
  <2>1. CASE PublishBegin
    <3>1. /\ pub'.at = "write" /\ version' = version + 1 /\ version = published
          /\ UNCHANGED <<buffers, published>>
      BY <1>2, <2>1 DEF PublishBegin, PublisherIsClose
    <3>2. \A b \in Bufs, w \in Words : buffers[b][w] \in Nat /\ buffers[b][w] <= version
      BY <1>1, <1>2 DEF PublisherIsClose
    <3>3. \A b \in Bufs, w \in Words : buffers[b][w] <= version + 1
      BY <1>1, <3>2
    <3> QED BY <1>1, <3>1, <3>3 DEF PublisherIsClose
  <2>2. CASE PublishOdd \/ PublishEven
    <3>1. pub'.at \in {"write", "flip"} /\ UNCHANGED <<buffers, version, published>>
      BY <2>2 DEF PublishOdd, PublishEven, IInv, TypeOK
    <3> QED BY <1>2, <3>1 DEF PublisherIsClose
  <2>3. CASE \E v \in Words : PublishWord(v)
    <3>1. PICK v \in Words : PublishWord(v)
      BY <2>3
    <3>2. /\ pub'.at = "write" /\ UNCHANGED <<version, published>>
          /\ buffers' = [buffers EXCEPT ![pub.target][v] = version]
      BY <3>1 DEF PublishWord, IInv, TypeOK
    <3>3. \A b \in Bufs, w \in Words :
            buffers'[b][w] = IF b = pub.target /\ w = v THEN version ELSE buffers[b][w]
      BY <1>1, <3>2
    <3> QED BY <1>1, <1>2, <3>2, <3>3 DEF PublisherIsClose
  <2>4. CASE PublishFlip
    <3>1. pub'.at = "idle" /\ published' = version /\ UNCHANGED <<version, buffers>>
      BY <2>4 DEF PublishFlip, IInv, TypeOK
    <3> QED BY <1>1, <1>2, <3>1 DEF PublisherIsClose
  <2> QED BY <2>1, <2>2, <2>3, <2>4 DEF Publisher
<1> QED BY <1>4, <1>5 DEF FirstLife

(* read() *)
LEMMA ReaderKeepsClose ==
  ASSUME IInv, FirstLife, crashes = 0, NEW r \in Readers, Reader(r)
  PROVE  FirstLife'
PROOF
<1>1. /\ version \in Nat /\ published \in Nat /\ buffers \in [Bufs -> [Words -> Nat]]
      /\ rd \in [Readers -> ReaderStates]
      /\ \A w \in Words : accepted[r].block[w] \in Nat
      /\ accepted \in [Readers -> [block : [Words -> Nat], idx : Bufs, from : Nat,
                                   overlap : BOOLEAN]]
  BY DEF IInv, TypeOK, ReaderStates
<1>2. PublisherIsClose /\ \A q \in Readers : ReaderIsClose(q)
  BY DEF FirstLife
<1>3. UNCHANGED pubVars
  BY DEF Reader, ReadBegin, ReadIndex, ReadSeq, ReadWord, ReadAccept, ReadReject
<1>4. PublisherIsClose'
  BY <1>2, <1>3 DEF PublisherIsClose, pubVars
<1>5. ASSUME NEW q \in Readers, q # r PROVE ReaderIsClose(q)'
  <2>1. rd'[q] = rd[q] /\ accepted'[q] = accepted[q]
    BY <1>1, <1>5 DEF Reader, ReadBegin, ReadIndex, ReadSeq, ReadWord, ReadAccept, ReadReject
  <2> QED BY <1>2, <1>3, <2>1 DEF ReaderIsClose, pubVars
<1>6. ReaderIsClose(r)'
  <2>1. CASE ReadBegin(r)
    <3>1. /\ rd'[r].at = "index" /\ rd'[r].copy = rd[r].copy /\ rd'[r].overlap = rd[r].overlap
          /\ accepted' = accepted
      BY <1>1, <2>1 DEF ReadBegin, ReaderStates
    <3> QED BY <1>2, <1>3, <3>1 DEF ReaderIsClose, pubVars
  <2>2. CASE ReadIndex(r)
    <3>1. /\ rd'[r].copy = rd[r].copy /\ rd'[r].overlap = (toClear # NoCells)
          /\ rd'[r].from = published /\ accepted' = accepted
      BY <1>1, <2>2 DEF ReadIndex, ReaderStates
    <3>2. toClear = NoCells
      BY <1>2 DEF PublisherIsClose, IInv, PubAgrees, Settled
    <3>3. \A w \in Words : accepted[r].block[w] <= published + 1
      <4>1. \A w \in Words : accepted[r].block[w] <= version /\ version <= published + 1
        BY <1>2 DEF PublisherIsClose, ReaderIsClose
      <4> QED BY <1>1, <4>1
    <3> QED BY <1>2, <1>3, <3>1, <3>2, <3>3 DEF ReaderIsClose, pubVars
  <2>3. CASE ReadSeq(r) \/ ReadReject(r)
    <3>1. \/ rd' = [rd EXCEPT ![r] = Rejected(r)]
          \/ /\ rd' = [rd EXCEPT ![r] = [@ EXCEPT !.at = "copy", !.s1 = seq[rd[r].idx],
                                                  !.todo = Words]]
             /\ rd[r].at = "seq"
      BY <2>3 DEF ReadSeq, ReadReject
    <3>2. /\ rd'[r].copy = rd[r].copy /\ rd'[r].overlap = rd[r].overlap
          /\ rd'[r].from = rd[r].from
          /\ rd'[r].at \in {"seq", "copy"} => rd[r].at = "seq"
      <4>1. CASE rd' = [rd EXCEPT ![r] = Rejected(r)]
        <5>1. rd'[r] = Rejected(r) /\ rd[r] \in ReaderStates
          BY <1>1, <4>1
        <5>2. /\ Rejected(r).copy = rd[r].copy /\ Rejected(r).overlap = rd[r].overlap
              /\ Rejected(r).from = rd[r].from
              /\ Rejected(r).at = IF rd[r].left = 1 THEN "idle" ELSE "index"
          BY <5>1 DEF Rejected, ReaderStates
        <5> QED BY <5>1, <5>2
      <4>2. CASE /\ rd' = [rd EXCEPT ![r] = [@ EXCEPT !.at = "copy", !.s1 = seq[rd[r].idx],
                                                      !.todo = Words]]
                 /\ rd[r].at = "seq"
        BY <1>1, <4>2 DEF ReaderStates
      <4> QED BY <3>1, <4>1, <4>2
    <3>3. accepted' = accepted
      BY <2>3 DEF ReadSeq, ReadReject
    <3> QED BY <1>2, <1>3, <3>2, <3>3 DEF ReaderIsClose, pubVars
  <2>4. CASE \E w \in Words : ReadWord(r, w)
    <3>1. PICK v \in Words : ReadWord(r, v)
      BY <2>4
    <3>2. /\ rd[r].at = "copy" /\ rd[r].idx \in Bufs /\ accepted' = accepted
          /\ rd'[r] = [rd[r] EXCEPT !.copy[v] = buffers[rd[r].idx][v], !.todo = @ \ {v}]
      BY <1>1, <3>1 DEF ReadWord, ReaderStates
    <3>3. /\ rd'[r].overlap = rd[r].overlap /\ rd'[r].at = "copy" /\ rd'[r].from = rd[r].from
          /\ \A w \in Words :
               rd'[r].copy[w] = IF w = v THEN buffers[rd[r].idx][v] ELSE rd[r].copy[w]
      BY <1>1, <3>2 DEF ReaderStates
    <3>4. \A w \in Words : rd'[r].copy[w] <= version
      BY <1>2, <3>2, <3>3 DEF PublisherIsClose, ReaderIsClose
    <3> QED BY <1>2, <1>3, <3>2, <3>3, <3>4 DEF ReaderIsClose, pubVars
  <2>5. CASE ReadAccept(r)
    <3>1. /\ rd'[r].at = "idle" /\ rd'[r].copy = rd[r].copy /\ rd'[r].overlap = rd[r].overlap
          /\ accepted'[r].block = rd[r].copy
      BY <1>1, <2>5 DEF ReadAccept, ReaderStates
    <3> QED BY <1>2, <1>3, <3>1 DEF ReaderIsClose, pubVars
  <2> QED BY <2>1, <2>2, <2>3, <2>4, <2>5 DEF Reader
<1>7. \A q \in Readers : ReaderIsClose(q)'
  BY <1>5, <1>6
<1> QED BY <1>4, <1>7 DEF FirstLife

LEMMA NextKeepsClose ==
  ASSUME IInv, FirstLife, [Next]_vars
  PROVE  FirstLife'
PROOF
<1>1. CASE UNCHANGED vars
  BY <1>1 DEF FirstLife, PublisherIsClose, ReaderIsClose, vars
<1>2. CASE crashes' # 0
  BY <1>2 DEF FirstLife
<1>3. CASE Next /\ crashes' = 0
  <2>1. crashes = 0 /\ ~Crash
    <3>1. CASE Crash
      BY <1>3, <3>1 DEF Crash, IInv, TypeOK
    <3>2. CASE ~Crash
      <4>1. crashes' = crashes
        BY <1>3, <3>2 DEF Next, Publisher, PublishBegin, PublishOdd, PublishWord, PublishEven,
          PublishFlip, Recovery, Restart, ClearWord, ClearSeq, ClearIndex, Cleared, Reader,
          ReadBegin, ReadIndex, ReadSeq, ReadWord, ReadAccept, ReadReject, pubVars
      <4> QED BY <1>3, <3>2, <4>1
    <3> QED BY <3>1, <3>2
  <2>2. ~Recovery
    BY <2>1 DEF FirstLife, PublisherIsClose, Recovery, Restart, ClearWord, ClearSeq, ClearIndex,
      Cleared
  <2> QED BY <1>3, <2>1, <2>2, PublisherKeepsClose, ReaderKeepsClose DEF Next
<1> QED BY <1>1, <1>2, <1>3

(* What a reader returns is at most one block behind what it returned last.     *)
LEMMA StepGoesBackByOne ==
  ASSUME IInv, FirstLife, FirstLife', IInv', [Next]_vars, crashes' = 0,
         NEW r \in Readers, NEW w \in Words
  PROVE  accepted'[r].block[w] + 1 >= accepted[r].block[w]
PROOF
<1>1. /\ accepted[r].block[w] \in Nat /\ rd \in [Readers -> ReaderStates]
      /\ accepted \in [Readers -> [block : [Words -> Nat], idx : Bufs, from : Nat,
                                   overlap : BOOLEAN]]
  BY DEF IInv, TypeOK, ReaderStates
<1>2. CASE accepted'[r] = accepted[r]
  BY <1>1, <1>2
<1>3. CASE ReadAccept(r)
  <2>1. /\ rd[r].at = "copy" /\ rd[r].todo = {} /\ accepted'[r].block = rd[r].copy
        /\ UNCHANGED pubVars
    BY <1>1, <1>3 DEF ReadAccept
  <2>2. crashes = 0
    BY <2>1 DEF pubVars
  <2>3. ~rd[r].overlap /\ accepted[r].block[w] <= rd[r].from + 1
    BY <2>1, <2>2 DEF FirstLife, ReaderIsClose
  <2>4. rd[r].copy[w] >= rd[r].from
    BY <2>1, <2>3 DEF IInv, RdAgrees, Attempting, CopyAgrees
  <2>5. rd[r].copy[w] \in Nat /\ rd[r].from \in Nat
    BY <1>1 DEF ReaderStates
  <2> DEFINE c == rd[r].copy[w]
             f == rd[r].from
             b == accepted[r].block[w]
  <2>6. c \in Nat /\ f \in Nat /\ b \in Nat /\ c >= f /\ b <= f + 1 /\ accepted'[r].block[w] = c
    BY <1>1, <2>1, <2>3, <2>4, <2>5
  <2> HIDE DEF c, f, b
  <2>7. accepted'[r].block[w] + 1 >= b
    BY <2>6
  <2> QED BY <2>7 DEF b
<1>4. accepted'[r] = accepted[r] \/ ReadAccept(r)
  <2>1. CASE accepted' = accepted
    BY <2>1
  <2>2. CASE \E q \in Readers : ReadAccept(q)
    BY <1>1, <2>2 DEF ReadAccept
  <2> QED BY <2>1, <2>2 DEF Next, Crash, Publisher, PublishBegin, PublishOdd, PublishWord,
    PublishEven, PublishFlip, Recovery, Restart, ClearWord, ClearSeq, ClearIndex, Cleared, Reader,
    ReadBegin, ReadIndex, ReadSeq, ReadWord, ReadReject, pubVars, rdVars, vars
<1> QED BY <1>2, <1>3, <1>4

(* As long as the core does not crash, between two reads of one reader the      *)
(* block goes back by at most one publication, the one that was under way when  *)
(* the first read met its words (ShmPublisher.cpp 59-62).                       *)
THEOREM GoesBackByOne == Spec => GoesBackByOneAtMost
PROOF
<1>1. Init => FirstLife
  BY InitFirstLife
<1>2. IInv /\ FirstLife /\ [Next]_vars => FirstLife'
  BY NextKeepsClose
<1>3. IInv /\ FirstLife /\ IInv' /\ FirstLife' /\ [Next]_vars =>
        [crashes' = 0 =>
           \A r \in Readers : \A w \in Words :
             accepted'[r].block[w] + 1 >= accepted[r].block[w]]_vars
  BY StepGoesBackByOne
<1> QED BY <1>1, <1>2, <1>3, Inductive, PTL DEF Spec, GoesBackByOneAtMost


-----------------------------------------------------------------------------
(* The watchdog, which starts a core again that died in its publication or  *)
(* its clearing: for any number of processes, any limits.                   *)

\* The assumptions of Watchdog, about sequences of its programs.
DogAssumption ==
  /\ BootOrder \in Seq(Procs)
  /\ \A j, k \in 1 .. Len(BootOrder) : BootOrder[j] = BootOrder[k] => j = k
  /\ Procs = 0 .. Len(BootOrder) - 1
  /\ BootOrder # <<>> /\ Head(BootOrder) = 0
  /\ Window \in Nat \ {0} /\ ReadyTimeout \in Nat \ {0} /\ Cooldown \in Nat \ {0}
  /\ MaxRestarts \in Nat \ {0, 1}
  /\ Window < Cooldown

\* main() has not begun to end its children.
Runs == main.at \notin {"term", "exited"}

\* main() is in start_child() or wait_ready().
Starts == main.at \in {"fork", "unlink", "poll"}

\* The children that are not reaped are the processes there are, each once.
FamilyHolds ==
  /\ \A j, k \in 1 .. Len(family) : family[j] = family[k] => j = k
  /\ \A i \in Procs : os[i] # "none" <=> \E k \in 1 .. Len(family) : family[k] = i

TableHolds ==
  Runs => \A i \in Procs :
    /\ os[i] # "none" => slot[i] = "pid" /\ alive[i]
    /\ slot[i] = "pid" /\ os[i] = "none" =>
         main.proc = i /\ main.at \in {"backoff", "sleep", "fork"}

\* What main() works on is there when it waits for it and is not when it is about
\* to start it; it never starts the core for another's sake.
PlaceHolds ==
  /\ main.at \in {"unlink", "poll"} => os[main.proc] # "none"
  /\ main.at \in {"backoff", "sleep", "fork"} => os[main.proc] = "none"
  /\ main.at \in {"backoff", "sleep"} => slot[main.proc] = "pid"
  /\ main.at = "fork" => slot[main.proc] = "pid" \/ retry[main.proc] = NoRetry
  /\ Starts => main.why \in {"boot", "retry", "restart"}

\* During the start of the system the processes after this one are not there.
BootHolds ==
  Starts /\ main.why = "boot" =>
    /\ \A i \in Procs : retry[i] = NoRetry
    /\ \E k \in 1 .. Len(BootOrder) :
         /\ BootOrder[k] = main.proc
         /\ \A j \in k + 1 .. Len(BootOrder) :
              os[BootOrder[j]] = "none" /\ slot[BootOrder[j]] = "none"

\* The slots whose cooldown was over when the turn began still wait for their
\* retry, and come after the one that is being started.
DueHolds ==
  /\ \A i \in main.due : retry[i] = 0
  /\ main.due # {} =>
       \/ main.at = "scan"
       \/ Starts /\ main.why = "retry" /\ \A i \in main.due : i > main.proc

\* The oldest attempt and the oldest start come first.
Falls(s) == \A j, k \in 1 .. Len(s) : j <= k => s[j] >= s[k]

OrderHolds == \A i \in Procs : Falls(ages[i]) /\ Falls(forks[i])

\* A process that runs, or that may be started, has attempts left.
RingHolds ==
  Runs => \A i \in Procs :
    slot[i] = "pid" \/ retry[i] = NoRetry => Len(ages[i]) < MaxRestarts

Control ==
  /\ DogTypeOK /\ FamilyHolds /\ TableHolds /\ PlaceHolds /\ BootHolds /\ DueHolds
  /\ OrderHolds /\ RingHolds

MainStates ==
  [at : Places, proc : Procs, why : {"none", "boot", "retry", "core", "restart"},
   left : 0 .. ReadyTimeout + 16, then : Procs, due : SUBSET Procs]

(* DogAssumption is what Watchdog assumes. *)
LEMMA DogIsAssumed == DogAssumption
PROOF
<1>1. /\ DOMAIN BootOrder = 1 .. Len(BootOrder) /\ Len(BootOrder) \in Nat
      /\ \A k \in 1 .. Len(BootOrder) : BootOrder[k] \in Nat
  BY BootAssumption
<1>2. \A j, k \in 1 .. Len(BootOrder) : BootOrder[j] = BootOrder[k] => j = k
  BY <1>1, BootAssumption DEF IsInjective
<1>3. BootOrder \in Seq(Procs)
  <2>1. \A k \in 1 .. Len(BootOrder) : BootOrder[k] \in Procs
    BY <1>1 DEF Procs, ToSet
  <2>2. BootOrder = [k \in 1 .. Len(BootOrder) |-> BootOrder[k]]
    BY <1>1, BootAssumption
  <2> QED BY <1>1, <2>1, <2>2
<1>4. /\ Window \in Nat \ {0} /\ ReadyTimeout \in Nat \ {0} /\ Cooldown \in Nat \ {0}
      /\ MaxRestarts \in Nat \ {0, 1} /\ Window < Cooldown
  BY TimeAssumption, RestartAssumption, CooldownAssumption
<1> QED BY <1>2, <1>3, <1>4, BootAssumption DEF DogAssumption, Core

LEMMA DogFacts ==
  ASSUME DogAssumption
  PROVE  /\ Core = 0 /\ 0 \in Procs /\ Procs \subseteq Nat
         /\ NoRetry = -1
         /\ \A k \in 1 .. Len(BootOrder) : BootOrder[k] \in Procs
         /\ Len(BootOrder) \in Nat /\ 1 \in 1 .. Len(BootOrder) /\ BootOrder[1] = 0
         /\ 0 \in 0 .. ReadyTimeout + 16 /\ 0 \in 0 .. Window
PROOF
<1>1. Len(BootOrder) \in Nat /\ Len(BootOrder) # 0 /\ BootOrder[1] = 0
  BY DEF DogAssumption
<1> QED BY <1>1 DEF DogAssumption, Core, NoRetry

(* The places of main(). *)
LEMMA AtIs ==
  ASSUME DogAssumption, NEW place \in Places
  PROVE  /\ At(place) \in MainStates
         /\ At(place).at = place /\ At(place).proc = 0 /\ At(place).why = "none"
         /\ At(place).left = 0 /\ At(place).then = 0 /\ At(place).due = {}
PROOF
<1>1. At(place) =
        [at |-> place, proc |-> 0, why |-> "none", left |-> 0, then |-> 0, due |-> {}]
  BY DogFacts DEF At
<1> QED BY <1>1, DogFacts DEF MainStates

LEMMA StartingIs ==
  ASSUME DogAssumption, NEW i \in Procs, NEW why \in {"boot", "retry", "core", "restart"}
  PROVE  /\ Starting(i, why) \in MainStates
         /\ Starting(i, why).at = "fork" /\ Starting(i, why).proc = i
         /\ Starting(i, why).why = why /\ Starting(i, why).left = 0
         /\ Starting(i, why).due = {}
PROOF
<1>1. "fork" \in Places
  BY DEF Places
<1>2. At("fork") \in MainStates /\ At("fork").at = "fork" /\ At("fork").left = 0
      /\ At("fork").due = {}
  BY <1>1, AtIs
<1> QED BY <1>2 DEF Starting, MainStates

(* What comes after a start: the next process of the system's start, the rest   *)
(* of the slots whose cooldown is over, or a nap.                               *)
LEMMA OnwardIs ==
  ASSUME DogAssumption, Control, Starts
  PROVE  /\ Onward \in MainStates
         /\ Onward.at \in {"fork", "top", "scan", "nap"}
         /\ Onward.at = "fork" =>
              /\ main.why = "boot" /\ Onward.why = "boot" /\ Onward.due = {}
              /\ \E k \in 1 .. Len(BootOrder) - 1 :
                   BootOrder[k] = main.proc /\ BootOrder[k + 1] = Onward.proc
         /\ Onward.at = "scan" => main.why = "retry" /\ Onward.due = main.due
         /\ Onward.at \in {"top", "nap"} => Onward.due = {}
PROOF
<1>1. main \in MainStates /\ main.why \in {"boot", "retry", "restart"}
  BY DEF Control, DogTypeOK, PlaceHolds, MainStates
<1>2. CASE main.why = "boot"
  <2>1. PICK k \in 1 .. Len(BootOrder) : BootOrder[k] = main.proc
    BY <1>2 DEF Control, BootHolds
  <2>2. CASE main.proc = Last(BootOrder)
    <3>1. Onward = At("top")
      BY <1>2, <2>2 DEF Onward
    <3>2. "top" \in Places
      BY DEF Places
    <3> QED BY <3>1, <3>2, AtIs
  <2>3. CASE main.proc # Last(BootOrder)
    <3>1. Len(BootOrder) \in Nat /\ k # Len(BootOrder)
      BY <2>1, <2>3, DogFacts DEF Last
    <3>2. k \in 1 .. Len(BootOrder) - 1 /\ 1 + k = k + 1 /\ k + 1 \in 1 .. Len(BootOrder)
      BY <3>1
    <3>3. DOMAIN BootOrder = 1 .. Len(BootOrder)
      BY DEF DogAssumption
    <3>4. (CHOOSE l \in DOMAIN BootOrder : BootOrder[l] = main.proc) = k
      BY <2>1, <3>3 DEF DogAssumption
    <3>5. Onward = Starting(BootOrder[k + 1], "boot")
      BY <1>2, <2>3, <3>2, <3>4 DEF Onward
    <3>6. BootOrder[k + 1] \in Procs
      BY <3>2, DogFacts
    <3> QED BY <1>2, <2>1, <3>2, <3>5, <3>6, StartingIs
  <2> QED BY <2>2, <2>3
<1>3. CASE main.why = "retry"
  <2>1. Onward = [At("scan") EXCEPT !.due = main.due]
    BY <1>3 DEF Onward
  <2>2. "scan" \in Places
    BY DEF Places
  <2> QED BY <1>1, <1>3, <2>1, <2>2, AtIs DEF MainStates
<1>4. CASE main.why = "restart"
  <2>1. Onward = At("nap")
    BY <1>4 DEF Onward
  <2>2. "nap" \in Places
    BY DEF Places
  <2> QED BY <2>1, <2>2, AtIs
<1> QED BY <1>1, <1>2, <1>3, <1>4

-----------------------------------------------------------------------------
(* Lists of ages, and the family *)

\* The n oldest are out of the window at the next unit of time.
Cut(s, n) == \A k \in 1 .. Len(s) : s[k] < Window <=> k > n

LEMMA CutExists ==
  ASSUME DogAssumption, NEW s \in Seq(0 .. Window), Falls(s)
  PROVE  \E n \in 0 .. Len(s) : Cut(s, n)
PROOF
<1> DEFINE T == {k \in 1 .. Len(s) : s[k] < Window}
<1>1. Len(s) \in Nat /\ T \subseteq Nat /\ \A k \in 1 .. Len(s) : s[k] \in Nat
  BY DEF DogAssumption
<1>2. CASE T = {}
  <2>1. Cut(s, Len(s))
    BY <1>1, <1>2 DEF Cut
  <2> QED BY <1>1, <2>1
<1>3. CASE T # {}
  <2>1. PICK m \in T : \A k \in T : ~ (<<k, m>> \in OpToRel(<, Nat))
    BY <1>1, <1>3, NatLessThanWellFounded, WFMin
  <2>2. m \in 1 .. Len(s) /\ s[m] < Window /\ \A k \in T : ~ (k < m)
    BY <1>1, <2>1 DEF OpToRel
  <2>3. ASSUME NEW k \in 1 .. Len(s) PROVE s[k] < Window <=> k > m - 1
    <3>1. CASE k < m
      BY <2>2, <3>1
    <3>2. CASE k >= m
      <4>1. s[m] >= s[k]
        BY <2>2, <3>2 DEF Falls
      <4> QED BY <1>1, <2>2, <3>2, <4>1 DEF DogAssumption
    <3> QED BY <1>1, <2>2, <3>1, <3>2
  <2>4. Cut(s, m - 1) /\ m - 1 \in 0 .. Len(s)
    BY <1>1, <2>2, <2>3 DEF Cut
  <2> QED BY <2>4
<1> QED BY <1>2, <1>3

LEMMA OlderIs ==
  ASSUME DogAssumption, NEW s \in Seq(0 .. Window), Falls(s)
  PROVE  \E n \in 0 .. Len(s) :
           /\ Cut(s, n)
           /\ Older(s) \in Seq(0 .. Window) /\ Falls(Older(s))
           /\ Len(Older(s)) = Len(s) - n
           /\ \A k \in 1 .. Len(s) - n : Older(s)[k] = s[n + k] + 1
PROOF
<1> DEFINE n == Expired(s)
           r == Older(s)
<1>1. n \in 0 .. Len(s) /\ Cut(s, n)
  BY CutExists DEF Expired, Cut
<1>2. r = [k \in 1 .. Len(s) - n |-> s[n + k] + 1]
  BY DEF Older
<1> HIDE DEF n, r
<1>3. Len(s) \in Nat /\ Len(s) - n \in Nat /\ \A k \in 1 .. Len(s) : s[k] \in 0 .. Window
  <2>1. Len(s) \in Nat /\ \A k \in 1 .. Len(s) : s[k] \in 0 .. Window
    BY ElementOfSeq, LenProperties
  <2> QED BY <1>1, <2>1
<1>4. ASSUME NEW k \in 1 .. Len(s) - n PROVE n + k \in 1 .. Len(s) /\ s[n + k] + 1 \in 0 .. Window
  <2>1. n + k \in 1 .. Len(s) /\ n + k > n
    BY <1>1, <1>3
  <2>2. s[n + k] < Window /\ s[n + k] \in 0 .. Window
    BY <1>1, <1>3, <2>1 DEF Cut
  <2> QED BY <2>1, <2>2, SMTT(20) DEF DogAssumption
<1>5. r \in Seq(0 .. Window) /\ Len(r) = Len(s) - n
  <2> DEFINE m == Len(s) - n
  <2>1. m \in Nat /\ r \in [1 .. m -> 0 .. Window]
    BY <1>2, <1>3, <1>4
  <2> HIDE DEF m
  <2>2. r \in Seq(0 .. Window) /\ DOMAIN r = 1 .. m
    BY <2>1, SeqDef
  <2>3. Len(r) = m
    BY <2>1, <2>2, LenProperties
  <2> QED BY <2>2, <2>3 DEF m
<1>6. \A k \in 1 .. Len(s) - n : r[k] = s[n + k] + 1
  BY <1>2
<1>7. Falls(r)
  <2> SUFFICES ASSUME NEW j \in 1 .. Len(r), NEW k \in 1 .. Len(r), j <= k PROVE r[j] >= r[k]
    BY DEF Falls
  <2>1. s[n + j] >= s[n + k] /\ s[n + j] \in 0 .. Window /\ s[n + k] \in 0 .. Window
    <3>1. n + j \in 1 .. Len(s) /\ n + k \in 1 .. Len(s) /\ n + j <= n + k
      BY <1>1, <1>3, <1>5
    <3> QED BY <1>3, <3>1 DEF Falls
  <2>2. r[j] = s[n + j] + 1 /\ r[k] = s[n + k] + 1
    BY <1>5, <1>6
  <2> DEFINE x == s[n + j]
             y == s[n + k]
  <2>3. x \in Int /\ y \in Int /\ x >= y /\ r[j] = x + 1 /\ r[k] = y + 1
    BY <2>1, <2>2
  <2> HIDE DEF x, y
  <2> QED BY <2>3
<1> QED BY <1>1, <1>5, <1>6, <1>7 DEF r

LEMMA OneMore ==
  ASSUME DogAssumption, NEW s \in Seq(0 .. Window), Falls(s)
  PROVE  /\ Append(s, 0) \in Seq(0 .. Window) /\ Falls(Append(s, 0))
         /\ Len(Append(s, 0)) = Len(s) + 1 /\ Append(s, 0)[Len(s) + 1] = 0
         /\ \A k \in 1 .. Len(s) : Append(s, 0)[k] = s[k]
PROOF
<1> DEFINE r == Append(s, 0)
<1>1. /\ 0 \in 0 .. Window /\ Len(s) \in Nat
      /\ \A k \in 1 .. Len(s) : s[k] \in 0 .. Window
  BY ElementOfSeq, LenProperties DEF DogAssumption
<1>2. /\ r \in Seq(0 .. Window) /\ Len(r) = Len(s) + 1 /\ r[Len(s) + 1] = 0
      /\ \A k \in 1 .. Len(s) : r[k] = s[k]
  BY <1>1
<1> HIDE DEF r
<1>3. Falls(r)
  <2> SUFFICES ASSUME NEW j \in 1 .. Len(r), NEW k \in 1 .. Len(r), j <= k PROVE r[j] >= r[k]
    BY DEF Falls
  <2>1. CASE k \in 1 .. Len(s)
    <3>1. j \in 1 .. Len(s)
      BY <2>1
    <3> QED BY <1>2, <2>1, <3>1 DEF Falls
  <2>2. CASE k = Len(s) + 1
    <3>1. r[j] \in 0 .. Window
      BY <1>2, ElementOfSeq
    <3> QED BY <1>2, <2>2, <3>1 DEF DogAssumption
  <2> QED BY <1>1, <1>2, <2>1, <2>2
<1> QED BY <1>2, <1>3 DEF r

LEMMA NothingFalls == <<>> \in Seq(0 .. Window) /\ Falls(<<>>) /\ Len(<<>>) = 0
BY DEF Falls

(* Time passes: lists keep their order and get no longer, cooldowns run down    *)
(* to zero.                                                                     *)
LEMMA ElapseKeeps ==
  ASSUME DogAssumption, Control, Elapse
  PROVE  /\ ages' \in [Procs -> Seq(0 .. Window)] /\ forks' \in [Procs -> Seq(0 .. Window)]
         /\ \A i \in Procs : Len(ages'[i]) <= MaxRestarts /\ Len(ages'[i]) <= Len(ages[i])
         /\ OrderHolds'
         /\ retry' \in [Procs -> 0 .. Cooldown \cup {NoRetry}]
         /\ \A i \in Procs : /\ retry'[i] = NoRetry <=> retry[i] = NoRetry
                             /\ retry[i] = 0 => retry'[i] = 0
PROOF
<1>1. /\ ages \in [Procs -> Seq(0 .. Window)] /\ forks \in [Procs -> Seq(0 .. Window)]
      /\ \A i \in Procs : Len(ages[i]) <= MaxRestarts
      /\ \A i \in Procs : Falls(ages[i]) /\ Falls(forks[i])
      /\ retry \in [Procs -> 0 .. Cooldown \cup {NoRetry}]
  BY DEF Control, DogTypeOK, OrderHolds
<1>2. /\ ages' = [i \in Procs |-> Older(ages[i])]
      /\ forks' = [i \in Procs |-> Older(forks[i])]
      /\ retry' = [i \in Procs |-> IF retry[i] > 0 THEN retry[i] - 1 ELSE retry[i]]
  BY DEF Elapse
<1>3. ASSUME NEW i \in Procs
      PROVE  /\ ages'[i] \in Seq(0 .. Window) /\ Falls(ages'[i]) /\ Len(ages'[i]) <= Len(ages[i])
             /\ forks'[i] \in Seq(0 .. Window) /\ Falls(forks'[i])
  <2> DEFINE a == ages[i]
             f == forks[i]
  <2>1. a \in Seq(0 .. Window) /\ Falls(a) /\ f \in Seq(0 .. Window) /\ Falls(f)
    BY <1>1
  <2>2. ages'[i] = Older(a) /\ forks'[i] = Older(f)
    BY <1>2
  <2> HIDE DEF a, f
  <2>3. Older(a) \in Seq(0 .. Window) /\ Falls(Older(a)) /\ Len(Older(a)) <= Len(a)
    <3>1. PICK n \in 0 .. Len(a) : /\ Older(a) \in Seq(0 .. Window) /\ Falls(Older(a))
                                   /\ Len(Older(a)) = Len(a) - n
      BY <2>1, OlderIs
    <3> QED BY <2>1, <3>1
  <2>4. Older(f) \in Seq(0 .. Window) /\ Falls(Older(f))
    BY <2>1, OlderIs
  <2> QED BY <2>2, <2>3, <2>4 DEF a
<1>4. \A i \in Procs : Len(ages'[i]) <= MaxRestarts
  <2>1. \A i \in Procs : Len(ages'[i]) \in Nat /\ Len(ages[i]) \in Nat /\ MaxRestarts \in Nat
    BY <1>1, <1>3 DEF DogAssumption
  <2> QED BY <1>1, <1>3, <2>1
<1>5. ASSUME NEW i \in Procs
      PROVE  /\ retry'[i] \in 0 .. Cooldown \cup {NoRetry}
             /\ retry'[i] = NoRetry <=> retry[i] = NoRetry
             /\ retry[i] = 0 => retry'[i] = 0
  <2>1. retry'[i] = IF retry[i] > 0 THEN retry[i] - 1 ELSE retry[i]
    BY <1>2
  <2>2. NoRetry = -1 /\ Cooldown \in Nat
    BY DogFacts DEF DogAssumption
  <2>3. CASE retry[i] \in 0 .. Cooldown
    BY <2>1, <2>2, <2>3
  <2>4. CASE retry[i] = NoRetry
    BY <2>1, <2>2, <2>4
  <2> QED BY <1>1, <2>3, <2>4
<1>6. retry' \in [Procs -> 0 .. Cooldown \cup {NoRetry}]
  BY <1>2, <1>5
<1>7. ages' \in [Procs -> Seq(0 .. Window)] /\ forks' \in [Procs -> Seq(0 .. Window)]
  BY <1>2, <1>3
<1> QED BY <1>3, <1>4, <1>5, <1>6, <1>7 DEF OrderHolds

LEMMA RemovalIs ==
  ASSUME NEW S, NEW s \in Seq(S)
  PROVE  \A k \in 1 .. Len(s) :
           /\ RemoveAt(s, k) \in Seq(S) /\ Len(RemoveAt(s, k)) = Len(s) - 1
           /\ \A j \in 1 .. k - 1 : RemoveAt(s, k)[j] = s[j]
           /\ \A j \in k .. Len(s) - 1 : RemoveAt(s, k)[j] = s[j + 1]
PROOF
<1> TAKE k \in 1 .. Len(s)
<1> DEFINE a == SubSeq(s, 1, k - 1)
           b == SubSeq(s, k + 1, Len(s))
<1>1. Len(s) \in Nat /\ k \in Nat
  OBVIOUS
<1>2. a \in Seq(S) /\ Len(a) = k - 1 /\ \A j \in 1 .. k - 1 : a[j] = s[j]
  <2>1. 1 \in Int /\ k - 1 \in Int /\ \A i \in 1 .. k - 1 : s[i] \in S
    BY <1>1
  <2>2. /\ a \in Seq(S) /\ Len(a) = IF 1 <= k - 1 THEN k - 1 - 1 + 1 ELSE 0
        /\ \A i \in 1 .. k - 1 - 1 + 1 : a[i] = s[1 + i - 1]
    BY <2>1, SubSeqProperties
  <2> QED BY <1>1, <2>2
<1>3. b \in Seq(S) /\ Len(b) = Len(s) - k /\ \A j \in 1 .. Len(s) - k : b[j] = s[k + j]
  <2>1. k + 1 \in Int /\ Len(s) \in Int /\ \A i \in k + 1 .. Len(s) : s[i] \in S
    BY <1>1
  <2>2. /\ b \in Seq(S) /\ Len(b) = IF k + 1 <= Len(s) THEN Len(s) - (k + 1) + 1 ELSE 0
        /\ \A i \in 1 .. Len(s) - (k + 1) + 1 : b[i] = s[k + 1 + i - 1]
    BY <2>1, SubSeqProperties
  <2> QED BY <1>1, <2>2
<1>4. RemoveAt(s, k) = a \o b
  BY DEF RemoveAt
<1> HIDE DEF a, b
<1>5. /\ a \o b \in Seq(S) /\ Len(a \o b) = Len(s) - 1
      /\ \A i \in 1 .. Len(s) - 1 : (a \o b)[i] = IF i <= k - 1 THEN a[i] ELSE b[i - (k - 1)]
  <2>1. /\ a \o b \in Seq(S) /\ Len(a \o b) = Len(a) + Len(b)
        /\ \A i \in 1 .. Len(a) + Len(b) : (a \o b)[i] = IF i <= Len(a) THEN a[i] ELSE b[i - Len(a)]
    BY <1>2, <1>3, ConcatProperties
  <2> QED BY <1>1, <1>2, <1>3, <2>1, SMTT(20)
<1>6. ASSUME NEW j \in 1 .. k - 1 PROVE (a \o b)[j] = s[j]
  BY <1>1, <1>2, <1>5
<1>7. ASSUME NEW j \in k .. Len(s) - 1 PROVE (a \o b)[j] = s[j + 1]
  <2>1. /\ j - (k - 1) \in 1 .. Len(s) - k /\ k + (j - (k - 1)) = j + 1
        /\ j \in 1 .. Len(s) - 1 /\ ~ (j <= k - 1)
    BY <1>1
  <2> QED BY <1>3, <1>5, <2>1
<1> QED BY <1>4, <1>5, <1>6, <1>7

-----------------------------------------------------------------------------
(* Control is inductive.                                                        *)

\* What a step leaves of the processes' types.
TimersHold ==
  /\ ages \in [Procs -> Seq(0 .. Window)]
  /\ \A i \in Procs : Len(ages[i]) <= MaxRestarts
  /\ forks \in [Procs -> Seq(0 .. Window)]
  /\ retry \in [Procs -> 0 .. Cooldown \cup {NoRetry}]
  /\ OrderHolds

TableTypes ==
  /\ os \in [Procs -> {"none", "starting", "up", "zombie"}]
  /\ ready \in [Procs -> BOOLEAN]
  /\ slot \in [Procs -> {"none", "pid", "failed"}]
  /\ alive \in [Procs -> BOOLEAN]
  /\ running \in BOOLEAN
  /\ main \in MainStates

LEMMA ControlParts ==
  Control <=>
    /\ TimersHold /\ TableTypes /\ family \in Seq(Procs)
    /\ FamilyHolds /\ TableHolds /\ PlaceHolds /\ BootHolds /\ DueHolds /\ RingHolds
BY DEF Control, DogTypeOK, TimersHold, TableTypes, MainStates

LEMMA ControlHoldsNext ==
  ASSUME TimersHold', TableTypes', (family \in Seq(Procs))',
         FamilyHolds', TableHolds', PlaceHolds', BootHolds', DueHolds', RingHolds'
  PROVE  Control'
BY DEF Control, DogTypeOK, TimersHold, TableTypes, MainStates

(* A step that starts and buries nobody.                                        *)
LEMMA NobodyComesOrGoes ==
  ASSUME DogAssumption, Control, UNCHANGED <<family, slot, alive>>,
         \A i \in Procs : os'[i] = "none" <=> os[i] = "none",
         Runs' => Runs,
         Runs' /\ main.at \in {"backoff", "sleep", "fork"} =>
           main'.proc = main.proc /\ main'.at \in {"backoff", "sleep", "fork"}
  PROVE  /\ family' \in Seq(Procs) /\ FamilyHolds' /\ TableHolds'
         /\ slot' \in [Procs -> {"none", "pid", "failed"}]
         /\ alive' \in [Procs -> BOOLEAN]
PROOF
<1>1. FamilyHolds'
  BY DEF Control, FamilyHolds
<1>2. TableHolds'
  <2> SUFFICES ASSUME Runs', NEW i \in Procs
               PROVE  /\ os'[i] # "none" => slot'[i] = "pid" /\ alive'[i]
                      /\ slot'[i] = "pid" /\ os'[i] = "none" =>
                           main'.proc = i /\ main'.at \in {"backoff", "sleep", "fork"}
    BY DEF TableHolds
  <2>1. /\ os[i] # "none" => slot[i] = "pid" /\ alive[i]
        /\ slot[i] = "pid" /\ os[i] = "none" =>
             main.proc = i /\ main.at \in {"backoff", "sleep", "fork"}
    BY DEF Control, TableHolds
  <2> QED BY <2>1
<1> QED BY <1>1, <1>2 DEF Control, DogTypeOK

LEMMA ControlStarts ==
  ASSUME DogAssumption, DogInit
  PROVE  Control
PROOF
<1>1. TableTypes /\ main.at = "fork" /\ main.proc = 0 /\ main.why = "boot" /\ main.due = {}
  <2>1. main = Starting(0, "boot")
    BY DogFacts DEF DogInit
  <2> QED BY <2>1, StartingIs, DogFacts DEF DogInit, TableTypes
<1>2. TimersHold
  <2>1. \A i \in Procs : ages[i] = <<>> /\ forks[i] = <<>>
    BY DEF DogInit
  <2>2. \A i \in Procs : Len(ages[i]) <= MaxRestarts
    BY <2>1, NothingFalls DEF DogAssumption
  <2>3. OrderHolds
    BY <2>1, NothingFalls DEF OrderHolds
  <2> QED BY <2>2, <2>3, NothingFalls DEF DogInit, TimersHold
<1>3. family \in Seq(Procs) /\ FamilyHolds
  BY DEF DogInit, FamilyHolds
<1>4. TableHolds /\ PlaceHolds /\ DueHolds
  BY <1>1, DogFacts DEF DogInit, TableHolds, PlaceHolds, DueHolds
<1>5. BootHolds
  <2>1. \A j \in 1 .. Len(BootOrder) : BootOrder[j] \in Procs
    BY DogFacts
  <2>2. \A j \in 1 + 1 .. Len(BootOrder) : j \in 1 .. Len(BootOrder)
    BY DogFacts
  <2>3. \A j \in 1 + 1 .. Len(BootOrder) :
          os[BootOrder[j]] = "none" /\ slot[BootOrder[j]] = "none"
    BY <2>1, <2>2 DEF DogInit
  <2> QED BY <1>1, <2>3, DogFacts DEF DogInit, BootHolds
<1>6. RingHolds
  <2>1. \A i \in Procs : Len(ages[i]) < MaxRestarts
    BY NothingFalls DEF DogInit, DogAssumption
  <2> QED BY <2>1 DEF RingHolds
<1> QED BY <1>1, <1>2, <1>3, <1>4, <1>5, <1>6, ControlParts

(* The children.                                                                *)
LEMMA ChildKeeps ==
  ASSUME DogAssumption, Control, NEW i \in Procs, Ready(i) \/ Die(i)
  PROVE  Control'
PROOF
<1>1. os \in [Procs -> {"none", "starting", "up", "zombie"}] /\ ready \in [Procs -> BOOLEAN]
  BY DEF Control, DogTypeOK
<1>2. /\ os' \in [Procs -> {"none", "starting", "up", "zombie"}]
      /\ ready' \in [Procs -> BOOLEAN]
      /\ \A j \in Procs : os'[j] = "none" <=> os[j] = "none"
  BY <1>1 DEF Ready, Die
<1>3. UNCHANGED <<family, slot, alive, ages, retry, forks, running, main>>
  BY DEF Ready, Die, table, timers
<1>4. /\ family' \in Seq(Procs) /\ FamilyHolds' /\ TableHolds'
      /\ slot' \in [Procs -> {"none", "pid", "failed"}] /\ alive' \in [Procs -> BOOLEAN]
  BY <1>2, <1>3, NobodyComesOrGoes DEF Runs
<1>5. TimersHold' /\ TableTypes'
  BY <1>2, <1>3, <1>4, ControlParts DEF TimersHold, OrderHolds, TableTypes, MainStates
<1>6. main.proc \in Procs
  BY DEF Control, DogTypeOK
<1>7. PlaceHolds' /\ DueHolds'
  BY <1>2, <1>3, <1>6 DEF Control, PlaceHolds, DueHolds, Starts
<1>8. BootHolds'
  <2> SUFFICES ASSUME Starts, main.why = "boot" PROVE BootHolds'
    BY <1>3 DEF BootHolds, Starts
  <2>1. PICK k \in 1 .. Len(BootOrder) :
          /\ BootOrder[k] = main.proc
          /\ \A j \in k + 1 .. Len(BootOrder) :
               os[BootOrder[j]] = "none" /\ slot[BootOrder[j]] = "none"
    BY DEF Control, BootHolds
  <2>2. \A j \in k + 1 .. Len(BootOrder) : BootOrder[j] \in Procs
    BY DogFacts
  <2>3. \A j \in Procs : retry[j] = NoRetry
    BY DEF Control, BootHolds
  <2> QED BY <1>2, <1>3, <2>1, <2>2, <2>3 DEF BootHolds
<1>9. RingHolds'
  BY <1>3 DEF Control, RingHolds, Runs
<1> QED BY <1>4, <1>5, <1>7, <1>8, <1>9, ControlHoldsNext

(* Steps of main() that leave children, table and timers: all but the place is  *)
(* as it was.                                                                   *)
LEMMA MainMoves ==
  ASSUME DogAssumption, Control, UNCHANGED <<os, family, slot, alive, ages, retry, forks>>,
         (ready \in [Procs -> BOOLEAN])', (running \in BOOLEAN)', (main \in MainStates)',
         Runs' => Runs,
         Runs' /\ main.at \in {"backoff", "sleep", "fork"} =>
           main'.proc = main.proc /\ main'.at \in {"backoff", "sleep", "fork"},
         PlaceHolds', BootHolds', DueHolds'
  PROVE  Control'
PROOF
<1>1. /\ family' \in Seq(Procs) /\ FamilyHolds' /\ TableHolds'
      /\ slot' \in [Procs -> {"none", "pid", "failed"}] /\ alive' \in [Procs -> BOOLEAN]
  BY NobodyComesOrGoes
<1>2. TimersHold' /\ TableTypes'
  BY <1>1, ControlParts DEF TimersHold, OrderHolds, TableTypes
<1>3. RingHolds'
  BY DEF Control, RingHolds
<1> QED BY <1>1, <1>2, <1>3, ControlHoldsNext

LEMMA UnlinkKeeps ==
  ASSUME DogAssumption, Control, Unlink
  PROVE  Control'
PROOF
<1>1. /\ main.at = "unlink" /\ main' = [main EXCEPT !.at = "poll", !.left = ReadyTimeout]
      /\ ready' = [ready EXCEPT ![main.proc] = FALSE]
      /\ UNCHANGED <<os, family, slot, alive, ages, retry, forks, running>>
  BY DEF Unlink, table, timers
<1>2. main \in MainStates /\ ready \in [Procs -> BOOLEAN] /\ running \in BOOLEAN
  BY ControlParts DEF TableTypes
<1>3. main' \in MainStates /\ main'.at = "poll" /\ main'.proc = main.proc /\ main'.why = main.why
      /\ main'.due = main.due
  <2>1. ReadyTimeout \in 0 .. ReadyTimeout + 16 /\ "poll" \in Places
    BY DEF DogAssumption, Places
  <2> QED BY <1>1, <1>2, <2>1 DEF MainStates
<1>4. ready' \in [Procs -> BOOLEAN]
  BY <1>1, <1>2
<1>5. PlaceHolds' /\ BootHolds' /\ DueHolds'
  BY <1>1, <1>3 DEF Control, PlaceHolds, BootHolds, DueHolds, Starts
<1>6. Runs
  BY <1>1 DEF Runs
<1> QED BY <1>1, <1>2, <1>3, <1>4, <1>5, <1>6, MainMoves

LEMMA LoopKeeps ==
  ASSUME DogAssumption, Control,
         Top \/ ScanDone \/ ReapNone \/ TermDone
  PROVE  Control'
PROOF
<1>1. UNCHANGED <<os, family, ready, slot, alive, ages, retry, forks, running>>
  BY DEF Top, ScanDone, ReapNone, TermDone, children, table, timers
<1>2. ready \in [Procs -> BOOLEAN] /\ running \in BOOLEAN /\ main \in MainStates
  BY ControlParts DEF TableTypes
<1>3. /\ main.at \in {"top", "scan", "reap", "term"}
      /\ main.at = "term" => main'.at = "exited"
      /\ main' \in MainStates /\ main'.at \in {"scan", "reap", "nap", "term", "exited"}
      /\ \A i \in main'.due : retry[i] = 0
      /\ main'.due # {} => main'.at = "scan"
  <2>1. /\ "scan" \in Places /\ "reap" \in Places /\ "nap" \in Places
        /\ "term" \in Places /\ "exited" \in Places
    BY DEF Places
  <2>2. CASE Top
    <3> DEFINE D == {i \in Procs : retry[i] = 0}
    <3>1. main.at = "top"
          /\ (main' = [At("scan") EXCEPT !.due = D] \/ main' = At("term"))
      BY <2>2 DEF Top
    <3>2. CASE main' = At("term")
      BY <2>1, <3>1, <3>2, AtIs
    <3>3. CASE main' = [At("scan") EXCEPT !.due = D]
      <4>1. D \in SUBSET Procs /\ \A i \in D : retry[i] = 0
        OBVIOUS
      <4> HIDE DEF D
      <4>2. At("scan") \in MainStates /\ At("scan").at = "scan"
        BY <2>1, AtIs
      <4> QED BY <3>1, <3>3, <4>1, <4>2 DEF MainStates
    <3> QED BY <3>1, <3>2, <3>3
  <2>3. CASE ScanDone
    BY <2>1, <2>3, AtIs DEF ScanDone
  <2>4. CASE ReapNone
    BY <2>1, <2>4, AtIs DEF ReapNone
  <2>5. CASE TermDone
    BY <2>1, <2>5, AtIs DEF TermDone
  <2> QED BY <2>2, <2>3, <2>4, <2>5
<1>4. PlaceHolds' /\ BootHolds' /\ DueHolds'
  BY <1>1, <1>3 DEF PlaceHolds, BootHolds, DueHolds, Starts
<1>5. Runs' => Runs
  BY <1>3 DEF Runs
<1>6. main.at \notin {"backoff", "sleep", "fork"}
  BY <1>3
<1>7. ready' \in [Procs -> BOOLEAN] /\ running' \in BOOLEAN
  BY <1>1, <1>2
<1> QED BY <1>1, <1>3, <1>4, <1>5, <1>6, <1>7, MainMoves

LEMMA DelayIs ==
  ASSUME NEW n \in Nat
  PROVE  Delay(n) \in 1 .. 16
PROOF
<1>1. Delays = <<1, 2, 4, 8, 16>>
  BY DEF Delays
<1>2. \A k \in 1 .. 5 : Delays[k] \in 1 .. 16
  BY <1>1
<1> QED BY <1>2 DEF Delay

LEMMA WaitKeeps ==
  ASSUME DogAssumption, Control, Backoff \/ Wake \/ Signal
  PROVE  Control'
PROOF
<1>1. UNCHANGED <<os, family, ready, slot, alive, ages, retry, forks>>
  BY DEF Backoff, Wake, Signal, children, table, timers
<1>2. ready \in [Procs -> BOOLEAN] /\ running \in BOOLEAN /\ main \in MainStates
  BY ControlParts DEF TableTypes
<1>3. CASE Backoff
  <2> DEFINE d == Delay(Len(ages[main.proc]))
  <2>1. main.at = "backoff" /\ main' = [main EXCEPT !.at = "sleep", !.left = d]
        /\ running' = running
    BY <1>3 DEF Backoff
  <2>2. d \in 0 .. ReadyTimeout + 16
    <3>1. Len(ages[main.proc]) \in Nat
      BY <1>2 DEF Control, DogTypeOK, MainStates
    <3>2. d \in 1 .. 16
      BY <3>1, DelayIs
    <3> HIDE DEF d
    <3> QED BY <3>2 DEF DogAssumption
  <2> HIDE DEF d
  <2>3. main' \in MainStates /\ main'.at = "sleep" /\ main'.proc = main.proc
        /\ main'.due = main.due
    BY <1>2, <2>1, <2>2 DEF MainStates, Places
  <2>4. PlaceHolds' /\ BootHolds' /\ DueHolds'
    BY <1>1, <2>1, <2>3 DEF Control, PlaceHolds, BootHolds, DueHolds, Starts
  <2>5. Runs
    BY <2>1 DEF Runs
  <2>6. ready' \in [Procs -> BOOLEAN] /\ running' \in BOOLEAN
    BY <1>1, <1>2, <2>1
  <2> QED BY <1>1, <2>1, <2>3, <2>4, <2>5, <2>6, MainMoves
<1>4. CASE Wake
  <2>1. main.at = "sleep" /\ main' = Starting(main.proc, "restart") /\ running' = running
    BY <1>4 DEF Wake
  <2>2. main.proc \in Procs
    BY <1>2 DEF MainStates
  <2>3. main' \in MainStates /\ main'.at = "fork" /\ main'.proc = main.proc
        /\ main'.why = "restart" /\ main'.due = {}
    BY <2>1, <2>2, StartingIs
  <2>4. PlaceHolds' /\ BootHolds' /\ DueHolds'
    BY <1>1, <2>1, <2>3 DEF Control, PlaceHolds, BootHolds, DueHolds, Starts
  <2>5. Runs
    BY <2>1 DEF Runs
  <2>6. ready' \in [Procs -> BOOLEAN] /\ running' \in BOOLEAN
    BY <1>1, <1>2, <2>1
  <2> QED BY <1>1, <2>1, <2>3, <2>4, <2>5, <2>6, MainMoves
<1>5. CASE Signal
  <2>1. running' = FALSE /\ main.at \notin {"term", "exited"}
        /\ main' = IF main.at = "sleep" THEN [main EXCEPT !.left = 0] ELSE main
    BY <1>5 DEF Signal
  <2>2. main' \in MainStates /\ main'.at = main.at /\ main'.proc = main.proc
        /\ main'.due = main.due /\ main'.why = main.why
    BY <1>2, <2>1, DogFacts DEF MainStates
  <2>3. PlaceHolds' /\ BootHolds' /\ DueHolds'
    BY <1>1, <2>1, <2>2 DEF Control, PlaceHolds, BootHolds, DueHolds, Starts
  <2>4. Runs
    BY <2>1 DEF Runs
  <2>5. ready' \in [Procs -> BOOLEAN] /\ running' \in BOOLEAN
    BY <1>1, <1>2, <2>1
  <2> QED BY <1>1, <2>2, <2>3, <2>4, <2>5, MainMoves
<1> QED BY <1>3, <1>4, <1>5

(* A wait that ends.                                                            *)
LEMMA PollEnds ==
  ASSUME DogAssumption, Control, PollReady \/ PollTimeout
  PROVE  Control'
PROOF
<1>1. /\ main.at = "poll" /\ main' = Onward
      /\ UNCHANGED <<family, ready, slot, alive, ages, retry, forks, running>>
  BY DEF PollReady, PollTimeout, children, table, timers
<1>2. TableTypes /\ TimersHold
  BY ControlParts
<1>3. /\ os' \in [Procs -> {"none", "starting", "up", "zombie"}]
      /\ \A i \in Procs : os'[i] = "none" <=> os[i] = "none"
  <2>1. CASE PollReady
    BY <1>2, <2>1 DEF PollReady, children, TableTypes
  <2>2. CASE PollTimeout
    <3>1. os' = [os EXCEPT ![main.proc] = "zombie"] /\ os[main.proc] # "none"
      BY <1>1, <2>2 DEF PollTimeout, Control, PlaceHolds
    <3> QED BY <1>2, <3>1 DEF TableTypes
  <2> QED BY <2>1, <2>2
<1>4. Starts
  BY <1>1 DEF Starts
<1>5. /\ main' \in MainStates /\ main'.at \in {"fork", "top", "scan", "nap"}
      /\ main'.at = "fork" =>
           /\ main.why = "boot" /\ main'.why = "boot" /\ main'.due = {}
           /\ \E k \in 1 .. Len(BootOrder) - 1 :
                BootOrder[k] = main.proc /\ BootOrder[k + 1] = main'.proc
      /\ main'.at = "scan" => main'.due = main.due
      /\ main'.at \in {"top", "nap"} => main'.due = {}
  BY <1>1, <1>4, OnwardIs
<1>6. /\ family' \in Seq(Procs) /\ FamilyHolds' /\ TableHolds' /\ RingHolds'
      /\ TimersHold' /\ TableTypes'
  <2>1. Runs /\ main.at \notin {"backoff", "sleep", "fork"}
    BY <1>1 DEF Runs
  <2>2. /\ family' \in Seq(Procs) /\ FamilyHolds' /\ TableHolds'
        /\ slot' \in [Procs -> {"none", "pid", "failed"}]
        /\ alive' \in [Procs -> BOOLEAN]
    BY <1>1, <1>3, <2>1, NobodyComesOrGoes
  <2>3. RingHolds'
    BY <1>1, <2>1 DEF Control, RingHolds
  <2> QED BY <1>1, <1>2, <1>3, <1>5, <2>2, <2>3 DEF TimersHold, OrderHolds, TableTypes
<1>7. CASE main'.at = "fork"
  <2>1. PICK k \in 1 .. Len(BootOrder) - 1 :
               BootOrder[k] = main.proc /\ BootOrder[k + 1] = main'.proc
    BY <1>5, <1>7
  <2>2. /\ \A i \in Procs : retry[i] = NoRetry
        /\ \E l \in 1 .. Len(BootOrder) :
             /\ BootOrder[l] = main.proc
             /\ \A j \in l + 1 .. Len(BootOrder) :
                  os[BootOrder[j]] = "none" /\ slot[BootOrder[j]] = "none"
    BY <1>4, <1>5, <1>7 DEF Control, BootHolds
  <2>3. Len(BootOrder) \in Nat /\ k \in 1 .. Len(BootOrder) /\ k + 1 \in 1 .. Len(BootOrder)
    BY DogFacts
  <2>4. \A j \in k + 1 .. Len(BootOrder) :
          /\ BootOrder[j] \in Procs
          /\ os[BootOrder[j]] = "none" /\ slot[BootOrder[j]] = "none"
    BY <2>1, <2>2, <2>3, DogFacts DEF DogAssumption
  <2>5. BootHolds'
    <3>1. \A j \in (k + 1) + 1 .. Len(BootOrder) : j \in k + 1 .. Len(BootOrder)
      BY <2>3
    <3>2. \A j \in (k + 1) + 1 .. Len(BootOrder) :
            os'[BootOrder[j]] = "none" /\ slot'[BootOrder[j]] = "none"
      BY <1>1, <1>3, <2>4, <3>1
    <3> QED BY <1>1, <2>1, <2>2, <2>3, <3>2 DEF BootHolds
  <2>6. os'[main'.proc] = "none" /\ retry'[main'.proc] = NoRetry
    <3>1. k + 1 \in k + 1 .. Len(BootOrder)
      BY <2>3
    <3> QED BY <1>1, <1>3, <2>1, <2>2, <2>4, <3>1
  <2>7. PlaceHolds' /\ DueHolds'
    BY <1>5, <1>7, <2>6 DEF PlaceHolds, DueHolds, Starts
  <2> QED BY <1>6, <2>5, <2>7, ControlHoldsNext
<1>8. CASE main'.at \in {"top", "scan", "nap"}
  <2>1. PlaceHolds' /\ BootHolds' /\ DueHolds'
    BY <1>1, <1>5, <1>8 DEF Control, PlaceHolds, BootHolds, DueHolds, Starts
  <2> QED BY <1>6, <2>1, ControlHoldsNext
<1> QED BY <1>5, <1>7, <1>8

(* A fork that fails.                                                           *)
LEMMA ForkFailsKeeps ==
  ASSUME DogAssumption, Control, ForkFails
  PROVE  Control'
PROOF
<1>1. /\ main.at = "fork"
      /\ slot' = [slot EXCEPT ![main.proc] = "failed"]
      /\ retry' = IF main.why = "retry" THEN [retry EXCEPT ![main.proc] = Cooldown] ELSE retry
      /\ main' = IF main.why = "boot" THEN At("term") ELSE Onward
      /\ UNCHANGED <<os, family, ready, alive, ages, forks, running>>
  BY DEF ForkFails, children
<1>2. TableTypes /\ TimersHold /\ main.proc \in Procs
  BY ControlParts DEF TableTypes, MainStates
<1>3. Starts /\ os[main.proc] = "none"
  BY <1>1 DEF Starts, Control, PlaceHolds
<1>4. /\ main' \in MainStates /\ main'.at \in {"term", "top", "scan", "nap"}
      /\ main'.at = "scan" => main.why = "retry" /\ main'.due = main.due
      /\ main'.at \in {"term", "top", "nap"} => main'.due = {}
  <2>1. CASE main.why = "boot"
    <3>1. "term" \in Places
      BY DEF Places
    <3> QED BY <1>1, <2>1, <3>1, AtIs
  <2>2. CASE main.why # "boot"
    BY <1>1, <1>3, <2>2, OnwardIs
  <2> QED BY <2>1, <2>2
<1>5. TableTypes'
  BY <1>1, <1>2, <1>4 DEF TableTypes
<1>6. TimersHold'
  <2>1. Cooldown \in 0 .. Cooldown
    BY DEF DogAssumption
  <2>2. retry' \in [Procs -> 0 .. Cooldown \cup {NoRetry}]
    BY <1>1, <1>2, <2>1 DEF TimersHold
  <2> QED BY <1>1, <1>2, <2>2 DEF TimersHold, OrderHolds
<1>7. FamilyHolds' /\ family' \in Seq(Procs)
  BY <1>1, ControlParts DEF FamilyHolds
<1>8. TableHolds'
  <2> SUFFICES ASSUME NEW i \in Procs
               PROVE  /\ os'[i] # "none" => slot'[i] = "pid" /\ alive'[i]
                      /\ ~ (slot'[i] = "pid" /\ os'[i] = "none")
    BY DEF TableHolds
  <2>1. /\ os[i] # "none" => slot[i] = "pid" /\ alive[i]
        /\ slot[i] = "pid" /\ os[i] = "none" => main.proc = i
    BY <1>1 DEF Control, TableHolds, Runs
  <2>2. slot'[i] = IF i = main.proc THEN "failed" ELSE slot[i]
    BY <1>1, <1>2 DEF TableTypes
  <2> QED BY <1>1, <1>3, <2>1, <2>2
<1>9. PlaceHolds' /\ BootHolds'
  BY <1>4 DEF PlaceHolds, BootHolds, Starts
<1>10. DueHolds'
  <2>1. CASE main'.at = "scan"
    <3>1. \A i \in main.due : i \in Procs /\ retry[i] = 0 /\ i > main.proc
      BY <1>1, <1>2, <1>4, <2>1 DEF Control, DueHolds, TableTypes, MainStates
    <3>2. \A i \in main.due : i # main.proc
      BY <1>2, <3>1, DogFacts
    <3>3. \A i \in main.due : retry'[i] = 0
      BY <1>1, <1>2, <3>1, <3>2 DEF TimersHold
    <3> QED BY <1>4, <2>1, <3>3 DEF DueHolds
  <2>2. CASE main'.at # "scan"
    BY <1>4, <2>2 DEF DueHolds
  <2> QED BY <2>1, <2>2
<1>11. RingHolds'
  <2> SUFFICES ASSUME NEW i \in Procs, slot'[i] = "pid" \/ retry'[i] = NoRetry
               PROVE  Len(ages'[i]) < MaxRestarts
    BY DEF RingHolds
  <2>1. slot[i] = "pid" \/ retry[i] = NoRetry
    <3>1. slot'[i] = IF i = main.proc THEN "failed" ELSE slot[i]
      BY <1>1, <1>2 DEF TableTypes
    <3>2. retry'[i] = retry[i] \/ retry'[i] = Cooldown
      BY <1>1, <1>2 DEF TimersHold
    <3>3. Cooldown # NoRetry
      BY DogFacts DEF DogAssumption
    <3> QED BY <3>1, <3>2, <3>3
  <2>2. Runs
    BY <1>1 DEF Runs
  <2> QED BY <1>1, <2>1, <2>2 DEF Control, RingHolds
<1> QED BY <1>5, <1>6, <1>7, <1>8, <1>9, <1>10, <1>11, ControlHoldsNext

(* Time passes, in a sleep, a wait or a nap.                                    *)
LEMMA TimeKeeps ==
  ASSUME DogAssumption, Control, PollAgain \/ Sleep \/ Nap
  PROVE  Control'
PROOF
<1>1. Elapse /\ UNCHANGED <<os, family, ready, slot, alive, running>>
  BY DEF PollAgain, Sleep, Nap, children, table
<1>2. TimersHold'
  BY <1>1, ElapseKeeps DEF TimersHold
<1>3. TableTypes
  BY ControlParts
<1>4. /\ main' \in MainStates /\ main'.due = main.due
      /\ \/ main.at = "poll" /\ main'.at = "poll" /\ main'.proc = main.proc /\ main'.why = main.why
         \/ main.at = "sleep" /\ main'.at = "sleep" /\ main'.proc = main.proc
         \/ main.at = "nap" /\ main'.at = "top"
  <2>1. CASE PollAgain \/ Sleep
    <3>1. /\ main.left > 0 /\ main' = [main EXCEPT !.left = @ - 1]
          /\ (main.at = "poll" \/ main.at = "sleep")
      BY <2>1 DEF PollAgain, Sleep
    <3>2. main.left - 1 \in 0 .. ReadyTimeout + 16
      BY <1>3, <3>1 DEF TableTypes, MainStates, DogAssumption
    <3> QED BY <1>3, <3>1, <3>2 DEF TableTypes, MainStates
  <2>2. CASE Nap
    <3>1. main.at = "nap" /\ main' = At("top") /\ "top" \in Places
      BY <2>2 DEF Nap, Places
    <3>2. main.due = {}
      BY <3>1 DEF Control, DueHolds, Starts
    <3> QED BY <3>1, <3>2, AtIs
  <2> QED BY <2>1, <2>2
<1>5. \A i \in Procs : /\ retry'[i] = NoRetry <=> retry[i] = NoRetry
                       /\ retry[i] = 0 => retry'[i] = 0
  BY <1>1, ElapseKeeps
<1>6. main.proc \in Procs /\ main.due \subseteq Procs
  BY <1>3 DEF TableTypes, MainStates
<1>7. PlaceHolds' /\ DueHolds'
  BY <1>1, <1>4, <1>5, <1>6 DEF Control, PlaceHolds, DueHolds, Starts
<1>8. BootHolds'
  BY <1>1, <1>4, <1>5 DEF Control, BootHolds, Starts
<1>9. /\ family' \in Seq(Procs) /\ FamilyHolds' /\ TableHolds'
  BY <1>1, <1>4, NobodyComesOrGoes DEF Runs
<1>10. TableTypes'
  BY <1>1, <1>3, <1>4 DEF TableTypes
<1>11. RingHolds'
  <2> SUFFICES ASSUME NEW i \in Procs, slot'[i] = "pid" \/ retry'[i] = NoRetry
               PROVE  Len(ages'[i]) < MaxRestarts
    BY DEF RingHolds
  <2>1. Runs
    BY <1>4 DEF Runs
  <2>2. Len(ages[i]) < MaxRestarts
    BY <1>1, <1>5, <2>1 DEF Control, RingHolds
  <2>3. Len(ages'[i]) <= Len(ages[i])
    BY <1>1, ElapseKeeps
  <2>4. Len(ages[i]) \in Nat /\ Len(ages'[i]) \in Nat /\ MaxRestarts \in Nat
    BY <1>2, ControlParts DEF TimersHold, DogAssumption
  <2> QED BY <2>2, <2>3, <2>4
<1> QED BY <1>2, <1>7, <1>8, <1>9, <1>10, <1>11, ControlHoldsNext

(* A cooldown is over.                                                          *)
LEMMA ScanRetryKeeps ==
  ASSUME DogAssumption, Control, ScanRetry
  PROVE  Control'
PROOF
<1>1. PICK i \in Idle :
        /\ ages' = [ages EXCEPT ![i] = <<>>]
        /\ retry' = [retry EXCEPT ![i] = NoRetry]
        /\ main' = [Starting(i, "retry") EXCEPT !.due = {j \in main.due : j > i}]
  BY DEF ScanRetry
<1>2. main.at = "scan" /\ UNCHANGED <<os, family, ready, slot, alive, forks, running>>
  BY DEF ScanRetry, children, table
<1>3. TableTypes /\ TimersHold
  BY ControlParts
<1>4. i \in main.due /\ i \in Procs /\ slot[i] = "none"
  BY <1>3 DEF Idle, TableTypes, MainStates
<1>5. Runs /\ os[i] = "none"
  BY <1>2, <1>4 DEF Control, TableHolds, Runs
<1>6. /\ main' \in MainStates /\ main'.at = "fork" /\ main'.proc = i /\ main'.why = "retry"
      /\ main'.due = {j \in main.due : j > i}
  <2> DEFINE D == {j \in main.due : j > i}
  <2>1. D \in SUBSET Procs
    BY <1>3 DEF TableTypes, MainStates
  <2> HIDE DEF D
  <2>2. Starting(i, "retry") \in MainStates /\ Starting(i, "retry").at = "fork"
        /\ Starting(i, "retry").proc = i /\ Starting(i, "retry").why = "retry"
    BY <1>4, StartingIs
  <2>3. main' = [Starting(i, "retry") EXCEPT !.due = D]
    BY <1>1 DEF D
  <2>4. main' \in MainStates /\ main'.at = "fork" /\ main'.proc = i /\ main'.why = "retry"
        /\ main'.due = D
    BY <2>1, <2>2, <2>3 DEF MainStates
  <2> QED BY <2>4 DEF D
<1>7. TableTypes'
  BY <1>2, <1>3, <1>6 DEF TableTypes
<1>8. \A j \in Procs : /\ ages'[j] = IF j = i THEN <<>> ELSE ages[j]
                       /\ retry'[j] = IF j = i THEN NoRetry ELSE retry[j]
  BY <1>1, <1>3, <1>4 DEF TimersHold
<1>9. TimersHold'
  <2>1. /\ ages' \in [Procs -> Seq(0 .. Window)]
        /\ retry' \in [Procs -> 0 .. Cooldown \cup {NoRetry}]
    BY <1>1, <1>3, <1>4, NothingFalls DEF TimersHold
  <2>2. \A j \in Procs : Len(ages'[j]) <= MaxRestarts /\ Falls(ages'[j])
    <3>1. 0 <= MaxRestarts
      BY DEF DogAssumption
    <3> QED BY <1>3, <1>8, <3>1, NothingFalls DEF TimersHold, OrderHolds
  <2> QED BY <1>2, <1>3, <2>1, <2>2 DEF TimersHold, OrderHolds
<1>10. family' \in Seq(Procs) /\ FamilyHolds' /\ TableHolds'
  BY <1>2, <1>5, NobodyComesOrGoes
<1>11. PlaceHolds' /\ BootHolds'
  BY <1>2, <1>4, <1>5, <1>6, <1>8 DEF PlaceHolds, BootHolds, Starts
<1>12. DueHolds'
  <2>1. \A j \in main'.due : j \in Procs /\ j > i /\ retry[j] = 0
    BY <1>3, <1>6 DEF TableTypes, MainStates, Control, DueHolds
  <2>2. \A j \in main'.due : j # i
    BY <1>4, <2>1, DogFacts
  <2> QED BY <1>6, <1>8, <2>1, <2>2 DEF DueHolds, Starts
<1>13. RingHolds'
  <2> SUFFICES ASSUME NEW j \in Procs, slot'[j] = "pid" \/ retry'[j] = NoRetry
               PROVE  Len(ages'[j]) < MaxRestarts
    BY DEF RingHolds
  <2>1. CASE j = i
    BY <1>8, <2>1, NothingFalls DEF DogAssumption
  <2>2. CASE j # i
    BY <1>2, <1>5, <1>8, <2>2 DEF Control, RingHolds
  <2> QED BY <2>1, <2>2
<1> QED BY <1>7, <1>9, <1>10, <1>11, <1>12, <1>13, ControlHoldsNext

(* A process is started.                                                        *)
LEMMA ForkKeeps ==
  ASSUME DogAssumption, Control, Fork
  PROVE  Control'
PROOF
<1> DEFINE p == main.proc
<1>1. /\ main.at = "fork"
      /\ os' = [os EXCEPT ![p] = "starting"] /\ family' = Append(family, p)
      /\ slot' = [slot EXCEPT ![p] = "pid"] /\ alive' = [alive EXCEPT ![p] = TRUE]
      /\ forks' = [forks EXCEPT ![p] = Append(@, 0)]
      /\ main' = [main EXCEPT !.at = "unlink"]
      /\ UNCHANGED <<ready, ages, retry, running>>
  BY DEF Fork
<1>2. TableTypes /\ TimersHold /\ p \in Procs /\ family \in Seq(Procs)
  BY ControlParts DEF TableTypes, MainStates
<1>3. Starts /\ Runs /\ os[p] = "none"
  BY <1>1 DEF Starts, Runs, Control, PlaceHolds
<1>4. /\ main' \in MainStates /\ main'.at = "unlink" /\ main'.proc = p /\ main'.why = main.why
      /\ main'.due = main.due
  BY <1>1, <1>2 DEF TableTypes, MainStates, Places
<1> HIDE DEF p
<1>5. TableTypes'
  BY <1>1, <1>2, <1>4 DEF TableTypes
<1>6. \A i \in Procs : /\ os'[i] = IF i = p THEN "starting" ELSE os[i]
                       /\ slot'[i] = IF i = p THEN "pid" ELSE slot[i]
                       /\ alive'[i] = IF i = p THEN TRUE ELSE alive[i]
                       /\ forks'[i] = IF i = p THEN Append(forks[i], 0) ELSE forks[i]
  BY <1>1, <1>2 DEF TableTypes, TimersHold
<1>7. TimersHold'
  <2>1. Append(forks[p], 0) \in Seq(0 .. Window) /\ Falls(Append(forks[p], 0))
    BY <1>2, OneMore DEF TimersHold, OrderHolds
  <2>2. forks' \in [Procs -> Seq(0 .. Window)]
    BY <1>1, <1>2, <2>1 DEF TimersHold
  <2>3. \A i \in Procs : Falls(forks'[i])
    BY <1>2, <1>6, <2>1 DEF TimersHold, OrderHolds
  <2> QED BY <1>1, <1>2, <2>2, <2>3 DEF TimersHold, OrderHolds
<1>8. family' \in Seq(Procs) /\ FamilyHolds'
  <2> DEFINE n == Len(family)
  <2>1. /\ n \in Nat /\ family' \in Seq(Procs) /\ Len(family') = n + 1
        /\ \A k \in 1 .. n : family'[k] = family[k] /\ k \in 1 .. n + 1
        /\ family'[n + 1] = p
    BY <1>1, <1>2
  <2>2. \A k \in 1 .. n : family[k] # p
    BY <1>2, <1>3 DEF Control, FamilyHolds
  <2> HIDE DEF n
  <2>3. ASSUME NEW j \in 1 .. n + 1, NEW k \in 1 .. n + 1, family'[j] = family'[k]
        PROVE  j = k
    <3>1. (j \in 1 .. n \/ j = n + 1) /\ (k \in 1 .. n \/ k = n + 1)
      BY <2>1
    <3>2. CASE j \in 1 .. n /\ k \in 1 .. n
      BY <2>1, <2>3, <3>2 DEF Control, FamilyHolds, n
    <3> QED BY <2>1, <2>2, <2>3, <3>1, <3>2
  <2>4. ASSUME NEW i \in Procs
        PROVE  os'[i] # "none" <=> \E k \in 1 .. n + 1 : family'[k] = i
    <3>1. os[i] # "none" <=> \E k \in 1 .. n : family[k] = i
      BY DEF Control, FamilyHolds, n
    <3>2. CASE i = p
      <4>1. n + 1 \in 1 .. n + 1 /\ family'[n + 1] = i
        BY <2>1, <3>2
      <4>2. os'[i] = "starting"
        BY <1>6, <3>2
      <4> QED BY <4>1, <4>2
    <3>3. CASE i # p
      <4>1. \A k \in 1 .. n + 1 : k \in 1 .. n \/ k = n + 1
        BY <2>1
      <4>2. os'[i] = os[i]
        BY <1>6, <3>3
      <4>3. (\E k \in 1 .. n : family[k] = i) <=> \E k \in 1 .. n + 1 : family'[k] = i
        BY <2>1, <3>3, <4>1
      <4> QED BY <3>1, <4>2, <4>3
    <3> QED BY <3>2, <3>3
  <2> QED BY <2>1, <2>3, <2>4 DEF FamilyHolds
<1>9. TableHolds'
  <2> SUFFICES ASSUME NEW i \in Procs
               PROVE  /\ os'[i] # "none" => slot'[i] = "pid" /\ alive'[i]
                      /\ ~ (slot'[i] = "pid" /\ os'[i] = "none")
    BY DEF TableHolds
  <2>1. /\ os[i] # "none" => slot[i] = "pid" /\ alive[i]
        /\ slot[i] = "pid" /\ os[i] = "none" => p = i
    BY <1>3 DEF Control, TableHolds, p
  <2> QED BY <1>6, <2>1
<1>10. PlaceHolds'
  BY <1>2, <1>3, <1>4, <1>6 DEF Control, PlaceHolds, Starts
<1>11. BootHolds'
  <2> SUFFICES ASSUME main.why = "boot"
               PROVE  /\ \A i \in Procs : retry'[i] = NoRetry
                      /\ \E k \in 1 .. Len(BootOrder) :
                           /\ BootOrder[k] = p
                           /\ \A j \in k + 1 .. Len(BootOrder) :
                                os'[BootOrder[j]] = "none" /\ slot'[BootOrder[j]] = "none"
    BY <1>4 DEF BootHolds
  <2>1. /\ \A i \in Procs : retry[i] = NoRetry
        /\ \E k \in 1 .. Len(BootOrder) :
             /\ BootOrder[k] = p
             /\ \A j \in k + 1 .. Len(BootOrder) :
                  os[BootOrder[j]] = "none" /\ slot[BootOrder[j]] = "none"
    BY <1>3 DEF Control, BootHolds, p
  <2>2. PICK k \in 1 .. Len(BootOrder) :
               /\ BootOrder[k] = p
               /\ \A j \in k + 1 .. Len(BootOrder) :
                    os[BootOrder[j]] = "none" /\ slot[BootOrder[j]] = "none"
    BY <2>1
  <2>3. \A j \in k + 1 .. Len(BootOrder) : j \in 1 .. Len(BootOrder) /\ j # k
    BY DogFacts
  <2>4. \A j \in k + 1 .. Len(BootOrder) : BootOrder[j] \in Procs /\ BootOrder[j] # p
    BY <2>2, <2>3, DogFacts DEF DogAssumption
  <2> QED BY <1>1, <1>6, <2>1, <2>2, <2>4, SMTT(20)
<1>12. DueHolds'
  BY <1>1, <1>4 DEF Control, DueHolds, Starts, p
<1>13. RingHolds'
  <2> SUFFICES ASSUME NEW i \in Procs, slot'[i] = "pid" \/ retry'[i] = NoRetry
               PROVE  Len(ages'[i]) < MaxRestarts
    BY DEF RingHolds
  <2>1. slot[i] = "pid" \/ retry[i] = NoRetry
    BY <1>1, <1>6 DEF Control, PlaceHolds, p
  <2> QED BY <1>1, <1>3, <2>1 DEF Control, RingHolds
<1> QED BY <1>5, <1>7, <1>8, <1>9, <1>10, <1>11, <1>12, <1>13, ControlHoldsNext

(* A dead process is buried.                                                    *)
LEMMA BuryIs ==
  ASSUME DogAssumption, Control, NEW k \in 1 .. Len(family), Bury(k)
  PROVE  /\ family[k] \in Procs
         /\ family' \in Seq(Procs) /\ FamilyHolds'
         /\ os' \in [Procs -> {"none", "starting", "up", "zombie"}]
         /\ alive' \in [Procs -> BOOLEAN]
         /\ \A i \in Procs : /\ os'[i] = IF i = family[k] THEN "none" ELSE os[i]
                             /\ alive'[i] = IF i = family[k] THEN FALSE ELSE alive[i]
PROOF
<1> DEFINE p == family[k]
           n == Len(family)
<1>1. /\ family \in Seq(Procs) /\ p \in Procs /\ n \in Nat
      /\ os \in [Procs -> {"none", "starting", "up", "zombie"}]
      /\ alive \in [Procs -> BOOLEAN]
  BY DEF Control, DogTypeOK
<1>2. /\ os' = [os EXCEPT ![p] = "none"] /\ family' = RemoveAt(family, k)
      /\ alive' = [alive EXCEPT ![p] = FALSE]
  BY DEF Bury
<1>3. /\ family' \in Seq(Procs) /\ Len(family') = n - 1
      /\ \A j \in 1 .. k - 1 : family'[j] = family[j]
      /\ \A j \in k .. n - 1 : family'[j] = family[j + 1]
  BY <1>1, <1>2, RemovalIs
<1>4. /\ \A j, l \in 1 .. n : family[j] = family[l] => j = l
      /\ \A i \in Procs : os[i] # "none" <=> \E j \in 1 .. n : family[j] = i
  BY DEF Control, FamilyHolds
<1>5. p = family[k] /\ k \in 1 .. n
  OBVIOUS
<1> HIDE DEF p, n
<1>6. \A i \in Procs : /\ os'[i] = IF i = p THEN "none" ELSE os[i]
                       /\ alive'[i] = IF i = p THEN FALSE ELSE alive[i]
  BY <1>1, <1>2
<1> DEFINE was(j) == IF j < k THEN j ELSE j + 1
<1>7. \A j \in 1 .. n - 1 : was(j) \in 1 .. n /\ was(j) # k /\ family'[j] = family[was(j)]
  BY <1>1, <1>3, <1>5
<1>8. \A j, l \in 1 .. n - 1 : was(j) = was(l) => j = l
  BY <1>1, <1>5
<1>9. \A l \in 1 .. n : l # k => \E j \in 1 .. n - 1 : was(j) = l
  <2> TAKE l \in 1 .. n
  <2>1. CASE l < k
    <3>1. l \in 1 .. n - 1 /\ was(l) = l
      BY <1>1, <1>5, <2>1
    <3> QED BY <3>1
  <2>2. CASE l > k
    <3>1. l - 1 \in 1 .. n - 1 /\ was(l - 1) = l
      BY <1>1, <1>5, <2>2
    <3> QED BY <3>1
  <2> QED BY <1>1, <1>5, <2>1, <2>2
<1> HIDE DEF was
<1>10. ASSUME NEW j \in 1 .. n - 1, NEW l \in 1 .. n - 1, family'[j] = family'[l]
       PROVE  j = l
  BY <1>4, <1>7, <1>8, <1>10
<1>11. ASSUME NEW i \in Procs
       PROVE  os'[i] # "none" <=> \E j \in 1 .. n - 1 : family'[j] = i
  <2>1. CASE i = p
    <3>1. \A j \in 1 .. n - 1 : family'[j] # p
      BY <1>4, <1>5, <1>7
    <3> QED BY <1>6, <2>1, <3>1
  <2>2. CASE i # p
    <3>1. os'[i] = os[i]
      BY <1>6, <2>2
    <3>2. ASSUME NEW l \in 1 .. n, family[l] = i PROVE \E j \in 1 .. n - 1 : family'[j] = i
      BY <1>5, <1>7, <1>9, <2>2, <3>2
    <3> QED BY <1>4, <1>7, <3>1, <3>2
  <2> QED BY <2>1, <2>2
<1>12. FamilyHolds'
  BY <1>3, <1>10, <1>11 DEF FamilyHolds
<1> QED BY <1>1, <1>2, <1>3, <1>6, <1>12 DEF p

(* What the loop knows of a process that died: it is in its slot, and it is the *)
(* one that may be noted once more.  And the core is never known to be dead:    *)
(* its flag goes down when it is reaped, and then it is started again before    *)
(* anybody else is reaped.                                                      *)
LEMMA ReapSees ==
  ASSUME DogAssumption, Control, NEW k \in 1 .. Len(family), Reap(k)
  PROVE  /\ main.at = "reap" /\ Runs /\ Bury(k)
         /\ family[k] \in Procs /\ slot[family[k]] = "pid"
         /\ ages' = [ages EXCEPT ![family[k]] = Append(ages[family[k]], 0)]
         /\ Len(Append(ages[family[k]], 0)) <= MaxRestarts
         /\ Append(ages[family[k]], 0) \in Seq(0 .. Window) /\ Falls(Append(ages[family[k]], 0))
         /\ ~ CoreKnownDead
PROOF
<1> DEFINE p == family[k]
           a == ages[family[k]]
<1>1. /\ main.at = "reap" /\ os[p] = "zombie" /\ Bury(k)
      /\ ages' = [ages EXCEPT ![p] = Append(a, 0)]
  BY DEF Reap, OldestDead, Noted
<1>2. p \in Procs
  BY <1>1, BuryIs
<1>3. Runs /\ \A i \in Procs : /\ os[i] # "none" => slot[i] = "pid" /\ alive[i]
                               /\ slot[i] = "pid" => os[i] # "none"
  BY <1>1 DEF Control, TableHolds, Runs
<1>4. slot[p] = "pid" /\ Len(a) < MaxRestarts
  BY <1>1, <1>2, <1>3 DEF Control, RingHolds
<1>5. a \in Seq(0 .. Window) /\ Falls(a)
  BY <1>2, ControlParts DEF TimersHold, OrderHolds
<1>6. ~ CoreKnownDead
  BY <1>3, DogFacts DEF CoreKnownDead
<1> HIDE DEF p, a
<1>7. /\ Len(Append(a, 0)) <= MaxRestarts
      /\ Append(a, 0) \in Seq(0 .. Window) /\ Falls(Append(a, 0))
  <2>1. /\ Append(a, 0) \in Seq(0 .. Window) /\ Falls(Append(a, 0))
        /\ Len(Append(a, 0)) = Len(a) + 1 /\ Len(a) \in Nat
    BY <1>5, OneMore
  <2> QED BY <1>4, <2>1 DEF DogAssumption
<1> QED BY <1>1, <1>2, <1>3, <1>4, <1>6, <1>7 DEF p, a

(* A process that died waits for its delay, or for the end of its cooldown.     *)
LEMMA ReapKeeps ==
  ASSUME DogAssumption, Control, ReapRestart \/ ReapCooldown
  PROVE  Control'
PROOF
<1>1. PICK k \in 1 .. Len(family) :
        /\ Reap(k)
        /\ \/ /\ main' = [At("backoff") EXCEPT !.proc = family[k]]
              /\ Len(Append(ages[family[k]], 0)) < MaxRestarts
              /\ UNCHANGED <<slot, retry>>
           \/ /\ main' = At("nap")
              /\ retry' = [retry EXCEPT ![family[k]] = Cooldown]
              /\ slot' = [slot EXCEPT ![family[k]] = "none"]
  <2>1. DOMAIN family = 1 .. Len(family)
    BY DEF Control, DogTypeOK
  <2>2. CASE ReapRestart
    <3>1. PICK k \in 1 .. Len(family) :
            /\ Reap(k)
            /\ Len(Noted(family[k])) < MaxRestarts
            /\ main' = IF family[k] # Core /\ CoreKnownDead
                       THEN [Starting(Core, "core") EXCEPT !.then = family[k]]
                       ELSE [At("backoff") EXCEPT !.proc = family[k]]
      BY <2>1, <2>2 DEF ReapRestart
    <3>2. ~ CoreKnownDead
      BY <3>1, ReapSees
    <3>3. UNCHANGED <<slot, retry>>
      BY <2>2 DEF ReapRestart
    <3> QED BY <3>1, <3>2, <3>3 DEF Noted
  <2>3. CASE ReapCooldown
    BY <2>1, <2>3 DEF ReapCooldown
  <2> QED BY <2>2, <2>3
<1> DEFINE p == family[k]
           a == Append(ages[p], 0)
<1>2. UNCHANGED <<ready, forks, running>>
  BY DEF ReapRestart, ReapCooldown
<1>3. /\ main.at = "reap" /\ Runs /\ p \in Procs /\ slot[p] = "pid"
      /\ ages' = [ages EXCEPT ![p] = a] /\ Len(a) <= MaxRestarts
      /\ a \in Seq(0 .. Window) /\ Falls(a) /\ Bury(k)
  BY <1>1, ReapSees
<1>4. /\ family' \in Seq(Procs) /\ FamilyHolds'
      /\ os' \in [Procs -> {"none", "starting", "up", "zombie"}]
      /\ alive' \in [Procs -> BOOLEAN]
      /\ \A i \in Procs : /\ os'[i] = IF i = p THEN "none" ELSE os[i]
                          /\ alive'[i] = IF i = p THEN FALSE ELSE alive[i]
  BY <1>3, BuryIs
<1>5. TableTypes /\ TimersHold
  BY ControlParts
<1>6. \A i \in Procs : /\ os[i] # "none" => slot[i] = "pid" /\ alive[i]
                       /\ slot[i] = "pid" => os[i] # "none"
  BY <1>3 DEF Control, TableHolds
<1> HIDE DEF a
<1>7. /\ ages' \in [Procs -> Seq(0 .. Window)]
      /\ \A i \in Procs : ages'[i] = IF i = p THEN a ELSE ages[i]
      /\ \A i \in Procs : Len(ages'[i]) <= MaxRestarts /\ Falls(ages'[i])
  <2>1. /\ ages' \in [Procs -> Seq(0 .. Window)]
        /\ \A i \in Procs : ages'[i] = IF i = p THEN a ELSE ages[i]
    BY <1>3, <1>5 DEF TimersHold
  <2> QED BY <1>3, <1>5, <2>1 DEF TimersHold, OrderHolds
<1>8. CASE /\ main' = [At("backoff") EXCEPT !.proc = p] /\ Len(a) < MaxRestarts
           /\ UNCHANGED <<slot, retry>>
  <2>1. /\ main' \in MainStates /\ main'.at = "backoff" /\ main'.proc = p /\ main'.due = {}
    <3>1. "backoff" \in Places
      BY DEF Places
    <3>2. At("backoff") \in MainStates /\ At("backoff").at = "backoff"
          /\ At("backoff").due = {}
      BY <3>1, AtIs
    <3> QED BY <1>3, <1>8, <3>2 DEF MainStates
  <2>2. TableTypes' /\ TimersHold'
    BY <1>2, <1>4, <1>5, <1>7, <1>8, <2>1 DEF TableTypes, TimersHold, OrderHolds
  <2>3. TableHolds'
    BY <1>4, <1>6, <1>8, <2>1 DEF TableHolds
  <2>4. PlaceHolds' /\ BootHolds' /\ DueHolds'
    BY <1>3, <1>4, <1>8, <2>1 DEF PlaceHolds, BootHolds, DueHolds, Starts
  <2>5. RingHolds'
    BY <1>3, <1>7, <1>8 DEF Control, RingHolds
  <2> QED BY <1>4, <2>2, <2>3, <2>4, <2>5, ControlHoldsNext
<1>9. CASE /\ main' = At("nap")
           /\ retry' = [retry EXCEPT ![p] = Cooldown]
           /\ slot' = [slot EXCEPT ![p] = "none"]
  <2>1. /\ main' \in MainStates /\ main'.at = "nap" /\ main'.due = {}
    <3>1. "nap" \in Places
      BY DEF Places
    <3> QED BY <1>9, <3>1, AtIs
  <2>2. /\ slot' \in [Procs -> {"none", "pid", "failed"}]
        /\ \A i \in Procs : slot'[i] = IF i = p THEN "none" ELSE slot[i]
    BY <1>3, <1>5, <1>9 DEF TableTypes
  <2>3. /\ retry' \in [Procs -> 0 .. Cooldown \cup {NoRetry}]
        /\ \A i \in Procs : retry'[i] = IF i = p THEN Cooldown ELSE retry[i]
    <3>1. Cooldown \in 0 .. Cooldown
      BY DEF DogAssumption
    <3> QED BY <1>3, <1>5, <1>9, <3>1 DEF TimersHold
  <2>4. TableTypes' /\ TimersHold'
    BY <1>2, <1>4, <1>5, <1>7, <2>1, <2>2, <2>3 DEF TableTypes, TimersHold, OrderHolds
  <2>5. TableHolds'
    BY <1>4, <1>6, <2>2 DEF TableHolds
  <2>6. PlaceHolds' /\ BootHolds' /\ DueHolds'
    BY <2>1 DEF PlaceHolds, BootHolds, DueHolds, Starts
  <2>7. RingHolds'
    <3>1. Cooldown # NoRetry
      BY DogFacts DEF DogAssumption
    <3> QED BY <1>3, <1>7, <2>2, <2>3, <3>1 DEF Control, RingHolds
  <2> QED BY <1>4, <2>4, <2>5, <2>6, <2>7, ControlHoldsNext
<1> QED BY <1>1, <1>8, <1>9 DEF a

(* The end.                                                                     *)
LEMMA TermReapKeeps ==
  ASSUME DogAssumption, Control, TermReap
  PROVE  Control'
PROOF
<1>1. PICK k \in 1 .. Len(family) : Bury(k)
  <2>1. DOMAIN family = 1 .. Len(family)
    BY DEF Control, DogTypeOK
  <2> QED BY <2>1 DEF TermReap
<1>2. main.at = "term" /\ UNCHANGED <<ready, slot, ages, retry, forks, running, main>>
  BY DEF TermReap, timers
<1>3. /\ family' \in Seq(Procs) /\ FamilyHolds'
      /\ os' \in [Procs -> {"none", "starting", "up", "zombie"}]
      /\ alive' \in [Procs -> BOOLEAN]
  BY <1>1, BuryIs
<1>4. TableTypes' /\ TimersHold'
  BY <1>2, <1>3, ControlParts DEF TableTypes, TimersHold, OrderHolds, MainStates
<1>5. TableHolds' /\ PlaceHolds' /\ BootHolds' /\ RingHolds'
  BY <1>2 DEF TableHolds, PlaceHolds, BootHolds, RingHolds, Runs, Starts
<1>6. DueHolds'
  BY <1>2 DEF Control, DueHolds, Starts
<1> QED BY <1>3, <1>4, <1>5, <1>6, ControlHoldsNext

LEMMA ControlKeeps ==
  ASSUME DogAssumption, Control, [DogNext]_dogVars
  PROVE  Control'
PROOF
<1>1. CASE UNCHANGED dogVars
  <2>1. UNCHANGED <<os, family, ready, slot, alive, ages, retry, forks, running, main>>
    BY <1>1 DEF dogVars, children, table, timers
  <2>2. DogTypeOK'
    BY <2>1 DEF Control, DogTypeOK
  <2>3. FamilyHolds' /\ TableHolds' /\ PlaceHolds'
    BY <2>1 DEF Control, FamilyHolds, TableHolds, PlaceHolds, Runs, Starts
  <2>4. BootHolds' /\ DueHolds'
    BY <2>1 DEF Control, BootHolds, DueHolds, Starts
  <2>5. OrderHolds'
    BY <2>1 DEF Control, OrderHolds
  <2>6. RingHolds'
    BY <2>1 DEF Control, RingHolds, Runs
  <2> QED BY <2>2, <2>3, <2>4, <2>5, <2>6 DEF Control
<1>2. CASE DogNext
  <2>1. CASE Main
    BY <2>1, ForkKeeps, ForkFailsKeeps, UnlinkKeeps, PollEnds, TimeKeeps, LoopKeeps,
      ScanRetryKeeps, ReapKeeps, WaitKeeps, TermReapKeeps DEF Main
  <2>2. CASE Signal
    BY <2>2, WaitKeeps
  <2>3. CASE \E i \in Procs : Ready(i) \/ Die(i)
    BY <2>3, ChildKeeps
  <2> QED BY <1>2, <2>1, <2>2, <2>3 DEF DogNext
<1> QED BY <1>1, <1>2

(* Every variable of the watchdog keeps its type.                               *)
THEOREM DogTypes == DogSpec => []DogTypeOK
PROOF
<1> DogAssumption
  BY DogIsAssumed
<1>1. DogInit => Control
  BY ControlStarts
<1>2. Control /\ [DogNext]_dogVars => Control'
  BY ControlKeeps
<1>3. Control => DogTypeOK
  BY DEF Control
<1> QED BY <1>1, <1>2, <1>3, PTL DEF DogSpec

(* g_children holds exactly the children that are not reaped: a signal never   *)
(* reaches a stranger, no program runs twice, no child is orphaned             *)
(* (gateway_watchdog/main.cpp 43-51, 121, 150-170, 226-252).                    *)
THEOREM ChildrenAreKnown == DogSpec => []TableIsExact
PROOF
<1> DogAssumption
  BY DogIsAssumed
<1>1. DogInit => Control
  BY ControlStarts
<1>2. Control /\ [DogNext]_dogVars => Control'
  BY ControlKeeps
<1>3. Control => TableIsExact
  <2> SUFFICES ASSUME Control PROVE TableIsExact
    OBVIOUS
  <2>1. IsInjective(family)
    <3>1. DOMAIN family = 1 .. Len(family)
      BY DEF Control, DogTypeOK
    <3> QED BY <3>1 DEF Control, FamilyHolds, IsInjective
  <2> QED BY <2>1 DEF Control, TableHolds, PlaceHolds, Runs, TableIsExact
<1> QED BY <1>1, <1>2, <1>3, PTL DEF DogSpec

(* When the loop reaps a process, the core is never known to be dead: the       *)
(* branch that starts it for the sake of the others (239-251) is not taken.     *)
THEOREM CoreIsStartedForItself == DogSpec => [](main.at = "reap" => ~ CoreKnownDead)
PROOF
<1> DogAssumption
  BY DogIsAssumed
<1>1. DogInit => Control
  BY ControlStarts
<1>2. Control /\ [DogNext]_dogVars => Control'
  BY ControlKeeps
<1>3. Control => (main.at = "reap" => ~ CoreKnownDead)
  BY DogFacts DEF Control, TableHolds, Runs, CoreKnownDead
<1> QED BY <1>1, <1>2, <1>3, PTL DEF DogSpec

-----------------------------------------------------------------------------
(* How often a program is started.  Its starts and its noted deaths go in       *)
(* pairs, from the last ones on: a death is not older than the start it ends,   *)
(* and so leaves the window no earlier.                                         *)

\* With `open' = 1 the last start has not ended.
Paired(starts, deaths, open) ==
  /\ Len(starts) <= Len(deaths) + open
  /\ \A k \in 0 .. Len(starts) - 1 - open :
       starts[Len(starts) - open - k] >= deaths[Len(deaths) - k]

PairHolds ==
  Runs => \A i \in Procs : Paired(forks[i], ages[i], IF os[i] = "none" THEN 0 ELSE 1)

\* During a cooldown nothing was started since it began.
CoolHolds ==
  \A i \in Procs :
    retry[i] # NoRetry /\ slot[i] = "none" =>
      \A k \in 1 .. Len(forks[i]) : forks[i][k] + retry[i] >= Cooldown

Counts == Control /\ PairHolds /\ CoolHolds /\ RestartLimit

LEMMA PairedElapse ==
  ASSUME DogAssumption, NEW f \in Seq(0 .. Window), NEW a \in Seq(0 .. Window),
         Falls(f), Falls(a), NEW open \in {0, 1}, Paired(f, a, open)
  PROVE  Paired(Older(f), Older(a), open)
PROOF
<1>1. PICK n \in 0 .. Len(f) :
        /\ Cut(f, n) /\ Len(Older(f)) = Len(f) - n
        /\ \A k \in 1 .. Len(f) - n : Older(f)[k] = f[n + k] + 1
  BY OlderIs
<1>2. PICK l \in 0 .. Len(a) :
        /\ Cut(a, l) /\ Len(Older(a)) = Len(a) - l
        /\ \A k \in 1 .. Len(a) - l : Older(a)[k] = a[l + k] + 1
  BY OlderIs
<1> DEFINE lf == Len(f)
           la == Len(a)
           m == lf - n
           f1 == Older(f)
           a1 == Older(a)
<1>3. /\ lf \in Nat /\ la \in Nat /\ m \in Nat /\ n \in 0 .. lf /\ l \in 0 .. la /\ Window \in Nat
      /\ \A k \in 1 .. lf : f[k] \in Int
      /\ \A k \in 1 .. la : a[k] \in Int
      /\ Len(f1) = m /\ Len(a1) = la - l
  <2>1. \A k \in 1 .. lf : f[k] \in 0 .. Window
    BY ElementOfSeq
  <2>2. \A k \in 1 .. la : a[k] \in 0 .. Window
    BY ElementOfSeq
  <2>3. lf \in Nat /\ la \in Nat
    BY LenProperties
  <2> QED BY <1>1, <1>2, <2>1, <2>2, <2>3, SMTT(20) DEF DogAssumption
<1>4. /\ lf <= la + open
      /\ \A k \in 0 .. lf - 1 - open : f[lf - open - k] >= a[la - k]
  BY DEF Paired
<1>5. /\ \A k \in 1 .. lf : f[k] < Window <=> k > n
      /\ \A k \in 1 .. la : a[k] < Window <=> k > l
      /\ \A k \in 1 .. m : f1[k] = f[n + k] + 1
      /\ \A k \in 1 .. la - l : a1[k] = a[l + k] + 1
  BY <1>1, <1>2 DEF Cut
<1> HIDE DEF lf, la, f1, a1
<1>6. m <= (la - l) + open
  <2>1. CASE m <= open
    BY <1>3, <2>1
  <2>2. CASE m > open
    <3> DEFINE k == m - 1 - open
    <3>1. /\ k \in 0 .. lf - 1 - open /\ lf - open - k = n + 1 /\ n + 1 \in 1 .. lf
          /\ la - k \in 1 .. la
      BY <1>3, <1>4, <2>2
    <3> HIDE DEF k
    <3> DEFINE x == f[n + 1]
               y == a[la - k]
    <3>2. n + 1 > n
      BY <1>3
    <3>3. x < Window /\ x >= y /\ x \in Int /\ y \in Int
      <4>1. x < Window
        BY <1>5, <3>1, <3>2
      <4>2. f[lf - open - k] >= y
        BY <1>4, <3>1
      <4> QED BY <1>3, <3>1, <4>1, <4>2
    <3> HIDE DEF x, y
    <3>4. y < Window
      BY <1>3, <3>3
    <3>5. la - k > l
      BY <1>5, <3>1, <3>4 DEF y
    <3> QED BY <1>3, <3>5 DEF k
  <2> QED BY <1>3, <2>1, <2>2
<1>7. ASSUME NEW k \in 0 .. m - 1 - open
      PROVE  f1[m - open - k] >= a1[la - l - k]
  <2>1. /\ m - open - k \in 1 .. m /\ n + (m - open - k) = lf - open - k
        /\ k \in 0 .. lf - 1 - open /\ lf - open - k \in 1 .. lf
    BY <1>3
  <2>2. la - l - k \in 1 .. la - l /\ l + (la - l - k) = la - k /\ la - k \in 1 .. la
    BY <1>3, <1>6
  <2>3. f1[m - open - k] = f[lf - open - k] + 1
    BY <1>5, <2>1
  <2>4. a1[la - l - k] = a[la - k] + 1
    BY <1>5, <2>2
  <2>5. f[lf - open - k] >= a[la - k]
    BY <1>4, <2>1
  <2>6. f[lf - open - k] \in Int /\ a[la - k] \in Int
    BY <1>3, <2>1, <2>2
  <2> DEFINE x == f[lf - open - k]
             y == a[la - k]
  <2>7. /\ x \in Int /\ y \in Int /\ x >= y
        /\ f1[m - open - k] = x + 1 /\ a1[la - l - k] = y + 1
    BY <2>3, <2>4, <2>5, <2>6
  <2> HIDE DEF x, y
  <2> QED BY <2>7
<1>8. Paired(f1, a1, open)
  BY <1>3, <1>6, <1>7 DEF Paired
<1> QED BY <1>8 DEF f1, a1

(* A start opens a pair, a noted death closes it.                               *)
LEMMA PairOpens ==
  ASSUME DogAssumption, NEW f \in Seq(0 .. Window), NEW a \in Seq(0 .. Window),
         Falls(f), Paired(f, a, 0)
  PROVE  Paired(Append(f, 0), a, 1)
PROOF
<1> DEFINE lf == Len(f)
           la == Len(a)
           f1 == Append(f, 0)
<1>1. /\ lf \in Nat /\ la \in Nat /\ Len(f1) = lf + 1
      /\ \A k \in 1 .. lf : f1[k] = f[k]
      /\ lf <= la /\ \A k \in 0 .. lf - 1 : f[lf - k] >= a[la - k]
  <2>1. lf \in Nat /\ la \in Nat
    BY LenProperties
  <2>2. lf <= la + 0 /\ \A k \in 0 .. lf - 1 - 0 : f[lf - 0 - k] >= a[la - k]
    BY DEF Paired
  <2> QED BY <2>1, <2>2, OneMore
<1> HIDE DEF lf, la, f1
<1>2. ASSUME NEW k \in 0 .. lf + 1 - 1 - 1 PROVE f1[lf + 1 - 1 - k] >= a[la - k]
  <2>1. k \in 0 .. lf - 1 /\ lf - k \in 1 .. lf /\ lf + 1 - 1 - k = lf - k
    BY <1>1
  <2> QED BY <1>1, <2>1
<1>3. Paired(f1, a, 1)
  BY <1>1, <1>2 DEF Paired, la
<1> QED BY <1>3 DEF f1

LEMMA PairCloses ==
  ASSUME DogAssumption, NEW f \in Seq(0 .. Window), NEW a \in Seq(0 .. Window),
         Falls(a), Paired(f, a, 1)
  PROVE  Paired(f, Append(a, 0), 0)
PROOF
<1> DEFINE lf == Len(f)
           la == Len(a)
           a1 == Append(a, 0)
<1>1. /\ lf \in Nat /\ la \in Nat /\ Len(a1) = la + 1 /\ a1[la + 1] = 0
      /\ \A k \in 1 .. la : a1[k] = a[k]
      /\ \A k \in 1 .. lf : f[k] \in 0 .. Window
      /\ lf <= la + 1 /\ \A k \in 0 .. lf - 1 - 1 : f[lf - 1 - k] >= a[la - k]
  <2>1. lf \in Nat /\ la \in Nat
    BY LenProperties
  <2>2. \A k \in 1 .. lf : f[k] \in 0 .. Window
    BY ElementOfSeq
  <2>3. Len(a1) = la + 1 /\ a1[la + 1] = 0 /\ \A k \in 1 .. la : a1[k] = a[k]
    BY OneMore
  <2> QED BY <2>1, <2>2, <2>3 DEF Paired
<1> HIDE DEF lf, la, a1
<1>2. ASSUME NEW k \in 0 .. lf - 1 PROVE f[lf - k] >= a1[la + 1 - k]
  <2>1. CASE k = 0
    <3>1. lf \in 1 .. lf /\ lf - k = lf /\ la + 1 - k = la + 1
      BY <1>1, <2>1
    <3>2. f[lf] \in 0 .. Window
      BY <1>1, <3>1
    <3> QED BY <1>1, <3>1, <3>2 DEF DogAssumption
  <2>2. CASE k # 0
    <3>1. /\ k - 1 \in 0 .. lf - 1 - 1 /\ lf - 1 - (k - 1) = lf - k /\ la - (k - 1) = la + 1 - k
          /\ la + 1 - k \in 1 .. la
      BY <1>1, <2>2
    <3>2. f[lf - 1 - (k - 1)] >= a[la - (k - 1)]
      BY <1>1, <3>1
    <3> QED BY <1>1, <3>1, <3>2
  <2> QED BY <2>1, <2>2
<1>3. Paired(f, a1, 0)
  <2>1. lf <= (la + 1) + 0 /\ \A k \in 0 .. lf - 1 - 0 : f[lf - 0 - k] >= a1[(la + 1) - k]
    BY <1>1, <1>2
  <2> QED BY <1>1, <2>1 DEF Paired, lf
<1> QED BY <1>3 DEF a1

LEMMA CountsStart ==
  ASSUME DogAssumption, DogInit
  PROVE  Counts
PROOF
<1>1. \A i \in Procs : ages[i] = <<>> /\ forks[i] = <<>> /\ os[i] = "none"
                       /\ retry[i] = NoRetry
  BY DEF DogInit
<1>2. Paired(<<>>, <<>>, 0)
  <2>1. Len(<<>>) = 0
    BY NothingFalls
  <2> QED BY <2>1 DEF Paired
<1>3. PairHolds
  BY <1>1, <1>2 DEF PairHolds
<1>4. CoolHolds
  BY <1>1 DEF CoolHolds
<1>5. RestartLimit
  BY <1>1, NothingFalls DEF RestartLimit, DogAssumption
<1> QED BY <1>3, <1>4, <1>5, ControlStarts DEF Counts

LEMMA CountsParts ==
  ASSUME DogAssumption, Counts, NEW i \in Procs
  PROVE  /\ forks[i] \in Seq(0 .. Window) /\ ages[i] \in Seq(0 .. Window)
         /\ Falls(forks[i]) /\ Falls(ages[i])
         /\ Len(forks[i]) \in Nat /\ Len(ages[i]) \in Nat /\ MaxRestarts \in Nat
         /\ \A k \in 1 .. Len(forks[i]) : forks[i][k] \in 0 .. Window
         /\ Len(forks[i]) <= MaxRestarts
         /\ retry[i] \in 0 .. Cooldown \cup {NoRetry}
PROOF
<1> DEFINE f == forks[i]
<1>1. /\ f \in Seq(0 .. Window) /\ ages[i] \in Seq(0 .. Window) /\ Falls(f) /\ Falls(ages[i])
      /\ Len(f) <= MaxRestarts /\ retry[i] \in 0 .. Cooldown \cup {NoRetry}
  BY ControlParts DEF Counts, TimersHold, OrderHolds, RestartLimit
<1> HIDE DEF f
<1>2. Len(f) \in Nat /\ \A k \in 1 .. Len(f) : f[k] \in 0 .. Window
  BY <1>1, LenProperties, ElementOfSeq
<1>3. Len(ages[i]) \in Nat /\ MaxRestarts \in Nat
  BY <1>1, LenProperties DEF DogAssumption
<1> QED BY <1>1, <1>2, <1>3 DEF f

(* Nothing is noted or started, and no cooldown begins.                         *)
LEMMA CountsStay ==
  ASSUME DogAssumption, Counts, UNCHANGED <<ages, forks, retry>>,
         Runs' => Runs,
         Runs' => \A i \in Procs : os'[i] = "none" <=> os[i] = "none",
         \A i \in Procs : slot'[i] = "none" => slot[i] = "none"
  PROVE  PairHolds' /\ CoolHolds' /\ RestartLimit'
PROOF
<1>1. PairHolds'
  BY DEF Counts, PairHolds
<1>2. CoolHolds'
  BY DEF Counts, CoolHolds
<1> QED BY <1>1, <1>2 DEF Counts, RestartLimit

LEMMA CountsElapse ==
  ASSUME DogAssumption, Counts, Elapse, UNCHANGED <<os, slot>>, Runs
  PROVE  PairHolds' /\ CoolHolds' /\ RestartLimit'
PROOF
<1>1. ASSUME NEW i \in Procs
      PROVE  /\ ages'[i] = Older(ages[i]) /\ forks'[i] = Older(forks[i])
             /\ retry'[i] = IF retry[i] > 0 THEN retry[i] - 1 ELSE retry[i]
  BY DEF Elapse
<1>2. PairHolds'
  <2> SUFFICES ASSUME NEW i \in Procs
               PROVE  Paired(forks'[i], ages'[i], IF os'[i] = "none" THEN 0 ELSE 1)
    BY DEF PairHolds
  <2> DEFINE open == IF os[i] = "none" THEN 0 ELSE 1
             f == forks[i]
             a == ages[i]
  <2>1. open \in {0, 1} /\ Paired(f, a, open)
    BY DEF Counts, PairHolds
  <2>2. f \in Seq(0 .. Window) /\ a \in Seq(0 .. Window) /\ Falls(f) /\ Falls(a)
    BY CountsParts
  <2>3. forks'[i] = Older(f) /\ ages'[i] = Older(a)
    BY <1>1
  <2>4. (IF os'[i] = "none" THEN 0 ELSE 1) = open
    OBVIOUS
  <2> HIDE DEF open, f, a
  <2>5. Paired(Older(f), Older(a), open)
    BY <2>1, <2>2, PairedElapse
  <2> QED BY <2>3, <2>4, <2>5
<1>3. ASSUME NEW i \in Procs
      PROVE  \E n \in 0 .. Len(forks[i]) :
               /\ Len(forks'[i]) = Len(forks[i]) - n
               /\ \A k \in 1 .. Len(forks[i]) - n : forks'[i][k] = forks[i][n + k] + 1
  <2> DEFINE f == forks[i]
  <2>1. f \in Seq(0 .. Window) /\ Falls(f) /\ forks'[i] = Older(f)
    BY <1>1, CountsParts
  <2> HIDE DEF f
  <2>2. \E n \in 0 .. Len(f) : /\ Len(Older(f)) = Len(f) - n
                               /\ \A k \in 1 .. Len(f) - n : Older(f)[k] = f[n + k] + 1
    BY <2>1, OlderIs
  <2> QED BY <2>1, <2>2 DEF f
<1>4. CoolHolds'
  <2> SUFFICES ASSUME NEW i \in Procs, retry'[i] # NoRetry, slot'[i] = "none",
                      NEW k \in 1 .. Len(forks'[i])
               PROVE  forks'[i][k] + retry'[i] >= Cooldown
    BY DEF CoolHolds
  <2>1. PICK n \in 0 .. Len(forks[i]) :
          /\ Len(forks'[i]) = Len(forks[i]) - n
          /\ \A l \in 1 .. Len(forks[i]) - n : forks'[i][l] = forks[i][n + l] + 1
    BY <1>3
  <2>2. Len(forks[i]) \in Nat /\ \A l \in 1 .. Len(forks[i]) : forks[i][l] \in 0 .. Window
    BY CountsParts
  <2>3. n + k \in 1 .. Len(forks[i]) /\ k \in 1 .. Len(forks[i]) - n
    BY <2>1, <2>2
  <2> DEFINE x == forks[i][n + k]
             r == retry[i]
  <2>4. forks'[i][k] = x + 1 /\ x \in 0 .. Window
    BY <2>1, <2>2, <2>3
  <2>5. r \in 0 .. Cooldown \cup {NoRetry} /\ NoRetry = -1 /\ Cooldown \in Nat
        /\ Window \in Nat
    BY CountsParts, DogFacts DEF DogAssumption
  <2>6. retry'[i] = IF r > 0 THEN r - 1 ELSE r
    BY <1>1
  <2>7. r # NoRetry => x + r >= Cooldown
    BY <2>3 DEF Counts, CoolHolds
  <2> HIDE DEF x, r
  <2>8. r # NoRetry
    BY <2>5, <2>6
  <2>9. r \in 0 .. Cooldown /\ x + r >= Cooldown
    BY <2>5, <2>7, <2>8
  <2> QED BY <2>4, <2>5, <2>6, <2>9
<1>5. RestartLimit'
  <2> SUFFICES ASSUME NEW i \in Procs PROVE Len(forks'[i]) <= MaxRestarts
    BY DEF RestartLimit
  <2>1. PICK n \in 0 .. Len(forks[i]) : Len(forks'[i]) = Len(forks[i]) - n
    BY <1>3
  <2>2. Len(forks[i]) \in Nat /\ MaxRestarts \in Nat /\ Len(forks[i]) <= MaxRestarts
    BY CountsParts
  <2> QED BY <2>1, <2>2
<1> QED BY <1>2, <1>4, <1>5

\* The cooldown outlasts the window: nothing is left in it.
LEMMA CountsScanRetry ==
  ASSUME DogAssumption, Counts, ScanRetry
  PROVE  PairHolds' /\ CoolHolds' /\ RestartLimit'
PROOF
<1>1. PICK i \in Idle :
        /\ ages' = [ages EXCEPT ![i] = <<>>]
        /\ retry' = [retry EXCEPT ![i] = NoRetry]
  BY DEF ScanRetry
<1>2. main.at = "scan" /\ UNCHANGED <<os, slot, forks>>
  BY DEF ScanRetry, children, table
<1>3. i \in Procs /\ slot[i] = "none" /\ retry[i] = 0
  BY DEF Counts, Control, DogTypeOK, DueHolds, Idle, MainStates
<1>4. Runs /\ os[i] = "none"
  BY <1>2, <1>3 DEF Counts, Control, TableHolds, Runs
<1>5. \A j \in Procs : /\ ages'[j] = IF j = i THEN <<>> ELSE ages[j]
                       /\ retry'[j] = IF j = i THEN NoRetry ELSE retry[j]
  BY <1>1, <1>3, ControlParts DEF Counts, TimersHold
<1>6. forks[i] = <<>>
  <2> DEFINE f == forks[i]
  <2>1. f \in Seq(0 .. Window) /\ Len(f) \in Nat /\ \A k \in 1 .. Len(f) : f[k] \in 0 .. Window
    BY <1>3, CountsParts
  <2>2. \A k \in 1 .. Len(f) : f[k] + 0 >= Cooldown
    BY <1>3, DogFacts DEF Counts, CoolHolds
  <2> HIDE DEF f
  <2>3. Len(f) = 0
    <3> SUFFICES ASSUME Len(f) # 0 PROVE FALSE
      OBVIOUS
    <3>1. 1 \in 1 .. Len(f)
      BY <2>1
    <3> QED BY <2>1, <2>2, <3>1 DEF DogAssumption
  <2>4. f = <<>>
    BY <2>1, <2>3, EmptySeq
  <2> QED BY <2>4 DEF f
<1>7. Paired(<<>>, <<>>, 0)
  BY NothingFalls DEF Paired
<1>8. PairHolds'
  <2> SUFFICES ASSUME NEW j \in Procs
               PROVE  Paired(forks'[j], ages'[j], IF os'[j] = "none" THEN 0 ELSE 1)
    BY DEF PairHolds
  <2>1. CASE j = i
    BY <1>2, <1>4, <1>5, <1>6, <1>7, <2>1
  <2>2. CASE j # i
    BY <1>2, <1>4, <1>5, <2>2 DEF Counts, PairHolds
  <2> QED BY <2>1, <2>2
<1>9. CoolHolds'
  BY <1>2, <1>5 DEF Counts, CoolHolds
<1> QED BY <1>2, <1>8, <1>9 DEF Counts, RestartLimit

LEMMA CountsFork ==
  ASSUME DogAssumption, Counts, Fork
  PROVE  PairHolds' /\ CoolHolds' /\ RestartLimit'
PROOF
<1> DEFINE p == main.proc
<1>1. /\ main.at = "fork"
      /\ os' = [os EXCEPT ![p] = "starting"]
      /\ slot' = [slot EXCEPT ![p] = "pid"]
      /\ forks' = [forks EXCEPT ![p] = Append(@, 0)]
      /\ UNCHANGED <<ages, retry>>
  BY DEF Fork
<1>2. Runs /\ os[p] = "none" /\ p \in Procs
      /\ (slot[p] = "pid" \/ retry[p] = NoRetry)
  BY <1>1 DEF Runs, Counts, Control, PlaceHolds, DogTypeOK, MainStates
<1> HIDE DEF p
<1>3. \A i \in Procs : /\ os'[i] = IF i = p THEN "starting" ELSE os[i]
                       /\ slot'[i] = IF i = p THEN "pid" ELSE slot[i]
                       /\ forks'[i] = IF i = p THEN Append(forks[i], 0) ELSE forks[i]
  BY <1>1, <1>2, ControlParts DEF Counts, TimersHold, TableTypes
<1> DEFINE f == forks[p]
           a == ages[p]
<1>4. /\ f \in Seq(0 .. Window) /\ a \in Seq(0 .. Window) /\ Falls(f)
      /\ Paired(f, a, 0) /\ Len(f) \in Nat /\ Len(a) \in Nat /\ MaxRestarts \in Nat
      /\ Len(a) < MaxRestarts
  <2>1. Paired(f, a, 0)
    BY <1>2 DEF Counts, PairHolds
  <2>2. Len(a) < MaxRestarts
    BY <1>2 DEF Counts, Control, RingHolds
  <2> QED BY <1>2, <2>1, <2>2, CountsParts
<1>5. forks'[p] = Append(f, 0) /\ ages'[p] = a /\ os'[p] # "none" /\ slot'[p] # "none"
  <2>1. forks'[p] = Append(f, 0) /\ os'[p] = "starting" /\ slot'[p] = "pid"
    BY <1>2, <1>3
  <2>2. ages'[p] = a
    BY <1>1
  <2> QED BY <2>1, <2>2
<1> HIDE DEF f, a
<1>6. Paired(Append(f, 0), a, 1) /\ Len(Append(f, 0)) <= MaxRestarts
  <2>1. Paired(Append(f, 0), a, 1)
    BY <1>4, PairOpens
  <2>2. Len(Append(f, 0)) = Len(f) + 1 /\ Len(f) <= Len(a) + 0
    BY <1>4, OneMore DEF Paired
  <2> QED BY <1>4, <2>1, <2>2
<1>7. PairHolds'
  <2> SUFFICES ASSUME NEW i \in Procs
               PROVE  Paired(forks'[i], ages'[i], IF os'[i] = "none" THEN 0 ELSE 1)
    BY DEF PairHolds
  <2>1. CASE i = p
    BY <1>5, <1>6, <2>1
  <2>2. CASE i # p
    BY <1>1, <1>2, <1>3, <2>2 DEF Counts, PairHolds
  <2> QED BY <2>1, <2>2
<1>8. CoolHolds'
  <2> SUFFICES ASSUME NEW i \in Procs, retry'[i] # NoRetry, slot'[i] = "none"
               PROVE  \A k \in 1 .. Len(forks'[i]) : forks'[i][k] + retry'[i] >= Cooldown
    BY DEF CoolHolds
  <2>1. i # p /\ slot[i] = "none" /\ forks'[i] = forks[i] /\ retry'[i] = retry[i]
    BY <1>1, <1>3, <1>5
  <2> QED BY <2>1 DEF Counts, CoolHolds
<1>9. RestartLimit'
  <2> SUFFICES ASSUME NEW i \in Procs PROVE Len(forks'[i]) <= MaxRestarts
    BY DEF RestartLimit
  <2>1. CASE i = p
    BY <1>5, <1>6, <2>1
  <2>2. CASE i # p
    BY <1>3, <2>2 DEF Counts, RestartLimit
  <2> QED BY <2>1, <2>2
<1> QED BY <1>7, <1>8, <1>9

LEMMA CountsReap ==
  ASSUME DogAssumption, Counts, ReapRestart \/ ReapCooldown
  PROVE  PairHolds' /\ CoolHolds' /\ RestartLimit'
PROOF
<1>1. PICK k \in 1 .. Len(family) :
        /\ Reap(k)
        /\ \/ UNCHANGED <<slot, retry>>
           \/ /\ retry' = [retry EXCEPT ![family[k]] = Cooldown]
              /\ slot' = [slot EXCEPT ![family[k]] = "none"]
  <2>1. DOMAIN family = 1 .. Len(family)
    BY DEF Counts, Control, DogTypeOK
  <2>2. CASE ReapRestart
    BY <2>1, <2>2 DEF ReapRestart
  <2>3. CASE ReapCooldown
    BY <2>1, <2>3 DEF ReapCooldown
  <2> QED BY <2>2, <2>3
<1> DEFINE p == family[k]
           f == forks[p]
           a == ages[p]
<1>2. /\ Runs /\ p \in Procs /\ slot[p] = "pid" /\ os[p] # "none"
      /\ ages' = [ages EXCEPT ![p] = Append(a, 0)] /\ Bury(k)
  <2>1. os[p] # "none"
    BY <1>1 DEF Reap, OldestDead
  <2> QED BY <1>1, <2>1, ReapSees DEF Counts
<1>3. \A i \in Procs : os'[i] = IF i = p THEN "none" ELSE os[i]
  BY <1>2, BuryIs DEF Counts
<1>4. UNCHANGED forks
  BY DEF ReapRestart, ReapCooldown
<1>5. \A i \in Procs : ages'[i] = IF i = p THEN Append(a, 0) ELSE ages[i]
  BY <1>2, ControlParts DEF Counts, TimersHold
<1>6. f \in Seq(0 .. Window) /\ a \in Seq(0 .. Window) /\ Falls(a) /\ Paired(f, a, 1)
  <2>1. Paired(f, a, 1)
    BY <1>2 DEF Counts, PairHolds
  <2> QED BY <1>2, <2>1, CountsParts
<1>7. forks'[p] = f /\ ages'[p] = Append(a, 0) /\ os'[p] = "none"
  BY <1>2, <1>3, <1>4, <1>5
<1> HIDE DEF p, f, a
<1>8. Paired(f, Append(a, 0), 0)
  BY <1>6, PairCloses
<1>9. PairHolds'
  <2> SUFFICES ASSUME NEW i \in Procs
               PROVE  Paired(forks'[i], ages'[i], IF os'[i] = "none" THEN 0 ELSE 1)
    BY DEF PairHolds
  <2>1. CASE i = p
    BY <1>7, <1>8, <2>1
  <2>2. CASE i # p
    BY <1>2, <1>3, <1>4, <1>5, <2>2 DEF Counts, PairHolds
  <2> QED BY <2>1, <2>2
<1>10. CoolHolds'
  <2>1. CASE UNCHANGED <<slot, retry>>
    BY <1>4, <2>1 DEF Counts, CoolHolds
  <2>2. CASE /\ retry' = [retry EXCEPT ![p] = Cooldown]
             /\ slot' = [slot EXCEPT ![p] = "none"]
    <3> SUFFICES ASSUME NEW i \in Procs, retry'[i] # NoRetry, slot'[i] = "none",
                        NEW l \in 1 .. Len(forks[i])
                 PROVE  forks[i][l] + retry'[i] >= Cooldown
      BY <1>4 DEF CoolHolds
    <3>1. CASE i = p
      <4>1. retry'[i] = Cooldown
        BY <2>2, <3>1, ControlParts DEF Counts, TimersHold
      <4>2. forks[i][l] \in 0 .. Window
        BY CountsParts
      <4> DEFINE x == forks[i][l]
      <4>3. x \in Nat /\ retry'[i] = Cooldown /\ Cooldown \in Nat
        BY <4>1, <4>2 DEF DogAssumption
      <4> HIDE DEF x
      <4>4. x + retry'[i] >= Cooldown
        BY <4>3
      <4> QED BY <4>4 DEF x
    <3>2. CASE i # p
      <4>1. retry'[i] = retry[i] /\ slot'[i] = slot[i]
        BY <2>2, <3>2, ControlParts DEF Counts, TimersHold, TableTypes
      <4> QED BY <4>1 DEF Counts, CoolHolds
    <3> QED BY <3>1, <3>2
  <2> QED BY <1>1, <2>1, <2>2 DEF p
<1> QED BY <1>4, <1>9, <1>10 DEF Counts, RestartLimit

LEMMA CountsForkFails ==
  ASSUME DogAssumption, Counts, ForkFails
  PROVE  PairHolds' /\ CoolHolds' /\ RestartLimit'
PROOF
<1>1. /\ main.at = "fork"
      /\ slot' = [slot EXCEPT ![main.proc] = "failed"]
      /\ retry' = IF main.why = "retry" THEN [retry EXCEPT ![main.proc] = Cooldown] ELSE retry
      /\ UNCHANGED <<os, ages, forks>>
  BY DEF ForkFails, children
<1>2. PairHolds'
  <2>1. Runs
    BY <1>1 DEF Runs
  <2> QED BY <1>1, <2>1 DEF Counts, PairHolds
<1>3. CoolHolds'
  <2> SUFFICES ASSUME NEW i \in Procs, retry'[i] # NoRetry, slot'[i] = "none",
                      NEW k \in 1 .. Len(forks[i])
               PROVE  forks[i][k] + retry'[i] >= Cooldown
    BY <1>1 DEF CoolHolds
  <2>1. i # main.proc /\ slot[i] = "none" /\ retry'[i] = retry[i]
    BY <1>1, ControlParts DEF Counts, TableTypes, TimersHold
  <2> QED BY <2>1 DEF Counts, CoolHolds
<1> QED BY <1>1, <1>2, <1>3 DEF Counts, RestartLimit

LEMMA CountsKeep ==
  ASSUME DogAssumption, Counts, [DogNext]_dogVars
  PROVE  Counts'
PROOF
<1>1. Control'
  BY ControlKeeps DEF Counts
<1>2. main.proc \in Procs /\ os \in [Procs -> {"none", "starting", "up", "zombie"}]
  BY DEF Counts, Control, DogTypeOK
<1>3. CASE UNCHANGED dogVars
  BY <1>1, <1>3, CountsStay DEF dogVars, children, table, timers, Counts, Runs
<1>4. CASE Unlink \/ PollReady \/ Top \/ ScanDone \/ ReapNone \/ Backoff
           \/ Wake \/ Signal
  <2>1. UNCHANGED <<ages, forks, retry, os, slot>> /\ Runs
    BY <1>4 DEF Unlink, PollReady, Top, ScanDone, ReapNone, Backoff,
      Wake, Signal, children, table, timers, Runs
  <2> QED BY <1>1, <2>1, CountsStay DEF Counts
<1>5. CASE TermDone \/ TermReap
  <2>1. UNCHANGED <<ages, forks, retry, slot>> /\ main'.at \in {"term", "exited"}
    <3>1. "exited" \in Places
      BY DEF Places
    <3> QED BY <1>5, <3>1, AtIs DEF TermDone, TermReap, children, table, timers
  <2> QED BY <1>1, <2>1, CountsStay DEF Counts, Runs
<1>6. CASE PollTimeout
  <2>1. /\ main.at = "poll" /\ os' = [os EXCEPT ![main.proc] = "zombie"]
        /\ UNCHANGED <<ages, forks, retry, slot>>
    BY <1>6 DEF PollTimeout, table, timers
  <2>2. os[main.proc] # "none" /\ Runs
    BY <2>1 DEF Counts, Control, PlaceHolds, Runs
  <2>3. \A i \in Procs : os'[i] = "none" <=> os[i] = "none"
    BY <1>2, <2>1, <2>2
  <2> QED BY <1>1, <2>1, <2>2, <2>3, CountsStay DEF Counts
<1>7. CASE \E i \in Procs : Ready(i) \/ Die(i)
  <2>1. /\ UNCHANGED <<ages, forks, retry, slot, main>>
        /\ \A i \in Procs : os'[i] = "none" <=> os[i] = "none"
    BY <1>2, <1>7 DEF Ready, Die, table, timers
  <2> QED BY <1>1, <2>1, CountsStay DEF Counts, Runs
<1>8. CASE PollAgain \/ Sleep \/ Nap
  <2>1. Elapse /\ UNCHANGED <<os, slot>> /\ Runs
    BY <1>8 DEF PollAgain, Sleep, Nap, children, table, Runs
  <2> QED BY <1>1, <2>1, CountsElapse DEF Counts
<1>9. CASE Fork \/ ForkFails \/ ScanRetry \/ ReapRestart \/ ReapCooldown
  BY <1>1, <1>9, CountsFork, CountsForkFails, CountsScanRetry, CountsReap DEF Counts
<1> QED BY <1>3, <1>4, <1>5, <1>6, <1>7, <1>8, <1>9 DEF DogNext, Main

(* No program is started more than kMaxRestarts times in a window, for any      *)
(* number of programs and any limits: the ring of attempts, the growing delay,  *)
(* the cooldown and the reset after it (66-90, 205-218, 235-259) see to it      *)
(* together, provided that the cooldown outlasts the window.                    *)
THEOREM RestartsAreLimited == DogSpec => []RestartLimit
PROOF
<1> DogAssumption
  BY DogIsAssumed
<1>1. DogInit => Counts
  BY CountsStart
<1>2. Counts /\ [DogNext]_dogVars => Counts'
  BY CountsKeep
<1>3. Counts => RestartLimit
  BY DEF Counts
<1> QED BY <1>1, <1>2, <1>3, PTL DEF DogSpec
=============================================================================
