----------------------------- MODULE ShmSeqlock -----------------------------
(***************************************************************************)
(* The status block the core publishes in System V shared memory: two      *)
(* buffers used in turn (ShmLayout.h), each guarded by a sequence number   *)
(* that is odd while it is written.  One publisher, the event-loop thread  *)
(* of the core (ShmPublisher::publish); any number of readers, the Qt      *)
(* monitor and the HTTP thread (ShmReader::read).                          *)
(*                                                                         *)
(* A ShmBlock is a plain struct: it is stored and loaded word by word, in  *)
(* any order.  A word holds the number of the publication that wrote it,   *)
(* 0 for the memset of the constructor.                                    *)
(*                                                                         *)
(* The release store that makes the sequence number odd (line 57) orders   *)
(* the stores BEFORE it, not the plain stores of line 58 after it: a word  *)
(* may become visible first, as the C++ memory model and the aarch64       *)
(* target (RK3588) allow; stores in program order, as on x86, are some of  *)
(* these behaviours.  The release stores of lines 59 and 62 follow all     *)
(* words, the write() and the acquire load of line 51 stand between two    *)
(* publications, and the fence of a reader (ShmReader.cpp 56) keeps its    *)
(* second look at the number behind its copy: nothing else is reordered.   *)
(*                                                                         *)
(* The segment outlives the core.  A core that the watchdog restarts       *)
(* clears it (line 30) under the readers, in an order memset does not      *)
(* promise.                                                                *)
(*                                                                         *)
(* seq is a uint32 in the code and a natural number here: it would have to *)
(* wrap within one read of the block to matter.                            *)
(***************************************************************************)
EXTENDS Naturals

CONSTANTS Readers,     \* threads that call ShmReader::read
          Words,       \* the words of a ShmBlock
          Retries,     \* attempts of one read(), 4 in the code
          MaxPublish,  \* TLC bound: publications, a crash in place of the last
          MaxCrash     \* TLC bound: crashes of the core

ASSUME RetriesAssumption == Retries \in Nat /\ Retries > 0
ASSUME BoundsAssumption == MaxPublish \in Nat /\ MaxCrash \in Nat

VARIABLES
  buffers,    \* ShmRegion::buffers
  seq,        \* ShmRegion::seq
  readIndex,  \* ShmRegion::read_index
  pub,        \* the publisher: where it is in publish(), or in its constructor
  toClear,    \* what the memset of a restarted core has not cleared yet, or
              \* never will if the core died in it
  rd,         \* the readers: where each is in read(), and what it copied
  accepted,   \* what the last read() of each reader returned
  version,    \* publications begun
  published,  \* the last publication the index was switched to
  crashes     \* crashes of the core so far

pubVars == <<buffers, seq, readIndex, pub, toClear, version, published, crashes>>
rdVars == <<rd, accepted>>
vars == <<buffers, seq, readIndex, pub, toClear, rd, accepted, version,
          published, crashes>>

Bufs == {0, 1}

Blank == [w \in Words |-> 0]

Odd(n) == n % 2 = 1

AllCells == [words |-> Bufs \X Words, seqs |-> Bufs, index |-> TRUE]
NoCells  == [words |-> {}, seqs |-> {}, index |-> FALSE]

\* publish() has not been called.
Resting == [at |-> "idle", target |-> 0, cur |-> 0, odd |-> FALSE, todo |-> {}]

Init ==
  /\ buffers = [b \in Bufs |-> Blank]
  /\ seq = [b \in Bufs |-> 0]
  /\ readIndex = 0
  /\ pub = Resting
  /\ toClear = NoCells
  /\ rd = [r \in Readers |-> [at |-> "idle", idx |-> 0, s1 |-> 0, todo |-> {},
                              copy |-> Blank, left |-> Retries, from |-> 0,
                              overlap |-> FALSE]]
  /\ accepted = [r \in Readers |-> [block |-> Blank, idx |-> 0, from |-> 0,
                                    overlap |-> FALSE]]
  /\ version = 0
  /\ published = 0
  /\ crashes = 0

-----------------------------------------------------------------------------
(* ShmPublisher::publish *)

\* Variant with a bug: only what changed is stored, into a buffer that is two
\* publications behind.
PublishPartial ==
  /\ pub.at = "idle"
  /\ version + crashes < MaxPublish
  /\ version' = version + 1
  /\ LET other == 1 - readIndex IN
       \E some \in SUBSET Words \ {{}} :
         pub' = [at |-> "write", target |-> other, cur |-> seq[other],
                 odd |-> FALSE, todo |-> some]
  /\ UNCHANGED <<buffers, seq, readIndex, toClear, rdVars, published, crashes>>

\* Variant with a bug: the buffer that readers are directed to.
PublishSame ==
  /\ pub.at = "idle"
  /\ version + crashes < MaxPublish
  /\ version' = version + 1
  /\ pub' = [at |-> "write", target |-> readIndex, cur |-> seq[readIndex],
             odd |-> FALSE, todo |-> Words]
  /\ UNCHANGED <<buffers, seq, readIndex, toClear, rdVars, published, crashes>>

\* The buffer that readers are not directed to, and its sequence number.
PublishBegin ==
  /\ pub.at = "idle"
  /\ version + crashes < MaxPublish
  /\ version' = version + 1
  /\ LET other == 1 - readIndex IN
       pub' = [at |-> "write", target |-> other, cur |-> seq[other],
               odd |-> FALSE, todo |-> Words]
  /\ UNCHANGED <<buffers, seq, readIndex, toClear, rdVars, published, crashes>>

PublishOdd ==
  /\ pub.at = "write"
  /\ ~pub.odd
  /\ seq' = [seq EXCEPT ![pub.target] = pub.cur + 1]
  /\ pub' = [pub EXCEPT !.odd = TRUE]
  /\ UNCHANGED <<buffers, readIndex, toClear, rdVars, version, published, crashes>>

\* A word may be seen before the odd number is.
PublishWord(w) ==
  /\ pub.at = "write"
  /\ w \in pub.todo
  /\ buffers' = [buffers EXCEPT ![pub.target][w] = version]
  /\ pub' = [pub EXCEPT !.todo = @ \ {w}]
  /\ UNCHANGED <<seq, readIndex, toClear, rdVars, version, published, crashes>>

\* A release store: the words and the odd number are visible before it.
PublishEven ==
  /\ pub.at = "write"
  /\ pub.odd
  /\ pub.todo = {}
  /\ seq' = [seq EXCEPT ![pub.target] = pub.cur + 2]
  /\ pub' = [pub EXCEPT !.at = "flip"]
  /\ UNCHANGED <<buffers, readIndex, toClear, rdVars, version, published, crashes>>

\* Variant with a bug: the index stays where it is.
PublishNoFlip ==
  /\ pub.at = "flip"
  /\ published' = version
  /\ pub' = [pub EXCEPT !.at = "idle"]
  /\ UNCHANGED <<buffers, seq, readIndex, toClear, rdVars, version, crashes>>

\* The write to the monitor's eventfd that follows wakes onShmNotify, which
\* only empties it: the panels are refreshed by a timer.
PublishFlip ==
  /\ pub.at = "flip"
  /\ readIndex' = pub.target
  /\ published' = version
  /\ pub' = [pub EXCEPT !.at = "idle"]
  /\ UNCHANGED <<buffers, seq, toClear, rdVars, version, crashes>>

-----------------------------------------------------------------------------
(* A crash of the core, and the constructor of the next one *)

Crash ==
  /\ pub.at # "dead"
  /\ crashes < MaxCrash
  /\ version + crashes < MaxPublish
  /\ crashes' = crashes + 1
  /\ pub' = [pub EXCEPT !.at = "dead"]
  /\ UNCHANGED <<buffers, seq, readIndex, toClear, rdVars, version, published>>

\* shmget finds the old segment, memset starts on it.  Every read() under way
\* overlaps the clearing.
Restart ==
  /\ pub.at = "dead"
  /\ pub' = [Resting EXCEPT !.at = "clear"]
  /\ toClear' = AllCells
  /\ published' = 0
  /\ rd' = [r \in Readers |-> [rd[r] EXCEPT !.overlap = TRUE]]
  /\ UNCHANGED <<buffers, seq, readIndex, accepted, version, crashes>>

ClearWord(b, w) ==
  /\ pub.at = "clear"
  /\ <<b, w>> \in toClear.words
  /\ buffers' = [buffers EXCEPT ![b][w] = 0]
  /\ toClear' = [toClear EXCEPT !.words = @ \ {<<b, w>>}]
  /\ UNCHANGED <<seq, readIndex, pub, rdVars, version, published, crashes>>

ClearSeq(b) ==
  /\ pub.at = "clear"
  /\ b \in toClear.seqs
  /\ seq' = [seq EXCEPT ![b] = 0]
  /\ toClear' = [toClear EXCEPT !.seqs = @ \ {b}]
  /\ UNCHANGED <<buffers, readIndex, pub, rdVars, version, published, crashes>>

ClearIndex ==
  /\ pub.at = "clear"
  /\ toClear.index
  /\ readIndex' = 0
  /\ toClear' = [toClear EXCEPT !.index = FALSE]
  /\ UNCHANGED <<buffers, seq, pub, rdVars, version, published, crashes>>

Cleared ==
  /\ pub.at = "clear"
  /\ toClear = NoCells
  /\ pub' = [pub EXCEPT !.at = "idle"]
  /\ UNCHANGED <<buffers, seq, readIndex, toClear, rdVars, version, published, crashes>>

-----------------------------------------------------------------------------
(* ShmReader::read *)

ReadBegin(r) ==
  /\ rd[r].at = "idle"
  /\ rd' = [rd EXCEPT ![r].at = "index", ![r].left = Retries]
  /\ UNCHANGED <<pubVars, accepted>>

\* Variant with a bug: the reader takes the other buffer.
ReadOther(r) ==
  /\ rd[r].at = "index"
  /\ rd' = [rd EXCEPT ![r].at = "seq", ![r].idx = 1 - readIndex, ![r].from = published,
                      ![r].overlap = (toClear # NoCells)]
  /\ UNCHANGED <<pubVars, accepted>>

ReadIndex(r) ==
  /\ rd[r].at = "index"
  /\ rd' = [rd EXCEPT ![r].at = "seq", ![r].idx = readIndex, ![r].from = published,
                      ![r].overlap = (toClear # NoCells)]
  /\ UNCHANGED <<pubVars, accepted>>

\* The reader as it is after one more attempt that found the block in change.
Rejected(r) ==
  [rd[r] EXCEPT !.left = @ - 1, !.at = IF rd[r].left = 1 THEN "idle" ELSE "index"]

ReadSeq(r) ==
  /\ rd[r].at = "seq"
  /\ rd' = [rd EXCEPT ![r] = IF Odd(seq[rd[r].idx])
                             THEN Rejected(r)
                             ELSE [@ EXCEPT !.at = "copy", !.s1 = seq[rd[r].idx],
                                            !.todo = Words]]
  /\ UNCHANGED <<pubVars, accepted>>

ReadWord(r, w) ==
  /\ rd[r].at = "copy"
  /\ w \in rd[r].todo
  /\ rd' = [rd EXCEPT ![r].copy[w] = buffers[rd[r].idx][w], ![r].todo = @ \ {w}]
  /\ UNCHANGED <<pubVars, accepted>>

\* Variant with a bug: the number is not compared after the copy.
ReadUnchecked(r) ==
  /\ rd[r].at = "copy"
  /\ rd[r].todo = {}
  /\ rd' = [rd EXCEPT ![r].at = "idle"]
  /\ accepted' = [accepted EXCEPT ![r] = [block |-> rd[r].copy, idx |-> rd[r].idx,
                                          from |-> rd[r].from, overlap |-> rd[r].overlap]]
  /\ UNCHANGED pubVars

ReadAccept(r) ==
  /\ rd[r].at = "copy"
  /\ rd[r].todo = {}
  /\ seq[rd[r].idx] = rd[r].s1
  /\ rd' = [rd EXCEPT ![r].at = "idle"]
  /\ accepted' = [accepted EXCEPT ![r] = [block |-> rd[r].copy, idx |-> rd[r].idx,
                                          from |-> rd[r].from, overlap |-> rd[r].overlap]]
  /\ UNCHANGED pubVars

ReadReject(r) ==
  /\ rd[r].at = "copy"
  /\ rd[r].todo = {}
  /\ seq[rd[r].idx] # rd[r].s1
  /\ rd' = [rd EXCEPT ![r] = Rejected(r)]
  /\ UNCHANGED <<pubVars, accepted>>

Publisher ==
  \/ PublishBegin
  \/ PublishOdd
  \/ \E w \in Words : PublishWord(w)
  \/ PublishEven
  \/ PublishFlip

Recovery ==
  \/ Restart
  \/ \E b \in Bufs, w \in Words : ClearWord(b, w)
  \/ \E b \in Bufs : ClearSeq(b)
  \/ ClearIndex
  \/ Cleared

Reader(r) ==
  \/ ReadBegin(r)
  \/ ReadIndex(r)
  \/ ReadSeq(r)
  \/ \E w \in Words : ReadWord(r, w)
  \/ ReadAccept(r)
  \/ ReadReject(r)

Next ==
  \/ Publisher
  \/ Crash
  \/ Recovery
  \/ \E r \in Readers : Reader(r)

Spec == Init /\ [][Next]_vars

\* publish() and the constructor do not block; the monitor's refresh timer and
\* the HTTP server call read() again and again.
FairSpec ==
  /\ Spec
  /\ WF_vars(Publisher)
  /\ WF_vars(Recovery)
  /\ \A r \in Readers : WF_vars(Reader(r))

-----------------------------------------------------------------------------
(* Properties *)

TypeOK ==
  /\ buffers \in [Bufs -> [Words -> Nat]]
  /\ seq \in [Bufs -> Nat]
  /\ readIndex \in Bufs
  /\ pub \in [at : {"idle", "write", "flip", "dead", "clear"}, target : Bufs,
              cur : Nat, odd : BOOLEAN, todo : SUBSET Words]
  /\ toClear \in [words : SUBSET (Bufs \X Words), seqs : SUBSET Bufs, index : BOOLEAN]
  /\ rd \in [Readers -> [at : {"idle", "index", "seq", "copy"}, idx : Bufs, s1 : Nat,
                         todo : SUBSET Words, copy : [Words -> Nat], left : Nat,
                         from : Nat, overlap : BOOLEAN]]
  /\ accepted \in [Readers -> [block : [Words -> Nat], idx : Bufs, from : Nat,
                               overlap : BOOLEAN]]
  /\ version \in Nat
  /\ published \in Nat
  /\ crashes \in Nat

Whole(block) == \A v, w \in Words : block[v] = block[w]

\* "Readers and the writer are kept apart: tearing is ruled out from the root"
\* (方案设计.md 411): a block that read() returns was written by one publication.
NeverTorn == \A r \in Readers : Whole(accepted[r].block)

\* What stands in a buffer after publication n was completed there and before the
\* next one there makes the number odd: publications take turns, so that one is
\* n + 2, or, in a segment just cleared, where n is 0, whichever comes first.
Follows(m, n) == m = n + 2 \/ (n = 0 /\ (crashes > 0 \/ m <= 2))

\* What the sequence number does achieve in the order of stores the target has: a
\* torn block mixes two publications that follow one another in one buffer, never
\* more of them and never older ones, unless its attempt met a segment that a
\* restarted core was clearing, or had died in the middle of clearing.
TornByNextOnly ==
  \A r \in Readers :
    \/ accepted[r].overlap
    \/ \A v, w \in Words :
         LET m == accepted[r].block[v]
             n == accepted[r].block[w]
         IN  m = n \/ Follows(m, n) \/ Follows(n, m)

\* A returned block is at least as new as the one that was current when its
\* attempt loaded read_index, although the index is not looked at again.
NotStale ==
  \A r \in Readers :
    \/ accepted[r].overlap
    \/ \A w \in Words : accepted[r].block[w] >= accepted[r].from

\* As long as the core does not crash, between two reads of one reader the block
\* goes back in time by at most one publication: the one whose words were
\* complete but whose index switch was still to come when the first read met it
\* (ShmPublisher.cpp 59-62).
GoesBackByOneAtMost ==
  [][crashes' = 0 =>
       \A r \in Readers : \A w \in Words :
         accepted'[r].block[w] + 1 >= accepted[r].block[w]]_vars

\* Once the core publishes no more, every reader ends up with the last block,
\* whatever attempts of it were rejected (ShmReader.cpp 46-65).
EventuallyFresh ==
  <>[](pub.at = "idle") =>
    \A r \in Readers : <>[](\A w \in Words : accepted[r].block[w] = published)
=============================================================================
