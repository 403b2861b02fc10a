--------------------------- MODULE DbWriterProofs ---------------------------
(***************************************************************************)
(* Order, completeness and the last batch of the database writer, for any  *)
(* size of the ring and of a batch, any number of records and crashes, and *)
(* whatever statements fail.                                               *)
(*                                                                         *)
(* The way of a record is one sequence: table, open transaction, batch and *)
(* ring.  A step of the thread moves the head of one part to the end of    *)
(* the part before it, which leaves the sequence as it was, or takes a     *)
(* piece out of it, which goes to `dropped'.                               *)
(***************************************************************************)
EXTENDS DbWriter, SequenceTheorems, TLAPS

Way == table \o txn \o dbBatch \o Queued

Sorted(s) == \A i, j \in 1 .. Len(s) : i < j => s[i] < s[j]

Types ==
  /\ sent \in Seq(Nat) /\ got \in Seq(Nat) /\ Len(got) <= Len(sent)
  /\ dbBatch \in Seq(Nat) /\ txn \in Seq(Nat) /\ table \in Seq(Nat)
  /\ offered \in Nat /\ dropped \subseteq Nat

\* loop() has seen the end of running_, and what follows it has taken everything.
ThreadOK ==
  /\ dbRunning => thread \in {"wait", "take", "begin", "insert"}
  /\ thread \in {"beginLast", "insertLast", "done"} => Len(sent) = Len(got)
  /\ thread \in {"off", "wait", "done"} => dbBatch = <<>>

WayOK == InOrderOnce /\ NoneForgotten

IInv == Types /\ ThreadOK /\ WayOK

-----------------------------------------------------------------------------
(* Sequences *)

LEMMA ToSetOfSeq ==
  ASSUME NEW s \in Seq(Nat)
  PROVE  /\ ToSet(s) = {s[i] : i \in 1 .. Len(s)} /\ ToSet(s) \subseteq Nat
BY DEF ToSet

LEMMA Concat ==
  ASSUME NEW s \in Seq(Nat), NEW t \in Seq(Nat)
  PROVE  /\ s \o t \in Seq(Nat)
         /\ Len(s \o t) = Len(s) + Len(t)
         /\ \A i \in 1 .. Len(s) + Len(t) : (s \o t)[i] = IF i <= Len(s) THEN s[i] ELSE t[i - Len(s)]
BY ConcatProperties

LEMMA Assoc ==
  ASSUME NEW s \in Seq(Nat), NEW t \in Seq(Nat), NEW u \in Seq(Nat)
  PROVE  (s \o t) \o u = s \o (t \o u)
BY ConcatAssociative, SMTT(20)

LEMMA ToSetOfConcat ==
  ASSUME NEW s \in Seq(Nat), NEW t \in Seq(Nat)
  PROVE  ToSet(s \o t) = ToSet(s) \cup ToSet(t)
PROOF
<1>1. s \o t \in Seq(Nat)
  BY ConcatProperties
<1>2. Range(s \o t) = Range(s) \cup Range(t)
  BY RangeConcatenation
<1> QED BY <1>1, <1>2 DEF ToSet, Range

\* The head of one part goes to the end of the part before it.
WithHead(b, q) == Append(b, Head(q))
WithoutHead(q) == Tail(q)

LEMMA MoveHeadTypes ==
  ASSUME NEW b \in Seq(Nat), NEW q \in Seq(Nat), q # <<>>
  PROVE  WithHead(b, q) \in Seq(Nat) /\ WithoutHead(q) \in Seq(Nat)
BY HeadTailProperties, AppendProperties DEF WithHead, WithoutHead

LEMMA MoveHead ==
  ASSUME NEW p \in Seq(Nat), NEW b \in Seq(Nat), NEW q \in Seq(Nat), q # <<>>
  PROVE  (p \o WithHead(b, q)) \o WithoutHead(q) = (p \o b) \o q
PROOF
<1> DEFINE h == <<Head(q)>>
<1>1. Head(q) \in Nat /\ Tail(q) \in Seq(Nat) /\ h \in Seq(Nat)
  BY HeadTailProperties
<1>2. Append(b, Head(q)) = b \o h /\ b \o h \in Seq(Nat)
  BY <1>1, AppendIsConcat, ConcatProperties
<1>3. h \o Tail(q) = q
  <2>1. /\ Len(Tail(q)) = Len(q) - 1 /\ Len(q) \in Nat /\ Len(q) >= 1
        /\ \A i \in 1 .. Len(Tail(q)) : Tail(q)[i] = q[i + 1]
    BY HeadTailProperties, EmptySeq
  <2>2. /\ h \o Tail(q) \in Seq(Nat) /\ Len(h \o Tail(q)) = 1 + Len(Tail(q))
        /\ \A i \in 1 .. 1 + Len(Tail(q)) :
             (h \o Tail(q))[i] = IF i <= 1 THEN h[i] ELSE Tail(q)[i - 1]
    <3> DEFINE t == Tail(q)
    <3>1. Len(h) = 1 /\ t \in Seq(Nat)
      BY <1>1
    <3> HIDE DEF h, t
    <3>2. /\ h \o t \in Seq(Nat) /\ Len(h \o t) = Len(h) + Len(t)
          /\ \A i \in 1 .. Len(h) + Len(t) : (h \o t)[i] = IF i <= Len(h) THEN h[i] ELSE t[i - Len(h)]
      BY <1>1, <3>1, Concat
    <3> QED BY <3>1, <3>2 DEF t
  <2>3. h[1] = q[1]
    OBVIOUS
  <2> HIDE DEF h
  <2>4. ASSUME NEW i \in 1 .. Len(q) PROVE (h \o Tail(q))[i] = q[i]
    <3>1. CASE i = 1
      BY <2>1, <2>2, <2>3, <3>1
    <3>2. CASE i # 1
      <4>1. i - 1 \in 1 .. Len(Tail(q)) /\ i \in 1 .. 1 + Len(Tail(q)) /\ ~(i <= 1)
        BY <2>1, <3>2
      <4>2. Tail(q)[i - 1] = q[(i - 1) + 1] /\ (i - 1) + 1 = i
        BY <2>1, <4>1
      <4> QED BY <2>2, <4>1, <4>2
    <3> QED BY <3>1, <3>2
  <2>5. Len(h \o Tail(q)) = Len(q)
    BY <2>1, <2>2
  <2> QED BY <2>2, <2>4, <2>5, SeqEqual
<1> HIDE DEF h
<1>4. p \o b \in Seq(Nat)
  BY Concat
<1>5. (p \o b) \o h = p \o (b \o h)
  BY <1>1, Assoc, ZenonT(30)
<1>6. ((p \o b) \o h) \o Tail(q) = (p \o b) \o (h \o Tail(q))
  BY <1>1, <1>4, Assoc
<1> QED BY <1>1, <1>2, <1>3, <1>4, <1>5, <1>6 DEF WithHead, WithoutHead

\* A piece is taken out of the middle.
LEMMA DropMiddle ==
  ASSUME NEW p \in Seq(Nat), NEW b \in Seq(Nat), NEW q \in Seq(Nat), Sorted((p \o b) \o q)
  PROVE  /\ Sorted(p \o q)
         /\ ToSet((p \o b) \o q) = ToSet(p \o q) \cup ToSet(b)
         /\ ToSet(p \o q) \cap ToSet(b) = {}
PROOF
<1> DEFINE k == Len(p)  l == Len(b)  n == Len(q)
           w == (p \o b) \o q
           u == p \o q
<1>1. /\ k \in Nat /\ l \in Nat /\ n \in Nat
      /\ p \o b \in Seq(Nat) /\ Len(p \o b) = k + l
      /\ \A i \in 1 .. k + l : (p \o b)[i] = IF i <= k THEN p[i] ELSE b[i - k]
  BY Concat
<1>2. /\ w \in Seq(Nat) /\ Len(w) = (k + l) + n
      /\ \A i \in 1 .. (k + l) + n : w[i] = IF i <= k + l THEN (p \o b)[i] ELSE q[i - (k + l)]
  BY <1>1, Concat
<1>3. /\ u \in Seq(Nat) /\ Len(u) = k + n
      /\ \A i \in 1 .. k + n : u[i] = IF i <= k THEN p[i] ELSE q[i - k]
  BY Concat
<1>4. Sorted(w)
  OBVIOUS
<1> HIDE DEF w, u, k, l, n
<1> DEFINE At(i) == IF i <= k THEN i ELSE i + l
<1>5. ASSUME NEW i \in 1 .. k + n
      PROVE  /\ At(i) \in 1 .. (k + l) + n /\ u[i] = w[At(i)]
             /\ At(i) \notin k + 1 .. k + l
  <2>1. CASE i <= k
    <3>1. /\ i \in 1 .. (k + l) + n /\ i \in 1 .. k + l /\ i <= k + l
          /\ i \notin k + 1 .. k + l
      BY <1>1, <2>1
    <3>2. w[i] = p[i] /\ u[i] = p[i]
      BY <1>1, <1>2, <1>3, <2>1, <3>1
    <3> QED BY <2>1, <3>1, <3>2
  <2>2. CASE ~(i <= k)
    <3>1. /\ i + l \in 1 .. (k + l) + n /\ ~(i + l <= k + l) /\ (i + l) - (k + l) = i - k
          /\ i + l \notin k + 1 .. k + l
      BY <1>1, <2>2
    <3>2. w[i + l] = q[i - k] /\ u[i] = q[i - k]
      BY <1>2, <1>3, <2>2, <3>1
    <3> QED BY <2>2, <3>1, <3>2
  <2> QED BY <2>1, <2>2
<1>6. ASSUME NEW i \in 1 .. k + n, NEW j \in 1 .. k + n, i < j PROVE At(i) < At(j)
  BY <1>1, <1>6
<1>7. ASSUME NEW i \in 1 .. l
      PROVE  k + i \in k + 1 .. k + l /\ k + i \in 1 .. (k + l) + n /\ b[i] = w[k + i]
  <2>1. /\ k + i \in 1 .. k + l /\ k + i \in 1 .. (k + l) + n /\ k + i <= k + l
        /\ ~(k + i <= k) /\ (k + i) - k = i /\ k + i \in k + 1 .. k + l
    BY <1>1
  <2> QED BY <1>1, <1>2, <2>1
<1> HIDE DEF At
<1>8. Sorted(u)
  <2> SUFFICES ASSUME NEW i \in 1 .. k + n, NEW j \in 1 .. k + n, i < j PROVE u[i] < u[j]
    BY <1>3 DEF Sorted
  <2> QED BY <1>2, <1>4, <1>5, <1>6 DEF Sorted
<1>9. \A i, j \in 1 .. (k + l) + n : w[i] = w[j] => i = j
  <2> SUFFICES ASSUME NEW i \in 1 .. (k + l) + n, NEW j \in 1 .. (k + l) + n, i # j
               PROVE  w[i] # w[j]
    OBVIOUS
  <2>1. w[i] \in Nat /\ w[j] \in Nat
    BY <1>2, ElementOfSeq
  <2>2. i < j \/ j < i
    BY <1>1
  <2>3. w[i] < w[j] \/ w[j] < w[i]
    BY <1>2, <1>4, <2>2 DEF Sorted
  <2> QED BY <2>1, <2>3
<1>10. ToSet(u) \cap ToSet(b) = {}
  <2> SUFFICES ASSUME NEW i \in 1 .. k + n, NEW j \in 1 .. l PROVE u[i] # b[j]
    <3>1. ToSet(u) = {u[i] : i \in 1 .. k + n} /\ ToSet(b) = {b[j] : j \in 1 .. l}
      BY <1>3, ToSetOfSeq DEF l
    <3> QED BY <3>1
  <2>1. u[i] = w[At(i)] /\ b[j] = w[k + j] /\ At(i) # k + j
    BY <1>5, <1>7
  <2> QED BY <1>5, <1>7, <1>9, <2>1
<1>11. ToSet(w) = ToSet(u) \cup ToSet(b)
  <2>1. ToSet(w) = (ToSet(p) \cup ToSet(b)) \cup ToSet(q)
    BY <1>1, ToSetOfConcat, ZenonT(30) DEF w
  <2>2. ToSet(u) = ToSet(p) \cup ToSet(q)
    BY ToSetOfConcat DEF u
  <2> QED BY <2>1, <2>2
<1> QED BY <1>8, <1>10, <1>11 DEF u, w

\* One more at the end, larger than every one before it.
LEMMA AppendLarger ==
  ASSUME NEW w \in Seq(Nat), NEW x \in Nat, Sorted(w), \A e \in ToSet(w) : e < x
  PROVE  /\ Sorted(w \o <<x>>)
         /\ ToSet(w \o <<x>>) = ToSet(w) \cup {x}
PROOF
<1> DEFINE h == <<x>>
<1>1. h \in Seq(Nat) /\ Len(h) = 1 /\ h[1] = x
  OBVIOUS
<1> DEFINE v == w \o h
<1>2. /\ v \in Seq(Nat) /\ Len(v) = Len(w) + 1 /\ Len(w) \in Nat
      /\ \A i \in 1 .. Len(w) + 1 : v[i] = IF i <= Len(w) THEN w[i] ELSE h[i - Len(w)]
  <2> HIDE DEF h
  <2>1. /\ v \in Seq(Nat) /\ Len(v) = Len(w) + Len(h)
        /\ \A i \in 1 .. Len(w) + Len(h) : v[i] = IF i <= Len(w) THEN w[i] ELSE h[i - Len(w)]
    BY <1>1, Concat
  <2>2. Len(w) \in Nat
    OBVIOUS
  <2> HIDE DEF v
  <2> QED BY <1>1, <2>1, <2>2
<1>3. ToSet(h) = {x}
  <2> HIDE DEF h
  <2>1. ToSet(h) = {h[i] : i \in 1 .. 1}
    BY <1>1, ToSetOfSeq
  <2> QED BY <1>1, <2>1
<1> HIDE DEF h
<1>4. ToSet(v) = ToSet(w) \cup {x}
  BY <1>1, <1>3, ToSetOfConcat
<1> HIDE DEF v
<1>5. \A i \in 1 .. Len(w) : w[i] < x
  BY ToSetOfSeq
<1>6. ASSUME NEW i \in 1 .. Len(v), NEW j \in 1 .. Len(v), i < j PROVE v[i] < v[j]
  <2>1. i \in 1 .. Len(w) /\ i <= Len(w) /\ v[i] = w[i]
    BY <1>2, <1>6
  <2>2. CASE j <= Len(w)
    <3>1. j \in 1 .. Len(w) /\ v[j] = w[j]
      BY <1>2, <2>2
    <3> QED BY <1>6, <2>1, <3>1 DEF Sorted
  <2>3. CASE ~(j <= Len(w))
    <3>1. j - Len(w) = 1 /\ j \in 1 .. Len(w) + 1
      BY <1>2, <2>3
    <3>2. v[j] = x
      BY <1>1, <1>2, <2>3, <3>1
    <3> QED BY <1>5, <2>1, <3>2
  <2> QED BY <2>2, <2>3
<1> QED BY <1>4, <1>6 DEF Sorted, v, h

-----------------------------------------------------------------------------
(* The ring *)

LEMMA QueuedIs ==
  ASSUME Types
  PROVE  /\ Queued \in Seq(Nat)
         /\ Len(Queued) = Len(sent) - Len(got)
         /\ \A i \in 1 .. Len(sent) - Len(got) : Queued[i] = sent[Len(got) + i]
PROOF
<1> DEFINE m == Len(got) + 1  n == Len(sent)
<1>1. m \in Int /\ n \in Int /\ m >= 1 /\ m <= n + 1 /\ (n - m) + 1 = Len(sent) - Len(got)
  BY DEF Types
<1>2. \A i \in m .. n : sent[i] \in Nat
  BY <1>1, ElementOfSeq DEF Types
<1> HIDE DEF m, n
<1>3. /\ SubSeq(sent, m, n) \in Seq(Nat)
      /\ Len(SubSeq(sent, m, n)) = IF m <= n THEN n - m + 1 ELSE 0
      /\ \A i \in 1 .. n - m + 1 : SubSeq(sent, m, n)[i] = sent[m + i - 1]
  BY <1>1, <1>2, SubSeqProperties
<1>4. Len(SubSeq(sent, m, n)) = Len(sent) - Len(got)
  BY <1>1, <1>3
<1>5. \A i \in 1 .. Len(sent) - Len(got) : m + i - 1 = Len(got) + i
  BY DEF m, Types
<1> QED BY <1>1, <1>3, <1>4, <1>5 DEF Queued, m, n

\* pop() hands out the head of what waits.
LEMMA Dequeued ==
  ASSUME Types, Ring!Dequeue
  PROVE  /\ Queued # <<>> /\ Queued' = Tail(Queued)
         /\ sent' \in Seq(Nat) /\ got' \in Seq(Nat) /\ Len(got') <= Len(sent')
PROOF
<1>1. /\ Len(got) \in Nat /\ Len(sent) \in Nat /\ Len(got) < Len(sent)
      /\ sent' = sent /\ got' = Append(got, sent[Len(got) + 1])
  BY DEF Types, Ring!Dequeue
<1>2. Len(got) + 1 \in 1 .. Len(sent)
  BY <1>1
<1>3. sent[Len(got) + 1] \in Nat
  BY <1>2, ElementOfSeq DEF Types
<1>4. got' \in Seq(Nat) /\ Len(got') = Len(got) + 1
  BY <1>1, <1>3, AppendProperties DEF Types
<1>5. Queued # <<>>
  <2>1. Len(Queued) > 0
    BY <1>1, QueuedIs
  <2> QED BY <2>1
<1>6. Tail(Queued) = SubSeq(sent, (Len(got) + 1) + 1, Len(sent))
  <2>1. Len(sent) \in Len(got) + 1 .. Len(sent)
    BY <1>1
  <2> QED BY <1>2, <2>1, HeadTailOfSubSeq DEF Types, Queued
<1>7. Queued' = SubSeq(sent, (Len(got) + 1) + 1, Len(sent))
  BY <1>1, <1>4 DEF Queued
<1>8. sent' \in Seq(Nat) /\ Len(got') <= Len(sent')
  BY <1>1, <1>4 DEF Types
<1> QED BY <1>4, <1>5, <1>6, <1>7, <1>8

\* push() puts its record behind what waits.
LEMMA Enqueued ==
  ASSUME Types, NEW x \in Nat, Ring!Enqueue(x)
  PROVE  /\ Queued' = Append(Queued, x)
         /\ sent' \in Seq(Nat) /\ got' = got /\ Len(got') <= Len(sent')
PROOF
<1>1. /\ Len(got) \in Nat /\ Len(sent) \in Nat /\ Len(got) <= Len(sent)
      /\ sent' = Append(sent, x) /\ got' = got
  BY DEF Types, Ring!Enqueue
<1>2. /\ sent' \in Seq(Nat) /\ Len(sent') = Len(sent) + 1
      /\ \A i \in 1 .. Len(sent) : sent'[i] = sent[i]
      /\ sent'[Len(sent) + 1] = x
  BY <1>1, AppendProperties DEF Types
<1> DEFINE s == sent'  k == Len(got)  n == Len(sent) - Len(got)
<1>3. /\ s \in Seq(Nat) /\ k \in Nat /\ n \in Nat /\ Len(s) = k + n + 1 /\ Len(sent) = k + n
      /\ s[k + n + 1] = x
      /\ \A i \in 1 .. k + n : s[i] = sent[i]
  BY <1>1, <1>2
<1>4. Queued' = SubSeq(s, k + 1, k + n + 1)
  BY <1>1, <1>3 DEF Queued
<1>5. /\ Queued \in Seq(Nat) /\ Len(Queued) = n
      /\ \A i \in 1 .. n : Queued[i] = sent[k + i]
  BY QueuedIs
<1> HIDE DEF s, k, n
<1>6. /\ Append(Queued, x) \in Seq(Nat)
      /\ Len(Append(Queued, x)) = n + 1
      /\ \A i \in 1 .. n : Append(Queued, x)[i] = Queued[i]
      /\ Append(Queued, x)[n + 1] = x
  BY <1>5, AppendProperties
<1>7. \A i \in k + 1 .. k + n + 1 : s[i] \in Nat
  BY <1>3, ElementOfSeq
<1> DEFINE u == SubSeq(s, k + 1, k + n + 1)
<1>8. /\ u \in Seq(Nat) /\ Len(u) = n + 1
      /\ \A i \in 1 .. n + 1 : u[i] = s[k + i]
  <2> DEFINE a == k + 1  b == k + n + 1
  <2>1. a \in Int /\ b \in Int /\ a <= b /\ b - a + 1 = n + 1
    BY <1>3
  <2>2. \A i \in 1 .. n + 1 : a + i - 1 = k + i
    BY <1>3
  <2>3. \A i \in a .. b : s[i] \in Nat
    BY <1>7
  <2> HIDE DEF a, b
  <2>4. /\ SubSeq(s, a, b) \in Seq(Nat)
        /\ Len(SubSeq(s, a, b)) = IF a <= b THEN b - a + 1 ELSE 0
        /\ \A i \in 1 .. b - a + 1 : SubSeq(s, a, b)[i] = s[a + i - 1]
    BY <2>1, <2>3, SubSeqProperties
  <2> QED BY <2>1, <2>2, <2>4 DEF a, b
<1> HIDE DEF u
<1>9. ASSUME NEW i \in 1 .. n + 1 PROVE u[i] = Append(Queued, x)[i]
  <2>1. CASE i = n + 1
    <3>1. k + i = k + n + 1
      BY <1>3, <2>1
    <3> QED BY <1>3, <1>6, <1>8, <2>1, <3>1
  <2>2. CASE i # n + 1
    <3>1. i \in 1 .. n /\ k + i \in 1 .. k + n
      BY <1>3, <2>2
    <3> QED BY <1>3, <1>5, <1>6, <1>8, <3>1
  <2> QED BY <2>1, <2>2
<1>10. u = Append(Queued, x)
  BY <1>6, <1>8, <1>9, SeqEqual
<1>11. Len(got') <= Len(sent')
  BY <1>1, <1>2
<1> QED BY <1>1, <1>2, <1>4, <1>10, <1>11 DEF u

-----------------------------------------------------------------------------
(* What a step does to the way *)

LEMMA WayIs ==
  ASSUME Types
  PROVE  /\ Queued \in Seq(Nat) /\ table \o txn \in Seq(Nat)
         /\ (table \o txn) \o dbBatch \in Seq(Nat) /\ Way \in Seq(Nat)
         /\ WayOK <=> /\ Sorted(Way)
                      /\ ToSet(Way) \cup dropped = 1 .. offered
                      /\ ToSet(Way) \cap dropped = {}
PROOF
<1>1. Queued \in Seq(Nat)
  BY QueuedIs
<1>2. table \o txn \in Seq(Nat)
  BY Concat DEF Types
<1>3. (table \o txn) \o dbBatch \in Seq(Nat)
  BY <1>2, Concat DEF Types
<1>4. Way \in Seq(Nat)
  BY <1>1, <1>3, Concat DEF Way
<1>5. WayOK <=> /\ Sorted(Way)
                /\ ToSet(Way) \cup dropped = 1 .. offered
                /\ ToSet(Way) \cap dropped = {}
  BY DEF WayOK, InOrderOnce, NoneForgotten, Way, Sorted
<1> QED BY <1>1, <1>2, <1>3, <1>4, <1>5

LEMMA SameWay ==
  ASSUME WayOK, Way' = Way, UNCHANGED <<offered, dropped>>
  PROVE  WayOK'
BY DEF WayOK, InOrderOnce, NoneForgotten, Way

LEMMA PieceDropped ==
  ASSUME WayOK, NEW d, Sorted(Way'), offered' = offered, dropped' = dropped \cup d,
         ToSet(Way) = ToSet(Way') \cup d, ToSet(Way') \cap d = {}
  PROVE  WayOK'
PROOF
<1>1. /\ ToSet(Way) \cup dropped = 1 .. offered
      /\ ToSet(Way) \cap dropped = {}
  BY DEF WayOK, NoneForgotten, Way
<1>2. /\ ToSet(Way') \cup dropped' = 1 .. offered'
      /\ ToSet(Way') \cap dropped' = {}
  BY <1>1
<1>3. InOrderOnce'
  BY DEF InOrderOnce, Way, Sorted
<1>4. NoneForgotten'
  BY <1>2 DEF NoneForgotten, Way
<1> QED BY <1>3, <1>4 DEF WayOK

LEMMA ToSetOfNone ==
  ToSet(<<>>) = {}
BY DEF ToSet

-----------------------------------------------------------------------------
(* One lemma for each action *)

LEMMA InitIInv ==
  ASSUME Init
  PROVE  IInv
PROOF
<1>1. /\ sent = <<>> /\ got = <<>> /\ dbBatch = <<>> /\ txn = <<>> /\ table = <<>>
      /\ offered = 0 /\ dropped = {} /\ thread = "off" /\ dbRunning = FALSE
  BY DEF Init, Ring!FifoInit
<1>2. <<>> \in Seq(Nat) /\ Len(<<>>) = 0
  OBVIOUS
<1>3. Types
  BY <1>1, <1>2 DEF Types
<1>4. ThreadOK
  BY <1>1, <1>2 DEF ThreadOK
<1>5. Queued = <<>>
  <2>1. Len(Queued) = 0 /\ Queued \in Seq(Nat)
    BY <1>1, <1>2, <1>3, QueuedIs
  <2> QED BY <2>1, EmptySeq
<1>6. Way = <<>>
  <2>1. <<>> \o <<>> = <<>>
    BY <1>2, ConcatEmptySeq
  <2> QED BY <1>1, <1>5, <2>1 DEF Way
<1>7. Sorted(Way) /\ ToSet(Way) = {}
  BY <1>2, <1>6, ToSetOfNone DEF Sorted
<1>8. 1 .. offered = {}
  BY <1>1
<1>9. WayOK
  BY <1>1, <1>3, <1>7, <1>8, WayIs
<1> QED BY <1>3, <1>4, <1>9 DEF IInv

LEMMA StartPreserves ==
  ASSUME IInv, Start
  PROVE  IInv'
PROOF
<1>1. UNCHANGED <<sent, got, dbBatch, txn, table, offered, dropped>> /\ thread' = "wait" /\ thread = "off"
  BY DEF Start, ring, sqlite
<1>2. Types' /\ Way' = Way
  BY <1>1 DEF IInv, Types, Way, Queued
<1>3. ThreadOK'
  BY <1>1 DEF IInv, ThreadOK
<1> QED BY <1>1, <1>2, <1>3, SameWay DEF IInv

LEMMA PushPreserves ==
  ASSUME IInv, Push
  PROVE  IInv'
PROOF
<1>1. /\ UNCHANGED <<dbBatch, txn, table, dropped, thread, dbRunning>> /\ dbRunning
      /\ offered' = offered + 1 /\ offered \in Nat /\ Ring!Enqueue(offered + 1) /\ Types
  BY DEF IInv, Types, Push, sqlite
<1> DEFINE x == offered + 1
<1>2. x \in Nat /\ x = offered + 1
  BY <1>1
<1>3. /\ Queued' = Append(Queued, x)
      /\ sent' \in Seq(Nat) /\ got' = got /\ Len(got') <= Len(sent')
  BY <1>1, <1>2, Enqueued
<1>4. Types'
  BY <1>1, <1>2, <1>3 DEF Types
<1>5. ThreadOK'
  BY <1>1 DEF IInv, ThreadOK
<1>6. /\ Queued \in Seq(Nat) /\ (table \o txn) \o dbBatch \in Seq(Nat) /\ Way \in Seq(Nat)
      /\ Sorted(Way) /\ ToSet(Way) \cup dropped = 1 .. offered /\ ToSet(Way) \cap dropped = {}
  BY <1>1, WayIs DEF IInv
<1> HIDE DEF x
<1>7. <<x>> \in Seq(Nat) /\ Append(Queued, x) = Queued \o <<x>>
  BY <1>2, <1>6, AppendIsConcat
<1>8. Way' = Way \o <<x>>
  <2> DEFINE p == (table \o txn) \o dbBatch
  <2>1. Way' = p \o (Queued \o <<x>>)
    BY <1>1, <1>3, <1>7 DEF Way
  <2>2. Way = p \o Queued
    BY DEF Way
  <2> HIDE DEF p
  <2>3. (p \o Queued) \o <<x>> = p \o (Queued \o <<x>>)
    BY <1>6, <1>7, Assoc DEF p
  <2> QED BY <2>1, <2>2, <2>3
<1>9. \A e \in ToSet(Way) : e < x
  <2>1. \A e \in 1 .. offered : e < x
    BY <1>1, <1>2
  <2> QED BY <1>6, <2>1
<1>10. Sorted(Way') /\ ToSet(Way') = ToSet(Way) \cup {x}
  BY <1>2, <1>6, <1>8, <1>9, AppendLarger
<1>11. 1 .. offered' = (1 .. offered) \cup {x} /\ x \notin 1 .. offered
  BY <1>1, <1>2
<1>12. ToSet(Way') \cup dropped' = 1 .. offered' /\ ToSet(Way') \cap dropped' = {}
  <2>1. dropped' = dropped
    BY <1>1
  <2> QED BY <1>6, <1>10, <1>11, <2>1
<1>13. WayOK'
  BY <1>10, <1>12 DEF WayOK, InOrderOnce, NoneForgotten, Way, Sorted
<1> QED BY <1>4, <1>5, <1>13 DEF IInv

LEMMA PushRefusedPreserves ==
  ASSUME IInv, PushRefused
  PROVE  IInv'
PROOF
<1>1. /\ UNCHANGED <<sent, got, dbBatch, txn, table, thread, dbRunning>>
      /\ offered' = offered + 1 /\ offered \in Nat /\ dropped' = dropped \cup {offered + 1}
      /\ dropped \subseteq Nat /\ Types
  BY DEF IInv, Types, PushRefused, ring, sqlite
<1>2. Types'
  BY <1>1 DEF Types
<1>3. Way' = Way
  BY <1>1 DEF Way, Queued
<1>4. ThreadOK'
  BY <1>1 DEF IInv, ThreadOK
<1>5. Sorted(Way) /\ ToSet(Way) \cup dropped = 1 .. offered /\ ToSet(Way) \cap dropped = {}
  BY <1>1, WayIs DEF IInv
<1>6. 1 .. offered' = (1 .. offered) \cup {offered + 1} /\ offered + 1 \notin 1 .. offered
  BY <1>1
<1>7. ToSet(Way') \cup dropped' = 1 .. offered' /\ ToSet(Way') \cap dropped' = {}
  BY <1>1, <1>3, <1>5, <1>6
<1>8. WayOK'
  BY <1>3, <1>5, <1>7 DEF WayOK, InOrderOnce, NoneForgotten, Way, Sorted
<1> QED BY <1>2, <1>4, <1>8 DEF IInv

\* Steps that leave the records where they are.
LEMMA PushNotifyPreserves ==
  ASSUME IInv, PushNotify
  PROVE  IInv'
PROOF
<1>1. UNCHANGED <<sent, got, dbBatch, txn, table, offered, dropped, thread, dbRunning>>
  BY DEF PushNotify, ring, sqlite
<1>2. Types' /\ Way' = Way /\ ThreadOK'
  BY <1>1 DEF IInv, Types, Way, Queued, ThreadOK
<1> QED BY <1>1, <1>2, SameWay DEF IInv

LEMMA StopPreserves ==
  ASSUME IInv, Stop
  PROVE  IInv'
PROOF
<1>1. UNCHANGED <<sent, got, dbBatch, txn, table, offered, dropped, thread>> /\ dbRunning' = FALSE
  BY DEF Stop, ring, sqlite
<1>2. Types' /\ Way' = Way /\ ThreadOK'
  BY <1>1 DEF IInv, Types, Way, Queued, ThreadOK
<1> QED BY <1>1, <1>2, SameWay DEF IInv

LEMMA WakePreserves ==
  ASSUME IInv, Wake
  PROVE  IInv'
PROOF
<1>1. /\ UNCHANGED <<sent, got, dbBatch, txn, table, offered, dropped, dbRunning>>
      /\ thread = "wait" /\ thread' = "take"
  BY DEF Wake, ring, sqlite
<1>2. Types' /\ Way' = Way /\ ThreadOK'
  BY <1>1 DEF IInv, Types, Way, Queued, ThreadOK
<1> QED BY <1>1, <1>2, SameWay DEF IInv

LEMMA TakenPreserves ==
  ASSUME IInv, Taken
  PROVE  IInv'
PROOF
<1>1. UNCHANGED <<sent, got, dbBatch, txn, table, offered, dropped, dbRunning>>
  BY DEF Taken, ring, sqlite
<1>2. Types' /\ Way' = Way
  BY <1>1 DEF IInv, Types, Way, Queued
<1>3. ThreadOK'
  <2>1. CASE thread = "take"
    <3>1. \/ dbBatch # <<>> /\ thread' = "begin"
          \/ dbBatch = <<>> /\ thread' = IF dbRunning THEN "wait" ELSE "drain"
      BY <2>1 DEF Taken, NextRound
    <3> QED BY <1>1, <3>1 DEF ThreadOK
  <2>2. CASE thread = "drain"
    <3>1. Len(sent) - Len(got) = 0
      BY <2>2 DEF Taken, Ring!Waiting
    <3>2. Len(sent) = Len(got)
      BY <3>1 DEF IInv, Types
    <3>3. \/ dbBatch # <<>> /\ thread' = "beginLast"
          \/ dbBatch = <<>> /\ thread' = "done"
      BY <2>2 DEF Taken
    <3>4. ~dbRunning
      BY <2>2 DEF IInv, ThreadOK
    <3> QED BY <1>1, <3>2, <3>3, <3>4 DEF ThreadOK
  <2> QED BY <2>1, <2>2 DEF Taken
<1> QED BY <1>1, <1>2, <1>3, SameWay DEF IInv

LEMMA BeginPreserves ==
  ASSUME IInv, Begin
  PROVE  IInv'
PROOF
<1>1. /\ UNCHANGED <<sent, got, dbBatch, txn, table, offered, dropped, dbRunning>>
      /\ \/ thread = "begin" /\ thread' = "insert"
         \/ thread = "beginLast" /\ thread' = "insertLast"
  BY DEF Begin, Flushing, ring
<1>2. Types' /\ Way' = Way
  BY <1>1 DEF IInv, Types, Way, Queued
<1>3. ThreadOK'
  BY <1>1 DEF IInv, ThreadOK
<1> QED BY <1>1, <1>2, <1>3, SameWay DEF IInv

\* The end of flush_batch(), in the loop or after it.
LEMMA AfterPreserves ==
  ASSUME ThreadOK, UNCHANGED <<sent, got, dbRunning>>, dbBatch' = <<>>,
         NEW inLoop, NEW last, <<inLoop, last>> \in {<<"begin", "beginLast">>, <<"insert", "insertLast">>},
         Flushing(inLoop, last), thread' = After(inLoop, "done")
  PROVE  ThreadOK'
PROOF
<1>1. CASE thread = inLoop
  <2>1. thread' = IF dbRunning THEN "wait" ELSE "drain"
    BY <1>1 DEF After, NextRound
  <2> QED BY <2>1 DEF ThreadOK
<1>2. CASE thread # inLoop
  <2>1. thread' = "done" /\ thread = last
    BY <1>2 DEF After, Flushing
  <2>2. last \in {"beginLast", "insertLast"}
    OBVIOUS
  <2>3. ~dbRunning /\ Len(sent) = Len(got)
    BY <2>1, <2>2 DEF ThreadOK
  <2> QED BY <2>1, <2>3 DEF ThreadOK
<1> QED BY <1>1, <1>2

\* Steps that move the head of one part to the part before it.
LEMMA TakeOnePreserves ==
  ASSUME IInv, TakeOne
  PROVE  IInv'
PROOF
<1>1. /\ UNCHANGED <<txn, table, offered, dropped, thread, dbRunning>>
      /\ Ring!Dequeue /\ dbBatch' = WithHead(dbBatch, Queued) /\ Types
      /\ thread \in {"take", "drain"}
  BY DEF IInv, TakeOne, sqlite, WithHead
<1>2. /\ Queued # <<>> /\ Queued' = WithoutHead(Queued)
      /\ sent' \in Seq(Nat) /\ got' \in Seq(Nat) /\ Len(got') <= Len(sent')
  BY <1>1, Dequeued DEF WithoutHead
<1>3. Queued \in Seq(Nat) /\ table \o txn \in Seq(Nat) /\ dbBatch \in Seq(Nat)
  BY <1>1, WayIs DEF Types
<1>4. /\ WithHead(dbBatch, Queued) \in Seq(Nat)
      /\ ((table \o txn) \o WithHead(dbBatch, Queued)) \o WithoutHead(Queued)
           = ((table \o txn) \o dbBatch) \o Queued
  <2>1. WithHead(dbBatch, Queued) \in Seq(Nat)
    BY <1>2, <1>3, MoveHeadTypes
  <2>2. ((table \o txn) \o WithHead(dbBatch, Queued)) \o WithoutHead(Queued)
          = ((table \o txn) \o dbBatch) \o Queued
    BY <1>2, <1>3, MoveHead, ZenonT(30)
  <2> QED BY <2>1, <2>2
<1>5. Types'
  BY <1>1, <1>2, <1>4 DEF Types
<1>6. Way' = Way
  BY <1>1, <1>2, <1>4 DEF Way
<1>7. ThreadOK'
  BY <1>1 DEF IInv, ThreadOK
<1> QED BY <1>1, <1>5, <1>6, <1>7, SameWay DEF IInv

LEMMA InsertPreserves ==
  ASSUME IInv, Insert
  PROVE  IInv'
PROOF
<1>1. /\ UNCHANGED <<sent, got, table, offered, dropped, thread, dbRunning>>
      /\ txn' = WithHead(txn, dbBatch) /\ dbBatch' = WithoutHead(dbBatch) /\ dbBatch # <<>> /\ Types
      /\ thread \in {"insert", "insertLast"}
  BY DEF IInv, Insert, Flushing, ring, WithHead, WithoutHead
<1>2. table \in Seq(Nat) /\ txn \in Seq(Nat) /\ dbBatch \in Seq(Nat)
  BY <1>1 DEF Types
<1>3. /\ WithHead(txn, dbBatch) \in Seq(Nat) /\ WithoutHead(dbBatch) \in Seq(Nat)
      /\ (table \o WithHead(txn, dbBatch)) \o WithoutHead(dbBatch) = (table \o txn) \o dbBatch
  <2>1. WithHead(txn, dbBatch) \in Seq(Nat) /\ WithoutHead(dbBatch) \in Seq(Nat)
    BY <1>1, <1>2, MoveHeadTypes
  <2>2. (table \o WithHead(txn, dbBatch)) \o WithoutHead(dbBatch) = (table \o txn) \o dbBatch
    BY <1>1, <1>2, MoveHead
  <2> QED BY <2>1, <2>2
<1>4. Types'
  BY <1>1, <1>3 DEF Types
<1>5. Way' = Way
  BY <1>1, <1>3 DEF Way, Queued
<1>6. ThreadOK'
  BY <1>1 DEF IInv, ThreadOK
<1> QED BY <1>1, <1>4, <1>5, <1>6, SameWay DEF IInv

LEMMA CommitPreserves ==
  ASSUME IInv, Commit
  PROVE  IInv'
PROOF
<1>1. /\ UNCHANGED <<sent, got, offered, dropped, dbRunning, dbBatch>>
      /\ table' = table \o txn /\ txn' = <<>> /\ dbBatch = <<>> /\ Types
      /\ Flushing("insert", "insertLast") /\ thread' = After("insert", "done")
  BY DEF IInv, Commit, ring
<1>2. table \o txn \in Seq(Nat) /\ <<>> \in Seq(Nat)
  BY <1>1, WayIs
<1>3. (table \o txn) \o <<>> = table \o txn
  BY <1>2, ConcatEmptySeq
<1>4. Types'
  BY <1>1, <1>2 DEF Types
<1>5. Way' = Way
  BY <1>1, <1>3 DEF Way, Queued
<1>6. ThreadOK'
  BY <1>1, AfterPreserves DEF IInv
<1> QED BY <1>1, <1>4, <1>5, <1>6, SameWay DEF IInv

\* Steps that give up on a part.
LEMMA BeginFailsPreserves ==
  ASSUME IInv, BeginFails
  PROVE  IInv'
PROOF
<1>1. /\ UNCHANGED <<sent, got, offered, dbRunning, txn, table>>
      /\ dropped' = dropped \cup ToSet(dbBatch) /\ dbBatch' = <<>> /\ Types
      /\ Flushing("begin", "beginLast") /\ thread' = After("begin", "done")
  BY DEF IInv, BeginFails, ring, sqlite
<1>2. /\ table \o txn \in Seq(Nat) /\ dbBatch \in Seq(Nat) /\ Queued \in Seq(Nat)
      /\ Sorted(Way) /\ <<>> \in Seq(Nat)
  BY <1>1, WayIs DEF IInv, Types
<1> DEFINE p == table \o txn
<1>3. Way = (p \o dbBatch) \o Queued
  BY DEF Way
<1>4. Way' = p \o Queued
  <2>1. (table \o txn) \o <<>> = table \o txn
    BY <1>2, ConcatEmptySeq
  <2> QED BY <1>1, <2>1 DEF Way, Queued
<1> HIDE DEF p
<1>5. /\ Sorted(Way')
      /\ ToSet(Way) = ToSet(Way') \cup ToSet(dbBatch)
      /\ ToSet(Way') \cap ToSet(dbBatch) = {}
  BY <1>2, <1>3, <1>4, DropMiddle DEF p
<1>6. WayOK'
  BY <1>1, <1>5, PieceDropped DEF IInv
<1>7. ToSet(dbBatch) \subseteq Nat
  BY <1>2, ToSetOfSeq
<1>8. Types'
  BY <1>1, <1>2, <1>7 DEF Types
<1>9. ThreadOK'
  BY <1>1, AfterPreserves DEF IInv
<1> QED BY <1>6, <1>8, <1>9 DEF IInv

LEMMA HeadAndTail ==
  ASSUME NEW q \in Seq(Nat), q # <<>>
  PROVE  /\ Head(q) \in Nat /\ <<Head(q)>> \in Seq(Nat) /\ WithoutHead(q) \in Seq(Nat)
         /\ q = <<Head(q)>> \o WithoutHead(q) /\ ToSet(<<Head(q)>>) = {Head(q)}
PROOF
<1>1. <<>> \in Seq(Nat) /\ Head(q) \in Nat /\ <<Head(q)>> \in Seq(Nat)
  BY HeadTailProperties
<1>2. WithoutHead(q) \in Seq(Nat) /\ WithHead(<<>>, q) \in Seq(Nat)
  BY <1>1, MoveHeadTypes
<1>3. (<<>> \o WithHead(<<>>, q)) \o WithoutHead(q) = (<<>> \o <<>>) \o q
  BY <1>1, MoveHead
<1>4. WithHead(<<>>, q) = <<Head(q)>>
  BY DEF WithHead
<1>5. /\ <<>> \o WithHead(<<>>, q) = WithHead(<<>>, q)
      /\ <<>> \o <<>> = <<>> /\ <<>> \o q = q
  BY <1>1, <1>2, ConcatEmptySeq
<1>6. ToSet(<<Head(q)>>) = {Head(q)}
  BY DEF ToSet
<1> QED BY <1>1, <1>2, <1>3, <1>4, <1>5, <1>6

LEMMA InsertFailsPreserves ==
  ASSUME IInv, InsertFails
  PROVE  IInv'
PROOF
<1> DEFINE h == <<Head(dbBatch)>>
           t == WithoutHead(dbBatch)
           p == table \o txn
<1>1. /\ UNCHANGED <<sent, got, offered, dbRunning, thread, txn, table>>
      /\ dropped' = dropped \cup {Head(dbBatch)} /\ dbBatch' = t /\ dbBatch # <<>> /\ Types
      /\ thread \in {"insert", "insertLast"}
  BY DEF IInv, InsertFails, Flushing, ring, sqlite, WithoutHead
<1>2. /\ p \in Seq(Nat) /\ dbBatch \in Seq(Nat) /\ Queued \in Seq(Nat) /\ Sorted(Way)
  BY <1>1, WayIs DEF IInv, Types
<1>3. /\ Head(dbBatch) \in Nat /\ h \in Seq(Nat) /\ t \in Seq(Nat)
      /\ dbBatch = h \o t /\ ToSet(h) = {Head(dbBatch)}
  BY <1>1, <1>2, HeadAndTail
<1>4. Way = (p \o (h \o t)) \o Queued
  BY <1>3 DEF Way
<1>5. Way' = (p \o t) \o Queued
  BY <1>1 DEF Way, Queued
<1> HIDE DEF h, t, p
<1>6. p \o h \in Seq(Nat) /\ t \o Queued \in Seq(Nat)
  BY <1>2, <1>3, Concat
<1>7. /\ (p \o h) \o t = p \o (h \o t)
      /\ ((p \o h) \o t) \o Queued = (p \o h) \o (t \o Queued)
      /\ (p \o t) \o Queued = p \o (t \o Queued)
  <2>1. (p \o h) \o t = p \o (h \o t)
    BY <1>2, <1>3, Assoc, SMTT(20)
  <2>2. ((p \o h) \o t) \o Queued = (p \o h) \o (t \o Queued)
    <3> DEFINE k == p \o h
    <3>1. k \in Seq(Nat)
      BY <1>6
    <3> HIDE DEF k
    <3>2. (k \o t) \o Queued = k \o (t \o Queued)
      BY <1>2, <1>3, <3>1, Assoc, ZenonT(30)
    <3> QED BY <3>2 DEF k
  <2>3. (p \o t) \o Queued = p \o (t \o Queued)
    BY <1>2, <1>3, Assoc, ZenonT(30)
  <2> QED BY <2>1, <2>2, <2>3
<1>8. Way = (p \o h) \o (t \o Queued) /\ Way' = p \o (t \o Queued)
  BY <1>4, <1>5, <1>7
<1>9. /\ Sorted(Way')
      /\ ToSet(Way) = ToSet(Way') \cup ToSet(h)
      /\ ToSet(Way') \cap ToSet(h) = {}
  BY <1>2, <1>3, <1>6, <1>8, DropMiddle
<1>10. dropped' = dropped \cup ToSet(h)
  BY <1>1, <1>3
<1>11. WayOK'
  BY <1>1, <1>9, <1>10, PieceDropped DEF IInv
<1>12. Types'
  BY <1>1, <1>3 DEF Types
<1>13. ThreadOK'
  BY <1>1 DEF IInv, ThreadOK
<1> QED BY <1>11, <1>12, <1>13 DEF IInv

LEMMA CommitFailsPreserves ==
  ASSUME IInv, CommitFails
  PROVE  IInv'
PROOF
<1>1. /\ UNCHANGED <<sent, got, offered, dbRunning, dbBatch, table>> /\ dbBatch = <<>> /\ Types
      /\ Flushing("insert", "insertLast") /\ thread' = After("insert", "done")
      /\ \/ UNCHANGED <<txn, dropped>>
         \/ dropped' = dropped \cup ToSet(txn) /\ txn' = <<>>
  BY DEF IInv, CommitFails, ring, sqlite
<1>2. ThreadOK'
  BY <1>1, AfterPreserves DEF IInv
<1>3. CASE UNCHANGED <<txn, dropped>>
  <2>1. Types' /\ Way' = Way
    BY <1>1, <1>3 DEF Types, Way, Queued
  <2> QED BY <1>1, <1>2, <1>3, <2>1, SameWay DEF IInv
<1>4. CASE dropped' = dropped \cup ToSet(txn) /\ txn' = <<>>
  <2>1. /\ table \in Seq(Nat) /\ txn \in Seq(Nat) /\ table \o txn \in Seq(Nat)
        /\ Queued \in Seq(Nat) /\ Sorted(Way)
    BY <1>1, WayIs DEF IInv, Types
  <2>2. (table \o txn) \o <<>> = table \o txn /\ table \o <<>> = table
    BY <2>1, ConcatEmptySeq
  <2>3. Way = (table \o txn) \o Queued
    BY <1>1, <2>2 DEF Way
  <2>4. Way' = table \o Queued
    BY <1>1, <1>4, <2>2 DEF Way, Queued
  <2>5. /\ Sorted(Way')
        /\ ToSet(Way) = ToSet(Way') \cup ToSet(txn)
        /\ ToSet(Way') \cap ToSet(txn) = {}
    BY <2>1, <2>3, <2>4, DropMiddle
  <2>6. WayOK'
    BY <1>1, <1>4, <2>5, PieceDropped DEF IInv
  <2>7. ToSet(txn) \subseteq Nat /\ <<>> \in Seq(Nat)
    BY <2>1, ToSetOfSeq
  <2>8. Types'
    BY <1>1, <1>4, <2>7 DEF Types
  <2> QED BY <1>2, <2>6, <2>8 DEF IInv
<1> QED BY <1>1, <1>3, <1>4

LEMMA CrashPreserves ==
  ASSUME IInv, Crash
  PROVE  IInv'
PROOF
<1>1. /\ UNCHANGED <<offered, table>> /\ sent' = <<>> /\ got' = <<>> /\ dbBatch' = <<>> /\ txn' = <<>>
      /\ dropped' = dropped \cup ToSet(Queued) \cup ToSet(dbBatch) \cup ToSet(txn)
      /\ dbRunning' = FALSE /\ thread' = "off" /\ Types
  BY DEF IInv, Crash
<1>2. /\ table \in Seq(Nat) /\ txn \in Seq(Nat) /\ dbBatch \in Seq(Nat) /\ table \o txn \in Seq(Nat)
      /\ (table \o txn) \o dbBatch \in Seq(Nat)
      /\ Queued \in Seq(Nat) /\ Sorted(Way) /\ dropped \subseteq Nat
  BY <1>1, WayIs DEF IInv, Types
<1>3. <<>> \in Seq(Nat) /\ Len(<<>>) = 0
  OBVIOUS
<1> DEFINE q == dbBatch \o Queued
           d == txn \o q
<1>4. q \in Seq(Nat)
  BY <1>2, Concat
<1>5. d \in Seq(Nat)
  BY <1>2, <1>4, Concat
<1>6. Way = table \o d
  <2>1. ((table \o txn) \o dbBatch) \o Queued = (table \o txn) \o q
    BY <1>2, Assoc, SMTT(20)
  <2> HIDE DEF q
  <2>2. table \in Seq(Nat) /\ txn \in Seq(Nat)
    BY <1>2
  <2>3. (table \o txn) \o q = table \o (txn \o q)
    BY <1>4, <2>2, Assoc
  <2> QED BY <2>1, <2>3 DEF Way
<1>7. ToSet(d) = ToSet(Queued) \cup ToSet(dbBatch) \cup ToSet(txn)
  <2>1. ToSet(q) = ToSet(dbBatch) \cup ToSet(Queued)
    BY <1>2, ToSetOfConcat
  <2> HIDE DEF q
  <2>2. ToSet(d) = ToSet(txn) \cup ToSet(q)
    BY <1>2, <1>4, ToSetOfConcat
  <2> QED BY <2>1, <2>2
<1> HIDE DEF d, q
<1>8. Queued' = <<>>
  <2>1. Queued' = SubSeq(<<>>, 1, 0)
    BY <1>1, <1>3 DEF Queued
  <2>2. SubSeq(<<>>, 1, 0) = <<>>
    BY SubSeqEmpty
  <2> QED BY <2>1, <2>2
<1>9. Way' = table \o <<>> /\ Way = (table \o d) \o <<>>
  <2>1. table \o <<>> = table /\ table \o d \in Seq(Nat)
    BY <1>2, <1>5, Concat, ConcatEmptySeq
  <2>2. (table \o d) \o <<>> = table \o d
    BY <2>1, ConcatEmptySeq
  <2> QED BY <1>1, <1>6, <1>8, <2>1, <2>2 DEF Way
<1>10. /\ Sorted(Way')
       /\ ToSet(Way) = ToSet(Way') \cup ToSet(d)
       /\ ToSet(Way') \cap ToSet(d) = {}
  <2>1. table \in Seq(Nat) /\ Sorted((table \o d) \o <<>>)
    BY <1>2, <1>9
  <2>2. /\ Sorted(table \o <<>>)
        /\ ToSet((table \o d) \o <<>>) = ToSet(table \o <<>>) \cup ToSet(d)
        /\ ToSet(table \o <<>>) \cap ToSet(d) = {}
    BY <1>3, <1>5, <2>1, DropMiddle
  <2> QED BY <1>9, <2>2
<1>11. dropped' = dropped \cup ToSet(d)
  BY <1>1, <1>7
<1>12. WayOK'
  BY <1>1, <1>10, <1>11, PieceDropped DEF IInv
<1>13. ToSet(d) \subseteq Nat
  BY <1>5, ToSetOfSeq
<1>14. Types'
  <2>1. dropped' \subseteq Nat
    BY <1>2, <1>11, <1>13
  <2>2. Len(got') <= Len(sent')
    BY <1>1, <1>3
  <2> QED BY <1>1, <1>3, <2>1, <2>2 DEF Types
<1>15. ThreadOK'
  BY <1>1 DEF ThreadOK
<1> QED BY <1>12, <1>14, <1>15 DEF IInv

-----------------------------------------------------------------------------
LEMMA NextIInv ==
  ASSUME IInv, [Next]_vars
  PROVE  IInv'
PROOF
<1>1. CASE Thread
  BY <1>1, WakePreserves, TakeOnePreserves, TakenPreserves, BeginPreserves, BeginFailsPreserves,
     InsertPreserves, InsertFailsPreserves, CommitPreserves, CommitFailsPreserves DEF Thread
<1>2. CASE UNCHANGED vars
  <2>1. UNCHANGED <<sent, got, dbBatch, txn, table, offered, dropped, thread, dbRunning>>
    BY <1>2 DEF vars, ring, sqlite
  <2>2. Types' /\ Way' = Way /\ ThreadOK'
    BY <2>1 DEF IInv, Types, Way, Queued, ThreadOK
  <2> QED BY <2>1, <2>2, SameWay DEF IInv
<1> QED BY <1>1, <1>2, StartPreserves, PushPreserves, PushRefusedPreserves, PushNotifyPreserves,
           StopPreserves, CrashPreserves DEF Next

LEMMA Invariance ==
  Spec => []IInv
PROOF
<1>1. Init => IInv
  BY InitIInv
<1>2. IInv /\ [Next]_vars => IInv'
  BY NextIInv
<1> QED BY <1>1, <1>2, PTL DEF Spec

\* Rows reach the tables in the order of the records and none becomes two rows,
\* for any ring and batch and whatever fails (DbWriter.cpp 105-147, 152-209).
THEOREM RowsInOrderOnce ==
  Spec => []InOrderOnce
PROOF
<1>1. IInv => InOrderOnce
  BY DEF IInv, WayOK
<1> QED BY <1>1, Invariance, PTL

\* Every record offered is stored, under way or given up on, and only one of
\* these (DbWriter.cpp 79-87, 105-216).
THEOREM RecordsAccountedFor ==
  Spec => []NoneForgotten
PROOF
<1>1. IInv => NoneForgotten
  BY DEF IInv, WayOK
<1> QED BY <1>1, Invariance, PTL

\* When the thread has ended, nothing that push() accepted is left in the ring or
\* in the batch (DbWriter.cpp 140-147).
THEOREM LastBatchIsLast ==
  Spec => []StopDrains
PROOF
<1>1. IInv => StopDrains
  <2> SUFFICES ASSUME IInv, thread = "done" PROVE Queued = <<>> /\ dbBatch = <<>>
    BY DEF StopDrains
  <2>1. Types /\ Len(sent) = Len(got) /\ dbBatch = <<>>
    BY DEF IInv, ThreadOK
  <2>2. Queued \in Seq(Nat) /\ Len(Queued) = Len(sent) - Len(got)
    BY <2>1, QueuedIs
  <2>3. Len(Queued) = 0
    BY <2>1, <2>2 DEF Types
  <2> QED BY <2>1, <2>2, <2>3, EmptySeq
<1> QED BY <1>1, Invariance, PTL
=============================================================================
