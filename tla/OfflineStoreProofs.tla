------------------------- MODULE OfflineStoreProofs -------------------------
(***************************************************************************)
(* What store and forward loses, repeats, delays and leaves behind, for    *)
(* any records, any number of flushes, calls and crashes, and a session    *)
(* that may end at any step.                                               *)
(*                                                                         *)
(* A row is in three places at once: the table, the SELECT of a flush and  *)
(* the broker.  The invariant says where the three may disagree: between   *)
(* the publish() and the DELETE of the flush that is at the row, and for   *)
(* rows that are excused.                                                  *)
(***************************************************************************)
EXTENDS OfflineStore, SequenceTheorems, TLAPS

Rows(f) == ToSet(flush[f].rows)

\* Flush f has sent r and not yet deleted it.
Between(f, r) == flush[f].at = "delete" /\ Head(flush[f].rows) = r

Distinct(s) == \A i, j \in 1 .. Len(s) : s[i] = s[j] => i = j

AlarmsLead(s) == \A i, j \in 1 .. Len(s) : i < j /\ s[j] \in Alarms => s[i] \in Alarms

Settled == offered \ {current}

Types ==
  /\ TypeOK
  /\ syncs \in 0 .. MaxSync /\ mqtt.rpcs <= syncs
  /\ flush \in [Flushers -> [at : {"idle", "select", "publish", "delete"},
                             rows : Seq(Records), urgent : SUBSET Alarms]]

\* The record in hand is new, and it is in hand only on its way.
HandOK ==
  /\ offered \subseteq Records /\ current \in offered \cup {NoRecord}
  /\ loop \in {"publish", "insert"} <=> current # NoRecord
  /\ ToSet(cache) \subseteq Settled
  /\ \A f \in Flushers : Rows(f) \subseteq Settled
  /\ \A r \in Records : copies[r] > 0 => r \in Settled

FlushOK(f) ==
  /\ flush[f].at \in {"idle", "select"} => flush[f].rows = <<>> /\ flush[f].urgent = {}
  /\ flush[f].at = "delete" => flush[f].rows # <<>> /\ copies[Head(flush[f].rows)] > 0
  /\ Distinct(flush[f].rows) /\ AlarmsLead(flush[f].rows)
  /\ \A a \in flush[f].urgent : copies[a] > 0 \/ a \in Rows(f)

\* A row that is still to be sent, by a flush under way or by one to come, was
\* sent already only by the flush that is about to delete it.
OnceOK ==
  /\ DuplicatesHaveCause
  /\ \A f \in Flushers : \A r \in Rows(f) \ excused : copies[r] > 0 => Between(f, r)
  /\ \A r \in ToSet(cache) \ excused :
       copies[r] > 0 => \E f \in Flushers : Between(f, r)
  /\ \A f, g \in Flushers : f # g => Rows(f) \cap Rows(g) \subseteq excused

Handling == {"birth", "resubscribe", "commands", "check"}

\* Before the connected callback has notified the main thread, it has nothing to
\* handle; when it has, a flush is asked for.
SessionOK ==
  /\ loop = "connect" => mqtt = NewClient
  /\ mqtt.callback # "idle" => ~mqtt.ready /\ loop \notin Handling
  /\ mqtt.callback = "connected" => ~mqtt.connected
  /\ mqtt.callback = "notify" => needFlush

FlushAsked ==
  \/ mqtt.callback \in {"status", "notify"}
  \/ needFlush /\ (mqtt.ready \/ loop \in Handling)

FlushHas(f, r) == flush[f].at = "select" \/ r \in Rows(f)

\* While the session lives, a row that is left has a flush under way or to come;
\* and so has the record that is on its way to the table.
DrainOK ==
  mqtt.connected /\ mqtt.link = "up" =>
    \/ FlushAsked
    \/ /\ loop # "insert"
       /\ \A r \in ToSet(cache) \ excused : \E f \in Flushers : FlushHas(f, r)

DataOK == HandOK /\ LossHasCause /\ OnceOK /\ \A f \in Flushers : FlushOK(f)

IInv == Types /\ DataOK /\ SessionOK /\ DrainOK

-----------------------------------------------------------------------------
(* Rows as sequences *)

LEMMA ToSetIs ==
  ASSUME NEW s \in Seq(Records)
  PROVE  ToSet(s) = {s[i] : i \in 1 .. Len(s)} /\ ToSet(s) \subseteq Records
BY DEF ToSet

LEMMA DistinctIs ==
  ASSUME NEW s \in Seq(Records)
  PROVE  Distinct(s) <=> IsInjective(s)
BY DEF Distinct, IsInjective

LEMMA NoRows ==
  /\ <<>> \in Seq(Records) /\ ToSet(<<>>) = {} /\ Distinct(<<>>) /\ AlarmsLead(<<>>)
BY DEF ToSet, Distinct, AlarmsLead

\* INSERT
LEMMA RowAdded ==
  ASSUME NEW s \in Seq(Records), NEW r \in Records, Distinct(s), r \notin ToSet(s)
  PROVE  /\ Append(s, r) \in Seq(Records) /\ Distinct(Append(s, r))
         /\ ToSet(Append(s, r)) = ToSet(s) \cup {r}
PROOF
<1> DEFINE t == Append(s, r)  n == Len(s)
<1>1. /\ n \in Nat /\ t \in Seq(Records) /\ Len(t) = n + 1
      /\ \A i \in 1 .. n : t[i] = s[i]
      /\ t[n + 1] = r
  BY AppendProperties
<1>2. ToSet(s) = {s[i] : i \in 1 .. n}
  BY ToSetIs
<1>3. Distinct(s)
  OBVIOUS
<1> HIDE DEF t
<1>4. ToSet(t) = {t[i] : i \in 1 .. n + 1}
  BY <1>1, ToSetIs
<1>5. \A i, j \in 1 .. n : s[i] = s[j] => i = j
  BY <1>3 DEF Distinct
<1> HIDE DEF n
<1>6. 1 .. n + 1 = (1 .. n) \cup {n + 1}
  BY <1>1
<1>7. \A i \in 1 .. n : s[i] # r
  BY <1>2
<1>8. Distinct(t)
  <2> SUFFICES ASSUME NEW i \in 1 .. n + 1, NEW j \in 1 .. n + 1, t[i] = t[j] PROVE i = j
    BY <1>1 DEF Distinct
  <2>1. CASE i \in 1 .. n /\ j \in 1 .. n
    BY <1>1, <1>5, <2>1
  <2>2. CASE i = n + 1 /\ j \in 1 .. n
    BY <1>1, <1>7, <2>2
  <2>3. CASE i \in 1 .. n /\ j = n + 1
    BY <1>1, <1>7, <2>3
  <2> QED BY <1>6, <2>1, <2>2, <2>3
<1>9. ToSet(t) = ToSet(s) \cup {r}
  BY <1>1, <1>2, <1>4, <1>6
<1> QED BY <1>1, <1>8, <1>9 DEF t

\* The loop steps to the next row.
LEMMA RowPassed ==
  ASSUME NEW s \in Seq(Records), s # <<>>, Distinct(s), AlarmsLead(s)
  PROVE  /\ Head(s) \in Records /\ Tail(s) \in Seq(Records)
         /\ Distinct(Tail(s)) /\ AlarmsLead(Tail(s))
         /\ ToSet(s) = ToSet(Tail(s)) \cup {Head(s)} /\ Head(s) \notin ToSet(Tail(s))
         /\ Head(s) \notin Alarms => ToSet(Tail(s)) \cap Alarms = {}
PROOF
<1> DEFINE t == Tail(s)  n == Len(s)
<1>1. /\ n \in Nat /\ n >= 1 /\ Head(s) = s[1]
      /\ t \in Seq(Records) /\ Len(t) = n - 1
      /\ \A i \in 1 .. Len(t) : t[i] = s[i + 1]
  BY HeadTailProperties, EmptySeq
<1>2. ToSet(s) = {s[i] : i \in 1 .. n} /\ Head(s) \in Records
  BY ToSetIs, HeadTailProperties
<1>3. Distinct(s) /\ AlarmsLead(s)
  OBVIOUS
<1> HIDE DEF t
<1>4. ToSet(t) = {t[i] : i \in 1 .. Len(t)}
  BY <1>1, ToSetIs
<1>5. /\ \A i, j \in 1 .. n : s[i] = s[j] => i = j
      /\ \A i, j \in 1 .. n : i < j /\ s[j] \in Alarms => s[i] \in Alarms
  BY <1>3 DEF Distinct, AlarmsLead
<1> HIDE DEF n
<1> DEFINE m == n - 1
<1>6. /\ m \in Nat /\ n = m + 1 /\ Len(t) = m
      /\ \A i \in 1 .. m : i + 1 \in 1 .. n /\ 1 < i + 1 /\ t[i] = s[i + 1]
      /\ \A i \in 1 .. n : i = 1 \/ (i - 1 \in 1 .. m /\ (i - 1) + 1 = i)
      /\ 1 \in 1 .. n
  BY <1>1
<1> HIDE DEF m
<1>7. Distinct(t)
  <2> SUFFICES ASSUME NEW i \in 1 .. m, NEW j \in 1 .. m, t[i] = t[j] PROVE i = j
    BY <1>6 DEF Distinct
  <2>1. i + 1 = j + 1
    BY <1>5, <1>6
  <2> QED BY <2>1
<1>8. AlarmsLead(t)
  <2> SUFFICES ASSUME NEW i \in 1 .. m, NEW j \in 1 .. m, i < j, t[j] \in Alarms PROVE t[i] \in Alarms
    BY <1>6 DEF AlarmsLead
  <2>1. i + 1 < j + 1 /\ i + 1 \in 1 .. n /\ j + 1 \in 1 .. n
    BY <1>6
  <2> QED BY <1>5, <1>6, <2>1
<1>9. ToSet(s) = ToSet(t) \cup {s[1]}
  <2>1. ASSUME NEW i \in 1 .. n, i # 1 PROVE s[i] = t[i - 1] /\ i - 1 \in 1 .. m
    <3>1. i - 1 \in 1 .. m /\ (i - 1) + 1 = i
      BY <1>6, <2>1
    <3>2. t[i - 1] = s[(i - 1) + 1]
      BY <1>6, <3>1
    <3> QED BY <3>1, <3>2
  <2>2. {s[i] : i \in 1 .. n} = {t[i] : i \in 1 .. m} \cup {s[1]}
    BY <1>6, <2>1
  <2> QED BY <1>2, <1>4, <1>6, <2>2
<1>10. s[1] \notin ToSet(t)
  <2> SUFFICES ASSUME NEW i \in 1 .. m, t[i] = s[1] PROVE FALSE
    BY <1>4, <1>6
  <2>1. i + 1 = 1
    BY <1>5, <1>6
  <2> QED BY <2>1
<1>11. s[1] \notin Alarms => ToSet(t) \cap Alarms = {}
  <2> SUFFICES ASSUME NEW i \in 1 .. m, s[1] \notin Alarms, t[i] \in Alarms PROVE FALSE
    BY <1>4, <1>6
  <2> QED BY <1>5, <1>6
<1> QED BY <1>1, <1>2, <1>7, <1>8, <1>9, <1>10, <1>11 DEF t

\* DELETE
LEMMA RowDeleted ==
  ASSUME NEW s \in Seq(Records), Distinct(s), NEW k \in 1 .. Len(s)
  PROVE  /\ RemoveAt(s, k) \in Seq(Records) /\ Distinct(RemoveAt(s, k))
         /\ ToSet(RemoveAt(s, k)) = ToSet(s) \ {s[k]}
PROOF
<1> DEFINE n == Len(s)
           a == SubSeq(s, 1, k - 1)
           b == SubSeq(s, k + 1, n)
           t == a \o b
<1>1. n \in Nat /\ k \in Int /\ 1 <= k /\ k <= n
  OBVIOUS
<1>2. \A i \in 1 .. n : s[i] \in Records
  BY ElementOfSeq
<1>3. ToSet(s) = {s[i] : i \in 1 .. n} /\ Distinct(s)
  BY ToSetIs
<1>4. \A i, j \in 1 .. n : s[i] = s[j] => i = j
  BY <1>3 DEF Distinct
<1> HIDE DEF n
<1>5. a \in Seq(Records) /\ Len(a) = k - 1 /\ \A i \in 1 .. k - 1 : a[i] = s[i]
  <2> DEFINE e == k - 1
  <2>1. e \in Int /\ \A i \in 1 .. e : s[i] \in Records
    BY <1>1, <1>2
  <2>2. (IF 1 <= e THEN e - 1 + 1 ELSE 0) = e /\ e - 1 + 1 = e
    BY <1>1
  <2> HIDE DEF e
  <2>3. /\ SubSeq(s, 1, e) \in Seq(Records)
        /\ Len(SubSeq(s, 1, e)) = IF 1 <= e THEN e - 1 + 1 ELSE 0
        /\ \A i \in 1 .. e - 1 + 1 : SubSeq(s, 1, e)[i] = s[1 + i - 1]
    BY <2>1, SubSeqProperties
  <2>4. \A i \in 1 .. e : 1 + i - 1 = i
    OBVIOUS
  <2> QED BY <2>2, <2>3, <2>4 DEF e
<1>6. b \in Seq(Records) /\ Len(b) = n - k /\ \A i \in 1 .. n - k : b[i] = s[k + i]
  <2> DEFINE e == k + 1
  <2>1. e \in Int /\ n \in Int /\ \A i \in e .. n : s[i] \in Records
    BY <1>1, <1>2
  <2>2. (IF e <= n THEN n - e + 1 ELSE 0) = n - k /\ n - e + 1 = n - k
    BY <1>1
  <2>3. \A i \in 1 .. n - k : e + i - 1 = k + i
    BY <1>1
  <2> HIDE DEF e
  <2>4. /\ SubSeq(s, e, n) \in Seq(Records)
        /\ Len(SubSeq(s, e, n)) = IF e <= n THEN n - e + 1 ELSE 0
        /\ \A i \in 1 .. n - e + 1 : SubSeq(s, e, n)[i] = s[e + i - 1]
    BY <2>1, SubSeqProperties
  <2> QED BY <2>2, <2>3, <2>4 DEF e
<1> HIDE DEF a, b
<1>7. /\ t \in Seq(Records) /\ Len(t) = Len(a) + Len(b)
      /\ \A i \in 1 .. Len(a) + Len(b) : t[i] = IF i <= Len(a) THEN a[i] ELSE b[i - Len(a)]
  BY <1>5, <1>6, ConcatProperties
<1> HIDE DEF t
<1> DEFINE Old(i) == IF i < k THEN i ELSE i + 1
<1>8. Len(t) = n - 1
  BY <1>1, <1>5, <1>6, <1>7
<1>9. ASSUME NEW i \in 1 .. n - 1
      PROVE  t[i] = s[Old(i)] /\ Old(i) \in 1 .. n /\ Old(i) # k
  <2>1. CASE i < k
    <3>1. i \in 1 .. k - 1 /\ i \in 1 .. Len(a) + Len(b) /\ i <= Len(a) /\ i \in 1 .. n
      BY <1>1, <1>5, <1>6, <2>1
    <3> QED BY <1>1, <1>5, <1>7, <2>1, <3>1
  <2>2. CASE ~(i < k)
    <3>1. /\ i \in 1 .. Len(a) + Len(b) /\ ~(i <= Len(a)) /\ i - Len(a) \in 1 .. n - k
          /\ k + (i - Len(a)) = i + 1 /\ i + 1 \in 1 .. n
      BY <1>1, <1>5, <1>6, <2>2
    <3>2. t[i] = b[i - Len(a)]
      BY <1>7, <3>1
    <3>3. b[i - Len(a)] = s[i + 1]
      BY <1>6, <3>1
    <3> QED BY <1>1, <2>2, <3>1, <3>2, <3>3
  <2> QED BY <2>1, <2>2
<1>10. \A i, j \in 1 .. n - 1 : Old(i) = Old(j) => i = j
  BY <1>1
<1>11. ASSUME NEW i \in 1 .. n, i # k PROVE \E j \in 1 .. n - 1 : Old(j) = i
  <2>1. CASE i < k
    <3>1. i \in 1 .. n - 1 /\ Old(i) = i
      BY <1>1, <2>1
    <3> QED BY <3>1
  <2>2. CASE ~(i < k)
    <3>1. i - 1 \in 1 .. n - 1 /\ ~(i - 1 < k) /\ (i - 1) + 1 = i
      BY <1>1, <1>11, <2>2
    <3> QED BY <3>1
  <2> QED BY <2>1, <2>2
<1> HIDE DEF Old
<1>12. Distinct(t)
  <2> SUFFICES ASSUME NEW i \in 1 .. n - 1, NEW j \in 1 .. n - 1, t[i] = t[j] PROVE i = j
    BY <1>8 DEF Distinct
  <2>1. Old(i) = Old(j)
    BY <1>4, <1>9
  <2> QED BY <1>10, <2>1
<1>13. ToSet(t) = ToSet(s) \ {s[k]}
  <2>1. ToSet(t) = {t[i] : i \in 1 .. n - 1}
    BY <1>7, <1>8, ToSetIs
  <2>2. \A i \in 1 .. n - 1 : t[i] \in ToSet(s) /\ t[i] # s[k]
    <3> TAKE i \in 1 .. n - 1
    <3>1. t[i] = s[Old(i)] /\ Old(i) \in 1 .. n /\ Old(i) # k /\ k \in 1 .. n
      BY <1>1, <1>9
    <3> QED BY <1>3, <1>4, <3>1
  <2>3. \A x \in ToSet(s) : x # s[k] => x \in {t[i] : i \in 1 .. n - 1}
    <3> SUFFICES ASSUME NEW i \in 1 .. n, s[i] # s[k] PROVE s[i] \in {t[j] : j \in 1 .. n - 1}
      BY <1>3
    <3>1. PICK j \in 1 .. n - 1 : Old(j) = i
      BY <1>11
    <3>2. t[j] = s[i]
      BY <1>9, <3>1
    <3> QED BY <3>2
  <2> QED BY <2>1, <2>2, <2>3
<1> QED BY <1>7, <1>12, <1>13 DEF RemoveAt, t, a, b, n

\* ORDER BY gives every row once, alarms first.
LEMMA RowsSelected ==
  ASSUME NEW order \in Bijection(DOMAIN cache, DOMAIN cache), cache \in Seq(Records), Distinct(cache),
         \A i, j \in DOMAIN cache : i < j => ByPriority(order[i], order[j]),
         NEW rows, rows = [i \in DOMAIN cache |-> cache[order[i]]]
  PROVE  /\ rows \in Seq(Records) /\ Distinct(rows) /\ AlarmsLead(rows)
         /\ ToSet(rows) = ToSet(cache)
PROOF
<1> DEFINE n == Len(cache)
<1>1. n \in Nat /\ DOMAIN cache = 1 .. n /\ ToSet(cache) = {cache[i] : i \in 1 .. n}
  BY ToSetIs
<1>2. /\ \A i \in 1 .. n : order[i] \in 1 .. n
      /\ \A j \in 1 .. n : \E i \in 1 .. n : order[i] = j
  BY <1>1 DEF Bijection, Surjection
<1>3. \A i \in 1 .. n : cache[i] \in Records
  BY ElementOfSeq
<1>4. \A i, j \in 1 .. n : i < j => ByPriority(order[i], order[j])
  BY <1>1
<1>5. \A i, j \in 1 .. n : cache[i] = cache[j] => i = j
  BY DEF Distinct
<1> HIDE DEF n
<1>6. \A i \in 1 .. n : rows[i] = cache[order[i]]
  BY <1>1
<1>7. rows \in Seq(Records) /\ Len(rows) = n
  <2>1. rows \in [1 .. n -> Records]
    BY <1>1, <1>2, <1>3
  <2> QED BY <1>1, <2>1
<1>8. ASSUME NEW i \in 1 .. n, NEW j \in 1 .. n, rows[i] = rows[j], i < j PROVE FALSE
  <2>1. order[i] \in 1 .. n /\ order[i] = order[j]
    <3>1. order[i] \in 1 .. n /\ order[j] \in 1 .. n
      BY <1>2
    <3>2. cache[order[i]] = cache[order[j]]
      BY <1>6, <1>8
    <3> QED BY <1>5, <3>1, <3>2
  <2>2. ByPriority(order[i], order[i])
    BY <1>4, <1>8, <2>1
  <2> QED BY <2>1, <2>2 DEF ByPriority
<1>9. Distinct(rows)
  <2> SUFFICES ASSUME NEW i \in 1 .. n, NEW j \in 1 .. n, rows[i] = rows[j] PROVE i = j
    BY <1>7 DEF Distinct
  <2>1. i < j \/ j < i \/ i = j
    BY <1>1
  <2> QED BY <1>8, <2>1
<1>10. AlarmsLead(rows)
  <2> SUFFICES ASSUME NEW i \in 1 .. n, NEW j \in 1 .. n, i < j, rows[j] \in Alarms
               PROVE  rows[i] \in Alarms
    BY <1>7 DEF AlarmsLead
  <2>1. ByPriority(order[i], order[j])
    BY <1>4
  <2>2. IsAlarm(cache[order[j]])
    BY <1>6 DEF IsAlarm
  <2>3. IsAlarm(cache[order[i]])
    BY <2>1, <2>2 DEF ByPriority
  <2> QED BY <1>6, <2>3 DEF IsAlarm
<1>11. ToSet(rows) = ToSet(cache)
  <2>1. ToSet(rows) = {rows[i] : i \in 1 .. n}
    BY <1>7, ToSetIs
  <2>2. \A i \in 1 .. n : rows[i] \in ToSet(cache)
    BY <1>1, <1>2, <1>6
  <2>3. ASSUME NEW j \in 1 .. n PROVE cache[j] \in ToSet(rows)
    <3>1. PICK i \in 1 .. n : order[i] = j
      BY <1>2
    <3> QED BY <1>6, <2>1, <3>1
  <2> QED BY <1>1, <2>1, <2>2, <2>3
<1> QED BY <1>7, <1>9, <1>10, <1>11

-----------------------------------------------------------------------------
(* What a step does to the records *)

\* Steps of the session and of the loop that touch no record.
LEMMA DataUntouched ==
  ASSUME DataOK, UNCHANGED <<current, cache, flush, copies, refused, unsent, excused, offered>>,
         loop' \in {"publish", "insert"} <=> loop \in {"publish", "insert"}
  PROVE  DataOK'
PROOF
<1>1. \A f \in Flushers : FlushOK(f) => FlushOK(f)'
  BY DEF FlushOK, Rows
<1>2. HandOK'
  BY DEF DataOK, HandOK, Rows, Settled
<1>3. LossHasCause' /\ OnceOK'
  BY DEF DataOK, LossHasCause, OnceOK, DuplicatesHaveCause, Rows, Between
<1> QED BY <1>1, <1>2, <1>3 DEF DataOK

LEMMA RecordArrivesData ==
  ASSUME Types, DataOK, NEW r \in Records, RecordArrives(r)
  PROVE  DataOK'
PROOF
<1>1. /\ UNCHANGED <<cache, flush, copies, refused, unsent, excused>>
      /\ r \notin offered /\ offered' = offered \cup {r} /\ current' = r
      /\ loop = "wait" /\ loop' \in {"publish", "insert"}
  BY DEF RecordArrives, MainStep, table
<1>2. current = NoRecord /\ r # NoRecord /\ offered \subseteq Records
  BY <1>1, RecordsAssumption DEF DataOK, HandOK
<1>3. Settled = offered /\ Settled' = offered
  BY <1>1, <1>2, RecordsAssumption DEF Settled
<1>4. \A f \in Flushers : FlushOK(f) => FlushOK(f)'
  BY <1>1 DEF FlushOK, Rows
<1>5. HandOK'
  BY <1>1, <1>2, <1>3 DEF DataOK, HandOK, Rows
<1>6. LossHasCause'
  <2>1. NoRecord \notin offered
    BY <1>2, RecordsAssumption
  <2> QED BY <1>1, <1>2, <2>1 DEF DataOK, LossHasCause
<1>7. OnceOK'
  BY <1>1 DEF DataOK, OnceOK, DuplicatesHaveCause, Rows, Between
<1> QED BY <1>4, <1>5, <1>6, <1>7 DEF DataOK

\* What the main thread has in hand was never sent and is in no table or flush.
LEMMA InHand ==
  ASSUME Types, DataOK, loop \in {"publish", "insert"}
  PROVE  /\ current \in Records /\ current \in offered /\ copies[current] = 0
         /\ current \notin ToSet(cache) /\ \A f \in Flushers : current \notin Rows(f)
BY RecordsAssumption DEF Types, TypeOK, DataOK, HandOK, Settled

\* publish() of the main thread, whatever the broker got.
LEMMA PublishRecordData ==
  ASSUME Types, DataOK, PublishRecord
  PROVE  DataOK'
PROOF
<1>1. /\ UNCHANGED <<cache, flush, refused, excused, offered>>
      /\ loop = "publish" /\ loop' = "wait" /\ current' = NoRecord
  BY DEF PublishRecord, MainStep, table
<1>2. /\ current \in Records /\ current \in offered /\ copies[current] = 0
      /\ current \notin ToSet(cache) /\ \A f \in Flushers : current \notin Rows(f)
  BY <1>1, InHand
<1>3. copies \in [Records -> Nat]
  BY DEF Types, TypeOK
<1>4. /\ \/ copies' = copies
         \/ copies' = [copies EXCEPT ![current] = @ + 1]
      /\ \/ copies' = [copies EXCEPT ![current] = @ + 1] /\ unsent' = unsent
         \/ unsent' = unsent \cup {current}
  BY <1>3 DEF PublishRecord, PublishTrue, PublishFalse, PublishThrows
<1>5. /\ \A r \in Records \ {current} : copies'[r] = copies[r]
      /\ copies'[current] \in {0, 1}
      /\ copies'[current] = 1 \/ current \in unsent'
      /\ unsent \subseteq unsent'
  BY <1>2, <1>3, <1>4
<1>6. offered \subseteq Records /\ NoRecord \notin offered
  BY RecordsAssumption DEF DataOK, HandOK
<1>7. Settled' = Settled \cup {current}
  BY <1>1, <1>2, <1>6 DEF Settled
<1>8. ToSet(cache) \subseteq Records \ {current}
  BY <1>2, <1>6 DEF DataOK, HandOK, Settled
<1>9. \A f \in Flushers : Rows(f) \subseteq Records \ {current} /\ Rows(f)' = Rows(f)
  BY <1>1, <1>2, <1>6 DEF DataOK, HandOK, Settled, Rows
<1>10. HandOK'
  BY <1>1, <1>2, <1>5, <1>6, <1>7, <1>9 DEF DataOK, HandOK
<1>11. LossHasCause'
  <2> SUFFICES ASSUME NEW r \in offered, r \notin ToSet(cache), ~(copies'[r] > 0), r \notin refused
               PROVE  r \in unsent'
    BY <1>1, <1>6 DEF LossHasCause
  <2>1. CASE r = current
    BY <1>5, <2>1
  <2>2. CASE r # current
    <3>1. copies'[r] = copies[r] /\ r \in Records
      BY <1>5, <1>6, <2>2
    <3> QED BY <1>5, <2>2, <3>1 DEF DataOK, LossHasCause
  <2> QED BY <2>1, <2>2
<1>12. OnceOK'
  <2>1. DuplicatesHaveCause'
    <3> SUFFICES ASSUME NEW r \in Records, copies'[r] > 1 PROVE r \in excused
      BY <1>1 DEF DuplicatesHaveCause
    <3>1. r # current
      BY <1>5
    <3> QED BY <1>5, <3>1 DEF DataOK, OnceOK, DuplicatesHaveCause
  <2>2. \A f \in Flushers : \A r \in Records : Between(f, r)' = Between(f, r)
    BY <1>1 DEF Between
  <2> QED BY <1>1, <1>5, <1>8, <1>9, <2>1, <2>2 DEF DataOK, OnceOK
<1>13. ASSUME NEW f \in Flushers PROVE FlushOK(f)'
  <2>1. FlushOK(f) /\ flush'[f] = flush[f] /\ Rows(f)' = Rows(f)
    BY <1>1, <1>9 DEF DataOK
  <2>2. flush[f].at = "delete" => copies'[Head(flush[f].rows)] > 0
    <3> SUFFICES ASSUME flush[f].at = "delete" PROVE copies'[Head(flush[f].rows)] > 0
      OBVIOUS
    <3>1. flush[f].rows # <<>> /\ copies[Head(flush[f].rows)] > 0
      BY <2>1 DEF FlushOK
    <3>2. flush[f].rows \in Seq(Records)
      BY DEF Types
    <3>3. Head(flush[f].rows) \in Records
      BY <3>1, <3>2, HeadTailProperties
    <3> QED BY <1>2, <1>5, <3>1, <3>3
  <2>3. flush[f].urgent \subseteq Records
    BY RecordsAssumption DEF Types
  <2>4. \A a \in flush[f].urgent : copies'[a] > 0 \/ a \in Rows(f)
    <3> TAKE a \in flush[f].urgent
    <3>1. copies[a] > 0 \/ a \in Rows(f)
      BY <2>1 DEF FlushOK
    <3> QED BY <1>2, <1>5, <2>3, <3>1
  <2> QED BY <2>1, <2>2, <2>4 DEF FlushOK
<1> QED BY <1>10, <1>11, <1>12, <1>13 DEF DataOK

LEMMA CacheIs ==
  ASSUME Types
  PROVE  cache \in Seq(Records) /\ Distinct(cache) /\ copies \in [Records -> Nat]
BY DistinctIs DEF Types, TypeOK

\* insert() of the main thread, which may be refused.
LEMMA InsertData ==
  ASSUME Types, DataOK, InsertRecord \/ InsertBusy
  PROVE  DataOK'
PROOF
<1>1. /\ UNCHANGED <<flush, copies, unsent, excused, offered>>
      /\ loop = "insert" /\ loop' = "wait" /\ current' = NoRecord
      /\ \/ cache' = Append(cache, current) /\ refused' = refused
         \/ cache' = cache /\ refused' = refused \cup {current}
  BY DEF InsertRecord, InsertBusy, MainStep
<1>2. /\ current \in Records /\ current \in offered /\ copies[current] = 0
      /\ current \notin ToSet(cache) /\ \A f \in Flushers : current \notin Rows(f)
  BY <1>1, InHand
<1>3. /\ cache \in Seq(Records) /\ Distinct(cache) /\ copies \in [Records -> Nat]
  BY CacheIs
<1>4. \/ ToSet(cache') = ToSet(cache) \cup {current} /\ refused' = refused
      \/ ToSet(cache') = ToSet(cache) /\ refused' = refused \cup {current}
  <2>1. ToSet(Append(cache, current)) = ToSet(cache) \cup {current}
    BY <1>2, <1>3, RowAdded
  <2> QED BY <1>1, <2>1
<1>5. offered \subseteq Records /\ NoRecord \notin offered
  BY RecordsAssumption DEF DataOK, HandOK
<1>6. Settled' = Settled \cup {current}
  BY <1>1, <1>2, <1>5 DEF Settled
<1>7. \A f \in Flushers : FlushOK(f) => FlushOK(f)'
  BY <1>1 DEF FlushOK, Rows
<1>8. HandOK'
  BY <1>1, <1>2, <1>4, <1>5, <1>6 DEF DataOK, HandOK, Rows
<1>9. LossHasCause'
  BY <1>1, <1>4 DEF DataOK, LossHasCause
<1>10. OnceOK'
  <2>1. \A f \in Flushers : Rows(f)' = Rows(f) /\ \A r \in Records : Between(f, r)' = Between(f, r)
    BY <1>1 DEF Rows, Between
  <2>2. DuplicatesHaveCause'
    BY <1>1 DEF DataOK, OnceOK, DuplicatesHaveCause
  <2>3. \A f \in Flushers : Rows(f) \subseteq Records
    BY <1>5 DEF DataOK, HandOK, Settled
  <2>4. ToSet(cache) \subseteq Records
    BY <1>5 DEF DataOK, HandOK, Settled
  <2>5. \A r \in ToSet(cache') \ excused : copies[r] > 0 => r \in ToSet(cache)
    BY <1>2, <1>4
  <2> QED BY <1>1, <2>1, <2>2, <2>3, <2>4, <2>5 DEF DataOK, OnceOK
<1> QED BY <1>7, <1>8, <1>9, <1>10 DEF DataOK

-----------------------------------------------------------------------------
(* What a step of a flush does to the records *)

LEMMA FlushIs ==
  ASSUME Types, NEW f \in Flushers
  PROVE  /\ flush[f].at \in {"idle", "select", "publish", "delete"}
         /\ flush[f].rows \in Seq(Records)
         /\ flush[f].urgent \subseteq Alarms /\ flush[f].urgent \subseteq Records
         /\ flush[f] = [at |-> flush[f].at, rows |-> flush[f].rows, urgent |-> flush[f].urgent]
BY RecordsAssumption DEF Types

\* The row a flush is at, and those after it.
LEMMA RowAt ==
  ASSUME Types, DataOK, NEW f \in Flushers, flush[f].rows # <<>>
  PROVE  /\ Head(flush[f].rows) \in Records /\ Head(flush[f].rows) \in Rows(f)
         /\ Tail(flush[f].rows) \in Seq(Records)
         /\ Distinct(Tail(flush[f].rows)) /\ AlarmsLead(Tail(flush[f].rows))
         /\ Rows(f) = ToSet(Tail(flush[f].rows)) \cup {Head(flush[f].rows)}
         /\ Head(flush[f].rows) \notin ToSet(Tail(flush[f].rows))
         /\ Head(flush[f].rows) \notin Alarms => ToSet(Tail(flush[f].rows)) \cap Alarms = {}
PROOF
<1> DEFINE s == flush[f].rows
<1>1. s \in Seq(Records) /\ s # <<>> /\ Distinct(s) /\ AlarmsLead(s)
  BY FlushIs DEF DataOK, FlushOK
<1>2. Rows(f) = ToSet(s)
  BY DEF Rows
<1> HIDE DEF s
<1>3. /\ Head(s) \in Records /\ Tail(s) \in Seq(Records)
      /\ Distinct(Tail(s)) /\ AlarmsLead(Tail(s))
      /\ ToSet(s) = ToSet(Tail(s)) \cup {Head(s)} /\ Head(s) \notin ToSet(Tail(s))
      /\ Head(s) \notin Alarms => ToSet(Tail(s)) \cap Alarms = {}
  BY <1>1, RowPassed
<1> QED BY <1>2, <1>3 DEF s

\* The thread is detached; it has read nothing yet.
LEMMA StartFlushData ==
  ASSUME Types, DataOK, NEW f \in Flushers, StartFlush(f)
  PROVE  DataOK'
PROOF
<1>1. /\ UNCHANGED <<current, cache, copies, refused, unsent, excused, offered>>
      /\ flush' = [flush EXCEPT ![f].at = "select"] /\ flush[f].at = "idle"
      /\ loop = "check" /\ loop' = "wait"
  BY DEF StartFlush, MainStep, table
<1>2. /\ flush'[f].at = "select" /\ flush'[f].rows = flush[f].rows
      /\ flush'[f].urgent = flush[f].urgent
      /\ \A g \in Flushers \ {f} : flush'[g] = flush[g]
  BY <1>1 DEF Types
<1>3. \A g \in Flushers : Rows(g)' = Rows(g)
  BY <1>2 DEF Rows
<1>4. \A g \in Flushers : \A r : Between(g, r)' <=> Between(g, r)
  BY <1>1, <1>2 DEF Between
<1>5. \A g \in Flushers : FlushOK(g) => FlushOK(g)'
  <2>1. FlushOK(f) => FlushOK(f)'
    BY <1>1, <1>2, <1>3 DEF FlushOK
  <2>2. \A g \in Flushers \ {f} : FlushOK(g) => FlushOK(g)'
    BY <1>1, <1>2, <1>3 DEF FlushOK
  <2> QED BY <2>1, <2>2
<1>6. HandOK'
  BY <1>1, <1>3 DEF DataOK, HandOK, Settled
<1>7. LossHasCause'
  BY <1>1 DEF DataOK, LossHasCause
<1>8. OnceOK'
  BY <1>1, <1>3, <1>4 DEF DataOK, OnceOK, DuplicatesHaveCause
<1> QED BY <1>5, <1>6, <1>7, <1>8 DEF DataOK

\* The statement is finalized, with no row, after the last row, or after a
\* publish() that failed and that the broker may have got.
LEMMA FlushEndsData ==
  ASSUME Types, DataOK, NEW f \in Flushers,
         flush' = [flush EXCEPT ![f] = NoFlush], flush[f].at # "delete",
         UNCHANGED <<loop, current, cache, refused, unsent, offered>>,
         excused \subseteq excused', copies' \in [Records -> Nat],
         \A r \in Records : \/ copies'[r] = copies[r]
                            \/ r \in Rows(f) /\ r \in excused' /\ copies'[r] > copies[r]
  PROVE  DataOK'
PROOF
<1>1. /\ flush'[f] = NoFlush
      /\ \A g \in Flushers \ {f} : flush'[g] = flush[g]
  BY DEF Types
<1>2. /\ Rows(f)' = {} /\ \A g \in Flushers \ {f} : Rows(g)' = Rows(g)
  BY <1>1, NoRows DEF Rows, NoFlush
<1>3. \A g \in Flushers : \A r : g # f => (Between(g, r)' <=> Between(g, r))
  BY <1>1 DEF Between
<1>4. \A r \in Records : copies[r] \in Nat /\ copies'[r] \in Nat
  BY CacheIs
<1>5. \A r \in Records : copies[r] > 0 => copies'[r] > 0
  BY <1>4
<1>6. ASSUME NEW g \in Flushers PROVE FlushOK(g)'
  <2>1. CASE g = f
    BY <1>1, <2>1, NoRows DEF FlushOK, NoFlush
  <2>2. CASE g # f
    <3>1. FlushOK(g) /\ flush'[g] = flush[g] /\ Rows(g)' = Rows(g)
      BY <1>1, <1>2, <2>2 DEF DataOK
    <3>2. flush[g].at = "delete" => copies'[Head(flush[g].rows)] > 0
      <4> SUFFICES ASSUME flush[g].at = "delete" PROVE copies'[Head(flush[g].rows)] > 0
        OBVIOUS
      <4>1. flush[g].rows # <<>> /\ copies[Head(flush[g].rows)] > 0
        BY <3>1 DEF FlushOK
      <4>2. Head(flush[g].rows) \in Records
        BY <4>1, FlushIs, HeadTailProperties
      <4> QED BY <1>5, <4>1, <4>2
    <3>3. \A a \in flush[g].urgent : copies'[a] > 0 \/ a \in Rows(g)
      BY <1>5, <3>1, FlushIs DEF FlushOK
    <3> QED BY <3>1, <3>2, <3>3 DEF FlushOK
  <2> QED BY <2>1, <2>2
<1>7. HandOK'
  <2>1. \A r \in Records : copies'[r] > 0 => r \in Settled
    BY DEF DataOK, HandOK
  <2>2. Settled' = Settled
    BY DEF Settled
  <2>3. \A g \in Flushers : Rows(g)' \subseteq Settled
    BY <1>2 DEF DataOK, HandOK
  <2> QED BY <2>1, <2>2, <2>3 DEF DataOK, HandOK
<1>8. LossHasCause'
  BY <1>5 DEF DataOK, LossHasCause
<1>9. OnceOK'
  <2>1. DuplicatesHaveCause'
    BY DEF DataOK, OnceOK, DuplicatesHaveCause
  <2>2. ASSUME NEW g \in Flushers, NEW r \in Rows(g)', r \notin excused', copies'[r] > 0
        PROVE  Between(g, r)'
    <3>1. g # f /\ r \in Rows(g) /\ r \notin excused
      BY <1>2, <2>2
    <3>2. r \in Records
      BY <3>1 DEF DataOK, HandOK, Settled
    <3>3. copies[r] > 0
      BY <2>2, <3>2
    <3> QED BY <1>3, <3>1, <3>3 DEF DataOK, OnceOK
  <2>3. ASSUME NEW r \in ToSet(cache'), r \notin excused', copies'[r] > 0
        PROVE  \E g \in Flushers : Between(g, r)'
    <3>1. r \in ToSet(cache) /\ r \notin excused /\ r \in Records
      BY <2>3 DEF DataOK, HandOK, Settled
    <3>2. copies[r] > 0
      BY <2>3, <3>1
    <3>3. PICK g \in Flushers : Between(g, r)
      BY <3>1, <3>2 DEF DataOK, OnceOK
    <3>4. g # f
      BY <3>3 DEF Between
    <3> QED BY <1>3, <3>3, <3>4
  <2>4. \A g, h \in Flushers : g # h => Rows(g)' \cap Rows(h)' \subseteq excused'
    BY <1>2 DEF DataOK, OnceOK
  <2> QED BY <2>1, <2>2, <2>3, <2>4 DEF OnceOK
<1> QED BY <1>6, <1>7, <1>8, <1>9 DEF DataOK

LEMMA SelectNoneData ==
  ASSUME Types, DataOK, NEW f \in Flushers, SelectNone(f) \/ LastRow(f)
  PROVE  DataOK'
PROOF
<1>1. /\ flush' = [flush EXCEPT ![f] = NoFlush] /\ flush[f].at # "delete"
      /\ UNCHANGED <<loop, current, cache, refused, unsent, offered, excused, copies>>
  BY DEF SelectNone, LastRow, Finish, FlushStep, bounds
<1>2. copies' \in [Records -> Nat]
  BY <1>1, CacheIs
<1> QED BY <1>1, <1>2, FlushEndsData

LEMMA RowNotSentData ==
  ASSUME Types, DataOK, NEW f \in Flushers, RowNotSent(f)
  PROVE  DataOK'
PROOF
<1> DEFINE h == Head(flush[f].rows)
<1>1. /\ flush' = [flush EXCEPT ![f] = NoFlush] /\ flush[f].at = "publish" /\ flush[f].rows # <<>>
      /\ UNCHANGED <<loop, current, cache, refused, unsent, offered>>
      /\ \/ copies' = copies /\ excused' = excused
         \/ copies' = [copies EXCEPT ![h] = @] /\ excused' = excused
         \/ copies' = [copies EXCEPT ![h] = @ + 1] /\ excused' = excused \cup {h}
  BY DEF RowNotSent, Finish, FlushStep, bounds, PublishFalse, PublishThrows
<1>2. h \in Records /\ h \in Rows(f)
  BY <1>1, RowAt
<1>3. copies \in [Records -> Nat]
  BY CacheIs
<1> HIDE DEF h
<1>4. copies' \in [Records -> Nat] /\ excused \subseteq excused'
  BY <1>1, <1>2, <1>3
<1>5. \A r \in Records : \/ copies'[r] = copies[r]
                         \/ r \in Rows(f) /\ r \in excused' /\ copies'[r] > copies[r]
  BY <1>1, <1>2, <1>3
<1>6. flush[f].at # "delete"
  BY <1>1
<1> QED BY <1>1, <1>4, <1>5, <1>6, FlushEndsData

\* The rows of the table become those of the flush; what another flush has too is
\* excused from now on.
LEMMA SelectData ==
  ASSUME Types, DataOK, NEW f \in Flushers, Select(f)
  PROVE  DataOK'
PROOF
<1>1. /\ UNCHANGED <<loop, current, cache, copies, refused, unsent, offered>>
      /\ flush[f].at = "select"
      /\ excused' = excused \cup (ToSet(cache) \cap UNION {Rows(g) : g \in Flushers \ {f}})
  BY DEF Select, FlushStep, bounds, Rows
<1>2. PICK order \in Bijection(DOMAIN cache, DOMAIN cache) :
        /\ \A i, j \in DOMAIN cache : i < j => ByPriority(order[i], order[j])
        /\ flush' = [flush EXCEPT ![f] =
             [at |-> "publish", rows |-> [i \in DOMAIN cache |-> cache[order[i]]],
              urgent |-> Alarms \cap ToSet(cache)]]
  BY DEF Select
<1> DEFINE rows == [i \in DOMAIN cache |-> cache[order[i]]]
<1>3. rows = [i \in DOMAIN cache |-> cache[order[i]]]
  OBVIOUS
<1>4. flush' = [flush EXCEPT ![f] =
                  [at |-> "publish", rows |-> rows, urgent |-> Alarms \cap ToSet(cache)]]
  BY <1>2
<1> HIDE DEF rows
<1>5. /\ rows \in Seq(Records) /\ Distinct(rows) /\ AlarmsLead(rows) /\ ToSet(rows) = ToSet(cache)
  BY <1>2, <1>3, CacheIs, RowsSelected
<1>6. /\ flush'[f] = [at |-> "publish", rows |-> rows, urgent |-> Alarms \cap ToSet(cache)]
      /\ \A g \in Flushers \ {f} : flush'[g] = flush[g]
  BY <1>4 DEF Types
<1>7. /\ Rows(f)' = ToSet(cache) /\ \A g \in Flushers \ {f} : Rows(g)' = Rows(g)
  BY <1>5, <1>6 DEF Rows
<1>8. /\ \A r : ~Between(f, r)
      /\ \A g \in Flushers \ {f} : \A r : Between(g, r)' <=> Between(g, r)
  BY <1>1, <1>6 DEF Between
<1>9. \A g \in Flushers : FlushOK(g)'
  <2>1. FlushOK(f)'
    BY <1>5, <1>6, <1>7 DEF FlushOK
  <2>2. \A g \in Flushers \ {f} : FlushOK(g)'
    BY <1>1, <1>6, <1>7 DEF DataOK, FlushOK
  <2> QED BY <2>1, <2>2
<1>10. HandOK'
  BY <1>1, <1>7 DEF DataOK, HandOK, Settled
<1>11. LossHasCause'
  BY <1>1 DEF DataOK, LossHasCause
<1>12. OnceOK'
  <2>1. DuplicatesHaveCause'
    BY <1>1 DEF DataOK, OnceOK, DuplicatesHaveCause
  <2>2. \A r \in ToSet(cache) : \A g \in Flushers \ {f} : r \in Rows(g) => r \in excused'
    BY <1>1
  <2>3. ASSUME NEW r \in ToSet(cache), r \notin excused', copies[r] > 0 PROVE FALSE
    <3>1. PICK g \in Flushers : Between(g, r)
      BY <1>1, <2>3 DEF DataOK, OnceOK
    <3>2. g # f
      BY <1>8, <3>1
    <3>3. r \in Rows(g)
      <4>1. flush[g].rows # <<>>
        BY <3>1 DEF DataOK, FlushOK, Between
      <4> QED BY <3>1, <4>1, RowAt DEF Between
    <3> QED BY <2>2, <2>3, <3>2, <3>3
  <2>4. ASSUME NEW g \in Flushers, NEW r \in Rows(g)', r \notin excused', copies'[r] > 0
        PROVE  Between(g, r)'
    <3>1. copies[r] > 0
      BY <1>1, <2>4
    <3>2. g # f
      BY <1>7, <2>3, <2>4, <3>1
    <3> QED BY <1>1, <1>7, <1>8, <2>4, <3>1, <3>2 DEF DataOK, OnceOK
  <2>5. \A r \in ToSet(cache') \ excused' : ~(copies'[r] > 0)
    BY <1>1, <2>3
  <2>6. ASSUME NEW g \in Flushers, NEW h \in Flushers, g # h
        PROVE  Rows(g)' \cap Rows(h)' \subseteq excused'
    <3>1. CASE g # f /\ h # f
      BY <1>1, <1>7, <2>6, <3>1 DEF DataOK, OnceOK
    <3>2. CASE g = f
      BY <1>7, <2>2, <2>6, <3>2
    <3>3. CASE h = f
      BY <1>7, <2>2, <2>6, <3>3
    <3> QED BY <3>1, <3>2, <3>3
  <2> QED BY <2>1, <2>4, <2>5, <2>6 DEF OnceOK
<1> QED BY <1>9, <1>10, <1>11, <1>12 DEF DataOK

\* The broker has the row, which was sent before only if it is excused.
LEMMA RowSentData ==
  ASSUME Types, DataOK, NEW f \in Flushers, RowSent(f)
  PROVE  DataOK'
PROOF
<1> DEFINE h == Head(flush[f].rows)
<1>1. /\ UNCHANGED <<loop, current, cache, refused, unsent, excused, offered>>
      /\ flush[f].at = "publish" /\ flush[f].rows # <<>>
      /\ copies' = [copies EXCEPT ![h] = @ + 1]
      /\ flush' = [flush EXCEPT ![f].at = "delete"]
  BY DEF RowSent, PublishTrue, FlushStep, bounds
<1>2. h \in Records /\ h \in Rows(f)
  BY <1>1, RowAt
<1>3. copies \in [Records -> Nat]
  BY CacheIs
<1>4. /\ flush'[f].at = "delete" /\ flush'[f].rows = flush[f].rows
      /\ flush'[f].urgent = flush[f].urgent
      /\ \A g \in Flushers \ {f} : flush'[g] = flush[g]
  BY <1>1 DEF Types
<1>5. \A g \in Flushers : Rows(g)' = Rows(g)
  BY <1>4 DEF Rows
<1>6. /\ flush'[f].at = "delete" /\ Head(flush'[f].rows) = h /\ \A r : ~Between(f, r)
      /\ \A g \in Flushers \ {f} : \A r : Between(g, r)' <=> Between(g, r)
  BY <1>1, <1>4 DEF Between
<1>7. /\ copies'[h] = copies[h] + 1 /\ copies'[h] > 0
      /\ \A r \in Records \ {h} : copies'[r] = copies[r]
      /\ \A r \in Records : copies[r] > 0 => copies'[r] > 0
  <2> HIDE DEF h
  <2> QED BY <1>1, <1>2, <1>3
<1>8. ASSUME NEW g \in Flushers PROVE FlushOK(g)'
  <2>1. FlushOK(g)
    BY DEF DataOK
  <2>2. /\ flush'[g].rows = flush[g].rows /\ flush'[g].urgent = flush[g].urgent
        /\ g # f => flush'[g].at = flush[g].at
    BY <1>4
  <2>3. flush'[g].at = "delete" => flush[g].rows # <<>> /\ copies'[Head(flush[g].rows)] > 0
    <3>1. CASE g = f
      BY <1>1, <1>7, <3>1
    <3>2. CASE g # f
      <4> SUFFICES ASSUME flush[g].at = "delete"
                   PROVE  flush[g].rows # <<>> /\ copies'[Head(flush[g].rows)] > 0
        BY <2>2, <3>2
      <4>1. flush[g].rows # <<>> /\ copies[Head(flush[g].rows)] > 0
        BY <2>1 DEF FlushOK
      <4>2. Head(flush[g].rows) \in Records
        BY <4>1, FlushIs, HeadTailProperties
      <4> HIDE DEF h
      <4> QED BY <1>7, <4>1, <4>2
    <3> QED BY <3>1, <3>2
  <2> HIDE DEF h
  <2>4. \A a \in flush[g].urgent : copies'[a] > 0 \/ a \in Rows(g)
    BY <1>7, <2>1, FlushIs DEF FlushOK
  <2>5. flush'[g].at \in {"idle", "select"} => flush[g].rows = <<>> /\ flush[g].urgent = {}
    BY <1>4, <2>1, <2>2 DEF FlushOK
  <2> QED BY <1>5, <2>1, <2>2, <2>3, <2>4, <2>5 DEF FlushOK
<1> HIDE DEF h
<1>9. HandOK'
  <2>1. h \in Settled
    BY <1>2 DEF DataOK, HandOK
  <2>2. \A r \in Records : copies'[r] > 0 => r \in Settled
    BY <1>7, <2>1 DEF DataOK, HandOK
  <2> QED BY <1>1, <1>5, <2>2 DEF DataOK, HandOK, Settled
<1>10. LossHasCause'
  BY <1>1, <1>7 DEF DataOK, LossHasCause
<1>11. h \notin excused => copies[h] = 0 /\ \A g \in Flushers \ {f} : h \notin Rows(g)
  <2> SUFFICES ASSUME h \notin excused
               PROVE  copies[h] = 0 /\ \A g \in Flushers \ {f} : h \notin Rows(g)
    OBVIOUS
  <2>1. ~(copies[h] > 0)
    BY <1>2, <1>6 DEF DataOK, OnceOK
  <2>2. copies[h] \in Nat
    BY <1>2, <1>3
  <2>3. \A g \in Flushers \ {f} : h \notin Rows(g)
    BY <1>2 DEF DataOK, OnceOK
  <2> QED BY <2>1, <2>2, <2>3
<1>12. OnceOK'
  <2>1. DuplicatesHaveCause'
    <3> SUFFICES ASSUME NEW r \in Records, copies'[r] > 1 PROVE r \in excused
      BY <1>1 DEF DuplicatesHaveCause
    <3>1. CASE r = h
      BY <1>7, <1>11, <3>1
    <3>2. CASE r # h
      BY <1>7, <3>2 DEF DataOK, OnceOK, DuplicatesHaveCause
    <3> QED BY <3>1, <3>2
  <2>2. ASSUME NEW g \in Flushers, NEW r \in Rows(g), r \notin excused, copies'[r] > 0
        PROVE  Between(g, r)'
    <3>1. r \in Records
      BY DEF DataOK, HandOK, Settled
    <3>2. CASE r = h
      <4>1. g = f
        BY <1>11, <2>2, <3>2
      <4> QED BY <1>6, <3>2, <4>1 DEF Between
    <3>3. CASE r # h
      <4>1. Between(g, r)
        BY <1>7, <2>2, <3>1, <3>3 DEF DataOK, OnceOK
      <4> QED BY <1>6, <4>1
    <3> QED BY <3>2, <3>3
  <2>3. ASSUME NEW r \in ToSet(cache), r \notin excused, copies'[r] > 0
        PROVE  \E g \in Flushers : Between(g, r)'
    <3>1. r \in Records
      BY DEF DataOK, HandOK, Settled
    <3>2. CASE r = h
      BY <1>6, <3>2 DEF Between
    <3>3. CASE r # h
      <4>1. PICK g \in Flushers : Between(g, r)
        BY <1>7, <2>3, <3>1, <3>3 DEF DataOK, OnceOK
      <4> QED BY <1>6, <4>1
    <3> QED BY <3>2, <3>3
  <2>4. \A g, k \in Flushers : g # k => Rows(g)' \cap Rows(k)' \subseteq excused'
    BY <1>1, <1>5 DEF DataOK, OnceOK
  <2> QED BY <1>1, <1>5, <2>1, <2>2, <2>3, <2>4 DEF OnceOK
<1> QED BY <1>8, <1>9, <1>10, <1>12 DEF DataOK

\* The loop goes on after a row that is sent and, unless it is excused, deleted.
LEMMA NextRowData ==
  ASSUME Types, DataOK, NEW f \in Flushers, flush[f].at = "delete", flush' = NextRow(f),
         UNCHANGED <<loop, current, refused, unsent, offered, copies>>,
         ToSet(cache') \subseteq ToSet(cache),
         ToSet(cache) \subseteq ToSet(cache') \cup {Head(flush[f].rows)},
         Head(flush[f].rows) \notin ToSet(cache') \/ Head(flush[f].rows) \in excused',
         excused \subseteq excused'
  PROVE  DataOK'
PROOF
<1> DEFINE h == Head(flush[f].rows)
           t == Tail(flush[f].rows)
<1>1. flush[f].rows # <<>> /\ copies[h] > 0
  BY DEF DataOK, FlushOK
<1>2. /\ h \in Records /\ h \in Rows(f) /\ t \in Seq(Records) /\ Distinct(t) /\ AlarmsLead(t)
      /\ Rows(f) = ToSet(t) \cup {h} /\ h \notin ToSet(t)
  BY <1>1, RowAt
<1>3. /\ flush'[f].at = "publish" /\ flush'[f].rows = t /\ flush'[f].urgent = flush[f].urgent
      /\ \A g \in Flushers \ {f} : flush'[g] = flush[g]
  BY DEF Types, NextRow
<1>4. /\ \A r : Between(f, r) => r = h
      /\ \A g \in Flushers \ {f} : \A r : Between(g, r) => Between(g, r)'
      /\ \A r : ~Between(f, r)'
  BY <1>3 DEF Between
<1> HIDE DEF h, t
<1>5. Rows(f)' = ToSet(t) /\ \A g \in Flushers \ {f} : Rows(g)' = Rows(g)
  BY <1>3 DEF Rows
<1>6. \A g \in Flushers : Rows(g)' \subseteq Rows(g)
  BY <1>2, <1>5
<1>7. FlushOK(f)'
  <2>1. \A a \in flush[f].urgent : copies[a] > 0 \/ a \in ToSet(t)
    BY <1>1, <1>2 DEF DataOK, FlushOK
  <2> QED BY <1>2, <1>3, <1>5, <2>1 DEF FlushOK
<1>8. ASSUME NEW g \in Flushers \ {f} PROVE FlushOK(g)'
  <2>1. FlushOK(g) /\ flush'[g] = flush[g] /\ Rows(g)' = Rows(g)
    BY <1>3, <1>5 DEF DataOK
  <2> QED BY <2>1 DEF FlushOK
<1>9. HandOK'
  BY <1>6 DEF DataOK, HandOK, Settled
<1>10. LossHasCause'
  BY <1>1, <1>2 DEF DataOK, LossHasCause, h
<1>11. OnceOK'
  <2>1. DuplicatesHaveCause'
    BY DEF DataOK, OnceOK, DuplicatesHaveCause
  <2>2. ASSUME NEW g \in Flushers, NEW r \in Rows(g)', r \notin excused', copies'[r] > 0
        PROVE  Between(g, r)'
    <3>1. Between(g, r)
      BY <1>6, <2>2 DEF DataOK, OnceOK
    <3>2. g # f
      BY <1>2, <1>4, <1>5, <2>2, <3>1
    <3> QED BY <1>4, <3>1, <3>2
  <2>3. ASSUME NEW r \in ToSet(cache'), r \notin excused', copies'[r] > 0
        PROVE  \E g \in Flushers : Between(g, r)'
    <3>1. r \in ToSet(cache) /\ r # h
      BY <2>3 DEF h
    <3>2. PICK g \in Flushers : Between(g, r)
      BY <2>3, <3>1 DEF DataOK, OnceOK
    <3>3. g # f
      BY <1>4, <3>1, <3>2
    <3> QED BY <1>4, <3>2, <3>3
  <2>4. \A g, k \in Flushers : g # k => Rows(g)' \cap Rows(k)' \subseteq excused'
    BY <1>6 DEF DataOK, OnceOK
  <2> QED BY <2>1, <2>2, <2>3, <2>4 DEF OnceOK
<1> QED BY <1>7, <1>8, <1>9, <1>10, <1>11 DEF DataOK

\* What DELETE does to the table, when the snapshot is not stale.
LEMMA DeleteRowTable ==
  ASSUME Types, NEW f \in Flushers, DeleteRow(f)
  PROVE  /\ cache' \in Seq(Records) /\ Distinct(cache')
         /\ ToSet(cache') = ToSet(cache) \ {Head(flush[f].rows)}
PROOF
<1> DEFINE h == Head(flush[f].rows)
<1>1. cache \in Seq(Records) /\ Distinct(cache)
  BY CacheIs
<1>2. CASE h \notin ToSet(cache) /\ UNCHANGED cache
  BY <1>1, <1>2
<1>3. CASE \E i \in DOMAIN cache : cache[i] = h /\ cache' = RemoveAt(cache, i)
  <2>1. PICK i \in DOMAIN cache : cache[i] = h /\ cache' = RemoveAt(cache, i)
    BY <1>3
  <2>2. i \in 1 .. Len(cache)
    BY <1>1
  <2> HIDE DEF h
  <2>3. /\ RemoveAt(cache, i) \in Seq(Records) /\ Distinct(RemoveAt(cache, i))
        /\ ToSet(RemoveAt(cache, i)) = ToSet(cache) \ {cache[i]}
    BY <1>1, <2>2, RowDeleted
  <2> QED BY <2>1, <2>3 DEF h
<1> QED BY <1>2, <1>3 DEF DeleteRow

LEMMA DeleteData ==
  ASSUME Types, DataOK, NEW f \in Flushers, DeleteRow(f) \/ DeleteBusy(f)
  PROVE  DataOK'
PROOF
<1>1. /\ flush[f].at = "delete" /\ flush' = NextRow(f)
      /\ UNCHANGED <<loop, current, refused, unsent, offered, copies>>
  BY DEF DeleteRow, DeleteBusy, FlushStep, bounds
<1>2. CASE DeleteRow(f)
  <2>1. ToSet(cache') = ToSet(cache) \ {Head(flush[f].rows)} /\ excused' = excused
    BY <1>2, DeleteRowTable DEF DeleteRow
  <2> QED BY <1>1, <2>1, NextRowData
<1>3. CASE DeleteBusy(f)
  <2>1. cache' = cache /\ excused' = excused \cup {Head(flush[f].rows)}
    BY <1>3 DEF DeleteBusy
  <2> QED BY <1>1, <2>1, NextRowData
<1> QED BY <1>2, <1>3

\* A crash forgets the flushes; the rows they had sent and not deleted are excused.
LEMMA CrashData ==
  ASSUME Types, DataOK, Crash
  PROVE  DataOK'
PROOF
<1>1. /\ UNCHANGED <<cache, refused, copies, offered>>
      /\ loop' = "connect" /\ current' = NoRecord
      /\ flush' = [f \in Flushers |-> NoFlush]
      /\ unsent' = unsent \cup ({current} \ {NoRecord})
      /\ excused' = excused \cup
           {Head(flush[f].rows) : f \in {g \in Flushers : flush[g].at = "delete"}}
  BY DEF Crash, table
<1>2. \A f \in Flushers : flush'[f] = NoFlush /\ Rows(f)' = {}
  BY <1>1, NoRows DEF Rows, NoFlush
<1>3. \A f \in Flushers : FlushOK(f)'
  BY <1>2, NoRows DEF FlushOK, NoFlush
<1>4. offered \subseteq Records /\ NoRecord \notin offered
  BY RecordsAssumption DEF DataOK, HandOK
<1>5. Settled' = offered
  BY <1>1, <1>4 DEF Settled
<1>6. HandOK'
  BY <1>1, <1>2, <1>4, <1>5 DEF DataOK, HandOK, Settled
<1>7. LossHasCause'
  BY <1>1, <1>4 DEF DataOK, LossHasCause
<1>8. OnceOK'
  <2>1. DuplicatesHaveCause'
    BY <1>1 DEF DataOK, OnceOK, DuplicatesHaveCause
  <2>2. \A r \in ToSet(cache) \ excused' : ~(copies[r] > 0)
    BY <1>1 DEF DataOK, OnceOK, Between
  <2> QED BY <1>1, <1>2, <2>1, <2>2 DEF OnceOK
<1> QED BY <1>3, <1>6, <1>7, <1>8 DEF DataOK

LEMMA NextData ==
  ASSUME Types, DataOK, [Next]_vars
  PROVE  DataOK'
PROOF
<1>1. CASE Library \/ LinkBreaks \/ MessageArrived
  <2>1. UNCHANGED <<loop, current, cache, flush, copies, refused, unsent, excused, offered>>
    BY <1>1 DEF Library, Connected, StatusCallback, NotifyMainThread, ConnectionLost, LinkBreaks,
       MessageArrived, LibraryStep, table
  <2> QED BY <2>1, DataUntouched
<1>2. CASE ConnectDone \/ ConnectFails \/ Subscribe \/ Wake \/ PublishBirth
           \/ ResubscribeAll \/ PopCommand \/ NoCommand \/ SkipFlush
  <2>1. /\ UNCHANGED <<current, cache, flush, copies, refused, unsent, excused, offered>>
        /\ loop \notin {"publish", "insert"} /\ loop' \notin {"publish", "insert"}
    BY <1>2 DEF ConnectDone, ConnectFails, Subscribe, Wake, PublishBirth, ResubscribeAll,
       PopCommand, NoCommand, SkipFlush, MainStep, table
  <2> QED BY <2>1, DataUntouched
<1>3. CASE PublishRecord \/ InsertRecord \/ InsertBusy
  BY <1>3, PublishRecordData, InsertData
<1>4. CASE \E f \in Flushers : StartFlush(f)
  BY <1>4, StartFlushData
<1>5. CASE \E f \in Flushers : Flush(f)
  BY <1>5, SelectNoneData, SelectData, RowSentData, RowNotSentData, DeleteData DEF Flush
<1>6. CASE OtherCommit \/ UNCHANGED vars
  <2>1. UNCHANGED <<loop, current, cache, flush, copies, refused, unsent, excused, offered>>
    BY <1>6 DEF OtherCommit, vars, table, bounds
  <2> QED BY <2>1, DataUntouched
<1>7. CASE Crash
  BY <1>7, CrashData
<1>8. CASE \E r \in Records : RecordArrives(r)
  BY <1>8, RecordArrivesData
<1> QED BY <1>1, <1>2, <1>3, <1>4, <1>5, <1>6, <1>7, <1>8 DEF Next, Main

-----------------------------------------------------------------------------
(* Types *)

Clients ==
  [link : {"none", "up", "down"}, connected : BOOLEAN, birthPending : BOOLEAN,
   needsResub : BOOLEAN, callback : {"idle", "connected", "status", "notify"},
   ready : BOOLEAN, rpcs : 0 .. MaxSync, topics : BOOLEAN, subscribed : BOOLEAN]

Places == {"connect", "subscribe", "wait", "publish", "insert", "birth", "resubscribe",
           "commands", "check"}

Flushes == [Flushers -> [at : {"idle", "select", "publish", "delete"},
                         rows : Seq(Records), urgent : SUBSET Alarms]]

ClientOK == mqtt \in Clients /\ syncs \in 0 .. MaxSync /\ mqtt.rpcs <= syncs

PlacesOK == needFlush \in BOOLEAN /\ loop \in Places /\ current \in Records \cup {NoRecord}

StoreOK ==
  /\ cache \in Seq(Records) /\ Distinct(cache) /\ flush \in Flushes /\ stale \in BOOLEAN
  /\ copies \in [Records -> Nat] /\ refused \cup unsent \cup excused \subseteq Records

LEMMA TypesAre ==
  Types <=> ClientOK /\ PlacesOK /\ StoreOK
PROOF
<1>1. Types => ClientOK /\ PlacesOK /\ StoreOK
  BY DistinctIs DEF Types, TypeOK, ClientOK, PlacesOK, StoreOK, Clients, Places, Flushes
<1>2. ASSUME ClientOK, PlacesOK, StoreOK PROVE Types
  <2>1. cache \in Seq(Records) /\ IsInjective(cache)
    BY <1>2, DistinctIs DEF StoreOK
  <2>2. flush \in Flushes
    BY <1>2 DEF StoreOK
  <2>3. \A f \in Flushers : /\ flush[f].at \in {"idle", "select", "publish", "delete"}
                            /\ flush[f].rows \in Seq(Records)
                            /\ flush[f].urgent \subseteq Alarms
    BY <2>2 DEF Flushes
  <2>4. /\ mqtt \in Clients /\ syncs \in 0 .. MaxSync /\ mqtt.rpcs <= syncs
        /\ needFlush \in BOOLEAN /\ loop \in Places /\ current \in Records \cup {NoRecord}
        /\ stale \in BOOLEAN /\ copies \in [Records -> Nat]
        /\ refused \cup unsent \cup excused \subseteq Records
    BY <1>2 DEF ClientOK, PlacesOK, StoreOK
  <2>5. TypeOK
    BY <2>1, <2>3, <2>4 DEF TypeOK, Clients, Places
  <2> QED BY <2>2, <2>4, <2>5 DEF Types, Flushes
<1> QED BY <1>1, <1>2

LEMMA NewClientIs ==
  NewClient \in Clients /\ NewClient.rpcs = 0
BY BoundsAssumption DEF NewClient, Clients

\* Only the records of the client that a step assigns can change.
LEMMA ClientType ==
  ASSUME ClientOK, PlacesOK, [Next]_vars
  PROVE  ClientOK'
PROOF
<1>1. mqtt \in Clients /\ syncs \in 0 .. MaxSync /\ mqtt.rpcs <= syncs /\ MaxSync \in Nat
  BY BoundsAssumption DEF ClientOK
<1>2. CASE UNCHANGED <<mqtt, syncs>>
  BY <1>1, <1>2 DEF ClientOK
<1>3. CASE Library \/ LinkBreaks
  BY <1>1, <1>3 DEF Library, LinkBreaks, Connected, StatusCallback, NotifyMainThread,
     ConnectionLost, Clients, ClientOK
<1>4. CASE MessageArrived
  <2>1. syncs < MaxSync /\ syncs' = syncs + 1 /\ mqtt.rpcs \in Nat
        /\ mqtt' = [mqtt EXCEPT !.rpcs = @ + 1, !.ready = TRUE]
    BY <1>1, <1>4 DEF MessageArrived, Clients
  <2> DEFINE n == mqtt.rpcs + 1
  <2>2. n \in 0 .. MaxSync /\ syncs' \in 0 .. MaxSync /\ n <= syncs'
    BY <1>1, <2>1
  <2>3. mqtt' = [mqtt EXCEPT !.rpcs = n, !.ready = TRUE]
    BY <2>1
  <2> HIDE DEF n
  <2>4. mqtt' \in Clients /\ mqtt'.rpcs = n
    BY <1>1, <2>2, <2>3 DEF Clients
  <2> QED BY <2>2, <2>4 DEF ClientOK
<1>5. CASE ConnectDone \/ Subscribe \/ Wake
  BY <1>1, <1>5 DEF ConnectDone, Subscribe, Wake, MainStep, Clients, ClientOK
<1>6. CASE PublishBirth
  BY <1>1, <1>6 DEF PublishBirth, MainStep, Clients, ClientOK
<1>7. CASE ResubscribeAll
  <2>1. /\ mqtt' = [mqtt EXCEPT !.needsResub = FALSE, !.subscribed = mqtt'.subscribed]
        /\ mqtt'.subscribed \in BOOLEAN /\ syncs' = syncs
    BY <1>1, <1>7 DEF ResubscribeAll, MainStep, Clients
  <2> QED BY <1>1, <2>1 DEF Clients, ClientOK
<1>8. CASE PopCommand
  BY <1>1, <1>8 DEF PopCommand, MainStep, Clients, ClientOK
<1>9. CASE PublishRecord
  <2>1. syncs' = syncs /\ (mqtt' = mqtt \/ mqtt' = [mqtt EXCEPT !.link = "down"])
    BY <1>9 DEF PublishRecord, MainStep, PublishTrue, PublishFalse, PublishThrows
  <2> QED BY <1>1, <2>1 DEF Clients, ClientOK
<1>10. CASE \E f \in Flushers : Flush(f)
  <2>1. syncs' = syncs /\ (mqtt' = mqtt \/ mqtt' = [mqtt EXCEPT !.link = "down"])
    BY <1>10 DEF Flush, SelectNone, Select, LastRow, RowSent, RowNotSent, DeleteRow, DeleteBusy,
       FlushStep, bounds, PublishTrue, PublishFalse, PublishThrows
  <2> QED BY <1>1, <2>1 DEF Clients, ClientOK
<1>11. CASE Crash
  <2>1. mqtt' = NewClient /\ syncs' = syncs
    BY <1>11 DEF Crash
  <2> QED BY <1>1, <2>1, NewClientIs DEF ClientOK
<1>12. CASE ConnectFails \/ InsertRecord \/ InsertBusy \/ NoCommand \/ SkipFlush
            \/ (\E f \in Flushers : StartFlush(f)) \/ OtherCommit \/ UNCHANGED vars
            \/ (\E r \in Records : RecordArrives(r))
  BY <1>2, <1>12 DEF ConnectFails, InsertRecord, InsertBusy, NoCommand, SkipFlush, StartFlush,
     OtherCommit, RecordArrives, MainStep, vars, bounds
<1> QED BY <1>3, <1>4, <1>5, <1>6, <1>7, <1>8, <1>9, <1>10, <1>11, <1>12 DEF Next, Main

LEMMA PlacesType ==
  ASSUME PlacesOK, [Next]_vars
  PROVE  PlacesOK'
PROOF
<1>1. CASE Library \/ LinkBreaks \/ MessageArrived
  BY <1>1 DEF Library, Connected, StatusCallback, NotifyMainThread, ConnectionLost, LinkBreaks,
     MessageArrived, LibraryStep, PlacesOK
<1>2. CASE ConnectDone \/ ConnectFails \/ Subscribe \/ PublishRecord \/ InsertRecord \/ InsertBusy
  BY <1>2 DEF ConnectDone, ConnectFails, Subscribe, PublishRecord, InsertRecord, InsertBusy,
     PlacesOK, Places
<1>3. CASE Wake \/ PublishBirth \/ ResubscribeAll \/ PopCommand \/ NoCommand \/ SkipFlush
           \/ (\E f \in Flushers : StartFlush(f))
  BY <1>3 DEF Wake, PublishBirth, ResubscribeAll, PopCommand, NoCommand, SkipFlush, StartFlush,
     PlacesOK, Places
<1>4. CASE (\E f \in Flushers : Flush(f)) \/ OtherCommit \/ UNCHANGED vars
  BY <1>4 DEF Flush, SelectNone, Select, LastRow, RowSent, RowNotSent, DeleteRow, DeleteBusy,
     FlushStep, OtherCommit, vars, PlacesOK
<1>5. CASE Crash \/ \E r \in Records : RecordArrives(r)
  BY <1>5 DEF Crash, RecordArrives, PlacesOK, Places
<1> QED BY <1>1, <1>2, <1>3, <1>4, <1>5 DEF Next, Main

LEMMA StoreType ==
  ASSUME Types, DataOK, [Next]_vars
  PROVE  StoreOK'
PROOF
<1>1. /\ cache \in Seq(Records) /\ Distinct(cache) /\ flush \in Flushes /\ stale \in BOOLEAN
      /\ copies \in [Records -> Nat] /\ refused \cup unsent \cup excused \subseteq Records
  BY TypesAre DEF StoreOK
<1>2. CASE UNCHANGED <<cache, flush, stale, copies, refused, unsent, excused>>
  BY <1>1, <1>2 DEF StoreOK, Flushes
<1>3. CASE Library \/ LinkBreaks \/ MessageArrived \/ UNCHANGED vars
  BY <1>2, <1>3 DEF Library, Connected, StatusCallback, NotifyMainThread, ConnectionLost, LinkBreaks,
     MessageArrived, LibraryStep, table, vars
<1>4. CASE ConnectDone \/ ConnectFails \/ Subscribe \/ Wake \/ PublishBirth
           \/ ResubscribeAll \/ PopCommand \/ NoCommand \/ SkipFlush
           \/ \E r \in Records : RecordArrives(r)
  BY <1>2, <1>4 DEF ConnectDone, ConnectFails, Subscribe, Wake, PublishBirth, ResubscribeAll,
     PopCommand, NoCommand, SkipFlush, RecordArrives, MainStep, table
<1>5. CASE PublishRecord
  <2>1. current \in Records
    BY <1>5, InHand DEF PublishRecord
  <2>2. /\ UNCHANGED <<cache, flush, stale, refused, excused>>
        /\ unsent' = unsent \/ unsent' = unsent \cup {current}
        /\ copies' = copies \/ copies' = [copies EXCEPT ![current] = @ + 1]
    BY <1>1, <1>5 DEF PublishRecord, MainStep, table, PublishTrue, PublishFalse, PublishThrows
  <2>3. copies' \in [Records -> Nat]
    BY <1>1, <2>1, <2>2
  <2> QED BY <1>1, <2>1, <2>2, <2>3 DEF StoreOK, Flushes
<1>6. CASE InsertRecord
  <2>1. current \in Records /\ current \notin ToSet(cache)
    BY <1>6, InHand DEF InsertRecord
  <2>2. Append(cache, current) \in Seq(Records) /\ Distinct(Append(cache, current))
    BY <1>1, <2>1, RowAdded
  <2> QED BY <1>1, <1>6, <2>2 DEF InsertRecord, MainStep, StoreOK, Flushes
<1>7. CASE InsertBusy
  <2>1. current \in Records
    BY <1>7, InHand DEF InsertBusy
  <2> QED BY <1>1, <1>7, <2>1 DEF InsertBusy, MainStep, StoreOK, Flushes
<1>8. ASSUME NEW f \in Flushers, StartFlush(f) PROVE StoreOK'
  <2>1. /\ UNCHANGED <<cache, stale, copies, refused, unsent, excused>>
        /\ flush' = [flush EXCEPT ![f].at = "select"]
    BY <1>8 DEF StartFlush, MainStep, table
  <2>2. flush' \in Flushes
    BY <1>1, <2>1 DEF Flushes
  <2> QED BY <1>1, <2>1, <2>2 DEF StoreOK
<1>9. NoFlush \in [at : {"idle", "select", "publish", "delete"},
                   rows : Seq(Records), urgent : SUBSET Alarms]
  BY NoRows DEF NoFlush
<1>10. ASSUME NEW f \in Flushers, Finish(f), UNCHANGED <<cache, refused, unsent>>,
              copies' \in [Records -> Nat], excused' \subseteq Records
       PROVE  StoreOK'
  <2>1. flush' \in Flushes
    BY <1>1, <1>9, <1>10 DEF Finish, Flushes
  <2>2. stale' \in BOOLEAN
    BY <1>10 DEF Finish
  <2> QED BY <1>1, <1>10, <2>1, <2>2 DEF StoreOK
<1>11. ASSUME NEW f \in Flushers, Flush(f) PROVE StoreOK'
  <2> DEFINE h == Head(flush[f].rows)
  <2>1. flush[f].rows # <<>> => h \in Records
    BY RowAt
  <2>2. /\ UNCHANGED <<refused, unsent>>
    BY <1>11 DEF Flush, SelectNone, Select, LastRow, RowSent, RowNotSent, DeleteRow, DeleteBusy,
       FlushStep
  <2>3. CASE SelectNone(f) \/ LastRow(f)
    BY <1>1, <1>10, <2>2, <2>3 DEF SelectNone, LastRow
  <2>4. CASE RowNotSent(f)
    <3>1. h \in Records
      BY <2>1, <2>4 DEF RowNotSent
    <3>2. /\ Finish(f) /\ cache' = cache
          /\ excused' = excused \/ excused' = excused \cup {h}
          /\ copies' = copies \/ copies' = [copies EXCEPT ![h] = @ + 1]
      BY <1>1, <2>4 DEF RowNotSent, PublishFalse, PublishThrows
    <3> HIDE DEF h
    <3>3. copies' \in [Records -> Nat] /\ excused' \subseteq Records
      BY <1>1, <3>1, <3>2
    <3> QED BY <1>10, <2>2, <3>2, <3>3
  <2>5. CASE Select(f)
    <3>1. PICK order \in Bijection(DOMAIN cache, DOMAIN cache) :
            /\ \A i, j \in DOMAIN cache : i < j => ByPriority(order[i], order[j])
            /\ flush' = [flush EXCEPT ![f] =
                 [at |-> "publish", rows |-> [i \in DOMAIN cache |-> cache[order[i]]],
                  urgent |-> Alarms \cap ToSet(cache)]]
      BY <2>5 DEF Select
    <3> DEFINE rows == [i \in DOMAIN cache |-> cache[order[i]]]
    <3>2. rows = [i \in DOMAIN cache |-> cache[order[i]]]
      OBVIOUS
    <3>3. flush' = [flush EXCEPT ![f] =
                      [at |-> "publish", rows |-> rows, urgent |-> Alarms \cap ToSet(cache)]]
      BY <3>1
    <3> HIDE DEF rows
    <3>4. rows \in Seq(Records)
      BY <1>1, <3>1, <3>2, RowsSelected
    <3>5. flush' \in Flushes
      <4>1. [at |-> "publish", rows |-> rows, urgent |-> Alarms \cap ToSet(cache)]
              \in [at : {"idle", "select", "publish", "delete"},
                   rows : Seq(Records), urgent : SUBSET Alarms]
        BY <3>4
      <4> QED BY <1>1, <3>3, <4>1 DEF Flushes
    <3>6. ToSet(cache) \subseteq Records
      BY <1>1, ToSetIs
    <3>7. excused' \subseteq Records /\ UNCHANGED <<cache, stale, copies>>
      BY <1>1, <2>5, <3>6 DEF Select
    <3> QED BY <1>1, <2>2, <3>5, <3>7 DEF StoreOK
  <2>6. CASE RowSent(f)
    <3>1. h \in Records
      BY <2>1, <2>6 DEF RowSent
    <3>2. /\ copies' = [copies EXCEPT ![h] = @ + 1]
          /\ flush' = [flush EXCEPT ![f].at = "delete"]
          /\ UNCHANGED <<cache, stale, excused>>
      BY <2>6 DEF RowSent, PublishTrue
    <3> HIDE DEF h
    <3>3. copies' \in [Records -> Nat]
      BY <1>1, <3>1, <3>2
    <3>4. flush' \in Flushes
      BY <1>1, <3>2 DEF Flushes
    <3> QED BY <1>1, <2>2, <3>2, <3>3, <3>4 DEF StoreOK
  <2>7. CASE DeleteRow(f) \/ DeleteBusy(f)
    <3>1. flush[f].at = "delete" /\ flush' = NextRow(f) /\ UNCHANGED <<stale, copies>>
      BY <2>7 DEF DeleteRow, DeleteBusy
    <3>2. flush[f].rows # <<>>
      BY <3>1 DEF DataOK, FlushOK
    <3>3. Tail(flush[f].rows) \in Seq(Records) /\ h \in Records
      BY <3>2, RowAt
    <3>4. flush' \in Flushes
      <4>1. flush' = [flush EXCEPT ![f].at = "publish", ![f].rows = Tail(flush[f].rows)]
        BY <3>1 DEF NextRow
      <4> DEFINE t == Tail(flush[f].rows)
      <4>2. t \in Seq(Records) /\ flush' = [flush EXCEPT ![f].at = "publish", ![f].rows = t]
        BY <3>3, <4>1
      <4> HIDE DEF t
      <4> QED BY <1>1, <4>2 DEF Flushes
    <3>5. cache' \in Seq(Records) /\ Distinct(cache') /\ excused' \subseteq Records
      <4>1. CASE DeleteRow(f)
        BY <1>1, <4>1, DeleteRowTable DEF DeleteRow
      <4>2. CASE DeleteBusy(f)
        BY <1>1, <3>3, <4>2 DEF DeleteBusy
      <4> QED BY <2>7, <4>1, <4>2
    <3> QED BY <1>1, <2>2, <3>1, <3>4, <3>5 DEF StoreOK
  <2> QED BY <1>11, <2>3, <2>4, <2>5, <2>6, <2>7 DEF Flush
<1>12. CASE OtherCommit
  BY <1>1, <1>12 DEF OtherCommit, table, StoreOK, Flushes
<1>13. CASE Crash
  <2>1. /\ UNCHANGED <<cache, refused, copies>> /\ stale' = FALSE
        /\ flush' = [f \in Flushers |-> NoFlush]
        /\ unsent' = unsent \cup ({current} \ {NoRecord})
        /\ excused' = excused \cup
             {Head(flush[f].rows) : f \in {g \in Flushers : flush[g].at = "delete"}}
    BY <1>13 DEF Crash, table
  <2>2. \A f \in Flushers : flush[f].at = "delete" => Head(flush[f].rows) \in Records
    <3> TAKE f \in Flushers
    <3>1. flush[f].at = "delete" => flush[f].rows # <<>>
      BY DEF DataOK, FlushOK
    <3> QED BY <3>1, RowAt
  <2>3. excused' \subseteq Records
    BY <1>1, <2>1, <2>2
  <2>4. current \in Records \cup {NoRecord}
    BY DEF Types, TypeOK
  <2>5. flush' \in Flushes
    BY <1>9, <2>1 DEF Flushes
  <2> QED BY <1>1, <2>1, <2>3, <2>4, <2>5 DEF StoreOK
<1> QED BY <1>3, <1>4, <1>5, <1>6, <1>7, <1>8, <1>11, <1>12, <1>13 DEF Next, Main

LEMMA NextTypes ==
  ASSUME Types, DataOK, [Next]_vars
  PROVE  Types'
PROOF
<1>1. ClientOK /\ PlacesOK
  BY TypesAre
<1>2. ClientOK' /\ PlacesOK' /\ StoreOK'
  BY <1>1, ClientType, PlacesType, StoreType
<1>3. (ClientOK /\ PlacesOK /\ StoreOK)' => Types'
  BY TypesAre, PTL
<1> QED BY <1>2, <1>3

-----------------------------------------------------------------------------
(* The session, and what is left while it lives *)

LEMMA SessionUntouched ==
  ASSUME SessionOK, UNCHANGED <<mqtt, needFlush>>, loop' = loop
  PROVE  SessionOK'
BY DEF SessionOK

LEMMA NextSession ==
  ASSUME Types, SessionOK, [Next]_vars
  PROVE  SessionOK'
PROOF
<1>1. mqtt \in Clients
  BY TypesAre DEF ClientOK
<1>2. CASE Connected
  BY <1>1, <1>2 DEF Connected, LibraryStep, SessionOK, Clients, NewClient
<1>3. CASE StatusCallback \/ NotifyMainThread
  <2>1. loop # "connect" /\ loop' = loop
    BY <1>3 DEF StatusCallback, NotifyMainThread, LibraryStep, SessionOK, NewClient
  <2>2. CASE StatusCallback
    BY <1>1, <2>1, <2>2 DEF StatusCallback, SessionOK, Clients
  <2>3. CASE NotifyMainThread
    BY <1>1, <2>1, <2>3 DEF NotifyMainThread, SessionOK, Clients
  <2> QED BY <1>3, <2>2, <2>3
<1>4. CASE ConnectionLost \/ LinkBreaks \/ MessageArrived
  <2>1. loop # "connect" /\ loop' = loop
    BY <1>4 DEF ConnectionLost, LinkBreaks, MessageArrived, LibraryStep, SessionOK, NewClient
  <2>2. CASE ConnectionLost
    BY <1>1, <2>1, <2>2 DEF ConnectionLost, SessionOK, Clients
  <2>3. CASE LinkBreaks
    BY <1>1, <2>1, <2>3 DEF LinkBreaks, SessionOK, Clients
  <2>4. CASE MessageArrived
    BY <1>1, <2>1, <2>4 DEF MessageArrived, SessionOK, Clients
  <2> QED BY <1>4, <2>2, <2>3, <2>4
<1>5. CASE ConnectDone
  BY <1>1, <1>5 DEF ConnectDone, SessionOK, Clients, NewClient, Handling
<1>6. CASE ConnectFails \/ Subscribe
  BY <1>1, <1>6 DEF ConnectFails, Subscribe, SessionOK, Clients, NewClient, Handling
<1>7. CASE Wake \/ PublishBirth \/ ResubscribeAll
  BY <1>1, <1>7 DEF Wake, PublishBirth, ResubscribeAll, SessionOK, Clients, Handling
<1>8. CASE PopCommand \/ NoCommand \/ SkipFlush \/ (\E f \in Flushers : StartFlush(f))
  BY <1>1, <1>8 DEF PopCommand, NoCommand, SkipFlush, StartFlush, SessionOK, Clients, Handling
<1>9. CASE InsertRecord \/ InsertBusy \/ (\E r \in Records : RecordArrives(r))
  BY <1>9 DEF InsertRecord, InsertBusy, RecordArrives, SessionOK, Handling
<1>10. CASE PublishRecord
  <2>1. /\ mqtt' = mqtt \/ mqtt' = [mqtt EXCEPT !.link = "down"]
        /\ loop' = "wait" /\ needFlush' = needFlush
    BY <1>10 DEF PublishRecord, PublishTrue, PublishFalse, PublishThrows
  <2> QED BY <1>1, <2>1 DEF SessionOK, Clients, Handling
<1>11. CASE \E f \in Flushers : Flush(f)
  <2>1. /\ \/ mqtt' = mqtt
           \/ mqtt.connected /\ mqtt' = [mqtt EXCEPT !.link = "down"]
        /\ loop' = loop /\ needFlush' = needFlush
    BY <1>11 DEF Flush, SelectNone, Select, LastRow, RowSent, RowNotSent, DeleteRow, DeleteBusy,
       FlushStep, PublishTrue, PublishFalse, PublishThrows
  <2> QED BY <1>1, <2>1 DEF SessionOK, Clients, NewClient
<1>12. CASE OtherCommit \/ UNCHANGED vars
  BY <1>12, SessionUntouched DEF OtherCommit, vars
<1>13. CASE Crash
  BY <1>13 DEF Crash, SessionOK, NewClient
<1> QED BY <1>2, <1>3, <1>4, <1>5, <1>6, <1>7, <1>8, <1>9, <1>10, <1>11, <1>12, <1>13
        DEF Next, Main, Library

\* Steps after which a flush is still asked for, or whoever had the rows has them.
LEMMA DrainUntouched ==
  ASSUME DrainOK, UNCHANGED <<cache, excused, flush>>,
         mqtt'.connected /\ mqtt'.link = "up" => mqtt.connected /\ mqtt.link = "up",
         FlushAsked => FlushAsked', loop' = "insert" => loop = "insert"
  PROVE  DrainOK'
BY DEF DrainOK, FlushHas, Rows

LEMMA NextDrain ==
  ASSUME Types, DataOK, SessionOK, DrainOK, [Next]_vars
  PROVE  DrainOK'
PROOF
<1>1. mqtt \in Clients /\ flush \in Flushes /\ loop \in Places
  BY TypesAre DEF ClientOK, StoreOK, PlacesOK
<1>2. CASE Connected
  <2>1. mqtt'.callback = "status"
    BY <1>1, <1>2 DEF Connected, Clients
  <2> QED BY <2>1 DEF DrainOK, FlushAsked
<1>3. CASE StatusCallback \/ NotifyMainThread
  BY <1>1, <1>3, DrainUntouched DEF StatusCallback, NotifyMainThread, LibraryStep, table, FlushAsked,
     SessionOK, Clients
<1>4. CASE ConnectionLost \/ LinkBreaks \/ MessageArrived
  <2>1. UNCHANGED <<loop, flush, cache, excused>>
    BY <1>4 DEF ConnectionLost, LinkBreaks, MessageArrived, LibraryStep, table
  <2>2. CASE ConnectionLost \/ LinkBreaks
    <3>1. ~mqtt'.connected \/ mqtt'.link # "up"
      BY <1>1, <2>2 DEF ConnectionLost, LinkBreaks, Clients
    <3> QED BY <3>1 DEF DrainOK
  <2>3. CASE MessageArrived
    <3>1. /\ mqtt'.connected = mqtt.connected /\ mqtt'.link = mqtt.link
          /\ mqtt'.callback = mqtt.callback /\ mqtt'.ready /\ needFlush' = needFlush
      BY <1>1, <2>3 DEF MessageArrived, Clients
    <3>2. FlushAsked => FlushAsked'
      BY <2>1, <3>1 DEF FlushAsked
    <3> QED BY <2>1, <3>1, <3>2, DrainUntouched
  <2> QED BY <1>4, <2>2, <2>3
<1>5. CASE ConnectDone
  <2>1. ~mqtt'.connected
    BY <1>1, <1>5 DEF ConnectDone, SessionOK, Clients, NewClient
  <2> QED BY <2>1 DEF DrainOK
<1>6. CASE ConnectFails \/ Subscribe
  <2>1. /\ UNCHANGED <<flush, cache, excused, needFlush>> /\ loop \notin Handling /\ loop' # "insert"
        /\ mqtt'.connected = mqtt.connected /\ mqtt'.link = mqtt.link
        /\ mqtt'.callback = mqtt.callback /\ mqtt'.ready = mqtt.ready
    BY <1>1, <1>6 DEF ConnectFails, Subscribe, MainStep, table, Clients, Handling
  <2>2. FlushAsked => FlushAsked'
    BY <2>1 DEF FlushAsked
  <2> QED BY <2>1, <2>2, DrainUntouched
<1>7. CASE Wake \/ PublishBirth \/ ResubscribeAll
  <2>1. /\ UNCHANGED <<flush, cache, excused, needFlush>>
        /\ loop' \in Handling /\ loop' # "insert"
    BY <1>7 DEF Wake, PublishBirth, ResubscribeAll, MainStep, table, Handling
  <2>2. /\ mqtt'.connected = mqtt.connected /\ mqtt'.callback = mqtt.callback
        /\ mqtt'.link = "up" => mqtt.link = "up"
    <3>1. CASE Wake
      BY <1>1, <3>1 DEF Wake, Clients
    <3>2. CASE PublishBirth
      BY <1>1, <3>2 DEF PublishBirth, Clients
    <3>3. CASE ResubscribeAll
      BY <1>1, <3>3 DEF ResubscribeAll, Clients
    <3> QED BY <1>7, <3>1, <3>2, <3>3
  <2>3. FlushAsked => FlushAsked'
    BY <2>1, <2>2 DEF FlushAsked
  <2> QED BY <2>1, <2>2, <2>3, DrainUntouched
<1>8. CASE PopCommand \/ NoCommand
  <2>1. /\ UNCHANGED <<flush, cache, excused>>
        /\ needFlush => needFlush'
        /\ loop' \in Handling /\ loop' # "insert"
        /\ mqtt'.connected = mqtt.connected /\ mqtt'.callback = mqtt.callback
        /\ mqtt'.link = mqtt.link
    BY <1>1, <1>8 DEF PopCommand, NoCommand, MainStep, table, Handling, Clients
  <2>2. FlushAsked => FlushAsked'
    BY <2>1 DEF FlushAsked
  <2> QED BY <2>1, <2>2, DrainUntouched
<1>9. CASE SkipFlush
  <2>1. /\ UNCHANGED <<mqtt, needFlush, cache, excused, flush>> /\ loop = "check" /\ loop' = "wait"
        /\ ~(needFlush /\ mqtt.connected)
    BY <1>9 DEF SkipFlush, MainStep, table
  <2>2. mqtt.connected => (FlushAsked => FlushAsked')
    BY <2>1 DEF FlushAsked
  <2> QED BY <2>1, <2>2 DEF DrainOK, FlushHas, Rows
<1>10. ASSUME NEW f \in Flushers, StartFlush(f) PROVE DrainOK'
  <2>1. loop' = "wait" /\ flush' = [flush EXCEPT ![f].at = "select"]
    BY <1>10 DEF StartFlush
  <2>2. flush'[f].at = "select"
    BY <1>1, <2>1 DEF Flushes
  <2> QED BY <2>1, <2>2 DEF DrainOK, FlushHas
<1>11. CASE InsertRecord \/ InsertBusy
  <2>1. UNCHANGED <<mqtt, needFlush>> /\ loop = "insert" /\ loop' = "wait"
    BY <1>11 DEF InsertRecord, InsertBusy
  <2>2. FlushAsked => FlushAsked'
    BY <2>1 DEF FlushAsked, Handling
  <2> QED BY <2>1, <2>2 DEF DrainOK
<1>12. CASE \E r \in Records : RecordArrives(r)
  <2>1. /\ UNCHANGED <<mqtt, needFlush, cache, excused, flush>> /\ loop = "wait"
        /\ mqtt.connected => loop' = "publish"
    BY <1>12 DEF RecordArrives, MainStep, table
  <2>2. FlushAsked => FlushAsked'
    BY <2>1 DEF FlushAsked, Handling
  <2> QED BY <2>1, <2>2 DEF DrainOK, FlushHas, Rows
<1>13. CASE PublishRecord
  <2>1. /\ mqtt' = mqtt \/ mqtt' = [mqtt EXCEPT !.link = "down"]
        /\ UNCHANGED <<needFlush, cache, excused, flush>> /\ loop = "publish" /\ loop' = "wait"
    BY <1>13 DEF PublishRecord, PublishTrue, PublishFalse, PublishThrows, MainStep, table
  <2> QED BY <1>1, <2>1, DrainUntouched DEF FlushAsked, Handling, Clients
<1>14. CASE OtherCommit \/ UNCHANGED vars
  BY <1>14, DrainUntouched DEF OtherCommit, vars, table, FlushAsked
<1>15. CASE Crash
  BY <1>15 DEF Crash, DrainOK, NewClient
<1>16. ASSUME NEW f \in Flushers, Flush(f) PROVE DrainOK'
  <2>1. CASE RowNotSent(f)
    <3>1. ~mqtt'.connected \/ mqtt'.link # "up"
      BY <1>1, <2>1 DEF RowNotSent, PublishFalse, PublishThrows, Clients
    <3> QED BY <3>1 DEF DrainOK
  <2>2. CASE ~RowNotSent(f)
    <3>1. UNCHANGED <<mqtt, needFlush, loop>>
      BY <1>16, <2>2 DEF Flush, SelectNone, Select, LastRow, RowSent, DeleteRow, DeleteBusy,
         FlushStep, PublishTrue
    <3>2. FlushAsked => FlushAsked'
      BY <3>1 DEF FlushAsked
    <3> SUFFICES ASSUME mqtt.connected, mqtt.link = "up", ~FlushAsked
                 PROVE  \A r \in ToSet(cache') \ excused' : \E g \in Flushers : FlushHas(g, r)'
      BY <3>1, <3>2 DEF DrainOK
    <3>3. \A r \in ToSet(cache) \ excused : \E g \in Flushers : FlushHas(g, r)
      BY DEF DrainOK
    <3>4. ASSUME NEW v, flush' = [flush EXCEPT ![f] = v]
          PROVE  \A g \in Flushers \ {f} : \A r : FlushHas(g, r) => FlushHas(g, r)'
      BY <1>1, <3>4 DEF Flushes, FlushHas, Rows
    <3>5. CASE SelectNone(f)
      <4>1. cache' = <<>>
        BY <3>5 DEF SelectNone
      <4> QED BY <4>1, NoRows
    <3>6. CASE LastRow(f)
      <4>1. /\ flush' = [flush EXCEPT ![f] = NoFlush] /\ UNCHANGED <<cache, excused>>
            /\ flush[f].at = "publish" /\ flush[f].rows = <<>>
        BY <3>6 DEF LastRow, Finish
      <4>2. \A r : ~FlushHas(f, r)
        BY <4>1, NoRows DEF FlushHas, Rows
      <4> QED BY <3>3, <3>4, <4>1, <4>2
    <3>7. CASE Select(f)
      <4>1. cache' = cache /\ Rows(f)' = ToSet(cache)
        <5>1. PICK order \in Bijection(DOMAIN cache, DOMAIN cache) :
                /\ \A i, j \in DOMAIN cache : i < j => ByPriority(order[i], order[j])
                /\ flush' = [flush EXCEPT ![f] =
                     [at |-> "publish", rows |-> [i \in DOMAIN cache |-> cache[order[i]]],
                      urgent |-> Alarms \cap ToSet(cache)]]
          BY <3>7 DEF Select
        <5>2. flush'[f].rows = [i \in DOMAIN cache |-> cache[order[i]]]
          BY <1>1, <5>1 DEF Flushes
        <5>3. cache \in Seq(Records) /\ Distinct(cache)
          BY CacheIs
        <5>4. ToSet(flush'[f].rows) = ToSet(cache)
          BY <5>1, <5>2, <5>3, RowsSelected
        <5> QED BY <3>7, <5>4 DEF Select, Rows
      <4> QED BY <4>1 DEF FlushHas
    <3>8. CASE RowSent(f)
      <4>1. flush' = [flush EXCEPT ![f].at = "delete"] /\ flush[f].at = "publish"
            /\ UNCHANGED <<cache, excused>>
        BY <3>8 DEF RowSent
      <4>2. \A g \in Flushers : flush'[g].rows = flush[g].rows
        BY <1>1, <4>1 DEF Flushes
      <4>3. \A g \in Flushers : flush[g].at = "select" => flush'[g].at = "select"
        BY <1>1, <4>1 DEF Flushes
      <4> QED BY <3>3, <4>1, <4>2, <4>3 DEF FlushHas, Rows
    <3>9. CASE DeleteRow(f) \/ DeleteBusy(f)
      <4> DEFINE h == Head(flush[f].rows)
                 t == Tail(flush[f].rows)
      <4>1. flush[f].at = "delete" /\ flush' = NextRow(f)
        BY <3>9 DEF DeleteRow, DeleteBusy
      <4>2. flush[f].rows # <<>>
        BY <4>1 DEF DataOK, FlushOK
      <4>3. Rows(f) = ToSet(t) \cup {h}
        BY <4>2, RowAt
      <4>4. h \notin ToSet(cache') \/ h \in excused'
        <5>1. CASE DeleteRow(f)
          BY <5>1, DeleteRowTable
        <5>2. CASE DeleteBusy(f)
          BY <5>2 DEF DeleteBusy
        <5> QED BY <3>9, <5>1, <5>2
      <4>5. ToSet(cache') \subseteq ToSet(cache) /\ excused \subseteq excused'
        <5>1. CASE DeleteRow(f)
          BY <5>1, DeleteRowTable DEF DeleteRow
        <5>2. CASE DeleteBusy(f)
          BY <5>2 DEF DeleteBusy
        <5> QED BY <3>9, <5>1, <5>2
      <4>6. flush'[f].rows = t /\ \A g \in Flushers \ {f} : flush'[g] = flush[g]
        BY <1>1, <4>1 DEF NextRow, Flushes
      <4> SUFFICES ASSUME NEW r \in ToSet(cache'), r \notin excused'
                   PROVE  \E g \in Flushers : FlushHas(g, r)'
        OBVIOUS
      <4>7. PICK g \in Flushers : FlushHas(g, r)
        BY <3>3, <4>5
      <4>8. CASE g = f
        <5>1. r \in Rows(f) /\ r # h
          BY <4>1, <4>4, <4>7, <4>8 DEF FlushHas
        <5>2. r \in Rows(f)'
          BY <4>3, <4>6, <5>1 DEF Rows
        <5> QED BY <5>2 DEF FlushHas
      <4>9. CASE g # f
        BY <4>6, <4>7, <4>9 DEF FlushHas, Rows
      <4> QED BY <4>8, <4>9
    <3> QED BY <1>16, <2>2, <3>5, <3>6, <3>7, <3>8, <3>9 DEF Flush
  <2> QED BY <2>1, <2>2
<1> QED BY <1>2, <1>3, <1>4, <1>5, <1>6, <1>7, <1>8, <1>9, <1>10, <1>11, <1>12, <1>13, <1>14,
           <1>15, <1>16 DEF Next, Main, Library

-----------------------------------------------------------------------------
LEMMA InitIInv ==
  ASSUME Init
  PROVE  IInv
PROOF
<1>1. /\ mqtt = NewClient /\ needFlush = FALSE /\ loop = "connect" /\ current = NoRecord
      /\ cache = <<>> /\ flush = [f \in Flushers |-> NoFlush] /\ stale = FALSE
      /\ copies = [r \in Records |-> 0] /\ unsent = {} /\ refused = {} /\ excused = {}
      /\ offered = {} /\ syncs = 0
  BY DEF Init
<1>2. NoFlush \in [at : {"idle", "select", "publish", "delete"},
                   rows : Seq(Records), urgent : SUBSET Alarms]
  BY NoRows DEF NoFlush
<1>3. ClientOK /\ PlacesOK
  <2>1. 0 \in 0 .. MaxSync
    BY BoundsAssumption
  <2>2. ClientOK
    BY <1>1, <2>1, NewClientIs DEF ClientOK
  <2>3. PlacesOK
    BY <1>1 DEF PlacesOK, Places
  <2> QED BY <2>2, <2>3
<1>4. StoreOK
  <2>1. copies \in [Records -> Nat] /\ flush \in Flushes
    BY <1>1, <1>2 DEF Flushes
  <2> QED BY <1>1, <2>1, NoRows DEF StoreOK
<1>5. \A f \in Flushers : flush[f] = NoFlush /\ Rows(f) = {} /\ FlushOK(f)
  BY <1>1, NoRows DEF FlushOK, NoFlush, Rows
<1>6. \A r \in Records : ~(copies[r] > 0) /\ ~(copies[r] > 1)
  BY <1>1
<1>7. HandOK /\ LossHasCause
  BY <1>1, <1>5, <1>6, NoRows DEF HandOK, LossHasCause, Settled
<1>8. OnceOK
  BY <1>1, <1>5, <1>6, NoRows DEF OnceOK, DuplicatesHaveCause
<1>9. SessionOK /\ DrainOK
  BY <1>1 DEF SessionOK, DrainOK, NewClient
<1> QED BY <1>3, <1>4, <1>5, <1>7, <1>8, <1>9, TypesAre DEF IInv, DataOK

LEMMA Invariance ==
  Spec => []IInv
PROOF
<1>1. Init => IInv
  BY InitIInv
<1>2. IInv /\ [Next]_vars => IInv'
  BY NextTypes, NextData, NextSession, NextDrain DEF IInv
<1> QED BY <1>1, <1>2, PTL DEF Spec

\* Every variable keeps its type and the table holds a record once.
THEOREM TypeCorrect ==
  Spec => []TypeOK
PROOF
<1>1. IInv => TypeOK
  BY DEF IInv, Types
<1> QED BY <1>1, Invariance, PTL

\* A record that is nowhere was given up by a publish() that failed, an insert()
\* that was refused or a crash that found it in hand (main.cpp 708-713, 789-795,
\* OfflineStore.cpp 51-91): once stored, no record is lost.
THEOREM StoredIsNotLost ==
  Spec => []LossHasCause
PROOF
<1>1. IInv => LossHasCause
  BY DEF IInv, DataOK
<1> QED BY <1>1, Invariance, PTL

\* A flush that has sent a periodic record has sent every alarm it found
\* (OfflineStore.cpp 54, 63-87).
THEOREM AlarmsGoFirst ==
  Spec => []AlarmsFirst
PROOF
<1>1. IInv => AlarmsFirst
  <2> SUFFICES ASSUME IInv, NEW f \in Flushers, flush[f].at = "delete",
                      Head(flush[f].rows) \notin Alarms,
                      NEW a \in flush[f].urgent
               PROVE  copies[a] > 0
    BY DEF AlarmsFirst, IsAlarm
  <2>1. Types /\ DataOK /\ FlushOK(f)
    BY DEF IInv, DataOK
  <2>2. flush[f].rows # <<>>
    BY <2>1 DEF FlushOK
  <2>3. Rows(f) = ToSet(Tail(flush[f].rows)) \cup {Head(flush[f].rows)}
    BY <2>1, <2>2, RowAt
  <2>4. ToSet(Tail(flush[f].rows)) \cap Alarms = {}
    BY <2>1, <2>2, RowAt
  <2>5. a \in Alarms
    BY <2>1, FlushIs
  <2>6. a \notin Rows(f)
    BY <2>3, <2>4, <2>5
  <2> QED BY <2>1, <2>6 DEF FlushOK
<1> QED BY <1>1, Invariance, PTL

\* A record is sent twice only for one of the named causes (OfflineStore.cpp
\* 63-90).
THEOREM DuplicatesExplained ==
  Spec => []DuplicatesHaveCause
PROOF
<1>1. IInv => DuplicatesHaveCause
  BY DEF IInv, DataOK, OnceOK
<1> QED BY <1>1, Invariance, PTL

\* When a living session has come to rest, what is left in the table was sent
\* (main.cpp 318-350, MqttClient.cpp 42-81).
THEOREM BacklogIsSent ==
  Spec => []BacklogDrains
PROOF
<1>1. IInv => BacklogDrains
  <2> SUFFICES ASSUME IInv, Quiet, NEW r \in ToSet(cache), r \notin excused PROVE FALSE
    BY DEF BacklogDrains
  <2>1. Types /\ DataOK /\ DrainOK
    BY DEF IInv
  <2>2. ~FlushAsked
    BY DEF Quiet, FlushAsked, Handling
  <2>3. \E f \in Flushers : FlushHas(f, r)
    BY <2>1, <2>2 DEF Quiet, DrainOK
  <2>4. \A f \in Flushers : flush[f].at = "idle" /\ Rows(f) = {}
    BY <2>1, NoRows DEF Quiet, DataOK, FlushOK, Rows
  <2> QED BY <2>3, <2>4 DEF FlushHas
<1> QED BY <1>1, Invariance, PTL
=============================================================================
