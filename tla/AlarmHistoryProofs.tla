------------------------- MODULE AlarmHistoryProofs -------------------------
(***************************************************************************)
(* Gaps, repetitions and the latest alarm on the table of a monitor, for   *)
(* any number of monitors and alarms, any limits and any buffers.          *)
(*                                                                         *)
(* An answer is an interval of ids that ends with the newest row at the    *)
(* time; the core answers in order, so the ends of the answers on one      *)
(* socket only go up, and the first of them is not below last_alarm_id_.   *)
(***************************************************************************)
EXTENDS AlarmHistory, SequenceTheorems, TLAPS

IsInterval(ids) ==
  /\ ids \in Seq(Nat)
  /\ Len(ids) <= Limit
  /\ \A k \in 1 .. Len(ids) : ids[k] = ids[1] + 1 - k /\ ids[k] >= 1

Answers == [to : Monitors, ids : {ids \in Seq(Nat) : IsInterval(ids)}, cut : BOOLEAN]

Types ==
  /\ alarms \in Nat
  /\ conn \in [Monitors -> {"new", "up", "over"}]
  /\ asked \in [Monitors -> Seq(Nat)]
  /\ inbox \in [Monitors -> Seq(Answers)]
  /\ last \in [Monitors -> Nat]
  /\ table \in [Monitors -> Seq(Nat)]
  /\ shown \in [Monitors -> SUBSET Nat]
  /\ mayMiss \in SUBSET Monitors
  /\ mayRepeat \in SUBSET Monitors

\* Who is not connected has nothing; who has never been has asked nothing.
Blank(m) ==
  /\ conn[m] = "new" => asked[m] = <<>>
  /\ conn[m] # "up" => /\ inbox[m] = <<>> /\ last[m] = 0
                       /\ table[m] = <<>> /\ shown[m] = {}

\* A question holds an id that the monitor knew.
QuestionsOK(m) ==
  conn[m] = "up" => \A i \in 1 .. Len(asked[m]) : asked[m][i] <= last[m]

\* An answer ends at what the monitor knows or above, and one to its own question
\* that is not cut leaves no gap.
AnswerOK(m, a) ==
  a.ids # <<>> =>
    /\ last[m] <= a.ids[1] /\ a.ids[1] <= alarms
    /\ a.to = m /\ ~a.cut => a.ids[Len(a.ids)] <= last[m] + 1

AnswersOK(m) ==
  /\ \A i \in 1 .. Len(inbox[m]) : AnswerOK(m, inbox[m][i])
  /\ \A i, j \in 1 .. Len(inbox[m]) :
       i < j /\ inbox[m][i].ids # <<>> /\ inbox[m][j].ids # <<>>
         => inbox[m][i].ids[1] <= inbox[m][j].ids[1]

NoGap(m) == m \notin mayMiss => shown[m] = 1 .. last[m]
Latest(m) == last[m] > 0 => \E i \in 1 .. Len(table[m]) : table[m][i] = last[m]

MonitorOK(m) ==
  /\ last[m] <= alarms
  /\ Blank(m) /\ QuestionsOK(m) /\ AnswersOK(m) /\ NoGap(m) /\ Latest(m)

IInv == Types /\ \A m \in Monitors : MonitorOK(m)

-----------------------------------------------------------------------------
(* The operators *)

LEMMA RowsAreInterval ==
  ASSUME Types, NEW after \in Nat
  PROVE  /\ IsInterval(Rows(after).ids) /\ Rows(after).cut \in BOOLEAN
         /\ Rows(after).ids # <<>> =>
              /\ Rows(after).ids[1] = alarms
              /\ Rows(after).ids[Len(Rows(after).ids)] > after
              /\ ~Rows(after).cut => Rows(after).ids[Len(Rows(after).ids)] = after + 1
PROOF
<1> DEFINE found == alarms - after
           n == IF found < Limit THEN found ELSE Limit
           ids == [i \in 1 .. n |-> alarms + 1 - i]
<1>1. alarms \in Nat /\ Limit \in Nat \ {0}
  BY RowsAssumption DEF Types
<1>2. Rows(after).ids = ids /\ Rows(after).cut = (found > Limit)
  BY DEF Rows, Newest
<1>3. n \in Int /\ n <= Limit /\ n <= alarms
  BY <1>1
<1>4. IsInterval(ids) /\ (ids # <<>> => ids[1] = alarms /\ Len(ids) = n /\ n > 0)
  <2>1. CASE n <= 0
    <3>1. ids = <<>>
      BY <1>3, <2>1
    <3>2. IsInterval(<<>>)
      BY <1>1 DEF IsInterval
    <3> HIDE DEF ids, n
    <3> QED BY <3>1, <3>2
  <2>2. CASE n > 0
    <3>1. n \in Nat /\ \A i \in 1 .. n : alarms + 1 - i \in Nat /\ alarms + 1 - i >= 1
      BY <1>1, <1>3, <2>2
    <3>2. ids \in Seq(Nat) /\ Len(ids) = n /\ ids[1] = alarms
      BY <1>1, <2>2, <3>1
    <3>3. IsInterval(ids)
      BY <1>1, <1>3, <3>1, <3>2 DEF IsInterval
    <3> QED BY <2>2, <3>2, <3>3
  <2> QED BY <1>3, <2>1, <2>2
<1>5. ASSUME n > 0, ~(found > Limit) PROVE ids[n] = after + 1
  BY <1>1, <1>3, <1>5
<1>6. ASSUME ids # <<>> PROVE ids[Len(ids)] > after
  <2>1. Len(ids) = n /\ n > 0
    BY <1>4, <1>6
  <2>2. ids[n] > after
    BY <1>1, <1>3, <2>1
  <2> HIDE DEF ids, n
  <2> QED BY <2>1, <2>2
<1>7. Rows(after).cut \in BOOLEAN
  BY <1>2
<1>8. ASSUME ids # <<>>, ~Rows(after).cut PROVE ids[Len(ids)] = after + 1
  <2>1. ~(found > Limit)
    BY <1>2, <1>8
  <2> HIDE DEF ids, n, found
  <2> QED BY <1>4, <1>5, <1>8, <2>1
<1>9. Rows(after).ids = ids
  BY <1>2
<1> HIDE DEF ids, n, found
<1> QED BY <1>4, <1>6, <1>7, <1>8, <1>9, Zenon

\* The end of the answer comes to stand where its rows end, which is not cut off.
LEMMA LatestIsAppended ==
  ASSUME NEW rows \in Seq(Nat), NEW ids \in Seq(Nat), ids # <<>>, IsInterval(ids)
  PROVE  /\ AppendAlarms(rows, ids) \in Seq(Nat)
         /\ \E i \in 1 .. Len(AppendAlarms(rows, ids)) : AppendAlarms(rows, ids)[i] = ids[1]
PROOF
<1> DEFINE n == Len(ids)
           all == Reverse(ids) \o rows
<1>1. n \in Nat /\ n > 0 /\ n <= TableRows /\ TableRows \in Nat
  BY RowsAssumption DEF IsInterval
<1>2. Reverse(ids) \in Seq(Nat) /\ Len(Reverse(ids)) = n /\ Reverse(ids)[n] = ids[1]
  BY <1>1 DEF Reverse
<1>3. all \in Seq(Nat) /\ Len(all) >= n /\ all[n] = ids[1]
  BY <1>1, <1>2
<1>4. Trim(all) \in Seq(Nat) /\ n <= Len(Trim(all)) /\ Trim(all)[n] = all[n]
  <2> HIDE DEF all, n
  <2>1. CASE Len(all) <= TableRows
    BY <1>1, <1>3, <2>1 DEF Trim
  <2>2. CASE ~(Len(all) <= TableRows)
    <3>1. Trim(all) = SubSeq(all, 1, TableRows) /\ TableRows <= Len(all)
      BY <1>1, <1>3, <2>2 DEF Trim
    <3>2. /\ SubSeq(all, 1, TableRows) \in Seq(Nat)
          /\ Len(SubSeq(all, 1, TableRows)) = TableRows
          /\ \A i \in 1 .. TableRows : SubSeq(all, 1, TableRows)[i] = all[i]
      BY <1>1, <1>3, <3>1
    <3> QED BY <1>1, <3>1, <3>2
  <2> QED BY <2>1, <2>2
<1> QED BY <1>1, <1>3, <1>4 DEF AppendAlarms

\* What an answer without a gap adds reaches from what is known to its end.
LEMMA ShownGrows ==
  ASSUME NEW known \in Nat, NEW ids \in Seq(Nat), ids # <<>>, IsInterval(ids),
         known <= ids[1], ids[Len(ids)] <= known + 1
  PROVE  (1 .. known) \cup ToSet(ids) = 1 .. ids[1]
PROOF
<1> DEFINE n == Len(ids)
<1>1. n \in Nat /\ n > 0 /\ ids[1] \in Nat /\ DOMAIN ids = 1 .. n
  OBVIOUS
<1>2. \A k \in 1 .. n : ids[k] = ids[1] + 1 - k /\ ids[k] >= 1
  BY DEF IsInterval
<1>3. ASSUME NEW x \in 1 .. ids[1], x > known PROVE x \in ToSet(ids)
  <2>1. ids[n] = ids[1] + 1 - n
    BY <1>1, <1>2
  <2>2. ids[1] + 1 - x \in 1 .. n
    BY <1>1, <1>3, <2>1
  <2>3. ids[ids[1] + 1 - x] = ids[1] + 1 - (ids[1] + 1 - x)
    BY <1>2, <2>2
  <2>4. ids[ids[1] + 1 - x] = x
    BY <1>1, <2>3
  <2> QED BY <1>1, <2>2, <2>4 DEF ToSet
<1>4. ASSUME NEW x \in ToSet(ids) PROVE x \in 1 .. ids[1]
  <2>1. PICK k \in 1 .. n : x = ids[k]
    BY <1>1, <1>4 DEF ToSet
  <2> QED BY <1>1, <1>2, <2>1
<1>5. \A x \in 1 .. known : x \in 1 .. ids[1]
  BY <1>1
<1>6. \A x \in 1 .. ids[1] : x \in 1 .. known \/ x > known
  BY <1>1
<1> QED BY <1>3, <1>4, <1>5, <1>6

\* Rows above all that are on a table leave it without repetitions.
LEMMA AppendedOnce ==
  ASSUME NEW rows \in Seq(Nat), NEW ids \in Seq(Nat), ids # <<>>, IsInterval(ids),
         NEW known \in Nat, known < ids[Len(ids)],
         \A i \in 1 .. Len(rows) : rows[i] <= known,
         \A i, j \in 1 .. Len(rows) : rows[i] = rows[j] => i = j
  PROVE  /\ \A i \in 1 .. Len(AppendAlarms(rows, ids)) : AppendAlarms(rows, ids)[i] <= ids[1]
         /\ \A i, j \in 1 .. Len(AppendAlarms(rows, ids)) :
              AppendAlarms(rows, ids)[i] = AppendAlarms(rows, ids)[j] => i = j
PROOF
<1> DEFINE n == Len(ids)
           k == Len(rows)
           all == Reverse(ids) \o rows
<1>1. /\ n \in Nat /\ n > 0 /\ k \in Nat /\ TableRows \in Nat
      /\ ids[1] \in Nat /\ ids[n] \in Nat /\ ids[n] = ids[1] + 1 - n
  BY RowsAssumption DEF IsInterval
<1>2. /\ all \in Seq(Nat) /\ Len(all) = n + k
      /\ \A i \in 1 .. n : all[i] = ids[n + 1 - i]
      /\ \A i \in n + 1 .. n + k : all[i] = rows[i - n]
  <2>1. /\ Reverse(ids) \in Seq(Nat) /\ Len(Reverse(ids)) = n
        /\ \A i \in 1 .. n : Reverse(ids)[i] = ids[n + 1 - i]
    BY <1>1, SMTT(20) DEF Reverse
  <2> DEFINE r == Reverse(ids)
  <2> HIDE DEF r, n
  <2>2. r \in Seq(Nat) /\ Len(r) = n /\ \A i \in 1 .. n : r[i] = ids[n + 1 - i]
    BY <2>1 DEF r
  <2>3. /\ r \o rows \in Seq(Nat) /\ Len(r \o rows) = n + k
        /\ \A i \in 1 .. n : (r \o rows)[i] = r[i]
        /\ \A i \in n + 1 .. n + k : (r \o rows)[i] = rows[i - n]
    <3>1. /\ r \o rows \in Seq(Nat) /\ Len(r \o rows) = Len(r) + Len(rows)
          /\ \A i \in 1 .. Len(r) + Len(rows) :
               (r \o rows)[i] = IF i <= Len(r) THEN r[i] ELSE rows[i - Len(r)]
      BY <2>2, ConcatProperties, ZenonT(30)
    <3>2. Len(r) = n /\ Len(rows) = k
      BY <2>2
    <3> HIDE DEF k
    <3>3. \A i \in 1 .. n : i \in 1 .. n + k /\ i <= n
      BY <1>1
    <3>4. \A i \in n + 1 .. n + k : i \in 1 .. n + k /\ ~(i <= n)
      BY <1>1
    <3> QED BY <3>1, <3>2, <3>3, <3>4
  <2>4. all = r \o rows
    BY DEF r
  <2> HIDE DEF all, k
  <2> QED BY <2>2, <2>3, <2>4
<1> HIDE DEF all, n, k
<1>3. \A i \in 1 .. n : n + 1 - i \in 1 .. n
  BY <1>1
<1>4. \A i \in 1 .. n : all[i] = ids[1] + i - n
  <2>1. \A i \in 1 .. n : ids[i] = ids[1] + 1 - i
    BY DEF IsInterval, n
  <2>2. ASSUME NEW i \in 1 .. n PROVE all[i] = ids[1] + i - n
    <3>1. all[i] = ids[n + 1 - i] /\ n + 1 - i \in 1 .. n
      BY <1>2, <1>3
    <3>2. ids[n + 1 - i] = ids[1] + 1 - (n + 1 - i)
      BY <2>1, <3>1
    <3> QED BY <1>1, <3>1, <3>2
  <2> QED BY <2>2
<1>5. \A i \in n + 1 .. n + k : i - n \in 1 .. k /\ all[i] = rows[i - n] /\ all[i] \in Nat
                                /\ all[i] <= known
  <2>1. \A i \in n + 1 .. n + k : i - n \in 1 .. k
    BY <1>1
  <2>2. \A i \in 1 .. k : rows[i] \in Nat /\ rows[i] <= known
    BY DEF k
  <2> QED BY <1>2, <2>1, <2>2
<1>6. \A i \in 1 .. n + k : i \in 1 .. n \/ i \in n + 1 .. n + k
  BY <1>1
<1>7. known < ids[1] + 1 - n
  BY <1>1 DEF n
<1>8. ASSUME NEW i \in 1 .. n + k PROVE all[i] <= ids[1]
  <2>1. CASE i \in 1 .. n
    <3>1. all[i] = ids[1] + i - n /\ i <= n /\ i \in Nat
      BY <1>1, <1>4, <2>1
    <3> QED BY <1>1, <3>1
  <2>2. CASE i \in n + 1 .. n + k
    <3>1. all[i] \in Nat /\ all[i] <= known
      BY <1>5, <2>2
    <3> QED BY <1>1, <1>7, <3>1
  <2> QED BY <1>6, <2>1, <2>2
<1>9. ASSUME NEW i \in 1 .. n + k, NEW j \in 1 .. n + k, all[i] = all[j] PROVE i = j
  <2>1. CASE i \in 1 .. n /\ j \in 1 .. n
    BY <1>1, <1>4, <1>9, <2>1
  <2>2. CASE i \in n + 1 .. n + k /\ j \in n + 1 .. n + k
    <3>1. i - n \in 1 .. k /\ j - n \in 1 .. k /\ rows[i - n] = rows[j - n]
      BY <1>5, <1>9, <2>2
    <3>2. i - n = j - n
      BY <3>1 DEF k
    <3> QED BY <1>1, <3>2
  <2>3. ASSUME NEW x \in 1 .. n, NEW y \in n + 1 .. n + k PROVE all[x] # all[y]
    <3>1. all[x] = ids[1] + x - n /\ x \in Nat /\ x >= 1
      BY <1>1, <1>4
    <3>2. all[y] \in Nat /\ all[y] <= known
      BY <1>5
    <3>3. all[x] >= ids[1] + 1 - n
      BY <1>1, <3>1
    <3>4. all[y] < ids[1] + 1 - n
      BY <1>1, <1>7, <3>2
    <3> QED BY <1>1, <3>1, <3>2, <3>3, <3>4
  <2> QED BY <1>6, <1>9, <2>1, <2>2, <2>3
<1>10. /\ Len(Trim(all)) <= n + k /\ Len(Trim(all)) \in Nat
       /\ \A i \in 1 .. Len(Trim(all)) : Trim(all)[i] = all[i]
  <2>1. CASE Len(all) <= TableRows
    <3>1. Trim(all) = all
      BY <2>1 DEF Trim
    <3> QED BY <1>1, <1>2, <3>1, SMTT(20)
  <2>2. CASE ~(Len(all) <= TableRows)
    <3>1. Trim(all) = SubSeq(all, 1, TableRows) /\ TableRows <= Len(all)
      BY <1>1, <1>2, <2>2 DEF Trim
    <3>2. /\ Len(SubSeq(all, 1, TableRows)) = TableRows
          /\ \A i \in 1 .. TableRows : SubSeq(all, 1, TableRows)[i] = all[i]
      BY <1>1, <1>2, <3>1
    <3> QED BY <1>1, <1>2, <3>1, <3>2
  <2> QED BY <2>1, <2>2
<1>11. \A i \in 1 .. Len(Trim(all)) : i \in 1 .. n + k
  BY <1>1, <1>10
<1>12. AppendAlarms(rows, ids) = Trim(all)
  BY DEF AppendAlarms, all
<1> QED BY <1>8, <1>9, <1>10, <1>11, <1>12

-----------------------------------------------------------------------------
(* The steps *)

LEMMA InitIInv == Init => IInv
PROOF
<1> SUFFICES ASSUME Init PROVE IInv
  OBVIOUS
<1>1. Types
  BY DEF Init, Types
<1>2. ASSUME NEW m \in Monitors PROVE MonitorOK(m)
  BY DEF Init, MonitorOK, Blank, QuestionsOK, AnswersOK, NoGap, Latest
<1> QED BY <1>1, <1>2 DEF IInv

\* A monitor of which nothing changes, while rows are added.
LEMMA Untouched ==
  ASSUME NEW m \in Monitors, Types, MonitorOK(m), alarms' \in Nat, alarms <= alarms',
         conn'[m] = conn[m], asked'[m] = asked[m], inbox'[m] = inbox[m], last'[m] = last[m],
         table'[m] = table[m], shown'[m] = shown[m], m \in mayMiss' <=> m \in mayMiss
  PROVE  MonitorOK(m)'
PROOF
<1>1. alarms \in Nat /\ last[m] \in Nat /\ inbox[m] \in Seq(Answers)
  BY DEF Types
<1>2. ASSUME NEW i \in 1 .. Len(inbox[m]) PROVE inbox[m][i].ids \in Seq(Nat)
  <2>1. inbox[m][i] \in Answers
    BY <1>1
  <2> QED BY <2>1 DEF Answers
<1>3. ASSUME NEW i \in 1 .. Len(inbox[m]), AnswerOK(m, inbox[m][i])
      PROVE  AnswerOK(m, inbox[m][i])'
  BY <1>1, <1>2, <1>3 DEF AnswerOK
<1>4. AnswersOK(m)'
  BY <1>3 DEF MonitorOK, AnswersOK
<1> QED
  BY <1>1, <1>4 DEF MonitorOK, Blank, QuestionsOK, NoGap, Latest

LEMMA CommitKeeps == IInv /\ Commit => IInv'
PROOF
<1> SUFFICES ASSUME IInv, Commit PROVE IInv'
  OBVIOUS
<1>1. /\ alarms' \in Nat /\ alarms <= alarms'
      /\ UNCHANGED <<conn, asked, inbox, last, table, shown, mayMiss, mayRepeat>>
  BY BoundsAssumption DEF Commit, IInv, Types, window, history
<1>2. Types'
  BY <1>1 DEF IInv, Types
<1> QED BY <1>1, <1>2, Untouched DEF IInv

\* A monitor that is gone has nothing left.
LEMMA OverKeeps ==
  ASSUME NEW gone \in SUBSET Monitors, IInv, Over(gone), alarms' = alarms,
         asked' \in [Monitors -> Seq(Nat)],
         \A m \in Monitors \ gone : asked'[m] = asked[m]
  PROVE  IInv'
PROOF
<1>1. Types'
  BY DEF IInv, Types, Over
<1>2. ASSUME NEW m \in gone PROVE MonitorOK(m)'
  <2>1. /\ conn'[m] = "over" /\ inbox'[m] = <<>> /\ last'[m] = 0
        /\ table'[m] = <<>> /\ shown'[m] = {} /\ alarms' \in Nat
    BY <1>1 DEF Over, IInv, Types
  <2> QED BY <2>1 DEF MonitorOK, Blank, QuestionsOK, AnswersOK, NoGap, Latest
<1>3. ASSUME NEW m \in Monitors \ gone PROVE MonitorOK(m)'
  <2>1. /\ conn'[m] = conn[m] /\ inbox'[m] = inbox[m] /\ last'[m] = last[m]
        /\ table'[m] = table[m] /\ shown'[m] = shown[m] /\ asked'[m] = asked[m]
        /\ m \in mayMiss' <=> m \in mayMiss
    BY DEF Over
  <2>2. alarms' \in Nat /\ alarms <= alarms'
    BY DEF IInv, Types
  <2> QED BY <2>1, <2>2, Untouched DEF IInv
<1> QED BY <1>1, <1>2, <1>3 DEF IInv

LEMMA CoreDiesKeeps == IInv /\ CoreDies => IInv'
PROOF
<1> SUFFICES ASSUME IInv, CoreDies PROVE IInv'
  OBVIOUS
<1>1. /\ Over(Up) /\ alarms' = alarms /\ Up \in SUBSET Monitors
      /\ asked' = [m \in Monitors |-> <<>>]
  BY DEF CoreDies, Up
<1>2. Types'
  BY <1>1 DEF IInv, Types, Over
<1>3. ASSUME NEW m \in Monitors, conn[m] = "up" PROVE MonitorOK(m)'
  <2>1. /\ conn'[m] = "over" /\ inbox'[m] = <<>> /\ last'[m] = 0
        /\ table'[m] = <<>> /\ shown'[m] = {} /\ alarms' \in Nat
    BY <1>1, <1>2, <1>3 DEF Over, Up, IInv, Types
  <2> QED BY <2>1 DEF MonitorOK, Blank, QuestionsOK, AnswersOK, NoGap, Latest
<1>4. ASSUME NEW m \in Monitors, conn[m] # "up" PROVE MonitorOK(m)'
  <2>1. /\ conn'[m] = conn[m] /\ inbox'[m] = inbox[m] /\ last'[m] = last[m]
        /\ table'[m] = table[m] /\ shown'[m] = shown[m] /\ asked'[m] = <<>>
        /\ m \in mayMiss' <=> m \in mayMiss
    BY <1>1, <1>4 DEF Over, Up, IInv, Types
  <2>2. /\ inbox[m] = <<>> /\ last[m] = 0 /\ alarms' \in Nat /\ table[m] = <<>> /\ shown[m] = {}
    BY <1>2, <1>4 DEF IInv, MonitorOK, Blank, Types
  <2> QED BY <1>4, <2>1, <2>2 DEF MonitorOK, Blank, QuestionsOK, AnswersOK, NoGap, Latest
<1> QED BY <1>2, <1>3, <1>4 DEF IInv

LEMMA StartKeeps == \A m \in Monitors : IInv /\ Start(m) => IInv'
PROOF
<1> SUFFICES ASSUME NEW m \in Monitors, IInv, Start(m) PROVE IInv'
  OBVIOUS
<1>1. /\ conn[m] = "new" /\ conn' = [conn EXCEPT ![m] = IF core THEN "up" ELSE "over"]
      /\ UNCHANGED <<alarms, asked, inbox, last, table, shown, mayMiss, mayRepeat>>
  BY DEF Start, window, history
<1>2. Types'
  BY <1>1 DEF IInv, Types
<1>3. MonitorOK(m)'
  <2>1. /\ asked[m] = <<>> /\ inbox[m] = <<>> /\ last[m] = 0
        /\ table[m] = <<>> /\ shown[m] = {} /\ alarms \in Nat
    BY <1>1 DEF IInv, MonitorOK, Blank, Types
  <2>2. conn'[m] # "new"
    BY <1>1 DEF IInv, Types
  <2> QED
    BY <1>1, <2>1, <2>2 DEF MonitorOK, Blank, QuestionsOK, AnswersOK, NoGap, Latest
<1>4. ASSUME NEW u \in Monitors \ {m} PROVE MonitorOK(u)'
  <2>1. /\ conn'[u] = conn[u] /\ asked'[u] = asked[u] /\ inbox'[u] = inbox[u]
        /\ last'[u] = last[u] /\ table'[u] = table[u] /\ shown'[u] = shown[u]
        /\ u \in mayMiss' <=> u \in mayMiss
    BY <1>1 DEF IInv, Types
  <2>2. alarms' \in Nat /\ alarms <= alarms'
    BY <1>1 DEF IInv, Types
  <2> QED BY <2>1, <2>2, Untouched DEF IInv
<1> QED BY <1>2, <1>3, <1>4 DEF IInv

LEMMA ExitKeeps == \A m \in Monitors : IInv /\ Exit(m) => IInv'
PROOF
<1> SUFFICES ASSUME NEW m \in Monitors, IInv, Exit(m) PROVE IInv'
  OBVIOUS
<1>1. Over({m}) /\ alarms' = alarms /\ asked' = asked
  BY DEF Exit
<1> QED BY <1>1, OverKeeps DEF IInv, Types

LEMMA SendAlarmQueryKeeps == \A m \in Monitors : IInv /\ SendAlarmQuery(m) => IInv'
PROOF
<1> SUFFICES ASSUME NEW m \in Monitors, IInv, SendAlarmQuery(m) PROVE IInv'
  OBVIOUS
<1>1. /\ conn[m] = "up" /\ asked' = [asked EXCEPT ![m] = Append(@, last[m])]
      /\ mayRepeat' \in {mayRepeat, mayRepeat \cup {m}}
      /\ UNCHANGED <<alarms, conn, inbox, last, table, shown, mayMiss>>
  BY DEF SendAlarmQuery, window
<1>2. Types'
  BY <1>1 DEF IInv, Types
<1>3. MonitorOK(m)'
  <2>1. asked[m] \in Seq(Nat) /\ last[m] \in Nat /\ asked'[m] = Append(asked[m], last[m])
    BY <1>1 DEF IInv, Types
  <2>2. QuestionsOK(m)'
    <3>1. \A i \in 1 .. Len(asked[m]) : asked[m][i] <= last[m]
      BY <1>1 DEF IInv, MonitorOK, QuestionsOK
    <3>2. /\ Len(asked'[m]) = Len(asked[m]) + 1
          /\ \A i \in 1 .. Len(asked[m]) : asked'[m][i] = asked[m][i]
          /\ asked'[m][Len(asked[m]) + 1] = last[m]
      BY <2>1
    <3>3. \A i \in 1 .. Len(asked'[m]) : i \in 1 .. Len(asked[m]) \/ i = Len(asked[m]) + 1
      BY <2>1, <3>2
    <3> QED BY <1>1, <2>1, <3>1, <3>2, <3>3 DEF QuestionsOK
  <2>3. AnswersOK(m)'
    BY <1>1 DEF IInv, MonitorOK, AnswersOK, AnswerOK
  <2> QED BY <1>1, <2>2, <2>3 DEF IInv, MonitorOK, Blank, NoGap, Latest
<1>4. ASSUME NEW u \in Monitors \ {m} PROVE MonitorOK(u)'
  <2>1. /\ conn'[u] = conn[u] /\ asked'[u] = asked[u] /\ inbox'[u] = inbox[u]
        /\ last'[u] = last[u] /\ table'[u] = table[u] /\ shown'[u] = shown[u]
        /\ u \in mayMiss' <=> u \in mayMiss
    BY <1>1 DEF IInv, Types
  <2>2. alarms' \in Nat /\ alarms <= alarms'
    BY <1>1 DEF IInv, Types
  <2> QED BY <2>1, <2>2, Untouched DEF IInv
<1> QED BY <1>2, <1>3, <1>4 DEF IInv

\* The answer is at the end of the buffer of whoever has room, above all before it.
LEMMA AnswerKeeps == \A m \in Monitors : IInv /\ Answer(m) => IInv'
PROOF
<1> SUFFICES ASSUME NEW m \in Monitors, IInv, Answer(m) PROVE IInv'
  OBVIOUS
<1> DEFINE after == Head(asked[m])
           a == [to |-> m, ids |-> Rows(after).ids, cut |-> Rows(after).cut]
<1>1. /\ asked[m] \in Seq(Nat) /\ asked[m] # <<>> /\ asked' = [asked EXCEPT ![m] = Tail(@)]
      /\ inbox' = [u \in Monitors |-> IF HasRoom(u) THEN Append(inbox[u], a) ELSE inbox[u]]
      /\ UNCHANGED <<alarms, conn, last, table, shown, mayMiss, mayRepeat>>
  BY DEF Answer, window, history, IInv, Types
<1>2. after \in Nat /\ after = asked[m][1] /\ Len(asked[m]) >= 1
  BY <1>1
<1>3. /\ IsInterval(a.ids) /\ a.cut \in BOOLEAN
      /\ a.ids # <<>> => /\ a.ids[1] = alarms
                         /\ ~a.cut => a.ids[Len(a.ids)] = after + 1
  BY <1>2, RowsAreInterval, Zenon DEF IInv
<1>4. a \in Answers /\ a.to = m
  BY <1>3 DEF Answers, IsInterval
<1> HIDE DEF a, after
<1>5. ASSUME NEW u \in Monitors
      PROVE  asked'[u] \in Seq(Nat) /\ inbox'[u] \in Seq(Answers)
  BY <1>1, <1>4 DEF IInv, Types
<1>6. Types'
  BY <1>1, <1>5 DEF IInv, Types
<1>7. ASSUME NEW u \in Monitors PROVE QuestionsOK(u)'
  <2>1. CASE u = m
    <3>1. /\ Len(asked'[m]) = Len(asked[m]) - 1
          /\ \A i \in 1 .. Len(asked'[m]) : asked'[m][i] = asked[m][i + 1]
      BY <1>1 DEF IInv, Types
    <3>2. \A i \in 1 .. Len(asked'[m]) : i + 1 \in 1 .. Len(asked[m])
      BY <1>1, <3>1
    <3> QED BY <1>1, <2>1, <3>1, <3>2 DEF IInv, MonitorOK, QuestionsOK
  <2>2. CASE u # m
    BY <1>1, <2>2 DEF IInv, Types, MonitorOK, QuestionsOK
  <2> QED BY <2>1, <2>2
<1>8. ASSUME NEW u \in Monitors PROVE AnswersOK(u)'
  <2>1. CASE ~HasRoom(u)
    BY <1>1, <2>1 DEF IInv, MonitorOK, AnswersOK, AnswerOK
  <2>2. CASE HasRoom(u)
    <3> DEFINE n == Len(inbox[u])
    <3>1. /\ conn[u] = "up" /\ inbox[u] \in Seq(Answers) /\ inbox'[u] = Append(inbox[u], a)
          /\ last[u] \in Nat /\ alarms \in Nat /\ last[u] <= alarms
      BY <1>1, <2>2 DEF HasRoom, Up, IInv, Types, MonitorOK
    <3>2. /\ n \in Nat /\ Len(inbox'[u]) = n + 1 /\ inbox'[u][n + 1] = a
          /\ \A i \in 1 .. n : inbox'[u][i] = inbox[u][i]
      BY <1>4, <3>1
    <3>3. \A i \in 1 .. n : AnswerOK(u, inbox[u][i])
      BY DEF IInv, MonitorOK, AnswersOK
    <3>4. AnswerOK(u, a)
      <4>1. ASSUME u = m PROVE after <= last[u]
        BY <1>2, <3>1, <4>1 DEF IInv, MonitorOK, QuestionsOK
      <4> QED BY <1>2, <1>3, <1>4, <3>1, <4>1, SMTT(20) DEF AnswerOK
    <3>5. \A i \in 1 .. n + 1 : i \in 1 .. n \/ i = n + 1
      BY <3>2
    <3>6. ASSUME NEW i \in 1 .. n + 1 PROVE AnswerOK(u, inbox'[u][i])
      BY <3>2, <3>3, <3>4, <3>5
    <3>7. ASSUME NEW i \in 1 .. n + 1 PROVE AnswerOK(u, inbox[u][i])'
      BY <1>1, <3>6, <3>7 DEF AnswerOK
    <3>8. ASSUME NEW i \in 1 .. n + 1, NEW j \in 1 .. n + 1, i < j,
                 inbox'[u][i].ids # <<>>, inbox'[u][j].ids # <<>>
          PROVE  inbox'[u][i].ids[1] <= inbox'[u][j].ids[1]
      <4>1. CASE j \in 1 .. n
        <5>1. i \in 1 .. n
          BY <3>2, <3>8, <4>1
        <5> QED BY <3>2, <3>8, <4>1, <5>1 DEF IInv, MonitorOK, AnswersOK
      <4>2. CASE j = n + 1
        <5>1. i \in 1 .. n
          BY <3>2, <3>8, <4>2
        <5>2. inbox'[u][i].ids[1] <= alarms
          BY <3>2, <3>3, <3>8, <5>1 DEF AnswerOK
        <5> QED BY <1>3, <3>2, <3>8, <4>2, <5>2
      <4> QED BY <3>5, <4>1, <4>2
    <3> QED BY <3>2, <3>7, <3>8 DEF AnswersOK
  <2> QED BY <2>1, <2>2
<1>9. ASSUME NEW u \in Monitors PROVE Blank(u)'
  <2>1. conn[u] = "new" => u # m
    BY <1>1 DEF IInv, MonitorOK, Blank
  <2>2. conn[u] # "up" => inbox'[u] = inbox[u]
    BY <1>1 DEF HasRoom, Up
  <2> QED BY <1>1, <2>1, <2>2 DEF IInv, Types, MonitorOK, Blank
<1>10. ASSUME NEW u \in Monitors PROVE MonitorOK(u)'
  BY <1>1, <1>7, <1>8, <1>9 DEF IInv, MonitorOK, NoGap, Latest
<1> QED BY <1>6, <1>10 DEF IInv

\* The head of the buffer is the least of its answers, so that the rest is still above
\* what the monitor knows now.
LEMMA ReadAnswerKeeps == \A m \in Monitors : IInv /\ ReadAnswer(m) => IInv'
PROOF
<1> SUFFICES ASSUME NEW m \in Monitors, IInv, ReadAnswer(m) PROVE IInv'
  OBVIOUS
<1> DEFINE a == Head(inbox[m])
           ids == a.ids
<1>1. /\ conn[m] = "up" /\ inbox[m] # <<>> /\ inbox' = [inbox EXCEPT ![m] = Tail(@)]
      /\ UNCHANGED <<alarms, conn, asked>>
  BY DEF ReadAnswer
<1>2. /\ inbox[m] \in Seq(Answers) /\ Len(inbox[m]) >= 1 /\ a = inbox[m][1]
      /\ inbox'[m] \in Seq(Answers) /\ Len(inbox'[m]) = Len(inbox[m]) - 1
      /\ \A i \in 1 .. Len(inbox'[m]) : inbox'[m][i] = inbox[m][i + 1]
      /\ \A i \in 1 .. Len(inbox'[m]) : i + 1 \in 1 .. Len(inbox[m])
  <2> DEFINE q == inbox[m]
  <2>1. q \in Seq(Answers) /\ q # <<>> /\ inbox'[m] = Tail(q) /\ a = Head(q)
    BY <1>1 DEF IInv, Types
  <2> HIDE DEF q, a
  <2>2. /\ Len(q) \in Nat /\ Len(q) >= 1 /\ a = q[1]
        /\ Tail(q) \in Seq(Answers) /\ Len(Tail(q)) = Len(q) - 1
        /\ \A i \in 1 .. Len(Tail(q)) : Tail(q)[i] = q[i + 1]
    BY <2>1
  <2>3. \A i \in 1 .. Len(Tail(q)) : i + 1 \in 1 .. Len(q)
    BY <2>2
  <2> QED BY <2>1, <2>2, <2>3 DEF q
<1>3. /\ a \in Answers /\ ids \in Seq(Nat) /\ IsInterval(ids) /\ AnswerOK(m, a)
      /\ last[m] \in Nat /\ alarms \in Nat /\ last[m] <= alarms
  <2>1. a \in Answers
    BY <1>2
  <2>2. AnswerOK(m, a)
    BY <1>2 DEF IInv, MonitorOK, AnswersOK
  <2> QED BY <2>1, <2>2 DEF Answers, IInv, Types, MonitorOK
<1>4. \A i \in 1 .. Len(inbox'[m]) : AnswerOK(m, inbox'[m][i])
  BY <1>2 DEF IInv, MonitorOK, AnswersOK
<1>5. \A i, j \in 1 .. Len(inbox'[m]) :
        i < j /\ inbox'[m][i].ids # <<>> /\ inbox'[m][j].ids # <<>>
          => inbox'[m][i].ids[1] <= inbox'[m][j].ids[1]
  <2>1. ASSUME NEW i \in 1 .. Len(inbox'[m]), NEW j \in 1 .. Len(inbox'[m]), i < j,
               inbox'[m][i].ids # <<>>, inbox'[m][j].ids # <<>>
        PROVE  inbox'[m][i].ids[1] <= inbox'[m][j].ids[1]
    <3>1. i + 1 \in 1 .. Len(inbox[m]) /\ j + 1 \in 1 .. Len(inbox[m]) /\ i + 1 < j + 1
      BY <1>2, <2>1
    <3> QED BY <1>2, <2>1, <3>1 DEF IInv, MonitorOK, AnswersOK
  <2> QED BY <2>1
<1>6. CASE ids = <<>>
  <2>1. UNCHANGED <<last, table, shown, mayMiss, mayRepeat>>
    BY <1>6 DEF ReadAnswer, window, history
  <2>2. Types'
    BY <1>1, <1>2, <2>1 DEF IInv, Types
  <2>3. AnswersOK(m)'
    BY <1>1, <1>4, <1>5, <2>1 DEF AnswersOK, AnswerOK
  <2>4. MonitorOK(m)'
    BY <1>1, <2>1, <2>3 DEF IInv, MonitorOK, Blank, QuestionsOK, NoGap, Latest
  <2>5. ASSUME NEW u \in Monitors \ {m} PROVE MonitorOK(u)'
    <3>1. inbox'[u] = inbox[u] /\ alarms' \in Nat /\ alarms <= alarms'
      BY <1>1, <1>3 DEF IInv, Types
    <3> QED BY <1>1, <2>1, <3>1, Untouched DEF IInv
  <2> QED BY <2>2, <2>4, <2>5 DEF IInv
<1>7. CASE ids # <<>>
  <2>1. /\ last' = [last EXCEPT ![m] = NewLast(@, ids)]
        /\ table' = [table EXCEPT ![m] = AppendAlarms(@, ids)]
        /\ shown' = [shown EXCEPT ![m] = @ \cup ToSet(ids)]
        /\ mayMiss' = IF a.to # m \/ a.cut THEN mayMiss \cup {m} ELSE mayMiss
        /\ mayRepeat' \in {mayRepeat, mayRepeat \cup {m}}
    BY <1>7 DEF ReadAnswer
  <2>2. last[m] <= ids[1] /\ ids[1] <= alarms /\ ids[1] \in Nat
    BY <1>3, <1>7 DEF AnswerOK
  <2> HIDE DEF a, ids
  <2>3. last'[m] = ids[1]
    BY <1>3, <2>1, <2>2 DEF NewLast, IInv, Types
  <2>4. /\ table'[m] = AppendAlarms(table[m], ids) /\ table'[m] \in Seq(Nat)
        /\ \E i \in 1 .. Len(table'[m]) : table'[m][i] = ids[1]
    <3>1. table[m] \in Seq(Nat) /\ table'[m] = AppendAlarms(table[m], ids)
      BY <2>1 DEF IInv, Types
    <3> DEFINE rows == table[m]
    <3>2. rows \in Seq(Nat)
      BY <3>1
    <3> HIDE DEF rows
    <3>3. /\ AppendAlarms(rows, ids) \in Seq(Nat)
          /\ \E i \in 1 .. Len(AppendAlarms(rows, ids)) : AppendAlarms(rows, ids)[i] = ids[1]
      BY <1>3, <1>7, <3>2, LatestIsAppended, Zenon
    <3> QED BY <3>1, <3>3 DEF rows
  <2>5. shown'[m] = shown[m] \cup ToSet(ids) /\ shown'[m] \in SUBSET Nat
    BY <1>3, <2>1 DEF IInv, Types, ToSet
  <2>6. Types'
    <3>1. last' \in [Monitors -> Nat]
      BY <2>1, <2>2, <2>3 DEF IInv, Types
    <3>2. table' \in [Monitors -> Seq(Nat)]
      BY <2>1, <2>4 DEF IInv, Types
    <3>3. shown' \in [Monitors -> SUBSET Nat]
      BY <2>1, <2>5 DEF IInv, Types
    <3>4. inbox' \in [Monitors -> Seq(Answers)]
      BY <1>1, <1>2 DEF IInv, Types
    <3>5. mayMiss' \in SUBSET Monitors /\ mayRepeat' \in SUBSET Monitors
      BY <2>1 DEF IInv, Types
    <3> QED BY <1>1, <3>1, <3>2, <3>3, <3>4, <3>5 DEF IInv, Types
  <2>7. AnswersOK(m)'
    <3>1. ASSUME NEW i \in 1 .. Len(inbox'[m]) PROVE AnswerOK(m, inbox[m][i])'
      <4>1. inbox'[m][i] \in Answers /\ AnswerOK(m, inbox'[m][i])
        BY <1>2, <1>4
      <4>2. inbox'[m][i].ids # <<>> => ids[1] <= inbox'[m][i].ids[1]
        <5>1. i + 1 \in 1 .. Len(inbox[m]) /\ 1 \in 1 .. Len(inbox[m]) /\ 1 < i + 1
          BY <1>2
        <5> QED BY <1>2, <1>7, <5>1 DEF IInv, MonitorOK, AnswersOK, ids
      <4>3. inbox'[m][i].ids \in Seq(Nat)
        BY <4>1 DEF Answers
      <4> DEFINE b == inbox'[m][i]
      <4>4. b.ids # <<>> => b.ids[1] \in Nat /\ b.ids[Len(b.ids)] \in Nat
        BY <4>3
      <4>5. /\ b.ids # <<>> => ids[1] <= b.ids[1] /\ b.ids[1] <= alarms
            /\ b.ids # <<>> /\ b.to = m /\ ~b.cut => b.ids[Len(b.ids)] <= last[m] + 1
        BY <4>1, <4>2 DEF AnswerOK
      <4> HIDE DEF b
      <4>6. b.ids # <<>> => last'[m] <= b.ids[1] /\ b.ids[1] <= alarms'
        BY <1>1, <2>3, <4>5
      <4>7. b.ids # <<>> /\ b.to = m /\ ~b.cut => b.ids[Len(b.ids)] <= last'[m] + 1
        <5>1. ASSUME b.ids[Len(b.ids)] \in Nat, b.ids[Len(b.ids)] <= last[m] + 1
              PROVE  b.ids[Len(b.ids)] <= last'[m] + 1
          BY <1>3, <2>2, <2>3, <5>1
        <5> QED BY <4>4, <4>5, <5>1, Zenon
      <4> QED BY <4>6, <4>7, Zenon DEF AnswerOK, b
    <3> QED BY <1>5, <3>1 DEF AnswersOK
  <2>8. QuestionsOK(m)'
    <3>1. \A i \in 1 .. Len(asked[m]) : asked[m][i] \in Nat
      BY DEF IInv, Types
    <3>2. \A i \in 1 .. Len(asked[m]) : asked[m][i] <= last[m]
      BY <1>1 DEF IInv, MonitorOK, QuestionsOK
    <3>3. \A i \in 1 .. Len(asked[m]) : asked[m][i] <= last'[m]
      BY <1>3, <2>2, <2>3, <3>1, <3>2
    <3> QED BY <1>1, <3>3 DEF QuestionsOK
  <2>9. NoGap(m)'
    <3> SUFFICES ASSUME m \notin mayMiss' PROVE shown'[m] = 1 .. last'[m]
      BY DEF NoGap
    <3>1. m \notin mayMiss /\ a.to = m /\ ~a.cut
      BY <2>1
    <3>2. shown[m] = 1 .. last[m]
      BY <3>1 DEF IInv, MonitorOK, NoGap
    <3>3. ids[Len(ids)] <= last[m] + 1
      BY <1>3, <1>7, <3>1 DEF AnswerOK, ids
    <3> QED BY <1>3, <1>7, <2>2, <2>3, <2>5, <3>2, <3>3, ShownGrows
  <2>10. MonitorOK(m)'
    <3>1. Blank(m)'
      BY <1>1 DEF Blank
    <3>2. Latest(m)'
      BY <2>3, <2>4 DEF Latest
    <3> QED BY <1>1, <2>2, <2>3, <2>7, <2>8, <2>9, <3>1, <3>2 DEF MonitorOK
  <2>11. ASSUME NEW u \in Monitors \ {m} PROVE MonitorOK(u)'
    <3>1. /\ inbox'[u] = inbox[u] /\ last'[u] = last[u] /\ table'[u] = table[u]
          /\ shown'[u] = shown[u]
      BY <1>1, <2>1 DEF IInv, Types
    <3>2. u \in mayMiss' <=> u \in mayMiss
      BY <2>1
    <3>3. alarms' \in Nat /\ alarms <= alarms'
      BY <1>1, <1>3
    <3> QED BY <1>1, <3>1, <3>2, <3>3, Untouched DEF IInv
  <2> QED BY <2>6, <2>10, <2>11 DEF IInv
<1> QED BY <1>6, <1>7

LEMMA NextIInv == IInv /\ [Next]_vars => IInv'
PROOF
<1> SUFFICES ASSUME IInv, [Next]_vars PROVE IInv'
  OBVIOUS
<1>1. CASE CoreStarts
  BY <1>1, ZenonT(30) DEF CoreStarts, IInv, Types, MonitorOK, Blank, QuestionsOK, AnswersOK, AnswerOK,
       NoGap, Latest, window, history
<1>2. CASE UNCHANGED vars
  BY <1>2, ZenonT(30) DEF vars, IInv, Types, MonitorOK, Blank, QuestionsOK, AnswersOK, AnswerOK,
       NoGap, Latest, window, history
<1> QED
  BY <1>1, <1>2, CommitKeeps, CoreDiesKeeps, StartKeeps, ExitKeeps, SendAlarmQueryKeeps,
     AnswerKeeps, ReadAnswerKeeps DEF Next

-----------------------------------------------------------------------------
(* A monitor that has asked when no question of its own was open and read no answer to
   another one's: it has one question or one answer at a time, and the answer is above
   what it knows. *)

Own(m, i) == inbox[m][i].to = m

OneOpen(m) ==
  conn[m] = "up" =>
    /\ asked[m] # <<>> => /\ Len(asked[m]) = 1 /\ asked[m][1] = last[m]
                          /\ \A i \in 1 .. Len(inbox[m]) : ~Own(m, i)
    /\ \A i, j \in 1 .. Len(inbox[m]) : Own(m, i) /\ Own(m, j) => i = j
    /\ \A i \in 1 .. Len(inbox[m]) :
         Own(m, i) /\ inbox[m][i].ids # <<>>
           => last[m] < inbox[m][i].ids[Len(inbox[m][i].ids)]

TableOnce(m) ==
  /\ \A i \in 1 .. Len(table[m]) : table[m][i] <= last[m]
  /\ \A i, j \in 1 .. Len(table[m]) : table[m][i] = table[m][j] => i = j

Once == \A m \in Monitors \ mayRepeat : OneOpen(m) /\ TableOnce(m)

\* A monitor of which nothing changes.
LEMMA OnceUntouched ==
  ASSUME NEW m \in Monitors, OneOpen(m), TableOnce(m),
         conn'[m] = conn[m], asked'[m] = asked[m], inbox'[m] = inbox[m],
         last'[m] = last[m], table'[m] = table[m]
  PROVE  OneOpen(m)' /\ TableOnce(m)'
PROOF
<1> QED BY DEF OneOpen, TableOnce, Own

LEMMA InitOnce == Init => Once
PROOF
<1> QED BY DEF Init, Once, OneOpen, TableOnce, Own

LEMMA OverOnce ==
  ASSUME NEW gone \in SUBSET Monitors, IInv, Once, Over(gone),
         \A m \in Monitors \ gone : conn[m] = "up" => asked'[m] = asked[m]
  PROVE  Once'
PROOF
<1> SUFFICES ASSUME NEW m \in Monitors, m \notin mayRepeat' PROVE OneOpen(m)' /\ TableOnce(m)'
  BY DEF Once
<1>1. CASE m \in gone
  <2>1. conn'[m] = "over" /\ table'[m] = <<>>
    BY <1>1 DEF Over, IInv, Types
  <2> QED BY <2>1 DEF OneOpen, TableOnce
<1>2. CASE m \notin gone
  <2>1. /\ conn'[m] = conn[m] /\ inbox'[m] = inbox[m] /\ last'[m] = last[m]
        /\ table'[m] = table[m] /\ m \notin mayRepeat
    BY <1>2 DEF Over
  <2>2. OneOpen(m) /\ TableOnce(m)
    BY <2>1 DEF Once
  <2> QED BY <1>2, <2>1, <2>2 DEF OneOpen, TableOnce, Own
<1> QED BY <1>1, <1>2

LEMMA StartOnce == \A m \in Monitors : IInv /\ Once /\ Start(m) => Once'
PROOF
<1> SUFFICES ASSUME NEW m \in Monitors, IInv, Once, Start(m),
                    NEW u \in Monitors, u \notin mayRepeat'
             PROVE  OneOpen(u)' /\ TableOnce(u)'
  BY DEF Once
<1>1. /\ conn[m] = "new" /\ conn' = [conn EXCEPT ![m] = IF core THEN "up" ELSE "over"]
      /\ UNCHANGED <<asked, inbox, last, table, mayRepeat>>
  BY DEF Start, window, history
<1>2. OneOpen(u) /\ TableOnce(u)
  BY <1>1 DEF Once
<1>3. CASE u = m
  <2>1. asked[m] = <<>> /\ inbox[m] = <<>>
    BY <1>1 DEF IInv, MonitorOK, Blank
  <2> QED BY <1>1, <1>2, <1>3, <2>1 DEF OneOpen, TableOnce, Own
<1>4. CASE u # m
  <2>1. conn'[u] = conn[u]
    BY <1>1, <1>4 DEF IInv, Types
  <2> QED BY <1>1, <1>2, <2>1, OnceUntouched
<1> QED BY <1>3, <1>4

LEMMA SendAlarmQueryOnce == \A m \in Monitors : IInv /\ Once /\ SendAlarmQuery(m) => Once'
PROOF
<1> SUFFICES ASSUME NEW m \in Monitors, IInv, Once, SendAlarmQuery(m),
                    NEW u \in Monitors, u \notin mayRepeat'
             PROVE  OneOpen(u)' /\ TableOnce(u)'
  BY DEF Once
<1>1. /\ asked' = [asked EXCEPT ![m] = Append(@, last[m])]
      /\ mayRepeat' = IF OpenQuestion(m) THEN mayRepeat \cup {m} ELSE mayRepeat
      /\ UNCHANGED <<conn, inbox, last, table>>
  BY DEF SendAlarmQuery, window
<1>2. OneOpen(u) /\ TableOnce(u)
  BY <1>1 DEF Once
<1>3. CASE u = m
  <2>1. asked[m] = <<>> /\ \A i \in DOMAIN inbox[m] : ~Own(m, i)
    BY <1>1, <1>3 DEF OpenQuestion, Own
  <2>2. inbox[m] \in Seq(Answers) /\ last[m] \in Nat /\ asked'[m] = Append(asked[m], last[m])
    BY <1>1 DEF IInv, Types
  <2>3. \A i \in 1 .. Len(inbox[m]) : ~Own(m, i)
    BY <2>1, <2>2
  <2>4. Len(asked'[m]) = 1 /\ asked'[m][1] = last[m]
    BY <2>1, <2>2
  <2> QED BY <1>1, <1>2, <1>3, <2>3, <2>4 DEF OneOpen, TableOnce, Own
<1>4. CASE u # m
  <2>1. asked'[u] = asked[u]
    BY <1>1, <1>4 DEF IInv, Types
  <2> QED BY <1>1, <1>2, <2>1, OnceUntouched
<1> QED BY <1>3, <1>4

LEMMA AnswerOnce == \A m \in Monitors : IInv /\ Once /\ Answer(m) => Once'
PROOF
<1> SUFFICES ASSUME NEW m \in Monitors, IInv, Once, Answer(m),
                    NEW u \in Monitors, u \notin mayRepeat'
             PROVE  OneOpen(u)' /\ TableOnce(u)'
  BY DEF Once
<1> DEFINE after == Head(asked[m])
           a == [to |-> m, ids |-> Rows(after).ids, cut |-> Rows(after).cut]
<1>1. /\ asked[m] \in Seq(Nat) /\ asked[m] # <<>> /\ asked' = [asked EXCEPT ![m] = Tail(@)]
      /\ inbox' = [x \in Monitors |-> IF HasRoom(x) THEN Append(inbox[x], a) ELSE inbox[x]]
      /\ UNCHANGED <<conn, last, table, mayRepeat>>
  BY DEF Answer, window, history, IInv, Types
<1>2. after \in Nat /\ after = asked[m][1] /\ Len(asked[m]) >= 1
  BY <1>1
<1>3. /\ IsInterval(a.ids) /\ a.cut \in BOOLEAN
      /\ a.ids # <<>> => a.ids[Len(a.ids)] > after
  BY <1>2, RowsAreInterval, Zenon DEF IInv
<1>4. a \in Answers /\ a.to = m
  BY <1>3 DEF Answers, IsInterval
<1> HIDE DEF a, after
<1>5. OneOpen(u) /\ TableOnce(u)
  BY <1>1 DEF Once
<1>6. TableOnce(u)'
  BY <1>1, <1>5 DEF TableOnce
<1>7. CASE conn[u] # "up"
  BY <1>1, <1>6, <1>7 DEF OneOpen
<1>8. CASE conn[u] = "up"
  <2> DEFINE n == Len(inbox[u])
  <2>1. inbox[u] \in Seq(Answers) /\ n \in Nat /\ last[u] \in Nat
    BY DEF IInv, Types
  <2>2. u = m => /\ asked'[m] = <<>> /\ after = last[u]
                 /\ \A i \in 1 .. n : ~Own(u, i)
    <3>1. u = m => /\ Len(asked[m]) = 1 /\ asked[m][1] = last[u]
                   /\ \A i \in 1 .. n : ~Own(u, i)
      BY <1>1, <1>5, <1>8 DEF OneOpen
    <3>2. ASSUME NEW q \in Seq(Nat), Len(q) = 1 PROVE Tail(q) = <<>>
      <4>1. Tail(q) \in Seq(Nat) /\ Len(Tail(q)) = 0
        BY <3>2
      <4> QED BY <4>1, EmptySeq
    <3>3. asked'[m] = Tail(asked[m])
      BY <1>1 DEF IInv, Types
    <3> QED BY <1>1, <1>2, <3>1, <3>2, <3>3
  <2>3. u # m => asked'[u] = asked[u]
    BY <1>1 DEF IInv, Types
  <2>4. CASE ~HasRoom(u)
    BY <1>1, <1>5, <2>2, <2>3, <2>4, <1>6 DEF OneOpen, Own
  <2>5. CASE HasRoom(u)
    <3>1. inbox'[u] = Append(inbox[u], a)
      BY <1>1, <2>5
    <3>2. /\ Len(inbox'[u]) = n + 1 /\ inbox'[u][n + 1] = a
          /\ \A i \in 1 .. n : inbox'[u][i] = inbox[u][i]
          /\ \A i \in 1 .. n + 1 : i \in 1 .. n \/ i = n + 1
      BY <1>4, <2>1, <3>1
    <3> HIDE DEF n
    <3>3. \A i \in 1 .. n : Own(u, i)' <=> Own(u, i)
      BY <3>2 DEF Own
    <3>4. inbox'[u][n + 1].to = m
      BY <1>4, <3>2
    <3>5. asked'[u] # <<>> => /\ u # m /\ Len(asked'[u]) = 1 /\ asked'[u][1] = last[u]
                              /\ \A i \in 1 .. n : ~Own(u, i)
      BY <1>5, <1>8, <2>2, <2>3 DEF OneOpen, n
    <3>6. asked'[u] # <<>> => \A i \in 1 .. n + 1 : ~Own(u, i)'
      BY <3>2, <3>3, <3>4, <3>5 DEF Own
    <3>7. \A i, j \in 1 .. n + 1 : Own(u, i)' /\ Own(u, j)' => i = j
      <4>1. CASE u = m
        BY <2>2, <3>2, <3>3, <4>1 DEF n
      <4>2. CASE u # m
        <5>1. \A i \in 1 .. n + 1 : Own(u, i)' => i \in 1 .. n
          BY <3>2, <3>4, <4>2 DEF Own
        <5> QED BY <1>5, <1>8, <3>3, <5>1 DEF OneOpen, n
      <4> QED BY <4>1, <4>2
    <3>8. ASSUME NEW i \in 1 .. n + 1, Own(u, i)', inbox'[u][i].ids # <<>>
          PROVE  last[u] < inbox'[u][i].ids[Len(inbox'[u][i].ids)]
      <4>1. CASE i \in 1 .. n
        BY <1>5, <1>8, <3>2, <3>3, <3>8, <4>1 DEF OneOpen, n
      <4>2. CASE i = n + 1
        <5>1. u = m
          BY <3>4, <3>8, <4>2 DEF Own
        <5>2. after = last[u] /\ a.ids # <<>> /\ inbox'[u][i] = a
          BY <2>2, <3>2, <3>8, <4>2, <5>1
        <5>3. a.ids[Len(a.ids)] \in Nat
          BY <1>4, <5>2 DEF Answers
        <5> QED BY <1>2, <1>3, <5>2, <5>3
      <4> QED BY <3>2, <4>1, <4>2
    <3>9. OneOpen(u)'
      BY <1>1, <3>2, <3>5, <3>6, <3>7, <3>8 DEF OneOpen
    <3> QED BY <1>6, <3>9
  <2> QED BY <2>4, <2>5
<1> QED BY <1>7, <1>8

LEMMA ReadAnswerOnce == \A m \in Monitors : IInv /\ Once /\ ReadAnswer(m) => Once'
PROOF
<1> SUFFICES ASSUME NEW m \in Monitors, IInv, Once, ReadAnswer(m),
                    NEW u \in Monitors, u \notin mayRepeat'
             PROVE  OneOpen(u)' /\ TableOnce(u)'
  BY DEF Once
<1> DEFINE a == Head(inbox[m])
           ids == a.ids
<1>1. /\ conn[m] = "up" /\ inbox[m] # <<>> /\ inbox' = [inbox EXCEPT ![m] = Tail(@)]
      /\ UNCHANGED <<conn, asked>>
      /\ ids = <<>> => UNCHANGED <<last, table, mayRepeat>>
      /\ ids # <<>> => /\ last' = [last EXCEPT ![m] = NewLast(@, ids)]
                       /\ table' = [table EXCEPT ![m] = AppendAlarms(@, ids)]
                       /\ mayRepeat' = IF a.to # m THEN mayRepeat \cup {m} ELSE mayRepeat
  BY DEF ReadAnswer, window, history
<1>2. u \notin mayRepeat /\ (u = m /\ ids # <<>> => a.to = m)
  BY <1>1
<1>3. OneOpen(u) /\ TableOnce(u)
  BY <1>2 DEF Once
<1>4. CASE u # m
  <2>1. inbox'[u] = inbox[u] /\ last'[u] = last[u] /\ table'[u] = table[u]
    BY <1>1, <1>4 DEF IInv, Types
  <2> QED BY <1>1, <1>3, <2>1, OnceUntouched
<1>5. CASE u = m
  <2> DEFINE q == inbox[m]
  <2>1. q \in Seq(Answers) /\ q # <<>> /\ inbox'[m] = Tail(q) /\ a = Head(q)
    BY <1>1 DEF IInv, Types
  <2> HIDE DEF q, a
  <2>2. /\ Len(q) \in Nat /\ Len(q) >= 1 /\ a = q[1] /\ 1 \in 1 .. Len(q)
        /\ a \in Answers
        /\ Len(Tail(q)) = Len(q) - 1
        /\ \A i \in 1 .. Len(Tail(q)) : Tail(q)[i] = q[i + 1]
    BY <2>1
  <2>3. \A i \in 1 .. Len(Tail(q)) : i + 1 \in 1 .. Len(q) /\ i + 1 # 1
    BY <2>2
  <2>4. \A i \in 1 .. Len(inbox'[m]) : /\ inbox'[m][i] = q[i + 1] /\ i \in Nat
                                       /\ i + 1 \in 1 .. Len(q) /\ i + 1 # 1
    BY <2>1, <2>2, <2>3
  <2>5. CASE ids = <<>>
    <3>1. UNCHANGED <<last, table>>
      BY <1>1, <2>5
    <3>2. \A i \in 1 .. Len(inbox'[m]) :
            /\ inbox'[m][i] = inbox[m][i + 1] /\ i \in Nat
            /\ i + 1 \in 1 .. Len(inbox[m])
      BY <2>4 DEF q
    <3>3. \A i \in 1 .. Len(inbox'[m]) : Own(m, i)' <=> Own(m, i + 1)
      BY <3>2 DEF Own
    <3>4. \A i, j \in 1 .. Len(inbox'[m]) : Own(m, i)' /\ Own(m, j)' => i = j
      <4> SUFFICES ASSUME NEW i \in 1 .. Len(inbox'[m]), NEW j \in 1 .. Len(inbox'[m]),
                          Own(m, i)', Own(m, j)'
                   PROVE  i = j
        OBVIOUS
      <4>1. i + 1 = j + 1
        BY <1>1, <1>3, <1>5, <3>2, <3>3 DEF OneOpen
      <4> QED BY <3>2, <4>1
    <3>5. \A i \in 1 .. Len(inbox'[m]) :
            Own(m, i)' /\ inbox'[m][i].ids # <<>>
              => last[m] < inbox'[m][i].ids[Len(inbox'[m][i].ids)]
      BY <1>1, <1>3, <1>5, <3>2, <3>3 DEF OneOpen
    <3>6. asked[m] # <<>> => /\ Len(asked[m]) = 1 /\ asked[m][1] = last[m]
                             /\ \A i \in 1 .. Len(inbox'[m]) : ~Own(m, i)'
      BY <1>1, <1>3, <1>5, <3>2, <3>3 DEF OneOpen
    <3> QED BY <1>1, <1>3, <1>5, <3>1, <3>4, <3>5, <3>6 DEF OneOpen, TableOnce
  <2>6. CASE ids # <<>>
    <3>1. /\ Own(m, 1) /\ asked[m] = <<>>
          /\ last[m] < inbox[m][1].ids[Len(inbox[m][1].ids)]
      <4>1. Own(m, 1) /\ 1 \in 1 .. Len(inbox[m]) /\ inbox[m][1].ids # <<>>
        BY <1>2, <1>5, <2>2, <2>6 DEF Own, q
      <4> QED BY <1>1, <1>3, <1>5, <4>1 DEF OneOpen
    <3>2. last[m] < ids[Len(ids)]
      BY <2>2, <3>1 DEF q
    <3>3. \A i \in 1 .. Len(inbox'[m]) : ~Own(m, i)'
      <4> SUFFICES ASSUME NEW i \in 1 .. Len(inbox'[m]), Own(m, i)' PROVE FALSE
        OBVIOUS
      <4>1. Own(m, i + 1) /\ i + 1 \in 1 .. Len(inbox[m]) /\ i + 1 # 1
        BY <2>4 DEF Own, q
      <4>2. 1 \in 1 .. Len(inbox[m])
        BY <2>2 DEF q
      <4> QED BY <1>1, <1>3, <1>5, <3>1, <4>1, <4>2 DEF OneOpen
    <3>4. OneOpen(m)'
      BY <1>1, <3>1, <3>3 DEF OneOpen
    <3>5. ids \in Seq(Nat) /\ IsInterval(ids) /\ last[m] \in Nat
      BY <2>2 DEF Answers, IInv, Types
    <3>6. last'[m] = ids[1]
      <4>1. AnswerOK(m, inbox[m][1])
        BY <2>2 DEF IInv, MonitorOK, AnswersOK, q
      <4>2. last[m] <= ids[1]
        BY <2>2, <2>6, <4>1 DEF AnswerOK, q
      <4>3. ids[1] \in Nat
        BY <2>6, <3>5
      <4>4. last'[m] = NewLast(last[m], ids)
        BY <1>1, <2>6 DEF IInv, Types
      <4> HIDE DEF ids
      <4> QED BY <3>5, <4>2, <4>3, <4>4 DEF NewLast
    <3> DEFINE rows == table[m]
    <3>7. /\ table'[m] = AppendAlarms(rows, ids) /\ rows \in Seq(Nat)
          /\ \A i \in 1 .. Len(rows) : rows[i] <= last[m]
          /\ \A i, j \in 1 .. Len(rows) : rows[i] = rows[j] => i = j
      BY <1>1, <1>3, <1>5, <2>6 DEF IInv, Types, TableOnce
    <3> HIDE DEF rows, ids
    <3>8. /\ \A i \in 1 .. Len(AppendAlarms(rows, ids)) : AppendAlarms(rows, ids)[i] <= ids[1]
          /\ \A i, j \in 1 .. Len(AppendAlarms(rows, ids)) :
               AppendAlarms(rows, ids)[i] = AppendAlarms(rows, ids)[j] => i = j
      BY <2>6, <3>2, <3>5, <3>7, AppendedOnce, Zenon
    <3>9. TableOnce(m)'
      BY <3>6, <3>7, <3>8 DEF TableOnce
    <3> QED BY <1>5, <3>4, <3>9
  <2> QED BY <2>5, <2>6
<1> QED BY <1>4, <1>5

LEMMA NextOnce == IInv /\ Once /\ [Next]_vars => Once'
PROOF
<1> SUFFICES ASSUME IInv, Once, [Next]_vars PROVE Once'
  OBVIOUS
<1>1. Commit => UNCHANGED <<conn, asked, inbox, last, table, mayRepeat>>
  BY DEF Commit, window, history
<1>2. ASSUME UNCHANGED <<conn, asked, inbox, last, table, mayRepeat>> PROVE Once'
  BY <1>2, OnceUntouched DEF Once
<1>3. Commit \/ CoreStarts \/ UNCHANGED vars => Once'
  BY <1>1, <1>2 DEF CoreStarts, vars, window, history
<1>4. CASE CoreDies
  <2>1. Over(Up) /\ Up \in SUBSET Monitors /\ \A m \in Monitors \ Up : conn[m] # "up"
    BY <1>4 DEF CoreDies, Up
  <2> QED BY <2>1, OverOnce
<1>5. ASSUME NEW m \in Monitors, Exit(m) PROVE Once'
  BY <1>5, OverOnce DEF Exit
<1> QED
  BY <1>3, <1>4, <1>5, StartOnce, SendAlarmQueryOnce, AnswerOnce, ReadAnswerOnce
  DEF Next

-----------------------------------------------------------------------------
(* The theorems *)

THEOREM InvariantHolds == Spec => []IInv
PROOF
<1> QED BY InitIInv, NextIInv, PTL DEF Spec

\* Whatever answers are lost, come late or are asked for twice: a monitor that read only
\* answers to its own questions, none with more rows than fit, has shown every alarm up to
\* the last one it knows (handleAlarmResponse(), on_timer_db_query()).
THEOREM OwnAnswersLeaveNoGapCorrect == Spec => []OwnAnswersLeaveNoGap
PROOF
<1>1. IInv => OwnAnswersLeaveNoGap
  BY DEF IInv, MonitorOK, NoGap, OwnAnswersLeaveNoGap
<1> QED BY <1>1, InvariantHolds, PTL

\* However many rows late, repeated or foreign answers put on a table: the newest alarm the
\* monitor knows is on it (AlarmTableWidget::appendAlarms()).
THEOREM LatestIsShownCorrect == Spec => []LatestIsShown
PROOF
<1>1. IInv => LatestIsShown
  <2> SUFFICES ASSUME IInv, NEW m \in Monitors, last[m] > 0 PROVE last[m] \in ToSet(table[m])
    BY DEF LatestIsShown
  <2>1. /\ table[m] \in Seq(Nat)
        /\ \E i \in 1 .. Len(table[m]) : table[m][i] = last[m]
    BY DEF IInv, MonitorOK, Latest, Types
  <2> QED BY <2>1 DEF ToSet
<1> QED BY <1>1, InvariantHolds, PTL

\* An alarm is on a table twice only if its monitor read an answer to another one's question
\* or asked again while a question of its own was open (on_timer_db_query() sends to all,
\* sendAlarmQuery() does not wait).
THEOREM DuplicatesHaveCauseCorrect == Spec => []DuplicatesHaveCause
PROOF
<1>1. IInv /\ Once => DuplicatesHaveCause
  <2> SUFFICES ASSUME IInv, Once, NEW m \in Monitors, m \notin mayRepeat
               PROVE  IsInjective(table[m])
    BY DEF DuplicatesHaveCause
  <2>1. /\ table[m] \in Seq(Nat)
        /\ \A i, j \in 1 .. Len(table[m]) : table[m][i] = table[m][j] => i = j
    BY DEF IInv, Types, Once, TableOnce
  <2> QED BY <2>1 DEF IsInjective
<1> QED BY <1>1, InitIInv, NextIInv, InitOnce, NextOnce, PTL DEF Spec
=============================================================================
